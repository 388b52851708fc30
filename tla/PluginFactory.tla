---------------------------- MODULE PluginFactory ----------------------------
(***************************************************************************)
(* The plugin factories (lib/rstream/core/detail/plugin).  Every factory   *)
(* registers the static plugins, then the libraries of its search paths;   *)
(* the libraries are kept in a cache all factories of the process share.   *)
(* Factories may be made by several threads at once: the cache's mutex is  *)
(* released while a library is loaded.                                     *)
(***************************************************************************)
EXTENDS Naturals, Sequences, FiniteSets, FiniteSetsExt

CONSTANTS
  Factories,
  StaticPlugins,   \* the registered providers, in their order
  SearchPaths,     \* the files a factory finds, in the directory's order
  Canonical,       \* file -> its canonical path
  Kinds,           \* path -> "plugin", "foreign" (no entry point) or "broken" (cannot be loaded)
  NameOf,          \* provider or path -> the name of its plugin, a number (names are ordered)
  Provides,        \* provider or path -> the names of its elements
  Elements, MaxElements

VARIABLES
  cache,       \* path -> the library kept for it
  factories,   \* [pc, todo, library, plugins, failed] of every factory
  loads,       \* how many libraries were loaded: a library is <<path, number>>
  elements     \* the elements in use: <<element, plugin>>, where a plugin is [origin, library]

pluginVars == <<cache, factories, loads, elements>>

NoLibrary == <<"none", 0>>

NewFactory == [pc |-> "new", todo |-> << >>, library |-> NoLibrary, plugins |-> << >>, failed |-> {}]

Init ==
  /\ cache = << >>
  /\ factories = [f \in Factories |-> NewFactory]
  /\ loads = 0
  /\ elements = {}

Put(map, key, value) == [k \in DOMAIN map \union {key} |-> IF k = key THEN value ELSE map[k]]

(* The first plugin of a name stays; one whose init throws is left out. *)
register_plugin(fac, origin, library, initialized) ==
  IF NameOf[origin] \in DOMAIN fac.plugins
  THEN fac
  ELSE IF ~initialized
       THEN [fac EXCEPT !.failed = @ \union {origin}]
       ELSE [fac EXCEPT !.plugins = Put(@, NameOf[origin], [origin |-> origin, library |-> library])]

(* impl::init, the static plugins, and the files its search paths hold *)
RegisterStatic(f) ==
  /\ factories[f].pc = "new"
  /\ \E ok \in [1..Len(StaticPlugins) -> BOOLEAN] :
       LET Registered[i \in 0..Len(StaticPlugins)] ==
             IF i = 0 THEN factories[f] ELSE register_plugin(Registered[i - 1], StaticPlugins[i], NoLibrary, ok[i])
       IN factories' = [factories EXCEPT ![f] = [Registered[Len(StaticPlugins)] EXCEPT !.pc = "next", !.todo = SearchPaths]]
  /\ UNCHANGED <<cache, loads, elements>>

Path(f) == Canonical[Head(factories[f].todo)]

Skip(fac) == [fac EXCEPT !.pc = "next", !.todo = Tail(@), !.library = NoLibrary]

(* load_library, the first lock: a library in the cache is used as it is *)
Lookup(f) ==
  /\ factories[f].pc = "next" /\ factories[f].todo # << >>
  /\ factories' = IF Path(f) \in DOMAIN cache
                  THEN [factories EXCEPT ![f].pc = "register", ![f].library = cache[Path(f)]]
                  ELSE [factories EXCEPT ![f].pc = "load"]
  /\ UNCHANGED <<cache, loads, elements>>

(* Loading, without the lock: a library that cannot be loaded throws, one  *)
(* without the entry point is dropped again.                               *)
Load(f) ==
  /\ factories[f].pc = "load"
  /\ IF Kinds[Path(f)] = "plugin"
     THEN /\ loads' = loads + 1
          /\ factories' = [factories EXCEPT ![f].pc = "keep", ![f].library = <<Path(f), loads + 1>>]
     ELSE factories' = [factories EXCEPT ![f] = Skip(@)] /\ UNCHANGED loads
  /\ UNCHANGED <<cache, elements>>

(* The second lock: what another thread has put there meanwhile wins. *)
Keep(f) ==
  /\ factories[f].pc = "keep"
  /\ cache' = IF Path(f) \in DOMAIN cache THEN cache ELSE Put(cache, Path(f), factories[f].library)
  /\ factories' = [factories EXCEPT ![f].pc = "register", ![f].library = cache'[Path(f)]]
  /\ UNCHANGED <<loads, elements>>

(* The library makes its plugin, or throws, or makes none. *)
Register(f) ==
  /\ factories[f].pc = "register"
  /\ \E outcome \in {"initialized", "init_throws", "no_plugin"} :
       factories' = [factories EXCEPT ![f] =
         IF outcome = "no_plugin"
         THEN Skip([@ EXCEPT !.failed = @ \union {Path(f)}])
         ELSE Skip(register_plugin(@, Path(f), @.library, outcome = "initialized"))]
  /\ UNCHANGED <<cache, loads, elements>>

Ready(f) == factories[f].pc = "next" /\ factories[f].todo = << >>

(* find_element: the plugins are looked at in the order of their names *)
find_element(plugins, e) ==
  LET having == {n \in DOMAIN plugins : e \in Provides[plugins[n].origin]}
  IN IF having = {} THEN {} ELSE {plugins[Min(having)]}

create(f, e) ==
  /\ Ready(f) /\ Cardinality(elements) < MaxElements
  /\ \E plugin \in find_element(factories[f].plugins, e) : elements' = elements \union {<<e, plugin>>}
  /\ UNCHANGED <<cache, factories, loads>>

Release(el) == elements' = elements \ {el} /\ UNCHANGED <<cache, factories, loads>>

(* deinit: the elements it made stay, and keep their plugin *)
Destroy(f) ==
  /\ Ready(f)
  /\ factories' = [factories EXCEPT ![f] = [NewFactory EXCEPT !.pc = "gone"]]
  /\ UNCHANGED <<cache, loads, elements>>

Next ==
  \/ \E f \in Factories : \/ RegisterStatic(f) \/ Lookup(f) \/ Load(f) \/ Keep(f) \/ Register(f) \/ Destroy(f)
                          \/ \E e \in Elements : create(f, e)
  \/ \E el \in elements : Release(el)

Spec == Init /\ [][Next]_pluginVars

Plugins == {el[2] : el \in elements}
           \union UNION {{factories[f].plugins[n] : n \in DOMAIN factories[f].plugins} : f \in Factories}

Order == StaticPlugins \o [i \in DOMAIN SearchPaths |-> Canonical[SearchPaths[i]]]

(* However the threads that make factories interleave, all plugins of a    *)
(* library share the one object the cache keeps loaded.  The plugin a      *)
(* factory has under a name is the first, static before dynamic, that      *)
(* could be made: one that comes earlier with this name failed.            *)
PluginsSound ==
  /\ \A p \in Plugins : p.library # NoLibrary => p.origin \in DOMAIN cache /\ p.library = cache[p.origin]
  /\ \A f \in Factories : \A n \in DOMAIN factories[f].plugins :
       LET origin == factories[f].plugins[n].origin
           at == Min({i \in DOMAIN Order : Order[i] = origin})
       IN \A i \in 1..(at - 1) :
            NameOf[Order[i]] = n => \/ Order[i] \in factories[f].failed
                                    \/ i > Len(StaticPlugins) /\ Kinds[Order[i]] # "plugin"

=============================================================================
