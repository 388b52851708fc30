---------------------------- MODULE MCAlgorithms ----------------------------
(* The sequential algorithms, one at a time: part names the one that runs, and *)
(* s1 to s6 hold the state of its module.                                      *)
EXTENDS Naturals, Sequences, TLC

CONSTANTS
  Files, EditedFiles, ProcessEnvs, CallConfigs, MaxEdits,      \* RstreamConfig
  PayloadConfigs, Identities, MaxSessions, MaxPayloads,        \* WebttyPayload
  AuthSetups, Instants, MaxAuth,                               \* WebttyAuth
  Messages, LengthLimit,                                       \* StunMessage
  Params, MaxParams, Extras, Answers, Upstreams,               \* TunnelProperties
  TargetSets, Unit, BufferSize, MaxObservations, MaxTime,      \* Quantiles
  Memories, MaxBlocks, MaxBufferCalls,                         \* Buffer
  Factories, MaxElements                                       \* PluginFactory

VARIABLES part, s1, s2, s3, s4, s5, s6

algorithmVars == <<part, s1, s2, s3, s4, s5, s6>>

CF == INSTANCE RstreamConfig WITH WithPkcs11 <- TRUE,
        file <- s1, process <- s2, holder <- s3, sent <- s4
TC == INSTANCE TlsContext WITH ProviderBuild <- TRUE, EngineBuild <- TRUE,
        tlsStep <- s1, shared <- s2, context <- s3, engine <- s4, provider <- s5
WP == INSTANCE WebttyPayload WITH Plaintexts <- {"x", "y"}, e2e <- s1, payloads <- s2, opened <- s3
WA == INSTANCE WebttyAuth WITH sessions <- s1, instant <- s2
SM == INSTANCE StunMessage WITH stun <- s1
PR == INSTANCE TunnelProperties WITH url <- s1, props <- s2, wire <- s3, tunnel <- s4
QU == INSTANCE Quantiles WITH Values <- {1, 2, 3}, Boundaries <- <<1, 2>>, AgeBuckets <- 2, Interval <- 2,
        targets <- s1, summary <- s2, histogram <- s3, clock <- s4, observed <- s5, scrape <- s6
BU == INSTANCE Buffer WITH store <- s1, blocks <- s2, call <- s3

(* Two files are the same library; the second file has the name of the static *)
(* plugin, the last one is no plugin.                                         *)
PF == INSTANCE PluginFactory WITH
        StaticPlugins <- <<"builtin">>, SearchPaths <- <<"x", "y", "z", "w">>, Elements <- {"tcp", "tls"},
        Canonical <- [x |-> "lib", y |-> "other", z |-> "lib", w |-> "alien"],
        Kinds <- [lib |-> "plugin", other |-> "plugin", alien |-> "foreign"],
        NameOf <- [builtin |-> 1, lib |-> 2, other |-> 1, alien |-> 1],
        Provides <- [builtin |-> {"tcp"}, lib |-> {"tcp", "tls"}, other |-> {"tls"}, alien |-> {}],
        cache <- s1, factories <- s2, loads <- s3, elements <- s4

Unused1 == s6 = 0
Unused2 == s5 = 0 /\ Unused1
Unused3 == s4 = 0 /\ Unused2
Unused4 == s3 = 0 /\ Unused3
Unused5 == s2 = 0 /\ Unused4

Init ==
  \/ part = "config" /\ CF!Init /\ Unused2
  \/ part = "context" /\ TC!Init /\ Unused1
  \/ part = "payload" /\ WP!Init /\ Unused3
  \/ part = "auth" /\ WA!Init /\ Unused4
  \/ part = "stun" /\ SM!Init /\ Unused5
  \/ part = "properties" /\ PR!Init /\ Unused2
  \/ part = "metrics" /\ QU!Init
  \/ part = "buffer" /\ BU!Init /\ Unused3
  \/ part = "plugins" /\ PF!Init /\ Unused2

Next ==
  \/ part = "config" /\ CF!Next /\ UNCHANGED <<part, s5, s6>>
  \/ part = "context" /\ TC!Next /\ UNCHANGED <<part, s6>>
  \/ part = "payload" /\ WP!Next /\ UNCHANGED <<part, s4, s5, s6>>
  \/ part = "auth" /\ WA!Next /\ UNCHANGED <<part, s3, s4, s5, s6>>
  \/ part = "stun" /\ SM!Next /\ UNCHANGED <<part, s2, s3, s4, s5, s6>>
  \/ part = "properties" /\ PR!Next /\ UNCHANGED <<part, s5, s6>>
  \/ part = "metrics" /\ QU!Next /\ UNCHANGED part
  \/ part = "buffer" /\ BU!Next /\ UNCHANGED <<part, s4, s5, s6>>
  \/ part = "plugins" /\ PF!Next /\ UNCHANGED <<part, s5, s6>>

Spec == Init /\ [][Next]_algorithmVars

-----------------------------------------------------------------------------
(* The instances.  Their values are written with operators of the modules. *)
Configuration == INSTANCE RstreamConfig WITH
  Files <- {}, EditedFiles <- {}, ProcessEnvs <- {}, CallConfigs <- {}, MaxEdits <- 0, WithPkcs11 <- TRUE,
  file <- s1, process <- s2, holder <- s3, sent <- s4
Payload == INSTANCE WebttyPayload WITH
  PayloadConfigs <- {}, Identities <- {}, Plaintexts <- {}, MaxSessions <- 0, MaxPayloads <- 0,
  e2e <- s1, payloads <- s2, opened <- s3
Auth == INSTANCE WebttyAuth WITH
  AuthSetups <- {}, Instants <- {}, MaxAuth <- 0, sessions <- s1, instant <- s2
Stun == INSTANCE StunMessage WITH Messages <- {}, LengthLimit <- 0, stun <- s1

(* Configuration files: the default context with every kind of engine, token *)
(* and mTLS section; every transport section; and two contexts which share   *)
(* names, API URLs or neither.  The last engine carries a certificate of its *)
(* own.  Callers name a server by URL or as an argument, or another file.    *)
None == Configuration!None
Engine(h, scheme, ssl) == [present |-> TRUE, host |-> h, scheme |-> scheme, ssl |-> ssl, params |-> <<>>]
Ea == Engine("ea", FALSE, FALSE)
Eb == Engine("eb", TRUE, FALSE)
Ec == Engine("ec", TRUE, TRUE)
Ed == [Engine("ed", TRUE, TRUE) EXCEPT !.params = <<<<"ssl.cert_file", "d">>, <<"ssl.key_file", "d">>>>]
Token(v) == [present |-> TRUE, kind |-> "inline", value |-> v]
Pair ==
  [present |-> TRUE, certificate |-> "", certificateFile |-> "c", key |-> "", keyFile |-> "k", storage |-> None]
Store ==
  [present |-> TRUE, kind |-> "pkcs11", provider |-> "", module |-> "m", pinEnv |-> "p", slot |-> FALSE,
   maxSessions |-> 0, certificateSHA256 |-> "", tokenLabel |-> "t", tokenSerial |-> "", keyLabel |-> "",
   keyIdHex |-> "0a", certificate |-> "", certificateFile |-> "c", certificateLabel |-> "", certificateIdHex |-> ""]
Stores ==
  {Store, [Store EXCEPT !.keyIdHex = "nothex"], [Store EXCEPT !.certificateLabel = "l"],
   [Store EXCEPT !.kind = "exec"], [Store EXCEPT !.certificateFile = "", !.certificateIdHex = "0b"]}
MtlsSections ==
  {None, Pair, [Pair EXCEPT !.certificateFile = "", !.certificate = "c"], [Pair EXCEPT !.keyFile = ""]}
  \union {[Pair EXCEPT !.certificateFile = "", !.keyFile = "", !.storage = s] : s \in Stores}
TransportSections ==
  {[present |-> TRUE, modeSet |-> m # "unset", mode |-> IF m = "unset" THEN "" ELSE m, quic |-> q,
    tls |-> [present |-> TRUE, skipVerify |-> FALSE], proxy |-> p] :
     m \in {"unset", "", "tls", "quic"}, q \in {"unset", "yes", "no", "invalid"}, p \in BOOLEAN}
Context(n, u, e, t, m, tr) ==
  [name |-> n, apiUrl |-> u, engine |-> e, token |-> t, mtls |-> m, transport |-> tr]
Doc(d, e, c) == [kind |-> "yaml", default |-> d, environments |-> e, contexts |-> c]
Absent == [Doc("", <<>>, <<>>) EXCEPT !.kind = "absent"]
EnvU == Context("", "u", None, Token("tu"), Pair, None)
EnvD == Context("", "default", None, Token("td"), None, None)
SomeFiles ==
  {Absent, [Absent EXCEPT !.kind = "malformed"]}
  \union {Doc("a", <<EnvU, EnvD>>, <<Context("a", u, e, t, m, None)>>) :
            u \in {"", "u"}, e \in {None, Ea, Eb, Ec}, m \in MtlsSections,
            t \in {None, Token("ta"), [Token("ta") EXCEPT !.kind = "exec"]}}
  \union {Doc("a", <<EnvU, EnvD>>, <<Context("a", "u", Ed, t, m, None)>>) : t \in {None, Token("ta")}, m \in {None, Pair}}
  \union {Doc("a", <<EnvD>>, <<Context("a", "default", Ea, None, None, t)>>) : t \in TransportSections}
  \union {Doc(d, <<EnvU, EnvD>>, <<Context("a", "u", Ea, Token("ta"), None, None), Context(n, v, Ec, t, None, None)>>) :
            d \in {"", "a", "b"}, n \in {"a", "b"}, v \in {"", "u", "v"}, t \in {None, Token("tb")}}
SomeEdits ==
  {Absent, Doc("a", <<EnvU>>, <<Context("a", "u", Ec, None, None, None)>>),
   Doc("a", <<>>, <<Context("a", "", Ea, None, Pair, None)>>),
   Doc("a", <<EnvD>>, <<Context("a", "", Ea, None, None, None)>>)}
Plain ==
  [transport |-> "", legacy |-> "", address |-> None, engine |-> None, apiUrl |-> "", context |-> "",
   token |-> "", certFile |-> "", keyFile |-> ""]
SomeEnvs ==
  {Plain, [Plain EXCEPT !.transport = "quic"], [Plain EXCEPT !.legacy = "0"], [Plain EXCEPT !.address = Ec],
   [Plain EXCEPT !.address = Ed], [Plain EXCEPT !.address = Ed, !.certFile = "c", !.keyFile = "k"],
   [Plain EXCEPT !.engine = Ea], [Plain EXCEPT !.apiUrl = "u"], [Plain EXCEPT !.context = "b"],
   [Plain EXCEPT !.context = "a", !.apiUrl = "v"], [Plain EXCEPT !.token = "te"],
   [Plain EXCEPT !.certFile = "c", !.keyFile = "k"], [Plain EXCEPT !.certFile = "c"]}
Caller ==
  [noToken |-> FALSE, token |-> "", tokenFromUri |-> FALSE, byUrl |-> TRUE, server |-> None, file |-> None]
OtherFile ==
  [present |-> TRUE, doc |-> Doc("a", <<EnvU, EnvD>>, <<Context("a", "default", Engine("ee", TRUE, TRUE), Token("to"), None, None)>>)]
SomeConfigs ==
  {Caller, [Caller EXCEPT !.noToken = TRUE], [Caller EXCEPT !.noToken = TRUE, !.server = Ec],
   [Caller EXCEPT !.token = "tc"], [Caller EXCEPT !.token = "tc", !.server = Ec],
   [Caller EXCEPT !.token = "tc", !.tokenFromUri = TRUE, !.server = Ec], [Caller EXCEPT !.server = Ec],
   [Caller EXCEPT !.file = OtherFile], [Caller EXCEPT !.byUrl = FALSE, !.file = OtherFile],
   [Caller EXCEPT !.byUrl = FALSE, !.server = Ec], [Caller EXCEPT !.byUrl = FALSE, !.server = Ed]}

(* Payload encryption: two recipients, two with the same id, none, a suite *)
(* that is not supported, another context, and a key and an id which the   *)
(* configuration gives, the id alone, and a key that is too short.         *)
Recipient(k, id) == [public |-> Payload!PublicKey(<<k>>), keyId |-> id]
Encryption(rs) ==
  [suite |-> "aes_256_gcm", envelopeSuite |-> "hpke_aes_256_gcm", context |-> "ctx", recipients |-> rs,
   key |-> <<>>, keyId |-> <<>>]
Given == [Encryption(<<Recipient("a", <<>>)>>) EXCEPT !.key = <<"key">>, !.keyId = <<"kid">>]
SomeEncryption ==
  {Encryption(<<Recipient("a", <<>>), Recipient("b", <<>>)>>),
   Encryption(<<Recipient("c", <<"id">>), Recipient("a", <<"id">>)>>), Encryption(<<>>),
   [Encryption(<<Recipient("a", <<>>)>>) EXCEPT !.suite = "chacha"],
   [Encryption(<<Recipient("b", <<>>)>>) EXCEPT !.context = "other"],
   Given, [Given EXCEPT !.context = "other"], [Given EXCEPT !.key = <<>>], [Given EXCEPT !.key = <<"short">>]}
SomeIdentities ==
  {[private |-> <<k>>, keyId |-> <<>>] : k \in {"a", "b"}} \union {[private |-> <<"a">>, keyId |-> <<"id">>]}

(* Authentication: names with blanks around them and of different lengths, *)
(* and every source of the key of a client; the last second of a day.      *)
Names == {<<>>, <<97>>, <<32, 97>>}
Setup ==
  [transport |-> <<119>>, workspace |-> <<>>, project |-> <<>>, server |-> <<115>>, principal |-> <<>>,
   credential |-> <<>>, grant |-> <<>>, config |-> <<1>>, required |-> TRUE, expected |-> Auth!ServerKey,
   identity |-> TRUE, verifier |-> "absent", keys |-> Auth!ClientKey, resolver |-> "absent"]
SomeSetups ==
  {[Setup EXCEPT !.workspace = w, !.project = p] : w \in Names, p \in Names}
  \union
  {[Setup EXCEPT !.required = FALSE], [Setup EXCEPT !.identity = FALSE], [Setup EXCEPT !.expected = "none"],
   [Setup EXCEPT !.expected = "other"], [Setup EXCEPT !.verifier = Auth!ClientKey, !.keys = "old key"],
   [Setup EXCEPT !.grant = <<7>>, !.credential = <<8>>, !.verifier = "none", !.keys = "none", !.resolver = Auth!ClientKey],
   [Setup EXCEPT !.verifier = "throws"], [Setup EXCEPT !.keys = "none", !.resolver = "throws"],
   [Setup EXCEPT !.keys = "old key", !.resolver = Auth!ClientKey]}
SomeInstants ==
  {[day |-> d, start |-> 2 * 86390 + 1, skew |-> c[1], delay |-> c[2]] :
     d \in {Auth!Ordinal(2026, 12, 31), Auth!Ordinal(2024, 2, 29), Auth!Ordinal(2100, 2, 28)},
     c \in {<<10, 0>>, <<12, 0>>, <<0, 58>>, <<0, 61>>}}

(* STUN: every kind of attribute, texts of every padding, at the end of the  *)
(* message and before the digests, with another attribute between them.      *)
Attribute(k, v) == [kind |-> k, value |-> v]
Text(n) == Stun!Bytes(<<"text">>, n)
Address(family) == <<"address", family, "p", "h">>
Attributes ==
  {Attribute(k, Address(f)) : k \in Stun!AddressKinds \union {"xor_mapped_address"}, f \in {1, 2}}
  \union {Attribute(k, Text(n)) : k \in Stun!TextKinds, n \in 0..5}
  \union {Attribute(k, <<"number">>) : k \in DOMAIN Stun!RawSize \union {"response_port"}}
  \union {Attribute(k, <<>>) : k \in Stun!EmptyKinds}
  \union {Attribute("error_code", [class |-> <<<<"4">>, 1>>, number |-> <<<<"20">>, 1>>, reason |-> Text(n)]) : n \in {0, 3}}
  \union {Attribute("unknown_attributes", [i \in 1..n |-> <<"type", i>>]) : n \in 0..3}
Integrity == Attribute("message_integrity", "right")
Fingerprint == Attribute("fingerprint", <<>>)
SomeMessages ==
  {<<>>, <<Integrity>>, <<Integrity, Fingerprint>>}
  \union {<<a>> : a \in Attributes}
  \union {<<a, Fingerprint>> : a \in Attributes}
  \union {<<a, Integrity, Fingerprint>> : a \in Attributes}
  \union {<<a, b, Integrity, Fingerprint>> : a \in Attributes,
            b \in {Attribute("xor_mapped_address", Address(1)), Attribute("software", Text(3))}}

(* URLs: parameters that set, repeat, contradict and spoil one another. *)
Param(g, k, v) == [group |-> g, key |-> k, has_value |-> TRUE, value |-> v]
Flag(g, k) == [group |-> g, key |-> k, has_value |-> FALSE, value |-> <<>>]
SomeParams ==
  {Param("rstrm", "protocol", <<"http">>), Param("rstrm", "protocol", <<"tcp">>),
   Param("rstrm", "publish", <<"false">>), Flag("rstrm", "publish"), Param("rstrm", "type", <<"datagram">>),
   Param("rstrm", "labels", <<"k", "v">>), Param("rstrm", "labels", <<"k", "w">>), Flag("rstrm", "labels"),
   Param("rstrm", "token_auth", <<"false">>), Param("rstrm", "geoip", <<"fr", "de">>),
   Param("rstrm", "hostname", <<>>), Param("rstrm", "upstream_tls", <<"maybe">>),
   Param("rstrm", "upstream_tls", <<"true">>), Param("http_cors", "allowed_origins", <<"o">>),
   Param("http_cors", "allowed_origins", <<>>), Param("http_cors", "allow_credentials", <<"yes">>),
   Param("http_cors", "max_age", <<"86401">>), Param("http_cors", "max_age", <<"60">>),
   Flag("http_cors", "max_age"), Param("http_cors", "other", <<"1">>),
   Param("rstream", "no_token", <<"true">>), Param("rstream", "token", <<"t">>), Flag("rstream", "retry")}
SomeExtras ==
  {<<>>, [name |-> <<"n">>], [port |-> 443], [port |-> 0], [creation_date |-> [seconds |-> 3, fraction |-> 5]]}
SomeAnswers ==
  {<<>>, [id |-> <<"i">>], [id |-> <<"i">>, hostname |-> <<"h">>, port |-> 443], [id |-> <<"i">>, host |-> <<"h">>],
   [id |-> <<"i">>, type |-> <<"datagram">>]}
SomeUpstreams ==
  {[scheme |-> "", host |-> "h", port |-> p] : p \in {"", "80", "443"}}
  \union {[scheme |-> "tcp", host |-> "", port |-> "1"], [scheme |-> "https", host |-> "h", port |-> "1"]}

(* Quantiles with the default errors, and one with an error so coarse that few *)
(* observations are enough for samples to be merged.                           *)
SomeTargets == {{[q |-> 20, e |-> 2], [q |-> 30, e |-> 1]}, {[q |-> 20, e |-> 10]}}

SomeMemories ==
  {[data |-> <<"a", "b">>, mutable |-> FALSE], [data |-> <<"d">>, mutable |-> TRUE],
   [data |-> <<>>, mutable |-> TRUE]}

-----------------------------------------------------------------------------
(* A message is read as it was written: the attributes of a STUN message with  *)
(* its digests (attribute.cpp, message.cpp; but for an error code and a list   *)
(* of an odd number of types, which are refused), and every member of the      *)
(* tunnel properties that a request carries (tunnel.cpp); a damaged STUN       *)
(* message is not taken for a good one, one that ends with a fingerprint is    *)
(* written within its size, and no URL gets a contradictory request sent.      *)
MessagesRoundTrip ==
  /\ part = "stun" => SM!RoundTrip /\ SM!DamageIsSeen /\ SM!WithinSize
  /\ part = "properties" => PR!PropertiesSound

(* What proves an identity serves its purpose and no other: one credential for *)
(* an engine, that of its own file (io-rstrm.cpp), a TLS context that checks   *)
(* with the authorities configured (stream_socket_ssl.cpp), a payload key for  *)
(* the recipients only and payloads bound to their key and stream              *)
(* (payload_crypto.cpp), and a proof that lets an authorized client in and is  *)
(* bound to its session (auth.cpp).                                            *)
CredentialsSound ==
  /\ part = "config" => CF!OneCredential /\ CF!TokenStaysHome
  /\ part = "context" => TC!VerificationEffective
  /\ part = "payload" => WP!GrantOpens /\ WP!PayloadBound
  /\ part = "auth" => WA!HonestAccepted /\ WA!TranscriptsDistinct

(* What a scrape shows is what was observed: exact counts, exactly the window  *)
(* of a summary, its quantiles among the values of the window and its largest  *)
(* value never merged away (quantile.cpp, summary.cpp, histogram.cpp).         *)
MetricsExact == part = "metrics" => QU!WindowExact /\ QU!QuantilesOfWindow /\ QU!HistogramExact

(* What is shared stays sound: the memories behind the blocks of a buffer      *)
(* (buffer.cpp) and the libraries behind the plugins (factory.cpp).            *)
SharingSound ==
  /\ part = "buffer" => BU!BufferExact
  /\ part = "plugins" => PF!PluginsSound
=============================================================================
