----------------------------- MODULE ChildLaunch -----------------------------
(***************************************************************************)
(* How the WebTTY server starts the child of a session on POSIX            *)
(* (webtty/stream.cpp and webtty/detail/process.hpp): the pseudo-terminal  *)
(* or the pipes, the fork, what the handlers do in the child before exec   *)
(* and in the server after it.  Sessions start children in any order and   *)
(* from several threads, so a fork may copy the descriptors another        *)
(* session has just opened.  close of an open descriptor succeeds.         *)
(***************************************************************************)
EXTENDS Naturals, FiniteSets

CONSTANTS
  Sessions,
  BackendOf,   \* session -> "tty" or "pipe"
  UserOf       \* session -> the user the child runs as; the server is "root"

VARIABLES
  streams,   \* [master, slave, in_out] of every session: the members that hold a descriptor
  server,    \* the descriptors open in the server: <<session, "master" or "slave">>
  child,     \* per session: [pc, fds, io, uid, gid, leads]
  launch,    \* per session: "idle", "allocated", "forked", "launched", "failed", "closed"
  wrong      \* a descriptor was closed that was not open

launchVars == <<streams, server, child, launch, wrong>>

Master(s) == <<s, "master">>

Slave(s) == <<s, "slave">>

NoChild == [pc |-> "none", fds |-> {}, io |-> "server", uid |-> "root", gid |-> "root", leads |-> FALSE]

(* Pipes are opened with the stream, a pseudo-terminal by make_child.      *)
(* For a pipe, master stands for the ends the server keeps, slave for the  *)
(* three ends of the child.                                                *)
Opened(s) == {Master(s), Slave(s)}

Init ==
  /\ streams = [s \in Sessions |-> [master |-> FALSE, slave |-> BackendOf[s] = "pipe", in_out |-> BackendOf[s] = "pipe"]]
  /\ server = UNION {Opened(s) : s \in {t \in Sessions : BackendOf[t] = "pipe"}}
  /\ child = [s \in Sessions |-> NoChild]
  /\ launch = [s \in Sessions |-> "idle"]
  /\ wrong = FALSE

(* pty_posix::allocate: at most two descriptors are open when a step       *)
(* fails, and both are closed again.                                       *)
Allocate(s) ==
  /\ launch[s] = "idle" /\ BackendOf[s] = "tty"
  /\ \/ /\ ~streams[s].master /\ ~streams[s].slave /\ ~streams[s].in_out
        /\ streams' = [streams EXCEPT ![s].master = TRUE, ![s].slave = TRUE]
        /\ server' = server \union Opened(s)
        /\ launch' = [launch EXCEPT ![s] = "allocated"]
     \/ launch' = [launch EXCEPT ![s] = "failed"] /\ UNCHANGED <<streams, server>>
  /\ UNCHANGED <<child, wrong>>

(* The fork copies every descriptor the server has open. *)
Fork(s) ==
  /\ launch[s] = IF BackendOf[s] = "tty" THEN "allocated" ELSE "idle"
  /\ launch' = [launch EXCEPT ![s] = "forked"]
  /\ child' = [child EXCEPT ![s] = [NoChild EXCEPT !.pc = "redirect", !.fds = server]]
  /\ UNCHANGED <<streams, server, wrong>>

Fails(s) == child' = [child EXCEPT ![s].pc = "error", ![s].fds = {}]

(* on_exec_setup of the pseudo-terminal: the master is closed, the child   *)
(* leads a new session whose terminal is the slave, which becomes its      *)
(* standard streams; for pipes, Boost's redirections                       *)
Redirect(s) ==
  /\ child[s].pc = "redirect"
  /\ \/ child' = [child EXCEPT ![s].pc = "group", ![s].io = s, ![s].fds = @ \ Opened(s), ![s].leads = BackendOf[s] = "tty"]
     \/ Fails(s)
  /\ UNCHANGED <<streams, server, launch, wrong>>

(* group_handler::on_exec_setup *)
Group(s) ==
  /\ child[s].pc = "group"
  /\ \/ child' = [child EXCEPT ![s].pc = "user", ![s].leads = TRUE]
     \/ BackendOf[s] = "pipe" /\ Fails(s)
  /\ UNCHANGED <<streams, server, launch, wrong>>

(* setgid and setuid are the superuser's. *)
SetGid(c, g) == IF c.uid = "root" THEN [c EXCEPT !.gid = g] ELSE [c EXCEPT !.pc = "error", !.fds = {}]

SetUid(c, u) == IF c.uid = "root" THEN [c EXCEPT !.uid = u] ELSE [c EXCEPT !.pc = "error", !.fds = {}]

(* uid::handler::on_exec_setup: nothing to do when the user is the         *)
(* server's own; else the groups, the group and last the user              *)
User(s) ==
  /\ child[s].pc = "user"
  /\ \/ child' = [child EXCEPT ![s] = IF UserOf[s] = @.uid /\ UserOf[s] = @.gid
                                      THEN [@ EXCEPT !.pc = "limit"]
                                      ELSE SetUid(SetGid([@ EXCEPT !.pc = "limit"], UserOf[s]), UserOf[s])]
     \/ UserOf[s] # "root" /\ Fails(s)
  /\ UNCHANGED <<streams, server, launch, wrong>>

(* make_child_process: the handle limits of this launch close everything   *)
(* that is not a standard stream, then the program is executed             *)
Exec(s) ==
  /\ child[s].pc = "limit"
  /\ \/ child' = [child EXCEPT ![s].pc = "running", ![s].fds = {}]
     \/ Fails(s)
  /\ UNCHANGED <<streams, server, launch, wrong>>

(* on_success: the server waits for exec, then closes the slave and gives  *)
(* the master to its stream; when assign fails the master stays a member   *)
OnSuccess(s) ==
  /\ launch[s] = "forked" /\ child[s].pc \in {"running", "dead"}
  /\ server' = server \ {Slave(s)}
  /\ wrong' = (wrong \/ Slave(s) \notin server)
  /\ \/ /\ launch' = [launch EXCEPT ![s] = "launched"]
        /\ streams' = [streams EXCEPT ![s].slave = FALSE, ![s].in_out = TRUE, ![s].master = FALSE]
     \/ /\ BackendOf[s] = "tty"
        /\ launch' = [launch EXCEPT ![s] = "failed"]
        /\ streams' = [streams EXCEPT ![s].slave = FALSE]
  /\ UNCHANGED child

(* The error the child sent before it gave up is thrown by make_child. *)
OnError(s) ==
  /\ launch[s] = "forked" /\ child[s].pc = "error"
  /\ launch' = [launch EXCEPT ![s] = "failed"]
  /\ UNCHANGED <<streams, server, child, wrong>>

Exit(s) ==
  /\ child[s].pc = "running"
  /\ child' = [child EXCEPT ![s].pc = "dead", ![s].fds = {}]
  /\ UNCHANGED <<streams, server, launch, wrong>>

(* close, by the session or the destructor *)
Close(s) ==
  /\ launch[s] \notin {"forked", "closed"}
  /\ LET closed == {fd \in Opened(s) : IF fd = Slave(s) THEN streams[s].slave ELSE streams[s].master \/ streams[s].in_out}
     IN server' = server \ closed /\ wrong' = (wrong \/ ~(closed \subseteq server))
  /\ streams' = [streams EXCEPT ![s] = [master |-> FALSE, slave |-> FALSE, in_out |-> FALSE]]
  /\ launch' = [launch EXCEPT ![s] = "closed"]
  /\ UNCHANGED child

Next ==
  \E s \in Sessions :
    \/ Allocate(s) \/ Fork(s) \/ Redirect(s) \/ Group(s) \/ User(s) \/ Exec(s)
    \/ OnSuccess(s) \/ OnError(s) \/ Exit(s) \/ Close(s)

Spec == Init /\ [][Next]_launchVars

(* The descriptors of the server are those its streams hold, and none is   *)
(* closed twice.  A program that runs leads its own group, has the user    *)
(* asked for and no descriptor but its standard streams, so a session      *)
(* whose program is gone reads the end of its output: nobody else, no      *)
(* program of another session and not the server, has the slave open.      *)
DescriptorsSound ==
  /\ ~wrong
  /\ server = UNION {{fd \in Opened(s) : IF fd = Slave(s) THEN streams[s].slave ELSE streams[s].master \/ streams[s].in_out}
                      : s \in Sessions}
  /\ \A s \in Sessions :
       child[s].pc = "running" => child[s].leads /\ child[s].io = s /\ child[s].uid = UserOf[s] /\ child[s].gid = UserOf[s]
  /\ \A s \in Sessions :
       launch[s] = "launched" /\ child[s].pc = "dead" =>
         /\ Slave(s) \notin server
         /\ \A t \in Sessions : child[t].pc = "running" => Slave(s) \notin child[t].fds

=============================================================================
