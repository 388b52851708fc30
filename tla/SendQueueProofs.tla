--------------------------- MODULE SendQueueProofs ---------------------------
(***************************************************************************)
(* Proofs about the send queue, for any set of calls.                      *)
(***************************************************************************)
EXTENDS SendQueue, TLAPS

(* Work items of one kind, by position. *)
At(op) == {i \in DOMAIN strand : strand[i].op = op}

(* The transport is busy exactly while a task is active, and the strand    *)
(* holds one on_send item exactly when the transport has finished.         *)
WireInv ==
  /\ current = NoTask <=> wire = "idle"
  /\ At("on_send") # {} => wire = "done"
  /\ \A i, j \in At("on_send") : i = j

TypeInv == TypeOK /\ WireInv

-----------------------------------------------------------------------------

LEMMA TypeInit == Init => TypeInv
  BY CallsDistinct DEF Init, TypeInv, TypeOK, WireInv, At, Handlers

(* Completing tasks keeps the types of what the handlers observe. *)
LEMMA CompleteType ==
  ASSUME TypeOK, NEW S \in SUBSET Tasks, NEW res \in [S -> Results],
         NEW acks \in SUBSET AsyncCancels, Complete(res, acks)
  PROVE  /\ completed' \in SUBSET Tasks
         /\ calls' \in [Handlers -> Nat]
         /\ outcome' \in [Tasks -> Results \cup {"none"}]
  BY DEF TypeOK, Complete, Handlers

LEMMA AllCancelledType ==
  ASSUME NEW S
  PROVE  AllCancelled(S) \in [S -> Results]
  BY DEF AllCancelled, Results

LEMMA ElementsType ==
  ASSUME NEW T, NEW s \in Seq(T)
  PROVE  Elements(s) \in SUBSET T
  BY DEF Elements

LEMMA ElementsAppend ==
  ASSUME NEW T, NEW s \in Seq(T), NEW x \in T
  PROVE  Elements(Append(s, x)) = Elements(s) \cup {x}
  <1>1. ASSUME NEW y \in Elements(Append(s, x)) PROVE y \in Elements(s) \cup {x}
    <2>1. PICK i \in 1..(Len(s) + 1) : y = Append(s, x)[i]
      BY <1>1 DEF Elements
    <2> QED BY <2>1 DEF Elements
  <1>2. ASSUME NEW y \in Elements(s) PROVE y \in Elements(Append(s, x))
    <2>1. PICK i \in 1..Len(s) : y = s[i]
      BY <1>2 DEF Elements
    <2>2. i \in DOMAIN Append(s, x) /\ Append(s, x)[i] = y
      BY <2>1
    <2> QED BY <2>2 DEF Elements
  <1>3. x \in Elements(Append(s, x))
    <2>1. Len(s) + 1 \in DOMAIN Append(s, x) /\ Append(s, x)[Len(s) + 1] = x
      OBVIOUS
    <2> QED BY <2>1 DEF Elements
  <1> QED BY <1>1, <1>2, <1>3

(* The part of the state a strand step changes. *)
CoreType ==
  /\ current \in Tasks \cup {NoTask}
  /\ queue \in Seq(Tasks)
  /\ cancelHandlers \subseteq AsyncCancels
  /\ cancelled \subseteq Tasks
  /\ completed \subseteq Tasks
  /\ wire \in {"idle", "starting", "writing", "aborting", "done"}
  /\ calls \in [Handlers -> Nat]
  /\ outcome \in [Tasks -> Results \cup {"none"}]
  /\ entered \in Seq(Tasks)
  /\ started \in Seq(Tasks)
  /\ barrier \in [AsyncCancels -> SUBSET Tasks]
  /\ current = NoTask <=> wire = "idle"

(* A strand step keeps the types, whether a work item runs it or a caller  *)
(* that is already on the strand; only on_send() ends a finished write.    *)
LEMMA SendType ==
  ASSUME TypeInv, NEW t \in Tasks, send(t)
  PROVE  CoreType' /\ (wire' = "done" <=> wire = "done")
  <1> USE CallsDistinct DEF TypeInv, TypeOK, WireInv, CoreType
  <1>1. CASE t \in cancelled \ completed /\ Complete(AllCancelled({t}), {})
    <2>1. AllCancelled({t}) \in [{t} -> Results] BY AllCancelledType
    <2>2. /\ completed' \in SUBSET Tasks
          /\ calls' \in [Handlers -> Nat]
          /\ outcome' \in [Tasks -> Results \cup {"none"}]
      BY <1>1, <2>1, CompleteType, Zenon
    <2> QED BY <1>1, <2>2 DEF send, Live
  <1>2. CASE t \in completed
    BY <1>2 DEF send, Live
  <1>a. ASSUME NEW s \in Seq(Tasks) PROVE Append(s, t) \in Seq(Tasks)
    OBVIOUS
  <1>3. CASE Live(t) /\ current = NoTask
    <2>1. /\ current' = t /\ wire' = "starting" /\ entered' = Append(entered, t)
          /\ UNCHANGED <<queue, completed, calls, outcome, cancelHandlers,
                         cancelled, started, barrier>>
      BY <1>3 DEF send, process, Live
    <2>2. entered' \in Seq(Tasks)
      BY <2>1, <1>a
    <2>3. wire = "idle" BY <1>3
    <2> QED BY <2>1, <2>2, <2>3
  <1>4. CASE Live(t) /\ current # NoTask
    <2>1. /\ queue' = Append(queue, t) /\ entered' = Append(entered, t)
          /\ UNCHANGED <<current, completed, wire, calls, outcome, started,
                         cancelHandlers, cancelled, barrier>>
      BY <1>4 DEF send, Live
    <2>2. queue' \in Seq(Tasks) /\ entered' \in Seq(Tasks)
      BY <2>1, <1>a
    <2> QED BY <2>1, <2>2
  <1> QED BY <1>1, <1>2, <1>3, <1>4 DEF send

LEMMA OnTaskCancelType ==
  ASSUME TypeInv, NEW t \in Tasks, on_task_cancel(t), cancelled' \subseteq Tasks
  PROVE  CoreType' /\ (wire' = "done" <=> wire = "done")
  <1> USE CallsDistinct DEF TypeInv, TypeOK, WireInv, CoreType, on_task_cancel
  <1>1. CASE Complete(AllCancelled({t}), {}) /\ UNCHANGED wire
    <2>1. AllCancelled({t}) \in [{t} -> Results] BY AllCancelledType
    <2>2. /\ completed' \in SUBSET Tasks
          /\ calls' \in [Handlers -> Nat]
          /\ outcome' \in [Tasks -> Results \cup {"none"}]
      BY <1>1, <2>1, CompleteType, Zenon
    <2> QED BY <1>1, <2>2
  <1>2. CASE UNCHANGED <<completed, calls, outcome>>
    BY <1>2 DEF emit_cancellation
  <1> QED BY <1>1, <1>2

LEMMA CancelPendingType ==
  ASSUME TypeInv, NEW acks \in SUBSET AsyncCancels, cancel_pending(acks),
         cancelHandlers' \subseteq AsyncCancels,
         barrier' \in [AsyncCancels -> SUBSET Tasks]
  PROVE  CoreType' /\ (wire' = "done" <=> wire = "done")
  <1> DEFINE E == Elements(queue)
  <1>1. E \in SUBSET Tasks
    BY ElementsType DEF TypeInv, TypeOK
  <1>2. AllCancelled(E) \in [E -> Results] BY AllCancelledType
  <1>3. /\ completed' \in SUBSET Tasks
        /\ calls' \in [Handlers -> Nat]
        /\ outcome' \in [Tasks -> Results \cup {"none"}]
    BY <1>1, <1>2, CompleteType, Zenon DEF cancel_pending, TypeInv
  <1> QED
    BY <1>1, <1>3, CallsDistinct
    DEF cancel_pending, emit_cancellation, TypeInv, TypeOK, WireInv, CoreType

LEMMA OnSendType ==
  ASSUME TypeInv, NEW r \in Results, on_send(r), wire = "done"
  PROVE  CoreType' /\ wire' # "done"
  <1> USE CallsDistinct DEF TypeInv, TypeOK, WireInv, CoreType
  <1>0. current \in Tasks
    OBVIOUS
  <1>1. CASE Startable = {}
    <2> DEFINE S == {current} \cup Elements(queue)
               res == [t \in S |-> IF t = current THEN r ELSE "cancelled"]
    <2>1. S \in SUBSET Tasks
      BY <1>0, ElementsType
    <2>2. res \in [S -> Results]
      BY DEF Results
    <2>3. Complete(res, cancelHandlers)
      BY <1>1 DEF on_send
    <2>4. /\ completed' \in SUBSET Tasks
          /\ calls' \in [Handlers -> Nat]
          /\ outcome' \in [Tasks -> Results \cup {"none"}]
      BY <2>1, <2>2, <2>3, CompleteType, Zenon
    <2> QED BY <1>1, <2>4 DEF on_send
  <1>2. CASE Startable # {}
    <2>1. PICK k \in Startable :
            /\ Complete([t \in {current} \cup {queue[i] : i \in 1..(k - 1)} |->
                          IF t = current THEN r ELSE "cancelled"], cancelHandlers)
            /\ queue' = SubSeq(queue, k + 1, Len(queue))
            /\ process(queue[k])
      BY <1>2, Zenon DEF on_send
    <2> DEFINE S == {current} \cup {queue[i] : i \in 1..(k - 1)}
               res == [t \in S |-> IF t = current THEN r ELSE "cancelled"]
    <2>2. k \in 1..Len(queue) /\ queue[k] \in Tasks
      BY DEF Startable
    <2>3. S \in SUBSET Tasks
      BY <1>0, <2>2
    <2>4. res \in [S -> Results]
      BY DEF Results
    <2>5. /\ completed' \in SUBSET Tasks
          /\ calls' \in [Handlers -> Nat]
          /\ outcome' \in [Tasks -> Results \cup {"none"}]
      BY <2>1, <2>3, <2>4, CompleteType, Zenon
    <2>6. queue' \in Seq(Tasks)
      BY <2>1, <2>2
    <2> QED BY <2>1, <2>2, <2>5, <2>6, <1>2 DEF on_send, process
  <1> QED BY <1>1, <1>2

LEMMA RunType ==
  ASSUME TypeInv, NEW item \in Items, Run(item),
         item.op = "on_send" => wire = "done"
  PROVE  /\ CoreType'
         /\ item.op # "on_send" => (wire' = "done" <=> wire = "done")
         /\ item.op = "on_send" => wire' # "done"
  <1>1. CASE item.op = "send" /\ send(item.arg)
    <2>1. item.arg \in Tasks BY <1>1 DEF Items
    <2> QED BY <1>1, <2>1, SendType
  <1>2. CASE item.op = "on_task_cancel" /\ on_task_cancel(item.arg) /\ UNCHANGED cancelled
    <2>1. item.arg \in Tasks BY <1>2 DEF Items
    <2> QED BY <1>2, <2>1, OnTaskCancelType DEF TypeInv, TypeOK
  <1>3. CASE item.op = "async_cancel" /\ async_cancel_internal(item.arg)
    <2>1. item.arg \in AsyncCancels BY <1>3 DEF Items
    <2>2. Elements(entered) \in SUBSET Tasks BY ElementsType DEF TypeInv, TypeOK
    <2>3. barrier' \in [AsyncCancels -> SUBSET Tasks]
      BY <1>3, <2>1, <2>2 DEF async_cancel_internal, TypeInv, TypeOK
    <2>4. PICK acks \in SUBSET AsyncCancels : cancel_pending(acks)
      BY <1>3, <2>1 DEF async_cancel_internal, TypeInv, TypeOK
    <2>5. cancelHandlers' \subseteq AsyncCancels
      BY <1>3, <2>1 DEF async_cancel_internal, TypeInv, TypeOK
    <2> QED BY <1>3, <2>3, <2>4, <2>5, CancelPendingType
  <1>4. CASE item.op = "cancel" /\ cancel_internal
    BY <1>4, CancelPendingType, Zenon DEF cancel_internal, TypeInv, TypeOK
  <1>5. CASE item.op = "on_send" /\ on_send(item.arg)
    <2>1. item.arg \in Results BY <1>5 DEF Items
    <2> QED BY <1>5, <2>1, OnSendType
  <1> QED BY <1>1, <1>2, <1>3, <1>4, <1>5 DEF Run

(* Posting an item that is not on_send, and taking the first item. *)
LEMMA PostType ==
  ASSUME TypeInv, NEW item \in Items, item.op # "on_send",
         Post(item), cancelled' \subseteq Tasks,
         issued' \subseteq Tasks \cup AsyncCancels \cup Cancels,
         signalled' \subseteq Tasks
  PROVE  TypeInv'
  <1>1. strand' \in Seq(Items) /\ At("on_send")' = At("on_send")
    BY DEF TypeInv, TypeOK, Post, At
  <1> QED BY <1>1 DEF TypeInv, TypeOK, WireInv, Post

LEMMA DispatchType ==
  ASSUME TypeInv, NEW item \in Items, item.op # "on_send", Dispatch(item),
         issued' \subseteq Tasks \cup AsyncCancels \cup Cancels,
         signalled' \subseteq Tasks
  PROVE  TypeInv'
  <1>1. CASE Post(item) /\ UNCHANGED cancelled
    BY <1>1, PostType, Zenon DEF TypeInv, TypeOK
  <1>2. CASE Run(item) /\ UNCHANGED strand
    BY <1>2, RunType DEF TypeInv, TypeOK, WireInv, CoreType, At
  <1> QED BY <1>1, <1>2 DEF Dispatch

(* TypeOK and the bookkeeping of the transport are inductive. *)
LEMMA TypeNext == TypeInv /\ [Next]_vars => TypeInv'
  <1> SUFFICES ASSUME TypeInv, [Next]_vars PROVE TypeInv'
    OBVIOUS
  <1>1. ASSUME NEW t \in Tasks, async_send(t) PROVE TypeInv'
    <2>1. Item("send", t) \in Items /\ Item("send", t).op # "on_send"
      BY DEF Item, Items
    <2> QED BY <1>1, <2>1, DispatchType, Zenon DEF async_send, TypeInv, TypeOK
  <1>2. ASSUME NEW t \in Tasks, EmitSlot(t) PROVE TypeInv'
    <2>1. Item("on_task_cancel", t) \in Items /\ Item("on_task_cancel", t).op # "on_send"
      BY DEF Item, Items
    <2>2. CASE Post(Item("on_task_cancel", t))
      BY <1>2, <2>1, <2>2, PostType, Zenon DEF EmitSlot, TypeInv, TypeOK
    <2>3. CASE on_task_cancel(t) /\ UNCHANGED strand
      BY <1>2, <2>3, OnTaskCancelType DEF EmitSlot, TypeInv, TypeOK, WireInv, CoreType, At
    <2> QED BY <1>2, <2>2, <2>3 DEF EmitSlot
  <1>3. ASSUME NEW c \in AsyncCancels, async_cancel(c) PROVE TypeInv'
    <2>1. Item("async_cancel", c) \in Items /\ Item("async_cancel", c).op # "on_send"
      BY DEF Item, Items
    <2> QED BY <1>3, <2>1, DispatchType DEF async_cancel, TypeInv, TypeOK
  <1>4. ASSUME NEW c \in Cancels, cancel(c) PROVE TypeInv'
    <2>1. Item("cancel", c) \in Items /\ Item("cancel", c).op # "on_send"
      BY DEF Item, Items
    <2> QED BY <1>4, <2>1, DispatchType, Zenon DEF cancel, TypeInv, TypeOK
  <1>5. CASE StrandStep
    <2>1. /\ Head(strand) \in Items
          /\ Head(strand) = strand[1] /\ 1 \in DOMAIN strand
          /\ strand' \in Seq(Items)
          /\ Len(strand') = Len(strand) - 1
          /\ \A i \in DOMAIN strand' : strand'[i] = strand[i + 1] /\ i + 1 \in DOMAIN strand
      BY <1>5 DEF StrandStep, TypeInv, TypeOK
    <2>2. Head(strand).op = "on_send" => 1 \in At("on_send") /\ wire = "done"
      BY <2>1 DEF At, TypeInv, WireInv
    <2>3. /\ CoreType'
          /\ Head(strand).op # "on_send" => (wire' = "done" <=> wire = "done")
          /\ Head(strand).op = "on_send" => wire' # "done"
      BY <1>5, <2>1, <2>2, RunType DEF StrandStep
    <2>4. \A i \in At("on_send")' : i + 1 \in At("on_send") /\ i \in Nat /\ i > 0
      BY <2>1 DEF At
    <2>5. /\ At("on_send")' # {} => wire' = "done"
          /\ \A i, j \in At("on_send")' : i = j
      BY <2>2, <2>3, <2>4 DEF TypeInv, WireInv
    <2> QED BY <1>5, <2>1, <2>3, <2>5 DEF StrandStep, TypeInv, TypeOK, WireInv, CoreType
  <1>6. CASE TransportDone
    <2>1. PICK r \in Results : strand' = Append(strand, Item("on_send", r))
      BY <1>6 DEF TransportDone, Results
    <2>2. Item("on_send", r) \in Items
      BY DEF Item, Items
    <2>3. strand' \in Seq(Items)
      BY <2>1, <2>2 DEF TypeInv, TypeOK
    <2>4. At("on_send") = {} /\ wire # "idle"
      BY <1>6 DEF TransportDone, TypeInv, WireInv
    <2>5. At("on_send")' \subseteq {Len(strand) + 1}
      BY <2>1, <2>4 DEF At, TypeInv, TypeOK
    <2> QED BY <1>6, <2>3, <2>4, <2>5 DEF TransportDone, TypeInv, TypeOK, WireInv
  <1>7. CASE StartWrite
    <2>1. current \in Tasks /\ started' = Append(started, current)
      BY <1>7 DEF StartWrite, TypeInv, TypeOK, WireInv
    <2>2. started' \in Seq(Tasks)
      BY <2>1 DEF TypeInv, TypeOK
    <2> QED BY <1>7, <2>2 DEF StartWrite, TypeInv, TypeOK, WireInv, At
  <1>8. CASE UNCHANGED vars
    BY <1>8 DEF vars, TypeInv, TypeOK, WireInv, At
  <1> QED BY <1>1, <1>2, <1>3, <1>4, <1>5, <1>6, <1>7, <1>8 DEF Next

(* The queue's state keeps its types, and an on_send item is only ever     *)
(* waiting while a task is active: on_send() may use m_current without a   *)
(* null check (queue.hpp:504).                                             *)
THEOREM TypeCorrect == Spec => [](TypeOK /\ WireInv)
  BY TypeInit, TypeNext, PTL DEF Spec, TypeInv
-----------------------------------------------------------------------------
(***************************************************************************)
(* Completion.  A send handler has been invoked exactly if m_completed is  *)
(* set.  An async_cancel() call that has not run yet (Unrun) has no        *)
(* handler in m_cancel_handlers; a handler there has not been invoked, and *)
(* all that its call found accepted has completed, except m_current.       *)
(***************************************************************************)
Unrun(c) == calls[c] = 0 /\ c \notin cancelHandlers

QueueInv ==
  /\ \A t \in Tasks : calls[t] = IF t \in completed THEN 1 ELSE 0
  /\ current = NoTask => queue = <<>> /\ cancelHandlers = {}
  /\ Elements(entered) \subseteq completed \cup Elements(queue) \cup {current}
  /\ \A c \in AsyncCancels :
       /\ calls[c] <= 1
       /\ c \in cancelHandlers => /\ calls[c] = 0
                                  /\ barrier[c] \subseteq completed \cup {current}
       /\ calls[c] > 0 => barrier[c] \subseteq completed

(* Each async_cancel() call is in the strand at most once and has not run. *)
PendingInv ==
  /\ \A c \in AsyncCancels \ issued : Unrun(c)
  /\ \A i \in At("async_cancel") : strand[i].arg \in issued /\ Unrun(strand[i].arg)
  /\ \A i, j \in At("async_cancel") : strand[i].arg = strand[j].arg => i = j

CancelInv == QueueInv /\ PendingInv

LEMMA CancelInit == Init => CancelInv
  BY CallsDistinct DEF Init, CancelInv, QueueInv, PendingInv, Unrun, At, Handlers, Elements

LEMMA CompleteCalls ==
  ASSUME TypeOK, NEW S \in SUBSET Tasks, NEW res \in [S -> Results],
         NEW acks \in SUBSET AsyncCancels, Complete(res, acks),
         \A t \in Tasks : calls[t] = IF t \in completed THEN 1 ELSE 0
  PROVE  /\ completed' = completed \cup S
         /\ \A t \in Tasks : calls'[t] = IF t \in completed' THEN 1 ELSE 0
         /\ \A c \in AsyncCancels : calls'[c] = IF c \in acks THEN calls[c] + 1 ELSE calls[c]
  BY CallsDistinct DEF TypeOK, Complete, Handlers

LEMMA CompleteOneCalls ==
  ASSUME TypeOK, QueueInv, NEW t \in Tasks, Complete(AllCancelled({t}), {})
  PROVE  /\ completed' = completed \cup {t}
         /\ \A u \in Tasks : calls'[u] = IF u \in completed' THEN 1 ELSE 0
         /\ \A c \in AsyncCancels : calls'[c] = calls[c]
  <1>1. AllCancelled({t}) \in [{t} -> Results] BY AllCancelledType
  <1>2. {t} \in SUBSET Tasks /\ {} \in SUBSET AsyncCancels OBVIOUS
  <1>3. \A u \in Tasks : calls[u] = IF u \in completed THEN 1 ELSE 0
    BY DEF QueueInv
  <1>4. /\ completed' = completed \cup {t}
        /\ \A u \in Tasks : calls'[u] = IF u \in completed' THEN 1 ELSE 0
        /\ \A c \in AsyncCancels : calls'[c] = IF c \in {} THEN calls[c] + 1 ELSE calls[c]
    <2>1. PICK S, acks : S = {t} /\ acks = {}
      OBVIOUS
    <2>2. PICK res : res = AllCancelled({t})
      OBVIOUS
    <2>3. S \in SUBSET Tasks /\ acks \in SUBSET AsyncCancels /\ res \in [S -> Results] /\ Complete(res, acks)
      BY <1>1, <1>2, <2>1, <2>2
    <2>4. /\ completed' = completed \cup S
          /\ \A u \in Tasks : calls'[u] = IF u \in completed' THEN 1 ELSE 0
          /\ \A c \in AsyncCancels : calls'[c] = IF c \in acks THEN calls[c] + 1 ELSE calls[c]
      BY <1>3, <2>3, CompleteCalls, ZenonT(60)
    <2> QED BY <2>1, <2>4, Zenon
  <1> QED BY <1>4, Zenon

LEMMA PendingArgs ==
  ASSUME TypeInv
  PROVE  \A i \in At("async_cancel") : strand[i].arg \in AsyncCancels
  <1>1. ASSUME NEW item \in Items, item.op = "async_cancel" PROVE item.arg \in AsyncCancels
    BY <1>1 DEF Items
  <1>2. \A i \in At("async_cancel") : strand[i] \in Items /\ strand[i].op = "async_cancel"
    BY DEF At, TypeInv, TypeOK
  <1> QED BY <1>1, <1>2

LEMMA SendCancel ==
  ASSUME TypeInv, QueueInv, NEW t \in Tasks, send(t)
  PROVE  /\ QueueInv'
         /\ \A c \in AsyncCancels : Unrun(c) => Unrun(c)'
  <1>0. calls \in [Handlers -> Nat] /\ NoTask \notin Tasks /\ TypeOK
    BY CallsDistinct DEF TypeInv, TypeOK
  <1>a. /\ Elements(Append(entered, t)) = Elements(entered) \cup {t}
        /\ Elements(Append(queue, t)) = Elements(queue) \cup {t}
    BY ElementsAppend DEF TypeInv, TypeOK
  <1>1. CASE t \in completed
    <2>1. UNCHANGED <<current, queue, completed, calls, cancelHandlers, entered, barrier>>
      BY <1>1 DEF send, Live
    <2> QED BY <2>1 DEF QueueInv, Unrun
  <1>2. CASE t \in cancelled \ completed
    <2>2. Complete(AllCancelled({t}), {})
      BY <1>2 DEF send, Live
    <2>4. UNCHANGED <<current, queue, entered, cancelHandlers, barrier>>
      BY <1>2 DEF send, Live
    <2>3. /\ completed' = completed \cup {t}
          /\ \A u \in Tasks : calls'[u] = IF u \in completed' THEN 1 ELSE 0
          /\ \A c \in AsyncCancels : calls'[c] = calls[c]
      BY <1>0, <2>2, CompleteOneCalls
    <2> QED BY <2>3, <2>4 DEF QueueInv, Unrun
  <1>3. CASE Live(t) /\ current = NoTask
    <2>1. /\ current' = t /\ entered' = Append(entered, t)
          /\ UNCHANGED <<queue, completed, calls, cancelHandlers, barrier>>
      BY <1>3 DEF send, process, Live
    <2>2. NoTask \notin Elements(entered) /\ NoTask # t
      BY <1>0, ElementsType DEF TypeOK
    <2> QED BY <1>0, <1>a, <1>3, <2>1, <2>2 DEF QueueInv, Unrun
  <1>4. CASE Live(t) /\ current # NoTask
    <2>1. /\ queue' = Append(queue, t) /\ entered' = Append(entered, t)
          /\ UNCHANGED <<current, completed, calls, cancelHandlers, barrier>>
      BY <1>4 DEF send, Live
    <2> QED BY <1>4, <1>a, <2>1 DEF QueueInv, Unrun
  <1> QED BY <1>1, <1>2, <1>3, <1>4 DEF Live, send

LEMMA OnTaskCancelCancel ==
  ASSUME TypeInv, QueueInv, NEW t \in Tasks, on_task_cancel(t)
  PROVE  /\ QueueInv'
         /\ \A c \in AsyncCancels : Unrun(c) => Unrun(c)'
  <1>0. TypeOK /\ UNCHANGED <<current, queue, entered, cancelHandlers, barrier>>
    BY DEF on_task_cancel, TypeInv
  <1>1. CASE UNCHANGED <<completed, calls>>
    BY <1>0, <1>1 DEF QueueInv, Unrun
  <1>2. CASE Complete(AllCancelled({t}), {})
    <2>2. /\ completed' = completed \cup {t}
          /\ \A u \in Tasks : calls'[u] = IF u \in completed' THEN 1 ELSE 0
          /\ \A c \in AsyncCancels : calls'[c] = calls[c]
      BY <1>0, <1>2, CompleteOneCalls
    <2> QED BY <1>0, <2>2 DEF QueueInv, Unrun
  <1> QED BY <1>1, <1>2 DEF on_task_cancel

(* What cancel_pending() leaves: every accepted task but m_current is      *)
(* completed.                                                              *)
LEMMA CancelPendingEffect ==
  ASSUME TypeInv, QueueInv, NEW acks \in SUBSET AsyncCancels, cancel_pending(acks)
  PROVE  /\ Elements(queue') = {} /\ queue' = <<>>
         /\ Elements(entered') \subseteq completed' \cup {current'}
         /\ completed \subseteq completed'
         /\ \A t \in Tasks : calls'[t] = IF t \in completed' THEN 1 ELSE 0
         /\ \A c \in AsyncCancels : calls'[c] = IF c \in acks THEN calls[c] + 1 ELSE calls[c]
         /\ UNCHANGED <<current, entered>>
  <1> DEFINE E == Elements(queue)
  <1>1. E \in SUBSET Tasks
    BY ElementsType DEF TypeInv, TypeOK
  <1>2. AllCancelled(E) \in [E -> Results] BY AllCancelledType
  <1>3. /\ completed' = completed \cup E
        /\ \A t \in Tasks : calls'[t] = IF t \in completed' THEN 1 ELSE 0
        /\ \A c \in AsyncCancels : calls'[c] = IF c \in acks THEN calls[c] + 1 ELSE calls[c]
    BY <1>1, <1>2, CompleteCalls DEF cancel_pending, TypeInv, QueueInv
  <1> QED BY <1>3 DEF cancel_pending, QueueInv, Elements

LEMMA AsyncCancelCancel ==
  ASSUME TypeInv, QueueInv, NEW a \in AsyncCancels, async_cancel_internal(a), Unrun(a)
  PROVE  /\ QueueInv'
         /\ \A c \in AsyncCancels \ {a} : Unrun(c) => Unrun(c)'
  <1>0. Elements(entered) \subseteq Tasks
    BY ElementsType DEF TypeInv, TypeOK
  <1>1. /\ barrier'[a] = Elements(entered)
        /\ \A c \in AsyncCancels \ {a} : barrier'[c] = barrier[c]
    BY DEF async_cancel_internal, TypeInv, TypeOK
  <1>2. CASE current = NoTask
    <2> DEFINE acks == cancelHandlers \cup {a}
    <2>1. acks \in SUBSET AsyncCancels BY DEF TypeInv, TypeOK
    <2>2. cancel_pending(acks) /\ cancelHandlers' = {}
      BY <1>2 DEF async_cancel_internal
    <2>3. /\ Elements(queue') = {} /\ queue' = <<>>
          /\ Elements(entered') \subseteq completed' \cup {current'}
          /\ completed \subseteq completed'
          /\ \A t \in Tasks : calls'[t] = IF t \in completed' THEN 1 ELSE 0
          /\ \A c \in AsyncCancels : calls'[c] = IF c \in acks THEN calls[c] + 1 ELSE calls[c]
          /\ UNCHANGED <<current, entered>>
      BY <2>1, <2>2, CancelPendingEffect
    <2>4. cancelHandlers = {} BY <1>2 DEF QueueInv
    <2>5. calls \in [Handlers -> Nat] BY DEF TypeInv, TypeOK
    <2> QED BY <1>0, <1>1, <1>2, <2>2, <2>3, <2>4, <2>5, CallsDistinct DEF QueueInv, Unrun, Handlers
  <1>3. CASE current # NoTask
    <2>1. cancel_pending({}) /\ cancelHandlers' = cancelHandlers \cup {a}
      BY <1>3 DEF async_cancel_internal
    <2>2. /\ Elements(queue') = {} /\ queue' = <<>>
          /\ Elements(entered') \subseteq completed' \cup {current'}
          /\ completed \subseteq completed'
          /\ \A t \in Tasks : calls'[t] = IF t \in completed' THEN 1 ELSE 0
          /\ \A c \in AsyncCancels : calls'[c] = calls[c]
          /\ UNCHANGED <<current, entered>>
      BY <2>1, CancelPendingEffect
    <2>3. calls \in [Handlers -> Nat] BY DEF TypeInv, TypeOK
    <2> QED BY <1>1, <1>3, <2>1, <2>2, <2>3 DEF QueueInv, Unrun
  <1> QED BY <1>2, <1>3

LEMMA CancelInternalCancel ==
  ASSUME TypeInv, QueueInv, cancel_internal
  PROVE  /\ QueueInv'
         /\ \A c \in AsyncCancels : Unrun(c) => Unrun(c)'
  <1>1. cancel_pending({}) /\ UNCHANGED <<cancelHandlers, barrier>>
    BY DEF cancel_internal
  <1>2. /\ Elements(queue') = {} /\ queue' = <<>>
        /\ Elements(entered') \subseteq completed' \cup {current'}
        /\ completed \subseteq completed'
        /\ \A t \in Tasks : calls'[t] = IF t \in completed' THEN 1 ELSE 0
        /\ \A c \in AsyncCancels : calls'[c] = calls[c]
        /\ UNCHANGED <<current, entered>>
    BY <1>1, CancelPendingEffect
  <1> QED BY <1>1, <1>2 DEF QueueInv, Unrun

LEMMA OnSendCancel ==
  ASSUME TypeInv, QueueInv, NEW r \in Results, on_send(r), wire = "done"
  PROVE  /\ QueueInv'
         /\ \A c \in AsyncCancels : Unrun(c) => Unrun(c)'
  <1>0. /\ current \in Tasks /\ cancelHandlers \in SUBSET AsyncCancels
        /\ calls \in [Handlers -> Nat] /\ TypeOK
        /\ cancelHandlers' = {} /\ UNCHANGED <<entered, barrier>>
        /\ queue \in Seq(Tasks)
    BY DEF TypeInv, TypeOK, WireInv, on_send
  <1>1. ASSUME NEW S \in SUBSET Tasks, NEW res \in [S -> Results],
               Complete(res, cancelHandlers), current \in S,
               Elements(queue) \subseteq S \cup completed \cup Elements(queue') \cup {current'},
               current' = NoTask => queue' = <<>>
        PROVE  /\ QueueInv'
               /\ \A c \in AsyncCancels : Unrun(c) => Unrun(c)'
    <2>1. /\ completed' = completed \cup S
          /\ \A u \in Tasks : calls'[u] = IF u \in completed' THEN 1 ELSE 0
          /\ \A c \in AsyncCancels :
               calls'[c] = IF c \in cancelHandlers THEN calls[c] + 1 ELSE calls[c]
      BY <1>0, <1>1, CompleteCalls, ZenonT(60) DEF QueueInv
    <2>2. Elements(entered) \subseteq completed' \cup Elements(queue') \cup {current'}
      BY <1>1, <2>1 DEF QueueInv
    <2>3. ASSUME NEW c \in AsyncCancels
          PROVE  /\ calls'[c] <= 1
                 /\ calls'[c] > 0 => barrier[c] \subseteq completed'
                 /\ Unrun(c) => calls'[c] = 0
      <3>1. calls[c] \in Nat BY <1>0, CallsDistinct DEF Handlers
      <3>2. CASE c \in cancelHandlers
        BY <1>1, <2>1, <3>1, <3>2 DEF QueueInv, Unrun
      <3>3. CASE c \notin cancelHandlers
        BY <1>1, <2>1, <3>1, <3>3 DEF QueueInv, Unrun
      <3> QED BY <3>2, <3>3
    <2> QED BY <1>0, <1>1, <2>1, <2>2, <2>3 DEF QueueInv, Unrun
  <1>2. CASE Startable = {}
    <2> DEFINE S == {current} \cup Elements(queue)
               res == [t \in S |-> IF t = current THEN r ELSE "cancelled"]
    <2>1. S \in SUBSET Tasks
      BY <1>0, ElementsType
    <2>2. res \in [S -> Results]
      BY DEF Results
    <2>3. Complete(res, cancelHandlers) /\ queue' = <<>>
      BY <1>2 DEF on_send
    <2> HIDE DEF res
    <2> QED BY <1>1, <2>1, <2>2, <2>3
  <1>3. CASE Startable # {}
    <2>1. PICK k \in Startable :
            /\ Complete([t \in {current} \cup {queue[i] : i \in 1..(k - 1)} |->
                          IF t = current THEN r ELSE "cancelled"], cancelHandlers)
            /\ queue' = SubSeq(queue, k + 1, Len(queue))
            /\ process(queue[k])
      BY <1>3, Zenon DEF on_send
    <2> DEFINE S == {current} \cup {queue[i] : i \in 1..(k - 1)}
               res == [t \in S |-> IF t = current THEN r ELSE "cancelled"]
    <2>2. k \in 1..Len(queue) /\ queue[k] \in Tasks /\ current' = queue[k]
      BY <1>0, <2>1 DEF Startable, process
    <2>3. S \in SUBSET Tasks
      BY <1>0, <2>2
    <2>4. res \in [S -> Results]
      BY DEF Results
    <2>5. Complete(res, cancelHandlers)
      BY <2>1
    <2>6. ASSUME NEW x \in Elements(queue)
          PROVE  x \in S \cup Elements(queue') \cup {current'}
      <3>1. PICK i \in 1..Len(queue) : x = queue[i]
        BY <1>0, <2>6 DEF Elements
      <3>2. CASE i <= k
        BY <2>2, <3>1, <3>2
      <3>3. CASE i > k
        <4>1. i - k \in DOMAIN queue' /\ queue'[i - k] = x
          BY <1>0, <2>1, <2>2, <3>1, <3>3
        <4> QED BY <4>1 DEF Elements
      <3> QED BY <3>1, <3>2, <3>3, <2>2
    <2>7. current' # NoTask
      BY <2>2, CallsDistinct
    <2> HIDE DEF res, S
    <2>8. current \in S BY DEF S
    <2> QED BY <1>1, <2>3, <2>4, <2>5, <2>6, <2>7, <2>8
  <1> QED BY <1>2, <1>3

LEMMA RunCancel ==
  ASSUME TypeInv, QueueInv, NEW item \in Items, Run(item),
         item.op = "on_send" => wire = "done",
         item.op = "async_cancel" => Unrun(item.arg)
  PROVE  /\ QueueInv'
         /\ \A c \in AsyncCancels :
              Unrun(c) /\ ~ (item.op = "async_cancel" /\ item.arg = c) => Unrun(c)'
  <1>1. CASE item.op = "send" /\ send(item.arg)
    <2>1. item.arg \in Tasks BY <1>1 DEF Items
    <2> QED BY <1>1, <2>1, SendCancel
  <1>2. CASE item.op = "on_task_cancel" /\ on_task_cancel(item.arg)
    <2>1. item.arg \in Tasks BY <1>2 DEF Items
    <2> QED BY <1>2, <2>1, OnTaskCancelCancel
  <1>3. CASE item.op = "async_cancel" /\ async_cancel_internal(item.arg)
    <2>1. item.arg \in AsyncCancels BY <1>3 DEF Items
    <2> QED BY <1>3, <2>1, AsyncCancelCancel
  <1>4. CASE item.op = "cancel" /\ cancel_internal
    BY <1>4, CancelInternalCancel
  <1>5. CASE item.op = "on_send" /\ on_send(item.arg)
    <2>1. item.arg \in Results BY <1>5 DEF Items
    <2> QED BY <1>5, <2>1, OnSendCancel
  <1> QED BY <1>1, <1>2, <1>3, <1>4, <1>5 DEF Run

LEMMA PostCancel ==
  ASSUME TypeInv, CancelInv, NEW item \in Items, item.op # "async_cancel",
         Post(item), issued \subseteq issued'
  PROVE  CancelInv'
  <1>1. At("async_cancel")' = At("async_cancel")
    BY DEF At, Post, TypeInv, TypeOK
  <1>2. \A i \in At("async_cancel") : strand'[i] = strand[i]
    BY DEF At, Post, TypeInv, TypeOK
  <1>3. UNCHANGED <<current, queue, cancelHandlers, completed, calls, entered, barrier>>
    BY DEF Post
  <1> QED BY <1>1, <1>2, <1>3 DEF CancelInv, QueueInv, PendingInv, Unrun

LEMMA InlineCancel ==
  ASSUME TypeInv, CancelInv, NEW item \in Items, item.op \notin {"on_send", "async_cancel"},
         Run(item), UNCHANGED strand, issued \subseteq issued'
  PROVE  CancelInv'
  <1>1. QueueInv' /\ \A c \in AsyncCancels : Unrun(c) => Unrun(c)'
    BY RunCancel DEF CancelInv
  <1>2. At("async_cancel")' = At("async_cancel")
    BY DEF At
  <1>3. \A i \in At("async_cancel") : strand[i].arg \in AsyncCancels
    BY PendingArgs
  <1> QED BY <1>1, <1>2, <1>3 DEF CancelInv, PendingInv

(* CancelInv is inductive. *)
LEMMA CancelNext == TypeInv /\ CancelInv /\ [Next]_vars => CancelInv'
  <1> SUFFICES ASSUME TypeInv, CancelInv, [Next]_vars PROVE CancelInv'
    OBVIOUS
  <1>1. ASSUME NEW t \in Tasks, async_send(t) PROVE CancelInv'
    <2>1. Item("send", t) \in Items /\ Item("send", t).op = "send"
      BY DEF Item, Items
    <2> QED BY <1>1, <2>1, PostCancel, InlineCancel DEF async_send, Dispatch
  <1>2. ASSUME NEW t \in Tasks, EmitSlot(t) PROVE CancelInv'
    <2>1. Item("on_task_cancel", t) \in Items /\ Item("on_task_cancel", t).op = "on_task_cancel"
      BY DEF Item, Items
    <2>2. CASE Post(Item("on_task_cancel", t))
      BY <1>2, <2>1, <2>2, PostCancel DEF EmitSlot
    <2>3. CASE on_task_cancel(t) /\ UNCHANGED strand
      <3>1. QueueInv' /\ \A c \in AsyncCancels : Unrun(c) => Unrun(c)'
        BY <2>3, OnTaskCancelCancel DEF CancelInv
      <3>2. At("async_cancel")' = At("async_cancel")
        BY <2>3 DEF At
      <3>3. \A i \in At("async_cancel") : strand[i].arg \in AsyncCancels
        BY PendingArgs
      <3> QED BY <1>2, <2>3, <3>1, <3>2, <3>3 DEF CancelInv, PendingInv, EmitSlot
    <2> QED BY <1>2, <2>2, <2>3 DEF EmitSlot
  <1>3. ASSUME NEW a \in AsyncCancels, async_cancel(a) PROVE CancelInv'
    <2> DEFINE item == Item("async_cancel", a)
    <2>1. item \in Items /\ item.op = "async_cancel" /\ item.arg = a
      BY DEF Item, Items
    <2>2. Unrun(a) /\ a \notin issued /\ issued' = issued \cup {a}
      BY <1>3 DEF async_cancel, CancelInv, PendingInv
    <2>3. \A i \in At("async_cancel") : strand[i].arg \in AsyncCancels \ {a}
      BY <2>2, PendingArgs, Zenon DEF CancelInv, PendingInv
    <2> HIDE DEF item
    <2>4. CASE Post(item)
      <3>1. At("async_cancel")' = At("async_cancel") \cup {Len(strand) + 1}
        BY <2>1, <2>4 DEF At, Post, TypeInv, TypeOK
      <3>2. /\ \A i \in At("async_cancel") : strand'[i] = strand[i]
            /\ strand'[Len(strand) + 1] = item
        BY <2>4 DEF At, Post, TypeInv, TypeOK
      <3>3. UNCHANGED <<current, queue, cancelHandlers, completed, calls, entered, barrier>>
        BY <2>4 DEF Post
      <3> QED BY <2>1, <2>2, <2>3, <3>1, <3>2, <3>3 DEF CancelInv, QueueInv, PendingInv, Unrun
    <2>5. CASE Run(item) /\ UNCHANGED strand
      <3>1. QueueInv' /\ \A c \in AsyncCancels : Unrun(c) /\ c # a => Unrun(c)'
        BY <2>1, <2>2, <2>5, RunCancel DEF CancelInv
      <3>2. At("async_cancel")' = At("async_cancel")
        BY <2>5 DEF At
      <3> QED BY <2>2, <2>3, <2>5, <3>1, <3>2 DEF CancelInv, PendingInv
    <2> QED BY <1>3, <2>4, <2>5 DEF async_cancel, Dispatch, item
  <1>4. ASSUME NEW c \in Cancels, cancel(c) PROVE CancelInv'
    <2>1. Item("cancel", c) \in Items /\ Item("cancel", c).op = "cancel"
      BY DEF Item, Items
    <2> QED BY <1>4, <2>1, PostCancel, InlineCancel DEF cancel, Dispatch
  <1>5. CASE StrandStep
    <2> DEFINE item == Head(strand)
    <2>1. /\ item \in Items /\ item = strand[1] /\ 1 \in DOMAIN strand
          /\ \A i \in DOMAIN strand' : /\ strand'[i] = strand[i + 1]
                                       /\ i \in Nat \ {0}
                                       /\ i + 1 \in DOMAIN strand
      BY <1>5 DEF StrandStep, TypeInv, TypeOK
    <2> HIDE DEF item
    <2>2. item.op = "on_send" => wire = "done"
      BY <2>1 DEF At, TypeInv, WireInv
    <2>3. item.op = "async_cancel" => 1 \in At("async_cancel") /\ Unrun(item.arg)
      BY <2>1 DEF At, CancelInv, PendingInv
    <2>4. Run(item) /\ issued' = issued
      BY <1>5 DEF StrandStep, item
    <2>5. /\ QueueInv'
          /\ \A c \in AsyncCancels :
               Unrun(c) /\ ~ (item.op = "async_cancel" /\ item.arg = c) => Unrun(c)'
      BY <2>1, <2>2, <2>3, <2>4, RunCancel DEF CancelInv
    <2>6. \A i \in At("async_cancel")' : /\ i + 1 \in At("async_cancel")
                                         /\ strand'[i] = strand[i + 1]
                                         /\ i \in Nat \ {0}
      BY <2>1 DEF At
    <2>7. \A i \in At("async_cancel") : strand[i].arg \in AsyncCancels
      BY PendingArgs
    <2>8. \A i \in At("async_cancel")' :
            ~ (item.op = "async_cancel" /\ item.arg = strand'[i].arg)
      BY <2>1, <2>3, <2>6 DEF CancelInv, PendingInv
    <2>9. \A c \in AsyncCancels \ issued' : Unrun(c)'
      BY <2>1, <2>3, <2>4, <2>5 DEF CancelInv, PendingInv
    <2>10. ASSUME NEW i \in At("async_cancel")'
           PROVE  strand'[i].arg \in issued' /\ Unrun(strand[i].arg)'
      <3>1. PICK c \in AsyncCancels : c = strand'[i].arg /\ c \in issued /\ Unrun(c)
        BY <2>6, <2>7 DEF CancelInv, PendingInv
      <3> QED BY <2>4, <2>5, <2>8, <3>1 DEF Unrun
    <2>11. \A i, j \in At("async_cancel")' : strand'[i].arg = strand'[j].arg => i = j
      BY <2>6 DEF CancelInv, PendingInv
    <2> QED BY <2>5, <2>6, <2>9, <2>10, <2>11 DEF CancelInv, PendingInv
  <1>6. CASE TransportDone
    <2>1. PICK r \in Results : strand' = Append(strand, Item("on_send", r))
      BY <1>6 DEF TransportDone, Results
    <2>2. UNCHANGED <<issued, current, queue, cancelHandlers, completed, calls, entered, barrier>>
      BY <1>6 DEF TransportDone
    <2>3. At("async_cancel")' = At("async_cancel")
      BY <2>1 DEF At, Item, TypeInv, TypeOK
    <2>4. \A i \in At("async_cancel") : strand'[i] = strand[i]
      <3>1. strand \in Seq(Items)
        BY Zenon DEF TypeInv, TypeOK
      <3>2. \A i \in DOMAIN strand : strand'[i] = strand[i]
        BY <2>1, <3>1
      <3> QED BY <3>2, Zenon DEF At
    <2> QED BY <2>2, <2>3, <2>4 DEF CancelInv, QueueInv, PendingInv, Unrun
  <1>7. CASE StartWrite
    <2>1. /\ UNCHANGED <<issued, strand, current, queue, cancelHandlers, completed>>
          /\ UNCHANGED <<calls, entered, barrier>>
      BY <1>7 DEF StartWrite
    <2> QED BY <2>1 DEF CancelInv, QueueInv, PendingInv, Unrun, At
  <1>8. CASE UNCHANGED vars
    BY <1>8 DEF vars, CancelInv, QueueInv, PendingInv, Unrun, At
  <1> QED BY <1>1, <1>2, <1>3, <1>4, <1>5, <1>6, <1>7, <1>8 DEF Next

LEMMA CancelInvariant == Spec => [](TypeInv /\ CancelInv)
  BY TypeInit, TypeNext, CancelInit, CancelNext, PTL DEF Spec

(* No completion handler of the queue is invoked twice, and m_completed    *)
(* tells which send handlers were invoked.                                 *)
THEOREM HandlersCompleteOnce == Spec => []CompletedOnce
  <1>1. TypeInv /\ CancelInv => CompletedOnce
    <2> SUFFICES ASSUME TypeInv, CancelInv PROVE CompletedOnce
      OBVIOUS
    <2>1. \A h \in Handlers : calls[h] <= 1
      BY DEF CancelInv, QueueInv, Handlers
    <2>2. ASSUME NEW t \in Tasks PROVE t \in completed <=> calls[t] = 1
      <3>1. calls[t] = IF t \in completed THEN 1 ELSE 0
        BY DEF CancelInv, QueueInv
      <3>2. CASE t \in completed BY <3>1, <3>2
      <3>3. CASE t \notin completed BY <3>1, <3>3
      <3> QED BY <3>2, <3>3
    <2> QED BY <2>1, <2>2 DEF CompletedOnce
  <1> QED BY <1>1, CancelInvariant, PTL

(* An async_cancel() handler is a barrier: when it runs, every send the    *)
(* queue had accepted before the call has completed.                       *)
THEOREM CancelIsBarrier == Spec => []CancelBarrier
  <1>1. TypeInv /\ CancelInv => CancelBarrier
    BY DEF CancelInv, QueueInv, CancelBarrier
  <1> QED BY <1>1, CancelInvariant, PTL

(* An idle transport leaves no queued task and no async_cancel() handler   *)
(* waiting.                                                                *)
THEOREM NoLostWakeup == Spec => []NothingWaitsForIdle
  <1>1. TypeInv /\ CancelInv => NothingWaitsForIdle
    BY DEF TypeInv, WireInv, CancelInv, QueueInv, NothingWaitsForIdle
  <1> QED BY <1>1, CancelInvariant, PTL

-----------------------------------------------------------------------------
(***************************************************************************)
(* The order of the writes.  A task enters the queue once: its send item   *)
(* is unique and precedes its acceptance.  What was written precedes what  *)
(* is queued, and both are in the order of acceptance.                     *)
(***************************************************************************)
Before(e, x, y) == \A m, n \in DOMAIN e : e[m] = x /\ e[n] = y => m < n

InOrder(e, s) ==
  /\ Elements(s) \subseteq Elements(e)
  /\ \A i, j \in DOMAIN s : i < j => Before(e, s[i], s[j])

(* What was written, and the task whose write process() is starting. *)
Taken == IF wire = "starting" THEN Append(started, current) ELSE started

LineInv ==
  /\ InOrder(entered, Taken)
  /\ InOrder(entered, queue)
  /\ \A x \in Elements(Taken), y \in Elements(queue) : Before(entered, x, y)

SendsInv ==
  /\ Elements(entered) \subseteq issued
  /\ \A i \in At("send") : strand[i].arg \in issued \ Elements(entered)
  /\ \A i, j \in At("send") : strand[i].arg = strand[j].arg => i = j

LEMMA OrderInit == Init => LineInv /\ SendsInv
  BY DEF Init, Taken, LineInv, SendsInv, InOrder, Before, Elements, At

LEMMA TakenType ==
  ASSUME TypeInv
  PROVE  Taken \in Seq(Tasks)
  <1>1. started \in Seq(Tasks) /\ (wire = "starting" => current \in Tasks)
    BY DEF TypeInv, TypeOK, WireInv
  <1>2. CASE wire = "starting"
    BY <1>1, <1>2 DEF Taken
  <1>3. CASE wire # "starting"
    BY <1>1, <1>3 DEF Taken
  <1> QED BY <1>2, <1>3

(* A step on the strand that takes no task. *)
LEMMA TakenKept ==
  ASSUME StrandFree, wire' # "starting", UNCHANGED started
  PROVE  Taken' = Taken
  BY DEF Taken, StrandFree

LEMMA TakenAppend ==
  ASSUME StrandFree, NEW t, process(t), UNCHANGED started
  PROVE  Taken' = Append(Taken, t)
  BY DEF Taken, StrandFree, process

(* A task accepted now comes after all those accepted earlier. *)
LEMMA EnterOrder ==
  ASSUME NEW e \in Seq(Tasks), NEW t \in Tasks, t \notin Elements(e)
  PROVE  /\ \A x, y \in Elements(e) : Before(e, x, y) => Before(Append(e, t), x, y)
         /\ \A x \in Elements(e) : Before(Append(e, t), x, t)
  <1> DEFINE f == Append(e, t)
  <1>0. /\ Len(e) \in Nat /\ DOMAIN e = 1..Len(e) /\ DOMAIN f = 1..(Len(e) + 1)
        /\ \A m \in 1..Len(e) : f[m] = e[m]
        /\ f[Len(e) + 1] = t
    OBVIOUS
  <1> HIDE DEF f
  <1>1. \A m \in DOMAIN e : e[m] # t
    BY <1>0 DEF Elements
  <1>2. \A m \in DOMAIN f : f[m] \in Elements(e)
          => m \in DOMAIN e /\ f[m] = e[m] /\ m < Len(e) + 1
    BY <1>0
  <1>3. \A n \in DOMAIN f : f[n] = t => n = Len(e) + 1
    BY <1>0, <1>1
  <1>4. ASSUME NEW x \in Elements(e), NEW y \in Elements(e), Before(e, x, y)
        PROVE  Before(f, x, y)
    BY <1>2, <1>4 DEF Before
  <1>5. ASSUME NEW x \in Elements(e) PROVE Before(f, x, t)
    BY <1>2, <1>3 DEF Before
  <1> QED BY <1>4, <1>5 DEF f

(* Extending a sequence of tasks in order by a later task. *)
LEMMA AppendOrder ==
  ASSUME NEW e \in Seq(Tasks), NEW s \in Seq(Tasks), NEW t \in Tasks, InOrder(e, s),
         t \in Elements(e), \A x \in Elements(s) : Before(e, x, t)
  PROVE  InOrder(e, Append(s, t))
  <1> DEFINE r == Append(s, t)
  <1>0. /\ Len(s) \in Nat /\ DOMAIN s = 1..Len(s) /\ DOMAIN r = 1..(Len(s) + 1)
        /\ \A i \in 1..Len(s) : r[i] = s[i]
        /\ r[Len(s) + 1] = t
    OBVIOUS
  <1>1. Elements(r) = Elements(s) \cup {t}
    BY ElementsAppend
  <1> HIDE DEF r
  <1>2. ASSUME NEW i \in DOMAIN r, NEW j \in DOMAIN r, i < j
        PROVE  Before(e, r[i], r[j])
    <2>1. i \in DOMAIN s /\ r[i] = s[i] /\ s[i] \in Elements(s)
      BY <1>0, <1>2 DEF Elements
    <2>2. CASE j \in DOMAIN s
      BY <1>0, <1>2, <2>1, <2>2 DEF InOrder
    <2>3. CASE j = Len(s) + 1
      BY <1>0, <2>1, <2>3
    <2> QED BY <1>0, <2>2, <2>3
  <1>3. InOrder(e, r)
    BY <1>1, <1>2 DEF InOrder
  <1> QED BY <1>3 DEF r

(* What is in order stays so when another task is accepted. *)
LEMMA EnterInOrder ==
  ASSUME NEW e \in Seq(Tasks), NEW t \in Tasks, t \notin Elements(e),
         NEW s \in Seq(Tasks), InOrder(e, s)
  PROVE  /\ InOrder(Append(e, t), s)
         /\ InOrder(Append(e, t), Append(s, t))
  <1>1. Elements(Append(e, t)) = Elements(e) \cup {t}
    BY ElementsAppend
  <1>2. \A x, y \in Elements(e) : Before(e, x, y) => Before(Append(e, t), x, y)
    BY EnterOrder
  <1>3. \A x \in Elements(e) : Before(Append(e, t), x, t)
    BY EnterOrder
  <1>4. \A i \in DOMAIN s : s[i] \in Elements(e)
    BY DEF InOrder, Elements
  <1>5. InOrder(Append(e, t), s)
    BY <1>1, <1>2, <1>4 DEF InOrder
  <1>6. Append(e, t) \in Seq(Tasks) /\ t \in Elements(Append(e, t))
        /\ \A x \in Elements(s) : Before(Append(e, t), x, t)
    BY <1>1, <1>3 DEF InOrder
  <1> QED BY <1>5, <1>6, AppendOrder, Zenon

LEMMA SendOrder ==
  ASSUME TypeInv, QueueInv, LineInv, StrandFree, NEW t \in Tasks, send(t),
         t \notin Elements(entered)
  PROVE  /\ LineInv'
         /\ entered' = entered \/ entered' = Append(entered, t)
  <1>0. queue \in Seq(Tasks) /\ Taken \in Seq(Tasks) /\ entered \in Seq(Tasks)
    BY TakenType DEF TypeInv, TypeOK
  <1>1. CASE UNCHANGED <<queue, entered, wire>>
    <2>1. Taken' = Taken
      BY <1>1, TakenKept DEF send, StrandFree
    <2> QED BY <1>1, <2>1 DEF LineInv
  <1>2. CASE Live(t) /\ current = NoTask
    <2>a. process(t) /\ UNCHANGED started
      BY <1>2 DEF send, Live
    <2>1. /\ queue = <<>> /\ queue' = queue /\ Taken' = Append(Taken, t)
          /\ entered' = Append(entered, t)
      BY <1>2, <2>a, TakenAppend DEF send, Live, QueueInv
    <2>2. InOrder(entered', Taken') /\ InOrder(entered', queue')
      BY <1>0, <2>1, EnterInOrder, Zenon DEF LineInv
    <2>3. Elements(queue') = {}
      BY <2>1 DEF Elements
    <2> QED BY <2>1, <2>2, <2>3, Zenon DEF LineInv
  <1>3. CASE Live(t) /\ current # NoTask
    <2>a. UNCHANGED <<wire, started>>
      BY <1>3 DEF send, Live
    <2>1. queue' = Append(queue, t) /\ Taken' = Taken /\ entered' = Append(entered, t)
      BY <1>3, <2>a, TakenKept DEF send, Live, StrandFree
    <2>2. InOrder(entered', Taken') /\ InOrder(entered', queue')
      BY <1>0, <2>1, EnterInOrder DEF LineInv
    <2>3. Elements(queue') = Elements(queue) \cup {t}
      BY <1>0, <2>1, ElementsAppend
    <2>4. /\ \A x, y \in Elements(entered) : Before(entered, x, y) => Before(entered', x, y)
          /\ \A x \in Elements(entered) : Before(entered', x, t)
      BY <1>0, <2>1, EnterOrder
    <2>5. \A x \in Elements(Taken'), y \in Elements(queue') : Before(entered', x, y)
      BY <2>1, <2>3, <2>4 DEF LineInv, InOrder
    <2> QED BY <2>1, <2>2, <2>5 DEF LineInv
  <1> QED BY <1>1, <1>2, <1>3 DEF send, Live

(* process_next() starts the first task left: it follows all that was      *)
(* written and precedes all that stays queued.                             *)
LEMMA OnSendOrder ==
  ASSUME TypeInv, LineInv, StrandFree, NEW r \in Results, on_send(r)
  PROVE  LineInv' /\ entered' = entered
  <1>0. queue \in Seq(Tasks) /\ Taken \in Seq(Tasks) /\ entered \in Seq(Tasks)
    BY TakenType, Zenon DEF TypeInv, TypeOK
  <1>1. entered' = entered
    BY DEF on_send
  <1>2. CASE Startable = {}
    <2>1. queue' = <<>> /\ Taken' = Taken
      BY <1>2, TakenKept DEF on_send
    <2>2. Elements(queue') = {} /\ DOMAIN queue' = {}
      BY <2>1 DEF Elements
    <2>3. InOrder(entered, queue')
      BY <2>2 DEF InOrder
    <2> QED BY <1>1, <2>1, <2>2, <2>3 DEF LineInv
  <1>3. CASE Startable # {}
    <2>1. PICK k \in Startable : /\ queue' = SubSeq(queue, k + 1, Len(queue))
                                 /\ process(queue[k])
      BY <1>3, Zenon DEF on_send
    <2>a. Taken' = Append(Taken, queue[k])
      BY <2>1, TakenAppend, Zenon DEF on_send
    <2>2. k \in 1..Len(queue) /\ Len(queue) \in Nat /\ DOMAIN queue = 1..Len(queue)
          /\ queue[k] \in Tasks
      BY <1>0 DEF Startable
    <2>3. \A i \in DOMAIN queue' : /\ i + k \in DOMAIN queue
                                   /\ queue'[i] = queue[i + k]
                                   /\ i \in Nat \ {0}
      BY <1>0, <2>1, <2>2
    <2>4. \A i \in DOMAIN queue : queue[i] \in Elements(queue)
      BY DEF Elements
    <2>5. InOrder(entered, Taken')
      <3>1. queue[k] \in Elements(entered) /\ \A x \in Elements(Taken) : Before(entered, x, queue[k])
        BY <2>2, <2>4 DEF LineInv, InOrder
      <3> QED BY <1>0, <2>a, <2>2, <3>1, AppendOrder DEF LineInv
    <2>6. Elements(queue') \subseteq Elements(queue)
      BY <2>3, <2>4 DEF Elements
    <2>7. InOrder(entered, queue')
      <3>1. ASSUME NEW i \in DOMAIN queue', NEW j \in DOMAIN queue', i < j
            PROVE  Before(entered, queue'[i], queue'[j])
        <4>1. i + k < j + k /\ i + k \in DOMAIN queue /\ j + k \in DOMAIN queue
              /\ queue'[i] = queue[i + k] /\ queue'[j] = queue[j + k]
          BY <2>2, <2>3, <3>1
        <4> QED BY <4>1 DEF LineInv, InOrder
      <3> QED BY <2>6, <3>1 DEF LineInv, InOrder
    <2>8. \A y \in Elements(queue') : Before(entered, queue[k], y)
      <3> SUFFICES ASSUME NEW y \in Elements(queue') PROVE Before(entered, queue[k], y)
        OBVIOUS
      <3>1. PICK i \in DOMAIN queue' : y = queue'[i]
        BY DEF Elements
      <3>2. k < i + k /\ i + k \in DOMAIN queue /\ y = queue[i + k]
        BY <2>2, <2>3, <3>1
      <3> QED BY <2>2, <3>2 DEF LineInv, InOrder
    <2>9. Elements(Taken') = Elements(Taken) \cup {queue[k]}
      BY <1>0, <2>a, <2>2, ElementsAppend
    <2> QED BY <1>1, <2>5, <2>6, <2>7, <2>8, <2>9 DEF LineInv
  <1> QED BY <1>1, <1>2, <1>3

LEMMA FlushOrder ==
  ASSUME LineInv, queue' = <<>>, UNCHANGED <<entered, Taken>>
  PROVE  LineInv'
  <1>1. Elements(queue') = {} /\ DOMAIN queue' = {}
    BY DEF Elements
  <1>2. InOrder(entered, queue')
    BY <1>1 DEF InOrder
  <1> QED BY <1>1, <1>2 DEF LineInv

(* A work item accepts no task but the one of its send(). *)
LEMMA RunOrder ==
  ASSUME TypeInv, QueueInv, LineInv, NEW item \in Items, Run(item),
         item.op = "send" => item.arg \notin Elements(entered)
  PROVE  /\ LineInv'
         /\ Elements(entered)' = Elements(entered)
            \/ /\ item.op = "send"
               /\ Elements(entered)' = Elements(entered) \cup {item.arg}
  <1>0. StrandFree
    BY DEF Run
  <1>1. CASE item.op = "send"
    <2>1. item.arg \in Tasks /\ send(item.arg)
      BY <1>1 DEF Items, Run
    <2>2. LineInv' /\ (entered' = entered \/ entered' = Append(entered, item.arg))
      BY <1>0, <1>1, <2>1, SendOrder
    <2>3. Elements(Append(entered, item.arg)) = Elements(entered) \cup {item.arg}
      BY <2>1, ElementsAppend DEF TypeInv, TypeOK
    <2> QED BY <1>1, <2>2, <2>3 DEF Elements
  <1>2. CASE item.op = "on_task_cancel"
    <2>a. UNCHANGED <<queue, entered, started>> /\ wire' # "starting"
      BY <1>0, <1>2 DEF Run, on_task_cancel, emit_cancellation, StrandFree
    <2>1. UNCHANGED <<queue, entered, Taken>>
      BY <1>0, <2>a, TakenKept
    <2> QED BY <2>1 DEF LineInv, Elements
  <1>3. CASE item.op \in {"async_cancel", "cancel"}
    <2>a. PICK acks : cancel_pending(acks)
      BY <1>3, Zenon DEF Run, async_cancel_internal, cancel_internal
    <2>b. queue' = <<>> /\ UNCHANGED <<entered, started>> /\ wire' # "starting"
      BY <1>0, <2>a DEF cancel_pending, emit_cancellation, StrandFree
    <2>1. queue' = <<>> /\ UNCHANGED <<entered, Taken>>
      BY <1>0, <2>b, TakenKept
    <2> QED BY <2>1, FlushOrder, Zenon DEF Elements
  <1>4. CASE item.op = "on_send"
    <2>1. item.arg \in Results /\ on_send(item.arg)
      BY <1>4 DEF Items, Run
    <2> QED BY <1>0, <2>1, OnSendOrder, Zenon DEF Elements
  <1> QED BY <1>1, <1>2, <1>3, <1>4 DEF Run

(* Posting a work item other than a send. *)
LEMMA PostOrder ==
  ASSUME TypeInv, LineInv, SendsInv, NEW item \in Items, item.op # "send",
         strand' = Append(strand, item), UNCHANGED <<queue, entered, Taken>>,
         issued \subseteq issued'
  PROVE  LineInv' /\ SendsInv'
  <1>1. /\ \A i \in DOMAIN strand : i \in DOMAIN strand' /\ strand'[i] = strand[i]
        /\ \A i \in DOMAIN strand' : i \in DOMAIN strand \/ strand'[i] = item
    BY DEF TypeInv, TypeOK
  <1>2. At("send")' = At("send") /\ \A i \in At("send") : strand'[i] = strand[i]
    BY <1>1 DEF At
  <1>3. SendsInv'
    <2>1. Elements(entered)' = Elements(entered)
      BY DEF Elements
    <2> QED BY <1>2, <2>1, ZenonT(60) DEF SendsInv
  <1> QED BY <1>3 DEF LineInv, Elements

(* Running one at once. *)
LEMMA InlineOrder ==
  ASSUME TypeInv, QueueInv, LineInv, SendsInv, NEW item \in Items, item.op # "send",
         Run(item), strand' = strand, issued \subseteq issued'
  PROVE  LineInv' /\ SendsInv'
  <1>1. LineInv' /\ Elements(entered)' = Elements(entered)
    BY RunOrder
  <1>2. At("send")' = At("send")
    BY DEF At
  <1> QED BY <1>1, <1>2 DEF SendsInv

LEMMA OrderNext == TypeInv /\ CancelInv /\ LineInv /\ SendsInv /\ [Next]_vars
                     => LineInv' /\ SendsInv'
  <1> SUFFICES ASSUME TypeInv, CancelInv, LineInv, SendsInv, [Next]_vars
               PROVE  LineInv' /\ SendsInv'
    OBVIOUS
  <1>0. QueueInv
    BY DEF CancelInv
  <1>1. ASSUME NEW t \in Tasks, async_send(t) PROVE LineInv' /\ SendsInv'
    <2> DEFINE item == Item("send", t)
    <2>1. item \in Items /\ item.op = "send" /\ item.arg = t
      BY DEF Item, Items
    <2>2. t \notin issued /\ issued' = issued \cup {t} /\ t \notin Elements(entered)
      BY <1>1, Zenon DEF async_send, SendsInv
    <2>3. CASE Post(item)
      <3>1. /\ \A i \in DOMAIN strand : i \in DOMAIN strand' /\ strand'[i] = strand[i]
            /\ \A i \in DOMAIN strand' : \/ i \in DOMAIN strand
                                         \/ i = Len(strand) + 1 /\ strand'[i] = item
        BY <2>3 DEF Post, TypeInv, TypeOK
      <3>2. UNCHANGED <<queue, entered, Taken>>
        BY <2>3 DEF Post, Taken
      <3> HIDE DEF item
      <3>3. \A i \in At("send")' :
              \/ i \in At("send") /\ strand'[i] = strand[i]
              \/ i = Len(strand) + 1 /\ strand'[i].arg = t
        BY <2>1, <3>1 DEF At
      <3>4. \A i \in At("send") : strand[i].arg # t
        BY <2>2 DEF SendsInv
      <3>5. \A i \in At("send")' : strand'[i].arg \in issued' \ Elements(entered)
        BY <2>2, <3>3 DEF SendsInv
      <3>6. \A i, j \in At("send")' : strand'[i].arg = strand'[j].arg => i = j
        BY <3>3, <3>4 DEF SendsInv
      <3> QED BY <2>2, <3>2, <3>5, <3>6 DEF LineInv, SendsInv, Elements
    <2>4. CASE Run(item) /\ strand' = strand
      <3> HIDE DEF item
      <3>1. /\ LineInv'
            /\ Elements(entered)' \subseteq Elements(entered) \cup {t}
        BY <1>0, <2>1, <2>2, <2>4, RunOrder
      <3>2. At("send")' = At("send")
        BY <2>4 DEF At
      <3>3. \A i \in At("send") : strand[i].arg # t
        BY <2>2 DEF SendsInv
      <3> QED BY <2>2, <2>4, <3>1, <3>2, <3>3 DEF SendsInv
    <2> QED BY <1>1, <2>3, <2>4 DEF async_send, Dispatch
  <1>2. ASSUME NEW t \in Tasks, EmitSlot(t) PROVE LineInv' /\ SendsInv'
    <2>1. Item("on_task_cancel", t) \in Items /\ Item("on_task_cancel", t).op # "send"
      BY DEF Item, Items
    <2>2. CASE Post(Item("on_task_cancel", t))
      <3>1. UNCHANGED <<queue, entered, Taken>>
        BY <2>2 DEF Post, Taken
      <3> QED BY <1>2, <2>1, <2>2, <3>1, PostOrder DEF EmitSlot, Post
    <2>3. CASE StrandFree /\ on_task_cancel(t) /\ UNCHANGED strand
      <3>a. UNCHANGED started /\ wire' # "starting"
        BY <2>3 DEF on_task_cancel, emit_cancellation, StrandFree
      <3>b. Taken' = Taken
        BY <2>3, <3>a, TakenKept
      <3>1. /\ queue' = queue /\ entered' = entered /\ Taken' = Taken
            /\ strand' = strand /\ issued' = issued
        BY <1>2, <2>3, <3>b, Zenon DEF on_task_cancel, EmitSlot
      <3>2. At("send")' = At("send")
        BY <3>1 DEF At
      <3>3. LineInv'
        BY <3>1 DEF LineInv
      <3>4. SendsInv'
        BY <3>1, <3>2 DEF SendsInv
      <3> QED BY <3>3, <3>4
    <2> QED BY <1>2, <2>2, <2>3, Zenon DEF EmitSlot
  <1>3. ASSUME NEW c \in AsyncCancels, async_cancel(c) PROVE LineInv' /\ SendsInv'
    <2>1. Item("async_cancel", c) \in Items /\ Item("async_cancel", c).op # "send"
      BY DEF Item, Items
    <2>2. issued \subseteq issued'
      BY <1>3 DEF async_cancel
    <2>3. CASE Post(Item("async_cancel", c))
      <3>1. UNCHANGED <<queue, entered, Taken>>
        BY <2>3 DEF Post, Taken
      <3> QED BY <2>1, <2>2, <2>3, <3>1, PostOrder, ZenonT(60) DEF Post
    <2>4. CASE Run(Item("async_cancel", c)) /\ UNCHANGED strand
      BY <1>0, <2>1, <2>2, <2>4, InlineOrder, ZenonT(60)
    <2> QED BY <1>3, <2>3, <2>4, Zenon DEF async_cancel, Dispatch
  <1>4. ASSUME NEW c \in Cancels, cancel(c) PROVE LineInv' /\ SendsInv'
    <2>1. Item("cancel", c) \in Items /\ Item("cancel", c).op # "send"
      BY DEF Item, Items
    <2>2. issued \subseteq issued'
      BY <1>4 DEF cancel
    <2>3. CASE Post(Item("cancel", c))
      <3>1. UNCHANGED <<queue, entered, Taken>>
        BY <2>3 DEF Post, Taken
      <3> QED BY <2>1, <2>2, <2>3, <3>1, PostOrder, ZenonT(60) DEF Post
    <2>4. CASE Run(Item("cancel", c)) /\ UNCHANGED strand
      BY <1>0, <2>1, <2>2, <2>4, InlineOrder, ZenonT(60)
    <2> QED BY <1>4, <2>3, <2>4, Zenon DEF cancel, Dispatch
  <1>5. CASE StrandStep
    <2> DEFINE item == Head(strand)
    <2>1. /\ item \in Items /\ item = strand[1] /\ 1 \in DOMAIN strand
          /\ \A i \in DOMAIN strand' : /\ strand'[i] = strand[i + 1]
                                       /\ i \in Nat \ {0}
                                       /\ i + 1 \in DOMAIN strand
      BY <1>5 DEF StrandStep, TypeInv, TypeOK
    <2>2. Run(item) /\ issued' = issued
      BY <1>5 DEF StrandStep
    <2> HIDE DEF item
    <2>3. item.op = "send" => 1 \in At("send") /\ item.arg \in issued \ Elements(entered)
      BY <2>1 DEF At, SendsInv
    <2>4. /\ LineInv'
          /\ Elements(entered)' = Elements(entered)
             \/ /\ item.op = "send"
                /\ Elements(entered)' = Elements(entered) \cup {item.arg}
      BY <1>0, <2>1, <2>2, <2>3, RunOrder
    <2>5. \A i \in At("send")' : /\ i + 1 \in At("send")
                                 /\ strand'[i] = strand[i + 1]
                                 /\ i \in Nat \ {0}
      BY <2>1 DEF At
    <2>6. \A i \in At("send")' : item.op = "send" => strand'[i].arg # item.arg
      BY <2>1, <2>3, <2>5 DEF SendsInv
    <2>7. \A i, j \in At("send")' : strand'[i].arg = strand'[j].arg => i = j
      BY <2>5 DEF SendsInv
    <2>8. \A i \in At("send")' : strand'[i].arg \in issued' \ Elements(entered)'
      BY <2>2, <2>4, <2>5, <2>6 DEF SendsInv
    <2>9. Elements(entered)' \subseteq issued'
      BY <2>2, <2>3, <2>4 DEF SendsInv
    <2> QED BY <2>4, <2>7, <2>8, <2>9 DEF SendsInv
  <1>6. CASE TransportDone
    <2>1. PICK r \in Results : strand' = Append(strand, Item("on_send", r))
      BY <1>6 DEF TransportDone, Results
    <2>2. UNCHANGED <<issued, queue, entered, Taken>>
      BY <1>6 DEF TransportDone, Taken
    <2>3. Item("on_send", r) \in Items /\ Item("on_send", r).op # "send"
      BY DEF Item, Items
    <2> QED BY <2>1, <2>2, <2>3, PostOrder
  <1>7. CASE StartWrite \/ UNCHANGED vars
    <2>1. /\ queue' = queue /\ entered' = entered /\ Taken' = Taken
          /\ strand' = strand /\ issued' = issued
      BY <1>7, Zenon DEF StartWrite, Taken, vars
    <2>2. At("send")' = At("send")
      BY <2>1 DEF At
    <2>3. LineInv'
      BY <2>1 DEF LineInv
    <2>4. SendsInv'
      BY <2>1, <2>2 DEF SendsInv
    <2> QED BY <2>3, <2>4
  <1> QED BY <1>1, <1>2, <1>3, <1>4, <1>5, <1>6, <1>7 DEF Next

(* Writes reach the transport in the order in which send() accepted the    *)
(* tasks and each at most once, whichever tasks cancel_pending() and       *)
(* process_next() take out of the queue in between.                        *)
THEOREM WritesKeepOrder == Spec => []OrderedWrites
  <1>1. TypeInv /\ LineInv => OrderedWrites
    <2> SUFFICES ASSUME TypeInv, LineInv PROVE OrderedWrites
      OBVIOUS
    <2>1. started \in Seq(Tasks) /\ (wire = "starting" => current \in Tasks)
      BY DEF TypeInv, TypeOK, WireInv
    <2>2. \A i \in DOMAIN started : i \in DOMAIN Taken /\ Taken[i] = started[i]
      BY <2>1 DEF Taken
    <2> QED BY <2>2 DEF LineInv, InOrder, Before, OrderedWrites
  <1>2. Spec => [](TypeInv /\ CancelInv /\ LineInv /\ SendsInv)
    BY TypeInit, TypeNext, CancelInit, CancelNext, OrderInit, OrderNext, PTL DEF Spec
  <1> QED BY <1>1, <1>2, PTL

-----------------------------------------------------------------------------
(***************************************************************************)
(* A cancellation and the write it is meant for.  m_current has been taken *)
(* and has not completed, so on_task_cancel() does not return early for it;*)
(* and from the moment its flag is set until its write is aborted, the     *)
(* on_task_cancel() of its slot is in the strand.                          *)
(***************************************************************************)
Unaborted == wire \in {"starting", "writing"}

ActiveInv == current # NoTask => current \in Elements(Taken) \ completed

ReachInv == ActiveInv /\ CancelReachesWrite

LEMMA ReachInit == Init => ReachInv
  BY DEF Init, ReachInv, ActiveInv, CancelReachesWrite

(* A task that was taken was accepted, and it is not in the queue. *)
LEMMA ActiveNotQueued ==
  ASSUME TypeInv, LineInv, ActiveInv, current # NoTask
  PROVE  current \in Elements(entered) /\ current \notin Elements(queue)
  <1>1. current \in Elements(Taken) /\ current \in Elements(entered)
    BY DEF ActiveInv, LineInv, InOrder
  <1>2. PICK m \in DOMAIN entered : entered[m] = current
    BY <1>1 DEF Elements
  <1>3. m \in Nat /\ ~ (m < m)
    BY DEF TypeInv, TypeOK
  <1>4. ~ Before(entered, current, current)
    BY <1>2, <1>3 DEF Before
  <1> QED BY <1>1, <1>4 DEF LineInv

(* No task is in the queue twice. *)
LEMMA QueuedOnce ==
  ASSUME TypeInv, LineInv, NEW i \in DOMAIN queue, NEW k \in DOMAIN queue, i < k
  PROVE  queue[i] # queue[k]
  <1>1. Before(entered, queue[i], queue[k])
    BY DEF LineInv, InOrder
  <1>2. queue[k] \in Elements(entered)
    BY DEF LineInv, InOrder, Elements
  <1>3. PICK m \in DOMAIN entered : entered[m] = queue[k]
    BY <1>2 DEF Elements
  <1>4. m \in Nat /\ ~ (m < m)
    BY DEF TypeInv, TypeOK
  <1> QED BY <1>1, <1>3, <1>4 DEF Before

(* After a strand step a cancelled write that is not being aborted is the  *)
(* one it was before, and the step was not its on_task_cancel().           *)
Persists(item) ==
  (current' \in cancelled' /\ Unaborted')
    => /\ current' = current
       /\ current \in cancelled
       /\ Unaborted
       /\ item # Item("on_task_cancel", current)

LEMMA SendReach ==
  ASSUME TypeInv, LineInv, ActiveInv, StrandFree, NEW t \in Tasks, send(t),
         t \notin Elements(entered)
  PROVE  ActiveInv' /\ Persists(Item("send", t))
  <1>0. Item("send", t) # Item("on_task_cancel", current)
    BY DEF Item
  <1>1. CASE UNCHANGED <<current, wire, completed>>
    <2>1. UNCHANGED <<current, wire, completed, cancelled, started>>
      BY <1>1 DEF send
    <2>2. Taken' = Taken
      BY <2>1 DEF Taken
    <2> QED BY <1>0, <2>1, <2>2 DEF ActiveInv, Persists, Unaborted
  <1>2. CASE t \in cancelled \ completed
    <2>1. UNCHANGED <<current, wire, cancelled, started>> /\ completed' = completed \cup {t}
      BY <1>2 DEF send, Live, Complete, AllCancelled
    <2>2. Taken' = Taken
      BY <2>1 DEF Taken
    <2>3. current # NoTask => current # t
      BY ActiveNotQueued
    <2>4. ActiveInv'
      BY <2>1, <2>2, <2>3 DEF ActiveInv
    <2> QED BY <1>0, <2>1, <2>4 DEF Persists, Unaborted
  <1>3. CASE Live(t) /\ current = NoTask
    <2>1. /\ process(t) /\ UNCHANGED <<started, completed, cancelled>>
          /\ current' = t /\ t \notin completed \cup cancelled
      BY <1>3 DEF send, Live, process
    <2>2. Taken' = Append(Taken, t)
      BY <2>1, TakenAppend
    <2>3. Elements(Taken') = Elements(Taken) \cup {t}
      BY <2>2, TakenType, ElementsAppend
    <2>4. t \in Elements(Taken')
      BY <2>3
    <2>5. ActiveInv'
      BY <2>1, <2>4 DEF ActiveInv, Elements
    <2> QED BY <2>1, <2>5 DEF Persists
  <1> QED BY <1>1, <1>2, <1>3 DEF send, Live

LEMMA OnTaskCancelReach ==
  ASSUME TypeInv, LineInv, ActiveInv, StrandFree, NEW t \in Tasks, on_task_cancel(t),
         cancelled' \in {cancelled, cancelled \cup {t}}
  PROVE  ActiveInv' /\ Persists(Item("on_task_cancel", t))
  <1>0. UNCHANGED <<current, started>> /\ wire' # "starting" /\ wire # "starting"
    BY DEF on_task_cancel, emit_cancellation, StrandFree
  <1>1. Taken' = Taken
    BY <1>0, TakenKept DEF StrandFree
  <1>2. current # NoTask => current \notin completed
    BY DEF ActiveInv
  <1>3. current = NoTask => wire' = "idle" /\ current \notin Tasks
    BY CallsDistinct DEF on_task_cancel, emit_cancellation, TypeInv, WireInv
  <1>4. CASE t = current
    <2>1. completed' = completed /\ wire' # "writing"
      BY <1>2, <1>3, <1>4 DEF on_task_cancel, emit_cancellation
    <2> QED BY <1>0, <1>1, <2>1 DEF ActiveInv, Persists, Unaborted
  <1>5. CASE t # current
    <2>1. completed' \subseteq completed \cup {t} /\ wire' = wire
      BY <1>5 DEF on_task_cancel, Complete, AllCancelled
    <2>2. Item("on_task_cancel", t) # Item("on_task_cancel", current)
      BY <1>5 DEF Item
    <2>3. current \in cancelled' => current \in cancelled
      BY <1>5
    <2>4. ActiveInv'
      BY <1>0, <1>1, <1>5, <2>1 DEF ActiveInv
    <2> QED BY <1>0, <2>1, <2>2, <2>3, <2>4 DEF Persists, Unaborted
  <1> QED BY <1>4, <1>5

LEMMA CancelPendingReach ==
  ASSUME TypeInv, LineInv, ActiveInv, StrandFree, NEW acks, cancel_pending(acks), NEW item
  PROVE  ActiveInv' /\ Persists(item)
  <1>0. /\ UNCHANGED <<current, started>> /\ wire' \notin {"starting", "writing"}
        /\ completed' = completed \cup Elements(queue)
    BY DEF cancel_pending, emit_cancellation, StrandFree, Complete, AllCancelled,
           TypeInv, WireInv
  <1>1. Taken' = Taken
    BY <1>0, TakenKept
  <1>2. ActiveInv'
    BY <1>0, <1>1, ActiveNotQueued DEF ActiveInv
  <1> QED BY <1>0, <1>2 DEF Persists, Unaborted

LEMMA OnSendReach ==
  ASSUME TypeInv, LineInv, ActiveInv, StrandFree, NEW r \in Results, on_send(r),
         wire = "done", NEW item
  PROVE  ActiveInv' /\ Persists(item)
  <1>0. queue \in Seq(Tasks) /\ current # NoTask
    BY DEF TypeInv, TypeOK, WireInv
  <1>1. CASE Startable = {}
    <2>1. current' = NoTask /\ wire' = "idle"
      BY <1>1 DEF on_send
    <2> QED BY <2>1 DEF ActiveInv, Persists, Unaborted
  <1>2. CASE Startable # {}
    <2>1. PICK k \in Startable :
            /\ Complete([t \in {current} \cup {queue[i] : i \in 1..(k - 1)} |->
                          IF t = current THEN r ELSE "cancelled"], cancelHandlers)
            /\ process(queue[k])
      BY <1>2, Zenon DEF on_send
    <2>2. k \in DOMAIN queue /\ queue[k] \notin completed \cup cancelled /\ queue[k] \in Tasks
      BY <1>0 DEF Startable, Live
    <2>3. completed' = completed \cup {current} \cup {queue[i] : i \in 1..(k - 1)}
      BY <2>1 DEF Complete
    <2>4. queue[k] # current
      BY <1>0, <2>2, ActiveNotQueued DEF Elements
    <2>5. \A i \in 1..(k - 1) : queue[i] # queue[k]
      <3>1. \A i \in 1..(k - 1) : i \in DOMAIN queue /\ i < k
        BY <1>0, <2>2
      <3> QED BY <2>2, <3>1, QueuedOnce
    <2>6. queue[k] \notin completed'
      BY <2>2, <2>3, <2>4, <2>5
    <2>7. current' = queue[k] /\ UNCHANGED <<started, cancelled>>
      BY <2>1, Zenon DEF on_send, process
    <2>8. Taken' = Append(Taken, queue[k])
      BY <2>1, <2>7, TakenAppend, Zenon
    <2>9. queue[k] \in Elements(Taken')
      BY <2>2, <2>8, TakenType, ElementsAppend
    <2>10. ActiveInv'
      BY <2>6, <2>7, <2>9 DEF ActiveInv, Elements
    <2> QED BY <2>2, <2>7, <2>10 DEF Persists
  <1> QED BY <1>1, <1>2

LEMMA RunReach ==
  ASSUME TypeInv, LineInv, ActiveInv, NEW item \in Items, Run(item),
         item.op = "on_send" => wire = "done",
         item.op = "send" => item.arg \notin Elements(entered)
  PROVE  ActiveInv' /\ Persists(item)
  <1>0. StrandFree
    BY DEF Run
  <1>1. CASE item.op = "send"
    <2>1. item.arg \in Tasks /\ send(item.arg) /\ item = Item("send", item.arg)
      BY <1>1 DEF Items, Run, Item
    <2> QED BY <1>0, <1>1, <2>1, SendReach
  <1>2. CASE item.op = "on_task_cancel"
    <2>1. /\ item.arg \in Tasks /\ on_task_cancel(item.arg) /\ cancelled' = cancelled
          /\ item = Item("on_task_cancel", item.arg)
      BY <1>2 DEF Items, Run, Item
    <2> QED BY <1>0, <2>1, OnTaskCancelReach
  <1>3. CASE item.op \in {"async_cancel", "cancel"}
    <2>1. PICK acks : cancel_pending(acks)
      BY <1>3, Zenon DEF Run, async_cancel_internal, cancel_internal
    <2> QED BY <1>0, <2>1, CancelPendingReach, Zenon
  <1>4. CASE item.op = "on_send"
    <2>1. item.arg \in Results /\ on_send(item.arg)
      BY <1>4 DEF Items, Run
    <2> QED BY <1>0, <1>4, <2>1, OnSendReach, Zenon
  <1> QED BY <1>1, <1>2, <1>3, <1>4 DEF Run

(* A work item of the others leaves an on_task_cancel() in the strand. *)
LEMMA InlineReach ==
  ASSUME TypeInv, LineInv, ReachInv, NEW item \in Items, Run(item), strand' = strand,
         item.op # "on_send", item.op = "send" => item.arg \notin Elements(entered)
  PROVE  ReachInv'
  <1>1. ActiveInv' /\ Persists(item)
    BY RunReach DEF ReachInv
  <1> QED BY <1>1 DEF ReachInv, CancelReachesWrite, Persists, Unaborted

LEMMA PostReach ==
  ASSUME TypeInv, ReachInv, NEW item \in Items, strand' = Append(strand, item),
         UNCHANGED <<current, completed, Taken>>,
         Unaborted' => Unaborted,
         current \in cancelled' => current \in cancelled \/ item = Item("on_task_cancel", current)
  PROVE  ReachInv'
  <1>1. /\ \A i \in DOMAIN strand : i \in DOMAIN strand' /\ strand'[i] = strand[i]
        /\ Len(strand) + 1 \in DOMAIN strand' /\ strand'[Len(strand) + 1] = item
    BY DEF TypeInv, TypeOK
  <1>2. ActiveInv'
    BY DEF ReachInv, ActiveInv
  <1>3. CancelReachesWrite'
    <2> SUFFICES ASSUME current \in cancelled', Unaborted'
                 PROVE  \E i \in DOMAIN strand' : strand'[i] = Item("on_task_cancel", current)
      BY DEF CancelReachesWrite, Unaborted
    <2>1. CASE item = Item("on_task_cancel", current)
      BY <1>1, <2>1
    <2>2. CASE current \in cancelled
      <3>1. PICK i \in DOMAIN strand : strand[i] = Item("on_task_cancel", current)
        BY <2>2 DEF ReachInv, CancelReachesWrite, Unaborted
      <3> QED BY <1>1, <3>1
    <2> QED BY <2>1, <2>2
  <1> QED BY <1>2, <1>3 DEF ReachInv

LEMMA ReachNext ==
  TypeInv /\ LineInv /\ SendsInv /\ ReachInv /\ [Next]_vars => ReachInv'
  <1> SUFFICES ASSUME TypeInv, LineInv, SendsInv, ReachInv, [Next]_vars PROVE ReachInv'
    OBVIOUS
  <1>a. ASSUME NEW item \in Items, Dispatch(item), item.op # "on_send",
               item.op = "send" => item.arg \notin Elements(entered)
        PROVE  ReachInv'
    <2>1. CASE Post(item) /\ UNCHANGED cancelled
      <3>1. /\ UNCHANGED <<current, completed, Taken, wire, cancelled>>
            /\ strand' = Append(strand, item)
        BY <2>1 DEF Post, Taken
      <3> QED BY <3>1, PostReach DEF Unaborted
    <2>2. CASE Run(item) /\ UNCHANGED strand
      BY <1>a, <2>2, InlineReach
    <2> QED BY <1>a, <2>1, <2>2 DEF Dispatch
  <1>1. ASSUME NEW t \in Tasks, async_send(t) PROVE ReachInv'
    <2>1. /\ Item("send", t) \in Items /\ Item("send", t).op = "send"
          /\ Item("send", t).arg = t /\ t \notin Elements(entered)
      BY <1>1 DEF Item, Items, async_send, SendsInv
    <2> QED BY <1>a, <1>1, <2>1 DEF async_send
  <1>2. ASSUME NEW t \in Tasks, EmitSlot(t) PROVE ReachInv'
    <2>1. Item("on_task_cancel", t) \in Items
      BY DEF Item, Items
    <2>2. cancelled' = cancelled \cup {t}
      BY <1>2 DEF EmitSlot
    <2>3. CASE Post(Item("on_task_cancel", t))
      <3>1. /\ UNCHANGED <<current, completed, Taken, wire>>
            /\ strand' = Append(strand, Item("on_task_cancel", t))
        BY <2>3 DEF Post, Taken
      <3> QED BY <2>1, <2>2, <3>1, PostReach DEF Unaborted
    <2>4. CASE StrandFree /\ on_task_cancel(t) /\ UNCHANGED strand
      <3>1. ActiveInv' /\ Persists(Item("on_task_cancel", t))
        BY <2>2, <2>4, OnTaskCancelReach DEF ReachInv
      <3> QED BY <2>4, <3>1 DEF ReachInv, CancelReachesWrite, Persists, Unaborted
    <2> QED BY <1>2, <2>3, <2>4 DEF EmitSlot
  <1>3. ASSUME NEW c \in AsyncCancels, async_cancel(c) PROVE ReachInv'
    <2>1. Item("async_cancel", c) \in Items /\ Item("async_cancel", c).op = "async_cancel"
      BY DEF Item, Items
    <2> QED BY <1>a, <1>3, <2>1 DEF async_cancel
  <1>4. ASSUME NEW c \in Cancels, cancel(c) PROVE ReachInv'
    <2>1. Item("cancel", c) \in Items /\ Item("cancel", c).op = "cancel"
      BY DEF Item, Items
    <2> QED BY <1>a, <1>4, <2>1 DEF cancel
  <1>5. CASE StrandStep
    <2> DEFINE item == Head(strand)
    <2>1. /\ item \in Items /\ item = strand[1] /\ 1 \in DOMAIN strand
          /\ \A i \in DOMAIN strand : i # 1 => /\ i - 1 \in DOMAIN strand'
                                               /\ strand'[i - 1] = strand[i]
      BY <1>5 DEF StrandStep, TypeInv, TypeOK
    <2>2. Run(item)
      BY <1>5 DEF StrandStep
    <2> HIDE DEF item
    <2>3. /\ item.op = "on_send" => wire = "done"
          /\ item.op = "send" => item.arg \notin Elements(entered)
      BY <2>1 DEF At, TypeInv, WireInv, SendsInv
    <2>4. ActiveInv' /\ Persists(item)
      BY <2>1, <2>2, <2>3, RunReach DEF ReachInv
    <2>5. CancelReachesWrite'
      <3> SUFFICES ASSUME current' \in cancelled', Unaborted'
                   PROVE  \E i \in DOMAIN strand' :
                            strand'[i] = Item("on_task_cancel", current')
        BY DEF CancelReachesWrite, Unaborted, Item
      <3>1. /\ current' = current /\ current \in cancelled /\ Unaborted
            /\ item # Item("on_task_cancel", current)
        BY <2>4 DEF Persists
      <3>2. PICK i \in DOMAIN strand : strand[i] = Item("on_task_cancel", current)
        BY <3>1 DEF ReachInv, CancelReachesWrite, Unaborted
      <3> QED BY <2>1, <3>1, <3>2
    <2> QED BY <2>4, <2>5 DEF ReachInv
  <1>6. CASE TransportDone
    <2>1. PICK r \in Results : strand' = Append(strand, Item("on_send", r))
      BY <1>6 DEF TransportDone, Results
    <2>2. UNCHANGED <<current, completed, Taken, cancelled>> /\ wire' = "done"
      BY <1>6 DEF TransportDone, Taken
    <2>3. Item("on_send", r) \in Items
      BY DEF Item, Items
    <2> QED BY <2>1, <2>2, <2>3, PostReach DEF Unaborted
  <1>7. CASE StartWrite \/ UNCHANGED vars
    <2>1. /\ UNCHANGED <<current, completed, Taken, strand, cancelled>>
          /\ Unaborted' => Unaborted
      BY <1>7, Zenon DEF StartWrite, Taken, Unaborted, vars
    <2> QED BY <2>1 DEF ReachInv, ActiveInv, CancelReachesWrite, Unaborted
  <1> QED BY <1>1, <1>2, <1>3, <1>4, <1>5, <1>6, <1>7 DEF Next

(* A slot emitted while process() is between its look at m_cancelled and   *)
(* async_send_func() still reaches the write: until the write is aborted   *)
(* the task's on_task_cancel() is waiting for the strand, and it will find *)
(* the task current and not completed.                                     *)
THEOREM CancellationReachesWrite == Spec => []CancelReachesWrite
  <1>1. Spec => [](TypeInv /\ CancelInv /\ LineInv /\ SendsInv /\ ReachInv)
    BY TypeInit, TypeNext, CancelInit, CancelNext, OrderInit, OrderNext, ReachInit,
       ReachNext, PTL DEF Spec
  <1>2. ReachInv => CancelReachesWrite
    BY DEF ReachInv
  <1> QED BY <1>1, <1>2, PTL
=============================================================================
