----------------------------- MODULE RunContract -----------------------------
(***************************************************************************)
(* What the parts with async_run and cancel promise (the WebTTY server,    *)
(* its sessions, the WebTTY client, the tools): async_run completes at     *)
(* most once, and a cancel makes it complete unless the run is held up by  *)
(* something it has no power over.  The detailed modules are shown to      *)
(* implement this one.                                                     *)
(***************************************************************************)

VARIABLES
  phase,   \* "idle", "running" (the handler is held), "done" (it was invoked)
  asked,   \* the run was asked to stop
  held     \* the run waits for what it cannot end: a child it is not allowed to kill

contractVars == <<phase, asked>>

Init == phase = "idle" /\ asked = FALSE

(* A run that cannot start ends in the step that starts it. *)
Run == phase = "idle" /\ phase' \in {"running", "done"} /\ UNCHANGED asked

Ask == phase = "running" /\ ~asked /\ asked' = TRUE /\ UNCHANGED phase

(* A run may also end by itself, and it may end in the step that asks. *)
Finish == phase = "running" /\ phase' = "done" /\ asked' \in {asked, TRUE}

Next == Run \/ Ask \/ Finish

Spec == Init /\ [][Next]_contractVars /\ WF_contractVars(asked /\ ~held /\ Finish)
=============================================================================
