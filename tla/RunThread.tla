----------------------------- MODULE RunThread -----------------------------
(***************************************************************************)
(* What the report queue knows of one workflow run: the status in the run  *)
(* store (state.json) and the thread that runs it.  The run thread looks   *)
(* for a cancel before it saves a status, so between its look and its save *)
(* it has a plan; a cancel that is saved in between is overwritten.        *)
(* ReportQueue drives one such thread per task, WorkflowRun implements it. *)
(***************************************************************************)

VARIABLES
  store,   \* "none" before the run is created; "running" is every status that
           \* is not an end
  thread,  \* "none" before it is started, "alive", "ended"
  plan     \* the status the run thread is about to save

runVars == <<store, thread, plan>>

RunStatus == {"none", "running", "completed", "failed", "cancelled"}
RunEnd    == {"completed", "failed", "cancelled"}

Init == store = "none" /\ thread \in {"none", "alive"} /\ plan = "none"

Start ==
  /\ thread = "none" /\ thread' = "alive"
  /\ UNCHANGED <<store, plan>>

\* create_run; a run that fails its boot checks is created to be failed.
Create ==
  /\ thread = "alive" /\ store = "none"
  /\ store' = "running" /\ plan' \in {"none", "failed"}
  /\ UNCHANGED thread

\* The look for a cancel found none, and a status is decided.
Decide ==
  /\ thread = "alive" /\ store = "running" /\ plan = "none"
  /\ plan' \in {"running", "completed", "failed"}
  /\ UNCHANGED <<store, thread>>

Save ==
  /\ thread = "alive" /\ plan # "none"
  /\ store' = plan /\ plan' = "none"
  /\ UNCHANGED thread

Exit ==
  /\ thread = "alive" /\ store \in RunEnd /\ plan = "none"
  /\ thread' = "ended"
  /\ UNCHANGED <<store, plan>>

\* An exception ends the run thread and leaves the run store as it is.
Die ==
  /\ thread = "alive"
  /\ thread' = "ended" /\ plan' = "none"
  /\ UNCHANGED store

\* Another thread saves CANCELLED over the status it has loaded before.
Cancel ==
  /\ store # "none" /\ store' = "cancelled"
  /\ UNCHANGED <<thread, plan>>

Next == Start \/ Create \/ Decide \/ Save \/ Exit \/ Die \/ Cancel

Spec == Init /\ [][Next]_runVars

=============================================================================
