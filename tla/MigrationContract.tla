-------------------------- MODULE MigrationContract --------------------------
(***************************************************************************)
(* What a pyxcloud_migration resource promises, without keys, channels or  *)
(* goroutines: one run at a time, and a recorded verdict that never claims *)
(* more than the migration did.  MigrationRun is shown to implement it.    *)
(***************************************************************************)
VARIABLES
  running,      \* a run is under way
  progress,     \* "none", "partial", "complete" or "failed": what it did so far
  interrupted,  \* its time ran out or it was cancelled
  recorded      \* the stored verdict, "absent" when there is no resource

vars == <<running, progress, interrupted, recorded>>

Init ==
  /\ running = FALSE
  /\ progress = "none"
  /\ interrupted = FALSE
  /\ recorded = "absent"

\* A new run starts from scratch; the old verdict stays until it ends.
Begin ==
  /\ ~running
  /\ running' = TRUE
  /\ progress' = "none"
  /\ interrupted' = FALSE
  /\ UNCHANGED recorded

\* Work only ever moves forward, and a failed migration does not go on.
Work ==
  /\ running
  /\ \/ progress = "none" /\ progress' \in {"partial", "complete", "failed"}
     \/ progress = "partial" /\ progress' \in {"complete", "failed"}
  /\ UNCHANGED <<running, interrupted, recorded>>

Interrupt ==
  /\ running
  /\ interrupted' = TRUE
  /\ UNCHANGED <<running, progress, recorded>>

\* A run may give up before it touched anything: the old verdict stands.
GiveUp ==
  /\ running
  /\ progress = "none"
  /\ running' = FALSE
  /\ UNCHANGED <<progress, interrupted, recorded>>

\* A run that did something ends with the verdict that tells what it did, or
\* with none if it was interrupted.
Conclude ==
  /\ running
  /\ \/ progress = "complete" /\ recorded' = "success"
     \/ progress = "failed" /\ recorded' = "rolled-back"
     \/ interrupted /\ recorded' = "none"
  /\ running' = FALSE
  /\ UNCHANGED <<progress, interrupted>>

\* A disabled migration and a deletion change the record alone.
Forget ==
  /\ ~running
  /\ recorded' \in {"none", "absent"}
  /\ UNCHANGED <<running, progress, interrupted>>

Next == Begin \/ Work \/ Interrupt \/ GiveUp \/ Conclude \/ Forget

Spec == Init /\ [][Next]_vars
=============================================================================
