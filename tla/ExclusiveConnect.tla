-------------------------- MODULE ExclusiveConnect --------------------------
(***************************************************************************)
(* What the connection coordinator promises to the flows that connect one  *)
(* instance, whichever service they belong to: they run one at a time, and *)
(* a flow that Evolution GO told that the instance is removed has it to    *)
(* itself: no other begins, and it does not end, before it has tried to    *)
(* create the instance again.  Nothing is promised after an error: a       *)
(* delete may have been carried out or a create not, and the flow gives up *)
(* with the instance lost.  So does a crash in between.                    *)
(***************************************************************************)
CONSTANTS
  Tasks,        \* those that may run a connect flow
  NoTask        \* no flow is running

VARIABLES
  holder,       \* the task whose connect flow is running, or NoTask
  evo           \* the instance inside Evolution GO: present, gap, lost

vars == <<holder, evo>>

Init == holder = NoTask /\ evo = "present"

(* A flow begins: LockInstance returns.                                    *)
Begin(t) ==
  /\ holder = NoTask
  /\ evo # "gap"
  /\ holder' = t
  /\ UNCHANGED evo

(* The running flow removes the instance, or gives up over an error        *)
(* although it is removed.                                                 *)
Delete(t) ==
  /\ holder = t
  /\ evo' \in {"gap", "lost"}
  /\ UNCHANGED holder

(* It creates the instance again, or fails to.                             *)
Create(t) ==
  /\ holder = t
  /\ evo = "gap"
  /\ evo' \in {"present", "lost"}
  /\ UNCHANGED holder

(* The flow ends, but not between its delete and its create.               *)
End(t) ==
  /\ holder = t
  /\ evo # "gap"
  /\ holder' = NoTask
  /\ UNCHANGED evo

(* The process dies: no flow runs, and a removed instance stays lost.      *)
Crash ==
  /\ holder' = NoTask
  /\ evo' = IF evo = "gap" THEN "lost" ELSE evo

Next ==
  \/ \E t \in Tasks : Begin(t) \/ Delete(t) \/ Create(t) \/ End(t)
  \/ Crash

Spec == Init /\ [][Next]_vars

=============================================================================
