---------------------------- MODULE JobDelivery ----------------------------
(***************************************************************************)
(* What the notification queue promises for each job, whatever Redis       *)
(* structure holds it and whichever goroutine works on it.  A request      *)
(* refuses a job or has it kept; a kept job is executed by one goroutine   *)
(* at a time, and only its executor sends messages for it; an execution    *)
(* settles the job or leaves it kept for the next one.  A job is lost only *)
(* if Redis is in trouble with it, and a lost or refused job is never      *)
(* executed; a settled job is executed again only after such trouble or a  *)
(* crash.                                                                  *)
(***************************************************************************)
EXTENDS Naturals

CONSTANTS Jobs, Executors

VARIABLES
  place,        \* where each job is: outside, refused, kept, settled, lost
  executors,    \* the goroutines that execute each job
  copies,       \* messages that went out for each job, 2 for more
  troubled,     \* jobs that Redis dropped, or a command failed for
  crashed       \* has the process crashed

vars == <<place, executors, copies, troubled, crashed>>

Init ==
  /\ place = [j \in Jobs |-> "outside"]
  /\ executors = [j \in Jobs |-> {}]
  /\ copies = [j \in Jobs |-> 0]
  /\ troubled = {} /\ crashed = FALSE

Accept(j) ==
  /\ place[j] = "outside"
  /\ place' = [place EXCEPT ![j] = "kept"]
  /\ UNCHANGED <<executors, copies, troubled, crashed>>

Refuse(j) ==
  /\ place[j] = "outside"
  /\ place' = [place EXCEPT ![j] = "refused"]
  /\ UNCHANGED <<executors, copies, troubled, crashed>>

Execute(p, j) ==
  /\ \/ place[j] = "kept"
     \/ place[j] = "settled" /\ (crashed \/ j \in troubled)
  /\ executors[j] = {}
  /\ executors' = [executors EXCEPT ![j] = {p}]
  /\ UNCHANGED <<place, copies, troubled, crashed>>

Deliver(p, j) ==
  /\ executors[j] = {p}
  /\ copies' = [copies EXCEPT ![j] = IF @ < 2 THEN @ + 1 ELSE 2]
  /\ UNCHANGED <<place, executors, troubled, crashed>>

(* The execution ends: the job is settled, or was already, or stays kept,  *)
(* or the trouble it met has taken it.                                     *)
Finish(p, j) ==
  /\ executors[j] = {p}
  /\ executors' = [executors EXCEPT ![j] = {}]
  /\ \/ place' = [place EXCEPT ![j] = "settled"]
     \/ place[j] = "kept" /\ j \in troubled /\ place' = [place EXCEPT ![j] = "lost"]
     \/ UNCHANGED place
  /\ UNCHANGED <<copies, troubled, crashed>>

(* Trouble with Redis: any jobs are troubled, and troubled jobs that       *)
(* nobody executes may be lost.                                            *)
Trouble ==
  /\ troubled \subseteq troubled'
  /\ \A j \in Jobs : \/ place'[j] = place[j]
                     \/ /\ place[j] = "kept" /\ place'[j] = "lost"
                        /\ executors[j] = {} /\ j \in troubled'
  /\ UNCHANGED <<executors, copies, crashed>>

(* A crash: nobody executes; a job under way in a request is refused, and  *)
(* what only the memory of the process held, after trouble, is lost.       *)
Crash ==
  /\ crashed' = TRUE
  /\ executors' = [j \in Jobs |-> {}]
  /\ troubled \subseteq troubled'
  /\ \A j \in Jobs : \/ place'[j] = place[j]
                     \/ place[j] = "outside" /\ place'[j] = "refused"
                     \/ place[j] = "kept" /\ place'[j] = "lost" /\ j \in troubled'
  /\ UNCHANGED copies

Next ==
  \/ \E j \in Jobs : Accept(j) \/ Refuse(j)
  \/ \E j \in Jobs, p \in Executors : Execute(p, j) \/ Deliver(p, j) \/ Finish(p, j)
  \/ Trouble \/ Crash

Spec == Init /\ [][Next]_vars

=============================================================================
