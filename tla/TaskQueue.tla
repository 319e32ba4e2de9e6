----------------------------- MODULE TaskQueue -----------------------------
(***************************************************************************)
(* What system/thread_pool.h promises whoever hands it a task: a task is   *)
(* started at most once, in the order of the submissions, and by one       *)
(* thread only.  Threads, locks and notifications do not appear.           *)
(***************************************************************************)
EXTENDS Sequences, Functions

CONSTANT Tasks

VARIABLES
  pending,   \* submitted and not started, oldest first
  running,   \* started and not finished
  finished

vars == <<pending, running, finished>>

Init ==
  /\ pending = <<>>
  /\ running = {}
  /\ finished = {}

Submit(t) ==
  /\ t \notin Range(pending) \union running \union finished
  /\ pending' = Append(pending, t)
  /\ UNCHANGED <<running, finished>>

Start ==
  /\ pending # <<>>
  /\ pending' = Tail(pending)
  /\ Head(pending) \notin running \union finished
  /\ running' = running \union {Head(pending)}
  /\ UNCHANGED finished

Finish(t) ==
  /\ t \in running
  /\ running' = running \ {t}
  /\ finished' = finished \union {t}
  /\ UNCHANGED pending

Next ==
  \/ Start
  \/ \E t \in Tasks : Submit(t) \/ Finish(t)

Spec == Init /\ [][Next]_vars

=============================================================================
