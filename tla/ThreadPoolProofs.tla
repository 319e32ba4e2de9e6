-------------------------- MODULE ThreadPoolProofs --------------------------
(***************************************************************************)
(* Theorems about ThreadPool for any number of workers and tasks.          *)
(***************************************************************************)
EXTENDS ThreadPool, SequenceTheorems, FiniteSetTheorems, TLAPS

(* The queue holds tasks, and a worker that is past the queue has one:     *)
(* processInThread is never called through a pointer that was not set.     *)
THEOREM TypeCorrect == Spec => []TypeOK
<1>1. Init => TypeOK
  <2> SUFFICES ASSUME Init
               PROVE  TypeOK
    OBVIOUS
  <2>1. inputTasks \in Seq(Tasks)
    BY DEF Init
  <2>2. pc \in [Workers -> Places] /\ \A w \in Workers : pc[w] \notin Holding
    BY DEF Init, Places, Holding
  <2>3. loaded \in [Workers -> SUBSET Workers]
    BY DEF Init
  <2>. QED
    BY <2>1, <2>2, <2>3 DEF Init, TypeOK
<1>2. TypeOK /\ [Next]_vars => TypeOK'
  <2> SUFFICES ASSUME TypeOK, [Next]_vars
               PROVE  TypeOK'
    OBVIOUS
  <2> USE DEF TypeOK, Places, Holding
  <2>1. ASSUME NEW t \in Tasks, enqueue(t)
        PROVE  TypeOK'
    BY <2>1 DEF enqueue, workerVars
  <2>2. CASE NotifyOne
    BY <2>2 DEF NotifyOne, queueVars, historyVars
  <2>3. CASE shutdown \/ NotifyAll \/ Join
    BY <2>3 DEF shutdown, NotifyAll, Join, queueVars, workerVars, signalVars, historyVars
  <2>4. ASSUME NEW w \in Workers, Wait(w) \/ Leave(w) \/ SpuriousWakeup(w)
        PROVE  TypeOK'
    BY <2>4 DEF Wait, Leave, SpuriousWakeup, queueVars, signalVars, historyVars
  <2>5. ASSUME NEW w \in Workers, Take(w)
        PROVE  TypeOK'
    <3>1. Head(inputTasks) \in Tasks /\ Tail(inputTasks) \in Seq(Tasks)
      BY <2>5 DEF Take
    <3>. QED
      BY <2>5, <3>1 DEF Take, signalVars, historyVars
  <2>6. ASSUME NEW w \in Workers, ReadActivity(w) \/ SetActive(w) \/ ClearActive(w)
        PROVE  TypeOK'
    BY <2>6 DEF ReadActivity, SetActive, ClearActive, queueVars, signalVars, historyVars
  <2>7. ASSUME NEW w \in Workers, EndTask(w)
        PROVE  TypeOK'
    BY <2>7 DEF EndTask, queueVars, signalVars
  <2>8. CASE UNCHANGED vars
    BY <2>8 DEF vars, queueVars, workerVars, signalVars, historyVars
  <2>. QED
    BY <2>1, <2>2, <2>3, <2>4, <2>5, <2>6, <2>7, <2>8 DEF Next, WorkerStep
<1>. QED
  BY <1>1, <1>2, PTL DEF Spec

-----------------------------------------------------------------------------
(* Where a task is.                                                        *)

(* Taking the oldest task out of a queue without repetitions leaves the    *)
(* others, and no repetition.                                              *)
LEMMA TailWithoutRepetition ==
  ASSUME NEW S, NEW q \in Seq(S), q # <<>>,
         \A m, n \in 1 .. Len(q) : q[m] = q[n] => m = n
  PROVE  /\ Range(Tail(q)) = Range(q) \ {Head(q)}
         /\ Head(q) \in Range(q)
         /\ \A m, n \in 1 .. Len(Tail(q)) : Tail(q)[m] = Tail(q)[n] => m = n
<1>1. /\ Len(q) \in Nat /\ Len(q) >= 1
      /\ DOMAIN q = 1 .. Len(q)
      /\ Tail(q) \in Seq(S)
      /\ Len(Tail(q)) = Len(q) - 1
      /\ DOMAIN Tail(q) = 1 .. Len(q) - 1
      /\ \A n \in 1 .. Len(q) - 1 : Tail(q)[n] = q[n + 1]
      /\ Head(q) = q[1]
  OBVIOUS
<1>2. Head(q) \in Range(q)
  BY <1>1 DEF Range
<1>3. \A x \in Range(Tail(q)) : x \in Range(q) \ {Head(q)}
  BY <1>1 DEF Range
<1>4. \A x \in Range(q) \ {Head(q)} : x \in Range(Tail(q))
  <2> TAKE x \in Range(q) \ {Head(q)}
  <2>1. PICK n \in 1 .. Len(q) : q[n] = x
    BY <1>1 DEF Range
  <2>2. n - 1 \in 1 .. Len(q) - 1 /\ Tail(q)[n - 1] = x
    BY <1>1, <2>1
  <2>. QED
    BY <1>1, <2>2 DEF Range
<1>5. \A m, n \in 1 .. Len(Tail(q)) : Tail(q)[m] = Tail(q)[n] => m = n
  BY <1>1
<1>. QED
  BY <1>2, <1>3, <1>4, <1>5

(* A new task at the end of the queue is the only change to what is in it. *)
LEMMA AppendWithoutRepetition ==
  ASSUME NEW S, NEW q \in Seq(S), NEW t \in S, t \notin Range(q),
         \A m, n \in 1 .. Len(q) : q[m] = q[n] => m = n
  PROVE  /\ Range(Append(q, t)) = Range(q) \union {t}
         /\ \A m, n \in 1 .. Len(Append(q, t)) : Append(q, t)[m] = Append(q, t)[n] => m = n
<1>1. /\ Len(q) \in Nat
      /\ DOMAIN q = 1 .. Len(q)
      /\ Len(Append(q, t)) = Len(q) + 1
      /\ DOMAIN Append(q, t) = 1 .. Len(q) + 1
      /\ \A n \in 1 .. Len(q) : Append(q, t)[n] = q[n]
      /\ Append(q, t)[Len(q) + 1] = t
  OBVIOUS
<1>2. \A n \in 1 .. Len(q) : q[n] # t
  BY <1>1 DEF Range
<1>3. \A x \in Range(Append(q, t)) : x \in Range(q) \union {t}
  BY <1>1 DEF Range
<1>4. \A x \in Range(q) \union {t} : x \in Range(Append(q, t))
  BY <1>1 DEF Range
<1>. QED
  BY <1>1, <1>2, <1>3, <1>4

\* A task is in one place only.
OnePlace ==
  /\ \A m, n \in 1 .. Len(inputTasks) : inputTasks[m] = inputTasks[n] => m = n
  /\ Range(inputTasks) \intersect (Held \union finished) = {}
  /\ Held \intersect finished = {}
  /\ \A v, w \in Workers :
       pc[v] \in Holding /\ pc[w] \in Holding /\ task[v] = task[w] => v = w

(* What a worker does with the queue and with its task, seen from the set  *)
(* of the tasks that workers hold: it grows by one that is taken, shrinks  *)
(* by one that has ended, and no other step changes it.                    *)
LEMMA HeldAfterTake ==
  ASSUME TypeOK, NEW w \in Workers, Take(w)
  PROVE  Held' = Held \union {Head(inputTasks)}
  BY DEF Take, TypeOK, Held, Holding, Places

LEMMA HeldAfterEnd ==
  ASSUME TypeOK, OnePlace, NEW w \in Workers, EndTask(w)
  PROVE  Held' = Held \ {task[w]} /\ task[w] \in Held
  BY DEF EndTask, OnePlace, TypeOK, Held, Holding, Places

\* The steps that move no task.
Idle ==
  \/ NotifyOne \/ shutdown \/ NotifyAll \/ Join \/ UNCHANGED vars
  \/ \E w \in Workers :
       \/ Wait(w) \/ Leave(w) \/ SpuriousWakeup(w)
       \/ ReadActivity(w) \/ SetActive(w) \/ ClearActive(w)

LEMMA HeldWhenIdle ==
  ASSUME TypeOK, Idle
  PROVE  /\ UNCHANGED <<inputTasks, task, historyVars, Held>>
         /\ \A w \in Workers : pc'[w] \in Holding <=> pc[w] \in Holding
<1> USE DEF TypeOK, Holding, Places
<1>1. UNCHANGED <<inputTasks, task, historyVars>>
  BY DEF Idle, NotifyOne, shutdown, NotifyAll, Join, Wait, Leave, SpuriousWakeup,
         ReadActivity, SetActive, ClearActive, vars, queueVars, workerVars, historyVars
<1>2. \A w \in Workers : pc'[w] \in Holding <=> pc[w] \in Holding
  <2>1. CASE NotifyOne \/ shutdown \/ NotifyAll \/ Join \/ UNCHANGED vars
    BY <2>1 DEF NotifyOne, shutdown, NotifyAll, Join, vars, workerVars
  <2>2. ASSUME NEW w \in Workers,
               \/ Wait(w) \/ Leave(w) \/ SpuriousWakeup(w)
               \/ ReadActivity(w) \/ SetActive(w) \/ ClearActive(w)
        PROVE  \A v \in Workers : pc'[v] \in Holding <=> pc[v] \in Holding
    BY <2>2 DEF Wait, Leave, SpuriousWakeup, ReadActivity, SetActive, ClearActive
  <2>. QED
    BY <2>1, <2>2 DEF Idle
<1>3. UNCHANGED Held
  BY <1>1, <1>2 DEF Held
<1>. QED
  BY <1>1, <1>2, <1>3

LEMMA EveryStep ==
  ASSUME [Next]_vars
  PROVE  \/ Idle
         \/ \E t \in Tasks : enqueue(t)
         \/ \E w \in Workers : Take(w) \/ EndTask(w)
  BY DEF Next, WorkerStep, Idle

LEMMA OnePlaceStep ==
  ASSUME TypeOK, OnePlace, [Next]_vars
  PROVE  OnePlace'
<1>1. ASSUME Idle
      PROVE  OnePlace'
  BY <1>1, HeldWhenIdle DEF OnePlace, historyVars
<1>2. ASSUME NEW t \in Tasks, enqueue(t)
      PROVE  OnePlace'
  <2>1. UNCHANGED <<pc, task, Held, finished>>
    BY <1>2 DEF enqueue, workerVars, Held
  <2>2. /\ Range(inputTasks') = Range(inputTasks) \union {t}
        /\ \A m, n \in 1 .. Len(inputTasks') : inputTasks'[m] = inputTasks'[n] => m = n
    BY <1>2, AppendWithoutRepetition DEF enqueue, Known, OnePlace, TypeOK
  <2>3. t \notin Held \union finished
    BY <1>2 DEF enqueue, Known
  <2>. QED
    BY <2>1, <2>2, <2>3 DEF OnePlace
<1>3. ASSUME NEW w \in Workers, Take(w)
      PROVE  OnePlace'
  <2>1. /\ Range(inputTasks') = Range(inputTasks) \ {Head(inputTasks)}
        /\ Head(inputTasks) \in Range(inputTasks)
        /\ \A m, n \in 1 .. Len(inputTasks') : inputTasks'[m] = inputTasks'[n] => m = n
    BY <1>3, TailWithoutRepetition DEF Take, OnePlace, TypeOK
  <2>2. Held' = Held \union {Head(inputTasks)} /\ finished' = finished
    BY <1>3, HeldAfterTake DEF Take, historyVars
  <2>3. Head(inputTasks) \notin Held \union finished
    BY <2>1 DEF OnePlace
  <2>4. ASSUME NEW u \in Workers, NEW v \in Workers,
               pc'[u] \in Holding, pc'[v] \in Holding, task'[u] = task'[v]
        PROVE  u = v
    <3>1. \A x \in Workers \ {w} :
            pc'[x] = pc[x] /\ task'[x] = task[x] /\ (pc[x] \in Holding => task[x] \in Held)
      BY <1>3 DEF Take, TypeOK, Held
    <3>2. task'[w] = Head(inputTasks)
      BY <1>3 DEF Take, TypeOK
    <3>. QED
      BY <2>3, <2>4, <3>1, <3>2 DEF OnePlace
  <2>. QED
    BY <2>1, <2>2, <2>3, <2>4 DEF OnePlace
<1>4. ASSUME NEW w \in Workers, EndTask(w)
      PROVE  OnePlace'
  <2>1. Held' = Held \ {task[w]} /\ task[w] \in Held
    BY <1>4, HeldAfterEnd
  <2>2. UNCHANGED inputTasks /\ finished' = finished \union {task[w]}
    BY <1>4 DEF EndTask, queueVars
  <2>3. \A x \in Workers : pc'[x] \in Holding =>
          x # w /\ pc[x] \in Holding /\ task'[x] = task[x]
    BY <1>4 DEF EndTask, TypeOK, Holding
  <2>. QED
    BY <2>1, <2>2, <2>3 DEF OnePlace
<1>. QED
  BY <1>1, <1>2, <1>3, <1>4, EveryStep

LEMMA OnePlaceHolds == Spec => []OnePlace
<1>1. Init => OnePlace
  <2> SUFFICES ASSUME Init
               PROVE  OnePlace
    OBVIOUS
  <2>1. Range(inputTasks) = {} /\ Len(inputTasks) = 0
    BY DEF Init, Range
  <2>2. Held = {}
    BY DEF Init, Held, Holding
  <2>. QED
    BY <2>1, <2>2 DEF Init, OnePlace, Holding
<1>2. TypeOK /\ OnePlace /\ [Next]_vars => OnePlace'
  BY OnePlaceStep
<1>. QED
  BY <1>1, <1>2, TypeCorrect, PTL DEF Spec

-----------------------------------------------------------------------------
(* The pool does what TaskQueue promises: whatever the workers' schedule,  *)
(* no task is started twice, out of order or by two workers (enqueue and   *)
(* Worker in system/thread_pool.cpp).                                      *)
THEOREM PoolImplementsTaskQueue == Spec => RunsEachTaskOnceInOrder
<1>1. Init => Promise!Init
  BY DEF Init, Promise!Init, Held, Holding
<1>2. ASSUME TypeOK, OnePlace, [Next]_vars
      PROVE  [Promise!Next]_(Promise!vars)
  <2>1. ASSUME Idle
        PROVE  UNCHANGED Promise!vars
    BY <2>1, <1>2, HeldWhenIdle DEF Promise!vars, historyVars
  <2>2. ASSUME NEW t \in Tasks, enqueue(t)
        PROVE  Promise!Submit(t)
    BY <2>2 DEF enqueue, Known, Promise!Submit, Range, Promise!Range, workerVars, Held
  <2>3. ASSUME NEW w \in Workers, Take(w)
        PROVE  Promise!Start
    <3>1. Head(inputTasks) \in Range(inputTasks)
      BY <1>2, <2>3, TailWithoutRepetition DEF Take, OnePlace, TypeOK
    <3>. QED
      BY <1>2, <2>3, <3>1, HeldAfterTake DEF Take, OnePlace, Promise!Start, historyVars
  <2>4. ASSUME NEW w \in Workers, EndTask(w)
        PROVE  task[w] \in Tasks /\ Promise!Finish(task[w])
    BY <1>2, <2>4, HeldAfterEnd DEF EndTask, TypeOK, Holding, Promise!Finish, queueVars
  <2>. QED
    BY <1>2, <2>1, <2>2, <2>3, <2>4, EveryStep DEF Promise!Next
<1>3. TypeOK /\ OnePlace /\ [Next]_vars => [Promise!Next]_(Promise!vars)
  BY <1>2
<1>. QED
  BY <1>1, <1>3, TypeCorrect, OnePlaceHolds, PTL
  DEF Spec, RunsEachTaskOnceInOrder, Promise!Spec

-----------------------------------------------------------------------------
(* Shutting down.  A worker leaves over an empty queue only, and after     *)
(* that nothing that is accepted can get into the queue any more.          *)

ShutdownInvariant ==
  /\ accepted \subseteq Known
  /\ \A w \in Workers : pc[w] = "exited" =>
       terminate /\ accepted \intersect Range(inputTasks) = {}
  /\ stopped => \A w \in Workers : pc[w] = "exited"

LEMMA ShutdownInvariantStep ==
  ASSUME TypeOK, OnePlace, ShutdownInvariant, [Next]_vars
  PROVE  ShutdownInvariant'
<1> USE DEF TypeOK, Places, Holding
<1>1. ASSUME NEW t \in Tasks, enqueue(t)
      PROVE  ShutdownInvariant'
  <2>1. Range(inputTasks') = Range(inputTasks) \union {t}
    BY <1>1, AppendWithoutRepetition DEF enqueue, Known, OnePlace
  <2>2. UNCHANGED <<pc, terminate, stopped, Held, finished>>
    BY <1>1 DEF enqueue, workerVars, Held
  <2>3. t \notin accepted /\ accepted' \subseteq accepted \union {t}
    BY <1>1 DEF enqueue, ShutdownInvariant
  <2>4. terminate => accepted' = accepted
    BY <1>1 DEF enqueue
  <2>. QED
    BY <2>1, <2>2, <2>3, <2>4 DEF ShutdownInvariant, Known
<1>2. ASSUME NEW w \in Workers, Take(w)
      PROVE  ShutdownInvariant'
  <2>1. /\ Range(inputTasks') = Range(inputTasks) \ {Head(inputTasks)}
        /\ Head(inputTasks) \in Range(inputTasks)
    BY <1>2, TailWithoutRepetition DEF Take, OnePlace
  <2>2. Known' = Known
    BY <1>2, <2>1, HeldAfterTake DEF Take, Known, historyVars
  <2>3. \A x \in Workers : pc'[x] = "exited" <=> pc[x] = "exited"
    BY <1>2 DEF Take
  <2>4. UNCHANGED <<terminate, stopped, accepted>>
    BY <1>2 DEF Take, historyVars
  <2>. QED
    BY <2>1, <2>2, <2>3, <2>4 DEF ShutdownInvariant
<1>3. ASSUME NEW w \in Workers, EndTask(w)
      PROVE  ShutdownInvariant'
  <2>1. Known' = Known
    BY <1>3, HeldAfterEnd DEF EndTask, Known, queueVars
  <2>2. \A x \in Workers : pc'[x] = "exited" <=> pc[x] = "exited"
    BY <1>3 DEF EndTask
  <2>3. UNCHANGED <<inputTasks, terminate, stopped, accepted>>
    BY <1>3 DEF EndTask, queueVars
  <2>. QED
    BY <2>1, <2>2, <2>3 DEF ShutdownInvariant
<1>4. ASSUME Idle
      PROVE  ShutdownInvariant'
  <2>1. UNCHANGED <<inputTasks, accepted, Known>>
    BY <1>4, HeldWhenIdle DEF Known, historyVars
  <2>2. ASSUME NEW w \in Workers, Leave(w)
        PROVE  ShutdownInvariant'
    <3>1. Range(inputTasks) = {} /\ terminate
      BY <2>2 DEF Leave, Range
    <3>2. UNCHANGED <<terminate, stopped>> /\ pc' = [pc EXCEPT ![w] = "exited"]
      BY <2>2 DEF Leave, queueVars
    <3>. QED
      BY <2>1, <3>1, <3>2 DEF ShutdownInvariant
  <2>3. CASE Join
    BY <2>1, <2>3 DEF Join, ShutdownInvariant, workerVars
  <2>4. CASE shutdown
    BY <2>1, <2>4 DEF shutdown, ShutdownInvariant, workerVars
  <2>5. CASE \/ NotifyOne \/ NotifyAll \/ UNCHANGED vars
             \/ \E w \in Workers :
                  \/ Wait(w) \/ SpuriousWakeup(w)
                  \/ ReadActivity(w) \/ SetActive(w) \/ ClearActive(w)
    <3>1. \A x \in Workers : pc'[x] = "exited" <=> pc[x] = "exited"
      BY <2>5 DEF NotifyOne, NotifyAll, Wait, SpuriousWakeup, ReadActivity, SetActive,
                  ClearActive, vars, workerVars
    <3>2. UNCHANGED <<terminate, stopped>>
      BY <2>5 DEF NotifyOne, NotifyAll, Wait, SpuriousWakeup, ReadActivity, SetActive,
                  ClearActive, vars, queueVars
    <3>. QED
      BY <2>1, <3>1, <3>2 DEF ShutdownInvariant
  <2>. QED
    BY <1>4, <2>2, <2>3, <2>4, <2>5 DEF Idle
<1>. QED
  BY <1>1, <1>2, <1>3, <1>4, EveryStep

(* shutdown drains: when it returns, every task enqueued before the call   *)
(* has run, for any number of workers and whatever they were doing.        *)
THEOREM ShutdownDrainsThePool == Spec => []ShutdownDrains
<1>1. Init => ShutdownInvariant
  BY DEF Init, ShutdownInvariant
<1>2. TypeOK /\ OnePlace /\ ShutdownInvariant /\ [Next]_vars => ShutdownInvariant'
  BY ShutdownInvariantStep
<1>3. TypeOK /\ ShutdownInvariant => ShutdownDrains
  <2> SUFFICES ASSUME TypeOK, ShutdownInvariant, stopped
               PROVE  accepted \subseteq finished
    BY DEF ShutdownDrains
  <2>1. Held = {}
    BY DEF ShutdownInvariant, Held, Holding
  <2>2. accepted \intersect Range(inputTasks) = {}
    BY PoolAssumption DEF ShutdownInvariant
  <2>. QED
    BY <2>1, <2>2 DEF ShutdownInvariant, Known
<1>. QED
  BY <1>1, <1>2, <1>3, TypeCorrect, OnePlaceHolds, PTL DEF Spec

-----------------------------------------------------------------------------
(* Going to sleep.                                                         *)

\* The workers that are about to look at the queue.
Looking == {w \in Workers : pc[w] = "checking"}

(* A worker that begins to look makes them one more, one that stops one    *)
(* fewer.                                                                  *)
LEMMA CountOfLooking ==
  ASSUME TypeOK, NEW w \in Workers, NEW place, pc' = [pc EXCEPT ![w] = place]
  PROVE  /\ Cardinality(Looking) \in Nat
         /\ pc[w] # "checking" /\ place = "checking" =>
              Cardinality(Looking') = Cardinality(Looking) + 1
         /\ pc[w] = "checking" /\ place # "checking" =>
              Cardinality(Looking') = Cardinality(Looking) - 1
         /\ pc[w] # "checking" /\ place # "checking" => Looking' = Looking
<1>1. IsFiniteSet(Looking)
  BY PoolAssumption, FS_Subset DEF Looking
<1>2. pc[w] # "checking" /\ place = "checking" => w \notin Looking /\ Looking' = Looking \union {w}
  BY DEF Looking, TypeOK
<1>3. pc[w] = "checking" /\ place # "checking" => w \in Looking /\ Looking' = Looking \ {w}
  BY DEF Looking, TypeOK
<1>4. pc[w] # "checking" /\ place # "checking" => Looking' = Looking
  BY DEF Looking, TypeOK
<1>. QED
  BY <1>1, <1>2, <1>3, <1>4, FS_CardinalityType, FS_AddElement, FS_RemoveElement

LEMMA NobodySleepsStep ==
  ASSUME TypeOK, NobodySleepsOverWork, [Next]_vars
  PROVE  NobodySleepsOverWork'
<1> DEFINE Sleeps == \E w \in Workers : pc[w] = "waiting"
           looking == Cardinality(Looking)
<1>1. /\ Sleeps => Len(inputTasks) <= notifications + looking
      /\ Sleeps => (terminate => broadcast)
  BY DEF NobodySleepsOverWork, Looking
<1>2. /\ Len(inputTasks) \in Nat /\ notifications \in Nat /\ looking \in Nat
      /\ DOMAIN pc = Workers
  BY PoolAssumption, FS_Subset, FS_CardinalityType DEF TypeOK, Looking
<1>3. SUFFICES ASSUME Sleeps'
               PROVE  /\ Len(inputTasks') <= notifications' + looking'
                      /\ terminate' => broadcast'
  BY DEF NobodySleepsOverWork, Looking
<1>4. ASSUME NEW t \in Tasks, enqueue(t)
      PROVE  /\ Len(inputTasks') <= notifications' + looking'
             /\ terminate' => broadcast'
  <2>1. /\ UNCHANGED <<pc, terminate, broadcast>> /\ notifications' = notifications + 1
        /\ Len(inputTasks') = Len(inputTasks) + 1
    BY <1>4 DEF enqueue, workerVars, TypeOK
  <2>2. looking' = looking /\ Sleeps
    BY <1>3, <2>1 DEF Looking
  <2> HIDE DEF looking, Sleeps
  <2>. QED
    BY <1>1, <1>2, <2>1, <2>2
<1>5. CASE NotifyOne
  <2>1. PICK w \in Workers : pc[w] = "waiting" /\ pc' = [pc EXCEPT ![w] = "checking"]
    BY <1>3, <1>5 DEF NotifyOne
  <2>2. /\ UNCHANGED <<inputTasks, terminate, broadcast>>
        /\ notifications > 0 /\ notifications' = notifications - 1
    BY <1>5 DEF NotifyOne, queueVars
  <2>3. looking' = looking + 1 /\ Sleeps
    BY <2>1, CountOfLooking
  <2> HIDE DEF looking, Sleeps
  <2>. QED
    BY <1>1, <1>2, <2>2, <2>3
<1>6. CASE shutdown \/ Join \/ UNCHANGED vars
  <2>1. /\ UNCHANGED <<pc, inputTasks, notifications>>
        /\ broadcast' \/ UNCHANGED <<terminate, broadcast>>
    BY <1>6 DEF shutdown, Join, vars, workerVars, queueVars, signalVars
  <2>2. looking' = looking /\ Sleeps
    BY <1>3, <2>1 DEF Looking
  <2> HIDE DEF looking, Sleeps
  <2>. QED
    BY <1>1, <1>2, <2>1, <2>2
<1>7. CASE NotifyAll
  <2>1. \A w \in Workers : pc'[w] # "waiting"
    BY <1>7 DEF NotifyAll
  <2>. QED
    BY <1>3, <2>1
<1>8. ASSUME NEW w \in Workers, Wait(w) \/ Leave(w)
      PROVE  /\ Len(inputTasks') <= notifications' + looking'
             /\ terminate' => broadcast'
  <2>1. /\ inputTasks = <<>> /\ UNCHANGED <<inputTasks, terminate, notifications, broadcast>>
        /\ \/ ~terminate
           \/ terminate /\ pc' = [pc EXCEPT ![w] = "exited"]
        /\ \E place : place # "checking" /\ pc' = [pc EXCEPT ![w] = place]
        /\ pc[w] = "checking"
    BY <1>8 DEF Wait, Leave, queueVars, signalVars
  <2>2. looking' \in Nat
    <3>1. Looking' \subseteq Workers
      BY DEF Looking
    <3>. QED
      BY <3>1, PoolAssumption, FS_Subset, FS_CardinalityType
  <2>3. ~terminate \/ Sleeps
    BY <1>2, <1>3, <2>1
  <2>4. Len(inputTasks') = 0 /\ notifications' \in Nat
    BY <1>2, <2>1
  <2>5. terminate' => broadcast'
    BY <1>1, <2>1, <2>3
  <2>6. Len(inputTasks') <= notifications' + looking'
    <3>1. \A m, n \in Nat : 0 <= m + n
      OBVIOUS
    <3>2. 0 <= notifications' + looking'
      BY <2>2, <2>4, <3>1
    <3>. QED
      BY <2>4, <3>2
  <2>. QED
    BY <2>5, <2>6
<1>9. ASSUME NEW w \in Workers, SpuriousWakeup(w) \/ ClearActive(w)
      PROVE  /\ Len(inputTasks') <= notifications' + looking'
             /\ terminate' => broadcast'
  <2>1. /\ UNCHANGED <<inputTasks, terminate, notifications, broadcast>>
        /\ pc[w] # "checking" /\ pc' = [pc EXCEPT ![w] = "checking"]
    BY <1>9 DEF SpuriousWakeup, ClearActive, queueVars, signalVars
  <2>2. looking' = looking + 1
    BY <2>1, CountOfLooking
  <2>3. Sleeps
    BY <1>2, <1>3, <2>1
  <2> HIDE DEF looking, Sleeps
  <2>. QED
    BY <1>1, <1>2, <2>1, <2>2, <2>3
<1>10. ASSUME NEW w \in Workers, Take(w)
       PROVE  /\ Len(inputTasks') <= notifications' + looking'
              /\ terminate' => broadcast'
  <2>1. /\ UNCHANGED <<terminate, notifications, broadcast>>
        /\ Len(inputTasks') = Len(inputTasks) - 1
    BY <1>10 DEF Take, signalVars, TypeOK
  <2>2. PICK place \in {"taken"} : pc[w] = "checking" /\ pc' = [pc EXCEPT ![w] = place]
    BY <1>10 DEF Take
  <2>3. looking' = looking - 1
    BY <2>2, CountOfLooking
  <2>4. Sleeps
    BY <1>2, <1>3, <2>2
  <2> HIDE DEF looking, Sleeps
  <2>. QED
    BY <1>1, <1>2, <2>1, <2>3, <2>4
<1>11. ASSUME NEW w \in Workers, ReadActivity(w) \/ SetActive(w) \/ EndTask(w)
       PROVE  /\ Len(inputTasks') <= notifications' + looking'
              /\ terminate' => broadcast'
  <2>1. PICK place \in {"marking", "clearing", "running", "ended"} :
          pc[w] \notin {"checking", "waiting"} /\ pc' = [pc EXCEPT ![w] = place]
    BY <1>11 DEF ReadActivity, SetActive, EndTask
  <2>2. UNCHANGED <<inputTasks, terminate, notifications, broadcast>>
    BY <1>11 DEF ReadActivity, SetActive, EndTask, queueVars, signalVars
  <2>3. looking' = looking
    BY <2>1, CountOfLooking
  <2>4. Sleeps
    BY <1>2, <1>3, <2>1
  <2> HIDE DEF looking, Sleeps
  <2>. QED
    BY <1>1, <1>2, <2>2, <2>3, <2>4
<1>. QED
  BY <1>4, <1>5, <1>6, <1>7, <1>8, <1>9, <1>10, <1>11 DEF Next, WorkerStep

(* No worker sleeps over a task that nobody else is about to take, nor     *)
(* through a shutdown, for any number of workers and tasks: notify_one for *)
(* each task is enough (enqueue), and so is one notify_all (shutdown).     *)
THEOREM NoWakeupIsLost == Spec => []NobodySleepsOverWork
<1>1. Init => NobodySleepsOverWork
  BY DEF Init, NobodySleepsOverWork
<1>2. TypeOK /\ NobodySleepsOverWork /\ [Next]_vars => NobodySleepsOverWork'
  BY NobodySleepsStep
<1>. QED
  BY <1>1, <1>2, TypeCorrect, PTL DEF Spec

=============================================================================
