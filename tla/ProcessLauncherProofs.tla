----------------------- MODULE ProcessLauncherProofs -----------------------
(***************************************************************************)
(* Proofs about ProcessLauncher, for any number of threads, programs and   *)
(* launches: who deals with the end of a child, of which children the      *)
(* observers hear, and that the monitoring thread loses none.              *)
(***************************************************************************)
EXTENDS ProcessLauncher, TLAPS

\* What is known of a handle, whatever the threads are at.  One that the observers
\* hear of, or that a client has closed, has left the list for good.
HandleInv(h) ==
  /\ child[h] = "none" => announced[h] = 0 /\ h \notin closed \union diedProcesses \union pidKnown
  /\ h \in diedProcesses => child[h] = "reaped" /\ h \notin handles \union closed /\ announced[h] = 0
                            /\ h \in pidKnown
  /\ announced[h] \in {0, 1}
  /\ announced[h] = 1 => child[h] = "reaped" /\ h \notin handles \union closed /\ h \in pidKnown
  /\ h \in closed => h \notin handles /\ h \in pidKnown
  /\ h > Len(program) => child[h] = "none" /\ h \notin handles

\* What is known of the handle that a thread is launching: it is in the list from
\* the push on, no shutdown coming between, and has a process from the fork on.
LaunchInv(th) ==
  launching[th] # "no" =>
    /\ handle[th] \in 1 .. Len(program)
    /\ handle[th] \notin pidKnown
    /\ launching[th] = "allocated" => handle[th] \notin handles
    /\ launching[th] # "forked" => child[handle[th]] = "none"
    /\ launching[th] = "forked" => child[handle[th]] # "none"
    /\ launching[th] # "allocated" /\ shutdown = "no" => handle[th] \in handles

\* No two threads launch the same handle.
Apart ==
  \A th1, th2 \in Threads :
    th1 # th2 /\ launching[th1] # "no" /\ launching[th2] # "no" => handle[th1] # handle[th2]

\* The monitoring thread launches only while it works on a task; and the handles
\* kept back for the tasks are there.
TasksInv ==
  /\ launching[Monitor] # "no" => monitor = "working"
  /\ Len(program) + Len(launchTasks) <= MaxLaunches

IInv ==
  /\ TypeOK
  /\ \A h \in Handles : HandleInv(h)
  /\ LiveChildrenAreWatched
  /\ \A th \in Threads : LaunchInv(th)
  /\ Apart
  /\ TasksInv

\* At the start there is neither handle nor process.
LEMMA InitInv == Init => IInv
<1> USE LauncherAssumption DEF Init, TypeOK, HandleInv, LiveChildrenAreWatched, LaunchInv, Apart,
        TasksInv, Handles, Watching, Threads
<1> SUFFICES ASSUME Init PROVE IInv
  OBVIOUS
<1>1. TypeOK
  <2>1. program \in Seq(Programs) /\ Len(program) = 0 /\ DOMAIN program = {}
    OBVIOUS
  <2>2. launchTasks \in Seq(Programs) /\ handle \in [Threads -> 0 .. Len(program)]
    BY <2>1
  <2>3. /\ launching \in [Threads -> {"no", "allocated", "pushed", "notified", "forked"}]
        /\ child \in [Handles -> {"none", "alive", "zombie", "reaped"}]
        /\ announced \in [Handles -> Nat]
    OBVIOUS
  <2>4. handles \subseteq DOMAIN program /\ pidKnown \subseteq DOMAIN program
    OBVIOUS
  <2>5. monitor \in Watching \union {"checking", "dozing", "asleep", "awake", "exited"}
    OBVIOUS
  <2>6. diedProcesses \subseteq Handles /\ closed \subseteq Handles
    OBVIOUS
  <2>7. Len(program) <= MaxLaunches
    BY <2>1
  <2> QED
    BY <2>1, <2>2, <2>3, <2>4, <2>5, <2>6, <2>7, Zenon
<1>2. \A h \in Handles : HandleInv(h)
  OBVIOUS
<1> QED
  BY <1>1, <1>2 DEF IInv

\* Steps of the launching threads, but for the allocation.
LEMMA LaunchStepInv ==
  ASSUME IInv, NEW th \in Threads, LaunchStep(th)
  PROVE  IInv'
<1> USE LauncherAssumption DEF IInv, TypeOK, HandleInv, LiveChildrenAreWatched, LaunchInv, Apart,
        TasksInv, Handles, Watching, historyVars, launchVars, kernelVars, monitorVars
<1> launching[th] # "no" /\ handle[th] \in 1 .. Len(program) /\ handle[th] \in Handles
  BY DEF LaunchStep, Push, NotifyLaunch, Fork, SetRole
<1> DOMAIN program = 1 .. Len(program)
  OBVIOUS
<1>1. CASE Push(th)
  <2>1. TypeOK'
    BY <1>1 DEF Push
  <2>2. ASSUME NEW h \in Handles PROVE HandleInv(h)'
    BY <1>1 DEF Push
  <2>3. LiveChildrenAreWatched'
    BY <1>1 DEF Push
  <2>4. ASSUME NEW t \in Threads PROVE LaunchInv(t)'
    BY <1>1 DEF Push
  <2>5. Apart'
    BY <1>1 DEF Push
  <2>6. TasksInv'
    BY <1>1 DEF Push
  <2> QED
    BY <2>1, <2>2, <2>3, <2>4, <2>5, <2>6
<1>2. CASE NotifyLaunch(th)
  <2>1. TypeOK'
    BY <1>2 DEF NotifyLaunch, Notify
  <2>2. ASSUME NEW h \in Handles PROVE HandleInv(h)'
    BY <1>2 DEF NotifyLaunch, Notify
  <2>3. LiveChildrenAreWatched'
    BY <1>2 DEF NotifyLaunch, Notify
  <2>4. ASSUME NEW t \in Threads PROVE LaunchInv(t)'
    BY <1>2 DEF NotifyLaunch, Notify
  <2>5. Apart'
    BY <1>2 DEF NotifyLaunch, Notify
  <2>6. TasksInv'
    BY <1>2 DEF NotifyLaunch, Notify
  <2> QED
    BY <2>1, <2>2, <2>3, <2>4, <2>5, <2>6
<1>3. CASE Fork(th)
  <2>1. CASE /\ child' = [child EXCEPT ![handle[th]] = "alive"]
             /\ launching' = [launching EXCEPT ![th] = "forked"]
    <3>1. TypeOK'
      BY <1>3, <2>1 DEF Fork
    <3>2. ASSUME NEW h \in Handles PROVE HandleInv(h)'
      BY <1>3, <2>1 DEF Fork
    <3>3. LiveChildrenAreWatched'
      <4>1. shutdown = "no" => handle[th] \in handles
        BY <1>3 DEF Fork
      <4>2. ASSUME NEW h \in Handles, child'[h] = "alive", h \notin closed, shutdown = "no"
            PROVE  h \in handles
        <5>1. CASE h = handle[th]
          BY <4>1, <4>2, <5>1
        <5>2. CASE h # handle[th]
          BY <2>1, <4>2, <5>2
        <5> QED
          BY <5>1, <5>2
      <4> QED
        BY <1>3, <4>2 DEF Fork
    <3>4. ASSUME NEW t \in Threads PROVE LaunchInv(t)'
      BY <1>3, <2>1 DEF Fork
    <3>5. Apart'
      BY <1>3, <2>1 DEF Fork
    <3>6. TasksInv'
      BY <1>3, <2>1 DEF Fork
    <3> QED
      BY <3>1, <3>2, <3>3, <3>4, <3>5, <3>6
  <2>2. CASE UNCHANGED child /\ launching' = [launching EXCEPT ![th] = "no"]
    <3>1. TypeOK'
      BY <1>3, <2>2 DEF Fork
    <3>2. ASSUME NEW h \in Handles PROVE HandleInv(h)'
      BY <1>3, <2>2 DEF Fork
    <3>3. LiveChildrenAreWatched'
      BY <1>3, <2>2 DEF Fork
    <3>4. ASSUME NEW t \in Threads PROVE LaunchInv(t)'
      BY <1>3, <2>2 DEF Fork
    <3>5. Apart'
      BY <1>3, <2>2 DEF Fork
    <3>6. TasksInv'
      BY <1>3, <2>2 DEF Fork
    <3> QED
      BY <3>1, <3>2, <3>3, <3>4, <3>5, <3>6
  <2> QED
    BY <1>3, <2>1, <2>2 DEF Fork
<1>4. CASE SetRole(th)
  <2>1. TypeOK'
    BY <1>4 DEF SetRole
  <2>2. ASSUME NEW h \in Handles PROVE HandleInv(h)'
    BY <1>4 DEF SetRole
  <2>3. LiveChildrenAreWatched'
    BY <1>4 DEF SetRole
  <2>4. ASSUME NEW t \in Threads PROVE LaunchInv(t)'
    BY <1>4 DEF SetRole
  <2>5. Apart'
    BY <1>4 DEF SetRole
  <2>6. TasksInv'
    BY <1>4 DEF SetRole
  <2> QED
    BY <2>1, <2>2, <2>3, <2>4, <2>5, <2>6
<1> QED
  BY <1>1, <1>2, <1>3, <1>4 DEF LaunchStep

\* A handle that is allocated is one nobody knew of.
LEMMA AllocateInv ==
  ASSUME IInv, NEW th \in Threads, NEW p \in Programs, Allocate(th, p), launching[th] = "no",
         Len(program) < MaxLaunches, launchTasks' \in Seq(Programs),
         Len(program) + 1 + Len(launchTasks') <= MaxLaunches,
         monitor' \in Watching \union {"checking", "dozing", "asleep", "awake", "exited"},
         th = Monitor \/ launching[Monitor] # "no" => monitor' = "working",
         UNCHANGED <<handles, pidKnown, kernelVars, childsExist, diedProcesses, shutdown,
                     historyVars>>
  PROVE  IInv'
<1> USE LauncherAssumption DEF IInv, TypeOK, HandleInv, LiveChildrenAreWatched, LaunchInv, Apart,
        TasksInv, Handles, Watching, historyVars, launchVars, kernelVars, monitorVars
<1>1. /\ program' \in Seq(Programs) /\ Len(program') = Len(program) + 1
      /\ DOMAIN program = 1 .. Len(program) /\ DOMAIN program' = 1 .. Len(program')
  BY DEF Allocate
<1>2. /\ handle' = [handle EXCEPT ![th] = Len(program) + 1]
      /\ launching' = [launching EXCEPT ![th] = "allocated"]
  BY DEF Allocate
<1>3. /\ Len(program) + 1 \in Handles
      /\ child[Len(program) + 1] = "none" /\ Len(program) + 1 \notin handles
  OBVIOUS
<1>4. TypeOK'
  <2>1. handles' \subseteq DOMAIN program' /\ pidKnown' \subseteq DOMAIN program'
    BY <1>1
  <2>2. handle' \in [Threads -> 0 .. Len(program')]
    BY <1>1, <1>2
  <2>3. launching' \in [Threads -> {"no", "allocated", "pushed", "notified", "forked"}]
    BY <1>2
  <2>4. Len(program') <= MaxLaunches
    BY <1>1
  <2>5. UNCHANGED <<child, sigchld, childsExist, diedProcesses, shutdown, closed, announced>>
    OBVIOUS
  <2> QED
    BY <1>1, <2>1, <2>2, <2>3, <2>4, <2>5
<1>5. ASSUME NEW h \in Handles PROVE HandleInv(h)'
  BY <1>1, <1>2
<1>6. LiveChildrenAreWatched'
  BY <1>1, <1>2
<1>7. ASSUME NEW t \in Threads PROVE LaunchInv(t)'
  <2>1. CASE t = th
    BY <1>1, <1>2, <1>3, <2>1
  <2>2. CASE t # th
    <3>1. handle'[t] = handle[t] /\ launching'[t] = launching[t]
      BY <1>2, <2>2
    <3>2. UNCHANGED <<handles, pidKnown, child, shutdown>>
      OBVIOUS
    <3> QED
      BY <1>1, <3>1, <3>2, SMTT(30)
  <2> QED
    BY <2>1, <2>2
<1>8. Apart'
  <2>1. \A t \in Threads : t # th => handle'[t] = handle[t] /\ launching'[t] = launching[t]
    BY <1>2
  <2>2. handle'[th] = Len(program) + 1
    BY <1>2
  <2>3. \A t \in Threads : launching[t] # "no" => handle[t] \in 1 .. Len(program)
    OBVIOUS
  <2>4. Len(program) \in Nat
    OBVIOUS
  <2>5. \A t \in Threads : launching[t] # "no" => handle[t] # Len(program) + 1
    BY <2>3, <2>4
  <2>6. \A t, u \in Threads :
          t # u /\ launching[t] # "no" /\ launching[u] # "no" => handle[t] # handle[u]
    OBVIOUS
  <2> HIDE DEF IInv, LaunchInv, Apart, TypeOK, HandleInv
  <2> QED
    BY <2>1, <2>2, <2>5, <2>6 DEF Apart
<1>9. TasksInv'
  BY <1>1, <1>2 DEF Threads
<1> QED
  BY <1>4, <1>5, <1>6, <1>7, <1>8, <1>9

\* The other calls of a client, and the children.
LEMMA ClientInv ==
  ASSUME IInv,
         \/ \E h \in Handles : ChildDies(h) \/ kill(h) \/ close(h)
         \/ signalChildDieHandler
         \/ \E p \in Programs : addLaunchTask(p)
         \/ Clear \/ SetShutdown \/ NotifyShutdown \/ Join
  PROVE  IInv'
<1> USE LauncherAssumption DEF IInv, TypeOK, HandleInv, LiveChildrenAreWatched, LaunchInv, Apart,
        TasksInv, Handles, Watching, historyVars, launchVars, kernelVars, monitorVars
<1>1. ASSUME NEW g \in Handles, ChildDies(g) PROVE IInv'
  <2>1. TypeOK'
    <3>1. child' \in [Handles -> {"none", "alive", "zombie", "reaped"}] /\ sigchld' \in BOOLEAN
      BY <1>1 DEF ChildDies, Dead
    <3>2. UNCHANGED <<handles, program, launching, handle, pidKnown, launchTasks, monitor,
                      childsExist, diedProcesses, shutdown, closed, announced>>
      BY <1>1 DEF ChildDies
    <3> QED
      BY <3>1, <3>2
  <2>2. ASSUME NEW h \in Handles PROVE HandleInv(h)'
    BY <1>1 DEF ChildDies, Dead
  <2>3. LiveChildrenAreWatched'
    BY <1>1 DEF ChildDies, Dead
  <2>4. ASSUME NEW t \in Threads PROVE LaunchInv(t)'
    BY <1>1, SMTT(30) DEF ChildDies, Dead
  <2>5. Apart'
    BY <1>1 DEF ChildDies, Dead
  <2>6. TasksInv'
    BY <1>1 DEF ChildDies, Dead
  <2> QED
    BY <2>1, <2>2, <2>3, <2>4, <2>5, <2>6
<1>2. ASSUME NEW g \in Handles, kill(g) PROVE IInv'
  <2>1. TypeOK'
    BY <1>2 DEF kill, Dead
  <2>2. ASSUME NEW h \in Handles PROVE HandleInv(h)'
    BY <1>2 DEF kill, Dead
  <2>3. LiveChildrenAreWatched'
    BY <1>2 DEF kill, Dead
  <2>4. ASSUME NEW t \in Threads PROVE LaunchInv(t)'
    BY <1>2 DEF kill, Dead
  <2>5. Apart'
    BY <1>2 DEF kill, Dead
  <2>6. TasksInv'
    BY <1>2 DEF kill, Dead
  <2> QED
    BY <2>1, <2>2, <2>3, <2>4, <2>5, <2>6
<1>3. ASSUME NEW g \in Handles, close(g) PROVE IInv'
  <2>1. TypeOK'
    BY <1>3 DEF close
  <2>2. ASSUME NEW h \in Handles PROVE HandleInv(h)'
    BY <1>3 DEF close
  <2>3. LiveChildrenAreWatched'
    BY <1>3 DEF close
  <2>4. ASSUME NEW t \in Threads PROVE LaunchInv(t)'
    BY <1>3 DEF close
  <2>5. Apart'
    BY <1>3 DEF close
  <2>6. TasksInv'
    BY <1>3 DEF close
  <2> QED
    BY <2>1, <2>2, <2>3, <2>4, <2>5, <2>6
<1>4. CASE signalChildDieHandler
  <2>1. TypeOK'
    <3>1. child' \in [Handles -> {"none", "alive", "zombie", "reaped"}] /\ sigchld' \in BOOLEAN
      BY <1>4 DEF signalChildDieHandler
    <3>2. UNCHANGED <<handles, program, launching, handle, pidKnown, launchTasks, monitor,
                      childsExist, diedProcesses, shutdown, closed, announced>>
      BY <1>4 DEF signalChildDieHandler
    <3> QED
      BY <3>1, <3>2
  <2>2. ASSUME NEW h \in Handles PROVE HandleInv(h)'
    BY <1>4 DEF signalChildDieHandler
  <2>3. LiveChildrenAreWatched'
    BY <1>4 DEF signalChildDieHandler
  <2>4. ASSUME NEW t \in Threads PROVE LaunchInv(t)'
    BY <1>4 DEF signalChildDieHandler
  <2>5. Apart'
    BY <1>4 DEF signalChildDieHandler
  <2>6. TasksInv'
    BY <1>4 DEF signalChildDieHandler
  <2> QED
    BY <2>1, <2>2, <2>3, <2>4, <2>5, <2>6
<1>5. ASSUME NEW p \in Programs, addLaunchTask(p) PROVE IInv'
  <2>1. TypeOK'
    BY <1>5 DEF addLaunchTask, HandleLeft, Notify
  <2>2. ASSUME NEW h \in Handles PROVE HandleInv(h)'
    BY <1>5 DEF addLaunchTask, HandleLeft, Notify
  <2>3. LiveChildrenAreWatched'
    BY <1>5 DEF addLaunchTask, HandleLeft, Notify
  <2>4. ASSUME NEW t \in Threads PROVE LaunchInv(t)'
    BY <1>5 DEF addLaunchTask, HandleLeft, Notify
  <2>5. Apart'
    BY <1>5 DEF addLaunchTask, HandleLeft, Notify
  <2>6. TasksInv'
    BY <1>5 DEF addLaunchTask, HandleLeft, Notify
  <2> QED
    BY <2>1, <2>2, <2>3, <2>4, <2>5, <2>6
<1>6. CASE Clear
  <2>1. CASE handles \subseteq pidKnown
    <3>1. TypeOK'
      BY <1>6, <2>1 DEF Clear, Dead
    <3>2. ASSUME NEW h \in Handles PROVE HandleInv(h)'
      BY <1>6, <2>1 DEF Clear, Dead
    <3>3. LiveChildrenAreWatched'
      BY <1>6, <2>1 DEF Clear, Dead
    <3>4. ASSUME NEW t \in Threads PROVE LaunchInv(t)'
      BY <1>6, <2>1 DEF Clear, Dead
    <3>5. Apart'
      BY <1>6, <2>1 DEF Clear, Dead
    <3>6. TasksInv'
      BY <1>6, <2>1 DEF Clear, Dead
    <3> QED
      BY <3>1, <3>2, <3>3, <3>4, <3>5, <3>6
  <2>2. CASE ~ (handles \subseteq pidKnown)
    <3>1. TypeOK'
      BY <1>6, <2>2 DEF Clear
    <3>2. ASSUME NEW h \in Handles PROVE HandleInv(h)'
      BY <1>6, <2>2 DEF Clear
    <3>3. LiveChildrenAreWatched'
      BY <1>6, <2>2 DEF Clear
    <3>4. ASSUME NEW t \in Threads PROVE LaunchInv(t)'
      BY <1>6, <2>2 DEF Clear
    <3>5. Apart'
      BY <1>6, <2>2 DEF Clear
    <3>6. TasksInv'
      BY <1>6, <2>2 DEF Clear
    <3> QED
      BY <3>1, <3>2, <3>3, <3>4, <3>5, <3>6
  <2> QED
    BY <2>1, <2>2
<1>7. CASE SetShutdown
  <2>1. TypeOK'
    BY <1>7 DEF SetShutdown
  <2>2. ASSUME NEW h \in Handles PROVE HandleInv(h)'
    BY <1>7 DEF SetShutdown
  <2>3. LiveChildrenAreWatched'
    BY <1>7 DEF SetShutdown
  <2>4. ASSUME NEW t \in Threads PROVE LaunchInv(t)'
    BY <1>7 DEF SetShutdown
  <2>5. Apart'
    BY <1>7 DEF SetShutdown
  <2>6. TasksInv'
    BY <1>7 DEF SetShutdown
  <2> QED
    BY <2>1, <2>2, <2>3, <2>4, <2>5, <2>6
<1>8. CASE NotifyShutdown
  <2>1. TypeOK'
    BY <1>8 DEF NotifyShutdown, Notify
  <2>2. ASSUME NEW h \in Handles PROVE HandleInv(h)'
    BY <1>8 DEF NotifyShutdown, Notify
  <2>3. LiveChildrenAreWatched'
    BY <1>8 DEF NotifyShutdown, Notify
  <2>4. ASSUME NEW t \in Threads PROVE LaunchInv(t)'
    BY <1>8 DEF NotifyShutdown, Notify
  <2>5. Apart'
    BY <1>8 DEF NotifyShutdown, Notify
  <2>6. TasksInv'
    BY <1>8 DEF NotifyShutdown, Notify
  <2> QED
    BY <2>1, <2>2, <2>3, <2>4, <2>5, <2>6
<1>9. CASE Join
  <2>1. TypeOK'
    BY <1>9 DEF Join
  <2>2. ASSUME NEW h \in Handles PROVE HandleInv(h)'
    BY <1>9 DEF Join
  <2>3. LiveChildrenAreWatched'
    BY <1>9 DEF Join
  <2>4. ASSUME NEW t \in Threads PROVE LaunchInv(t)'
    BY <1>9 DEF Join
  <2>5. Apart'
    BY <1>9 DEF Join
  <2>6. TasksInv'
    BY <1>9 DEF Join
  <2> QED
    BY <2>1, <2>2, <2>3, <2>4, <2>5, <2>6
<1> QED
  BY <1>1, <1>2, <1>3, <1>4, <1>5, <1>6, <1>7, <1>8, <1>9

\* Steps of the monitoring thread, but for the launch of a task.
LEMMA MonitorInv ==
  ASSUME IInv, MonitorStep \/ SpuriousWakeup
  PROVE  IInv'
<1> USE LauncherAssumption DEF IInv, TypeOK, HandleInv, LiveChildrenAreWatched, LaunchInv, Apart,
        TasksInv, Handles, Watching, historyVars, launchVars, kernelVars, monitorVars
<1>1. CASE CheckPredicate /\ UNCHANGED <<shutdown, closed>>
  <2>1. TypeOK'
    BY <1>1 DEF CheckPredicate, WorkToDo
  <2>2. ASSUME NEW h \in Handles PROVE HandleInv(h)'
    BY <1>1 DEF CheckPredicate, WorkToDo
  <2>3. LiveChildrenAreWatched'
    BY <1>1 DEF CheckPredicate, WorkToDo
  <2>4. ASSUME NEW t \in Threads PROVE LaunchInv(t)'
    BY <1>1 DEF CheckPredicate, WorkToDo
  <2>5. Apart'
    BY <1>1 DEF CheckPredicate, WorkToDo
  <2>6. TasksInv'
    BY <1>1 DEF CheckPredicate, WorkToDo
  <2> QED
    BY <2>1, <2>2, <2>3, <2>4, <2>5, <2>6
<1>2. CASE FallAsleep /\ UNCHANGED <<shutdown, closed>>
  <2>1. TypeOK'
    BY <1>2 DEF FallAsleep
  <2>2. ASSUME NEW h \in Handles PROVE HandleInv(h)'
    BY <1>2 DEF FallAsleep
  <2>3. LiveChildrenAreWatched'
    BY <1>2 DEF FallAsleep
  <2>4. ASSUME NEW t \in Threads PROVE LaunchInv(t)'
    BY <1>2 DEF FallAsleep
  <2>5. Apart'
    BY <1>2 DEF FallAsleep
  <2>6. TasksInv'
    BY <1>2 DEF FallAsleep
  <2> QED
    BY <2>1, <2>2, <2>3, <2>4, <2>5, <2>6
<1>3. CASE WakeUp /\ UNCHANGED <<shutdown, closed>>
  <2>1. TypeOK'
    BY <1>3 DEF WakeUp, WorkToDo
  <2>2. ASSUME NEW h \in Handles PROVE HandleInv(h)'
    BY <1>3 DEF WakeUp, WorkToDo
  <2>3. LiveChildrenAreWatched'
    BY <1>3 DEF WakeUp, WorkToDo
  <2>4. ASSUME NEW t \in Threads PROVE LaunchInv(t)'
    BY <1>3 DEF WakeUp, WorkToDo
  <2>5. Apart'
    BY <1>3 DEF WakeUp, WorkToDo
  <2>6. TasksInv'
    BY <1>3 DEF WakeUp, WorkToDo
  <2> QED
    BY <2>1, <2>2, <2>3, <2>4, <2>5, <2>6
<1>4. CASE runSystemClock /\ UNCHANGED <<shutdown, closed>>
  <2>1. CASE launchTasks = <<>>
    <3>1. TypeOK'
      BY <1>4, <2>1 DEF runSystemClock
    <3>2. ASSUME NEW h \in Handles PROVE HandleInv(h)'
      BY <1>4, <2>1 DEF runSystemClock
    <3>3. LiveChildrenAreWatched'
      BY <1>4, <2>1 DEF runSystemClock
    <3>4. ASSUME NEW t \in Threads PROVE LaunchInv(t)'
      BY <1>4, <2>1 DEF runSystemClock
    <3>5. Apart'
      BY <1>4, <2>1 DEF runSystemClock
    <3>6. TasksInv'
      BY <1>4, <2>1 DEF runSystemClock
    <3> QED
      BY <3>1, <3>2, <3>3, <3>4, <3>5, <3>6
  <2>2. CASE launchTasks # <<>>
    <3>1. /\ Last(launchTasks) \in Programs
          /\ Tail(launchTasks) \in Seq(Programs) /\ Len(Tail(launchTasks)) = Len(launchTasks) - 1
      BY <2>2 DEF Last
    <3>2. launchTasks' = Tail(launchTasks) /\ launching[Monitor] = "no"
      BY <1>4, <2>2 DEF runSystemClock, Threads
    <3>3. CASE monitor' = "scanning" /\ UNCHANGED <<program, handle, launching>>
      <4>1. TypeOK'
        BY <1>4, <3>1, <3>2, <3>3 DEF runSystemClock
      <4>2. ASSUME NEW h \in Handles PROVE HandleInv(h)'
        BY <1>4, <3>1, <3>2, <3>3 DEF runSystemClock
      <4>3. LiveChildrenAreWatched'
        BY <1>4, <3>1, <3>2, <3>3 DEF runSystemClock
      <4>4. ASSUME NEW t \in Threads PROVE LaunchInv(t)'
        BY <1>4, <3>1, <3>2, <3>3 DEF runSystemClock
      <4>5. Apart'
        BY <1>4, <3>1, <3>2, <3>3 DEF runSystemClock
      <4>6. TasksInv'
        BY <1>4, <3>1, <3>2, <3>3 DEF runSystemClock
      <4> QED
        BY <4>1, <4>2, <4>3, <4>4, <4>5, <4>6
    <3>4. CASE monitor' = "working" /\ Allocate(Monitor, Last(launchTasks))
      <4>1. /\ launchTasks' \in Seq(Programs) /\ Len(program) < MaxLaunches
            /\ Len(program) + 1 + Len(launchTasks') <= MaxLaunches
        BY <3>1, <3>2
      <4>2. UNCHANGED <<handles, pidKnown, kernelVars, childsExist, diedProcesses, shutdown,
                        historyVars>>
        BY <1>4 DEF runSystemClock
      <4> HIDE DEF IInv
      <4> QED
        BY <3>1, <3>2, <3>4, <4>1, <4>2, AllocateInv DEF Threads
    <3> QED
      BY <1>4, <2>2, <3>3, <3>4 DEF runSystemClock
  <2> QED
    BY <2>1, <2>2
<1>5. CASE TaskLaunched /\ UNCHANGED <<shutdown, closed>>
  <2>1. TypeOK'
    BY <1>5 DEF TaskLaunched
  <2>2. ASSUME NEW h \in Handles PROVE HandleInv(h)'
    BY <1>5 DEF TaskLaunched
  <2>3. LiveChildrenAreWatched'
    BY <1>5 DEF TaskLaunched
  <2>4. ASSUME NEW t \in Threads PROVE LaunchInv(t)'
    BY <1>5 DEF TaskLaunched
  <2>5. Apart'
    BY <1>5 DEF TaskLaunched
  <2>6. TasksInv'
    BY <1>5 DEF TaskLaunched
  <2> QED
    BY <2>1, <2>2, <2>3, <2>4, <2>5, <2>6
<1>6. CASE ScanHandles /\ UNCHANGED <<shutdown, closed>>
  <2>1. TypeOK'
    <3>1. handles \subseteq Handles
      OBVIOUS
    <3> QED
      BY <1>6, <3>1 DEF ScanHandles, Scan, isRunning
  <2>2. ASSUME NEW h \in Handles PROVE HandleInv(h)'
    BY <1>6 DEF ScanHandles, Scan, isRunning
  <2>3. LiveChildrenAreWatched'
    BY <1>6 DEF ScanHandles, Scan, isRunning
  <2>4. ASSUME NEW t \in Threads PROVE LaunchInv(t)'
    BY <1>6 DEF ScanHandles, Scan, isRunning
  <2>5. Apart'
    BY <1>6 DEF ScanHandles, Scan, isRunning
  <2>6. TasksInv'
    BY <1>6 DEF ScanHandles, Scan, isRunning
  <2> QED
    BY <2>1, <2>2, <2>3, <2>4, <2>5, <2>6
<1>7. CASE Announce /\ UNCHANGED <<shutdown, closed>>
  <2>1. TypeOK'
    <3>1. PICK h \in diedProcesses : /\ announced' = [announced EXCEPT ![h] = announced[h] + 1]
                                     /\ diedProcesses' = diedProcesses \ {h}
      BY <1>7 DEF Announce
    <3>2. announced' \in [Handles -> Nat]
      BY <3>1 DEF HandleInv
    <3>3. diedProcesses' \subseteq Handles
      BY <3>1
    <3>4. UNCHANGED <<program, launching, handle, pidKnown, child, sigchld, monitor, childsExist,
                      handles, launchTasks, shutdown, closed>>
      BY <1>7 DEF Announce
    <3> QED
      BY <3>2, <3>3, <3>4
  <2>2. ASSUME NEW h \in Handles PROVE HandleInv(h)'
    BY <1>7 DEF Announce
  <2>3. LiveChildrenAreWatched'
    BY <1>7 DEF Announce
  <2>4. ASSUME NEW t \in Threads PROVE LaunchInv(t)'
    BY <1>7 DEF Announce
  <2>5. Apart'
    BY <1>7 DEF Announce
  <2>6. TasksInv'
    BY <1>7 DEF Announce
  <2> QED
    BY <2>1, <2>2, <2>3, <2>4, <2>5, <2>6
<1>8. CASE EndIteration /\ UNCHANGED <<shutdown, closed>>
  <2>1. TypeOK'
    BY <1>8 DEF EndIteration
  <2>2. ASSUME NEW h \in Handles PROVE HandleInv(h)'
    BY <1>8 DEF EndIteration
  <2>3. LiveChildrenAreWatched'
    BY <1>8 DEF EndIteration
  <2>4. ASSUME NEW t \in Threads PROVE LaunchInv(t)'
    BY <1>8 DEF EndIteration
  <2>5. Apart'
    BY <1>8 DEF EndIteration
  <2>6. TasksInv'
    BY <1>8 DEF EndIteration
  <2> QED
    BY <2>1, <2>2, <2>3, <2>4, <2>5, <2>6
<1>9. CASE SpuriousWakeup
  <2>1. TypeOK'
    BY <1>9 DEF SpuriousWakeup
  <2>2. ASSUME NEW h \in Handles PROVE HandleInv(h)'
    BY <1>9 DEF SpuriousWakeup
  <2>3. LiveChildrenAreWatched'
    BY <1>9 DEF SpuriousWakeup
  <2>4. ASSUME NEW t \in Threads PROVE LaunchInv(t)'
    BY <1>9 DEF SpuriousWakeup
  <2>5. Apart'
    BY <1>9 DEF SpuriousWakeup
  <2>6. TasksInv'
    BY <1>9 DEF SpuriousWakeup
  <2> QED
    BY <2>1, <2>2, <2>3, <2>4, <2>5, <2>6
<1> QED
  BY <1>1, <1>2, <1>3, <1>4, <1>5, <1>6, <1>7, <1>8, <1>9 DEF MonitorStep

\* Every step keeps the invariant.
LEMMA NextInv == IInv /\ [Next]_vars => IInv'
<1> SUFFICES ASSUME IInv, [Next]_vars PROVE IInv'
  OBVIOUS
<1>1. ASSUME NEW c \in Clients, NEW p \in Programs, NEW checkForDuplicate \in BOOLEAN,
             launch(c, p, checkForDuplicate)
      PROVE  IInv'
  <2>1. /\ c \in Threads /\ c # Monitor /\ launching[c] = "no" /\ Allocate(c, p)
        /\ UNCHANGED <<handles, pidKnown, kernelVars, launchTasks, monitorVars, shutdown, historyVars>>
    BY <1>1, LauncherAssumption DEF launch, Threads
  <2>2. /\ Len(program) < MaxLaunches /\ launchTasks' \in Seq(Programs)
        /\ Len(program) + 1 + Len(launchTasks') <= MaxLaunches
    BY <1>1, LauncherAssumption DEF launch, HandleLeft, IInv, TypeOK
  <2>3. /\ monitor' \in Watching \union {"checking", "dozing", "asleep", "awake", "exited"}
        /\ launching[Monitor] # "no" => monitor' = "working"
    BY <2>1 DEF IInv, TypeOK, TasksInv, monitorVars
  <2> QED
    BY <2>1, <2>2, <2>3, AllocateInv DEF monitorVars
<1>2. ASSUME NEW th \in Threads, LaunchStep(th) PROVE IInv'
  BY <1>2, LaunchStepInv
<1>3. ASSUME UNCHANGED vars PROVE IInv'
  BY <1>3
  DEF IInv, TypeOK, HandleInv, LiveChildrenAreWatched, LaunchInv, Apart, TasksInv, vars, launchVars,
      kernelVars, monitorVars, historyVars
<1> QED
  BY <1>1, <1>2, <1>3, ClientInv, MonitorInv DEF Next

\* The invariant holds of every reachable state.
LEMMA Invariance == Spec => []IInv
  BY InitInv, NextInv, PTL DEF Spec

\* The variables have their types, for any number of launches (process_launcher.h).
THEOREM TypesAreKept == Spec => []TypeOK
<1>1. IInv => TypeOK
  BY DEF IInv
<1> QED
  BY <1>1, Invariance, PTL

\* The end of a child is dealt with by a client or announced to the observers, not
\* both, and announced once (kill, close, threadChildProcessMonitoring).
THEOREM EndsAreHandledOnce == Spec => []HandledOnce
<1>1. IInv => HandledOnce
  BY DEF IInv, TypeOK, HandleInv, HandledOnce
<1> QED
  BY <1>1, Invariance, PTL

\* The observers only hear of children that have died and been reaped, and of none
\* that has yet to be forked (isRunning, setRole).
THEOREM AnnouncedAreDead == Spec => []OnlyTheDeadAreAnnounced
<1>1. IInv => OnlyTheDeadAreAnnounced
  BY DEF IInv, TypeOK, HandleInv, OnlyTheDeadAreAnnounced
<1> QED
  BY <1>1, Invariance, PTL

\* A child that runs stays in m_handles until a client closes it or the launcher
\* shuts down (launch, threadChildProcessMonitoring).
THEOREM RunningAreWatched == Spec => []LiveChildrenAreWatched
<1>1. IInv => LiveChildrenAreWatched
  BY DEF IInv
<1> QED
  BY <1>1, Invariance, PTL

-----------------------------------------------------------------------------
(* No death is forgotten.                                                  *)

\* The list of the dead is one scan's: the next begins when all are announced.  Without
\* it a scan could overwrite a list that somebody is still on.
OneScanAtATime == diedProcesses # {} => monitor = "announcing"

DeathsInv == NoDeathIsForgotten /\ OneScanAtATime

\* The launching threads, the clients and the kernel leave what has died where it is;
\* only the monitoring thread moves it on.  A child with a process that lives is in the
\* list (LiveChildrenAreWatched), so that it is there when it dies.
LEMMA DeathsAreKept ==
  ASSUME IInv, DeathsInv, [Next]_vars
  PROVE  DeathsInv'
<1> USE LauncherAssumption DEF IInv, TypeOK, HandleInv, LiveChildrenAreWatched, DeathsInv,
        NoDeathIsForgotten, OneScanAtATime, Handles, historyVars, launchVars, kernelVars,
        monitorVars
<1>1. ASSUME NEW h \in Handles, ChildDies(h) PROVE DeathsInv'
  BY <1>1 DEF ChildDies, Dead
<1>2. ASSUME NEW h \in Handles, kill(h) \/ close(h) PROVE DeathsInv'
  BY <1>2 DEF kill, close, Dead
<1>3. CASE signalChildDieHandler
  BY <1>3 DEF signalChildDieHandler
<1>4. ASSUME NEW c \in Clients, NEW p \in Programs, NEW checkForDuplicate \in BOOLEAN,
             launch(c, p, checkForDuplicate)
      PROVE  DeathsInv'
  BY <1>4 DEF launch
<1>5. ASSUME NEW th \in Threads, LaunchStep(th) PROVE DeathsInv'
  BY <1>5 DEF LaunchStep, Push, NotifyLaunch, Fork, SetRole, LaunchInv, Notify
<1>6. ASSUME NEW p \in Programs, addLaunchTask(p) PROVE DeathsInv'
  BY <1>6 DEF addLaunchTask, Notify
<1>7. CASE Clear \/ SetShutdown \/ NotifyShutdown \/ Join
  BY <1>7 DEF Clear, SetShutdown, NotifyShutdown, Join, Notify
<1>8. CASE MonitorStep
  <2>1. CASE CheckPredicate \/ FallAsleep \/ WakeUp \/ TaskLaunched \/ EndIteration
    BY <1>8, <2>1 DEF MonitorStep, CheckPredicate, FallAsleep, WakeUp, TaskLaunched, EndIteration
  <2>2. CASE runSystemClock
    BY <1>8, <2>2 DEF MonitorStep, runSystemClock
  <2>3. CASE ScanHandles
    <3>1. diedProcesses = {}
      BY <2>3 DEF ScanHandles, Scan
    <3>2. /\ diedProcesses' = {h \in handles : ~isRunning(h)}
          /\ handles' = handles \ diedProcesses'
          /\ monitor' = "announcing"
          /\ UNCHANGED <<child, announced>>
      BY <2>3 DEF ScanHandles, Scan
    <3>3. UNCHANGED <<shutdown, closed>>
      BY <1>8 DEF MonitorStep
    <3>4. \A h \in handles \union diedProcesses : h \in handles' \union diedProcesses'
      BY <3>1, <3>2
    <3> QED
      BY <3>2, <3>3, <3>4
  <2>4. CASE Announce
    BY <1>8, <2>4 DEF MonitorStep, Announce
  <2> QED
    BY <1>8, <2>1, <2>2, <2>3, <2>4 DEF MonitorStep
<1>9. CASE SpuriousWakeup \/ UNCHANGED vars
  BY <1>9 DEF SpuriousWakeup, vars
<1> QED
  BY <1>1, <1>2, <1>3, <1>4, <1>5, <1>6, <1>7, <1>8, <1>9 DEF Next

\* A child that has died is looked at, about to be announced, or announced, unless a
\* client has closed it or the launcher shuts down: for any number of children, in any
\* order of their deaths, signals and launches (threadChildProcessMonitoring).
THEOREM DeathsAreNotForgotten == Spec => []NoDeathIsForgotten
<1>1. Init => DeathsInv
  BY DEF Init, DeathsInv, NoDeathIsForgotten, OneScanAtATime
<1>2. DeathsInv => NoDeathIsForgotten
  BY DEF DeathsInv
<1> QED
  BY <1>1, <1>2, DeathsAreKept, Invariance, PTL DEF Spec

=============================================================================
