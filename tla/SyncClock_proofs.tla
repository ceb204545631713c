---------------------------- MODULE SyncClock_proofs ----------------------------
(***************************************************************************)
(* Proofs about SyncClock, for any number of values and of restarts and    *)
(* for any two intervals.                                                  *)
(***************************************************************************)
EXTENDS SyncClock, TLAPS

(* The token of a run tells what became of it: those before the latest are *)
(* over, and the latest is over exactly when the clock does not run.       *)
TokensTellRuns ==
    /\ isRunning => run # 0
    /\ \A r \in Runs :
        /\ r < run => token[r] = "told"
        /\ r > run => token[r] = "unset"
        /\ r = run => token[r] = (IF isRunning THEN "live" ELSE "told")
                        \/ (isRunning /\ token[r] = "cancelled")

(* A token that was told ends the pings that have it. *)
ToldRunsHaveNoPing ==
    \A r \in Runs : pings[r] > 0 => token[r] \in {"live", "cancelled"}

IInv ==
    /\ TypeOK
    /\ NeverOversleeps
    /\ TokensTellRuns
    /\ ToldRunsHaveNoPing
    /\ OnePingAtATime
-----------------------------------------------------------------------------
(* What the steps do to the queue and to the thread. *)
QueueType ==
    /\ task \in [Tasks -> {"none", "queued", "given", "working", "ended"}]
    /\ left \in [Tasks -> Times]
    /\ timer \in {"test", "lock", "sleep", "undefined", "ended"}
    /\ wake \in Times \cup {None} /\ notified \in BOOLEAN
    /\ stop \in {"no", "requested", "notified"}

ClockType ==
    /\ isRunning \in BOOLEAN /\ lastPingFinished \in BOOLEAN
    /\ values \in 0 .. MaxValues
    /\ run \in 0 .. MaxRuns
    /\ token \in [Runs -> {"unset", "live", "cancelled", "told"}]
    /\ pings \in [Runs -> 0 .. 1]
    /\ connected \in BOOLEAN /\ client \in BOOLEAN /\ broken \in BOOLEAN

LEMMA TypeOKParts == TypeOK <=> QueueType /\ ClockType
  BY DEF TypeOK, QueueType, ClockType

(* schedule leaves the thread asleep only if it wakes in time for what it  *)
(* has queued.                                                             *)
LEMMA ScheduleKeepsWaking ==
    ASSUME QueueType, NeverOversleeps, NEW ts \in SUBSET Tasks, NEW delay \in [Tasks -> Times],
           Schedule(ts, delay)
    PROVE  QueueType' /\ NeverOversleeps'
<1>1. CASE stop # "no"
  BY <1>1 DEF QueueType, NeverOversleeps, Schedule, Queue, timerVars
<1>2. CASE stop = "no"
  <2>1. /\ task' = [t \in Tasks |-> IF t \in ts THEN "queued" ELSE task[t]]
        /\ left' = [t \in Tasks |-> IF t \in ts THEN delay[t] ELSE left[t]]
        /\ notified' = (notified \/ (timer = "sleep" /\
                \E t \in ts : ~\E u \in Queue : left[u] <= delay[t]))
        /\ UNCHANGED <<timer, wake, stop>>
    BY <1>2 DEF Schedule
  <2>2. QueueType'
    <3>1. notified' \in BOOLEAN
      BY <2>1 DEF QueueType
    <3>2. task' \in [Tasks -> {"none", "queued", "given", "working", "ended"}]
      BY <2>1 DEF QueueType
    <3>3. left' \in [Tasks -> Times]
      BY <2>1 DEF QueueType
    <3> QED
      BY <2>1, <3>1, <3>2, <3>3 DEF QueueType
  <2>3. ASSUME timer' = "sleep", ~notified', NEW t \in Queue'
        PROVE  wake' \in Nat /\ wake' <= left'[t]
    <3>1. timer = "sleep" /\ ~notified /\ wake' = wake /\ t \in Tasks
      BY <2>1, <2>3 DEF Queue
    <3>2. CASE t \in ts
      <4>1. PICK u \in Queue : left[u] <= delay[t]
        BY <2>1, <2>3, <3>1, <3>2
      <4>2. wake \in Nat /\ wake <= left[u] /\ left[u] \in Times /\ delay[t] \in Times
        BY <3>1, <4>1 DEF NeverOversleeps, QueueType, Queue
      <4>3. left'[t] = delay[t]
        BY <2>1, <3>1, <3>2
      <4> QED
        BY <3>1, <4>1, <4>2, <4>3, ClockAssumption DEF Times
    <3>3. CASE t \notin ts
      <4>1. t \in Queue /\ left'[t] = left[t]
        BY <2>1, <2>3, <3>1, <3>3 DEF Queue
      <4> QED
        BY <3>1, <4>1 DEF NeverOversleeps
    <3> QED
      BY <3>2, <3>3
  <2>4. NeverOversleeps'
    BY <2>3 DEF NeverOversleeps
  <2> QED
    BY <2>2, <2>4
<1> QED
  BY <1>1, <1>2

LEMMA DelayType == Delay \in [Tasks -> Times] /\ [t \in Tasks |-> 0] \in [Tasks -> Times]
  BY ClockAssumption DEF Delay, Times

LEMMA AgainKeepsWaking ==
    ASSUME QueueType, NeverOversleeps, NEW t \in Tasks, Again(t) \/ Thrown(t)
    PROVE  QueueType' /\ NeverOversleeps'
<1>1. CASE Again(t)
  BY <1>1, DelayType, ScheduleKeepsWaking DEF Again
<1>2. CASE Thrown(t)
  BY <1>2 DEF Thrown, QueueType, NeverOversleeps, Queue, timerVars
<1> QED
  BY <1>1, <1>2

(* A step that does not touch the queue nor the thread. *)
LEMMA QueueStutters ==
    ASSUME QueueType, NeverOversleeps, UNCHANGED <<queueVars, timerVars>>
    PROVE  QueueType' /\ NeverOversleeps'
  BY DEF QueueType, NeverOversleeps, Queue, queueVars, timerVars

(* The steps of the pool and of the thread, and the passing of time.       *)
LEMMA ThreadKeepsWaking ==
    ASSUME QueueType, NeverOversleeps,
           \/ TimerNext \/ WakesSpuriously \/ StopRequested \/ StopNotified \/ Tick
           \/ \E t \in Tasks : Begin(t)
    PROVE  QueueType' /\ NeverOversleeps'
<1> USE ClockAssumption
<1>1. CASE LoopTest
  BY <1>1 DEF LoopTest, QueueType, NeverOversleeps, Queue, queueVars
<1>2. CASE LoopEmpty
  BY <1>2 DEF LoopEmpty, QueueType, NeverOversleeps, Queue, queueVars
<1>3. CASE LoopWaits
  <2>1. PICK t \in Queue : Earliest(t) /\ left[t] > 0 /\ wake' = left[t]
    BY <1>3 DEF LoopWaits
  <2>2. left[t] \in Times
    BY DEF QueueType, Queue
  <2>3. timer' = "sleep" /\ notified' = FALSE /\ UNCHANGED <<stop, task, left>>
    BY <1>3 DEF LoopWaits, queueVars
  <2>4. QueueType'
    BY <2>1, <2>2, <2>3 DEF QueueType
  <2>5. Queue' = Queue
    BY <2>3 DEF Queue
  <2>6. NeverOversleeps'
    BY <2>1, <2>2, <2>3, <2>5 DEF NeverOversleeps, Earliest, Times
  <2> QED
    BY <2>4, <2>6
<1>4. ASSUME NEW t \in Tasks, LoopRuns(t) PROVE QueueType' /\ NeverOversleeps'
  BY <1>4 DEF LoopRuns, QueueType, NeverOversleeps
<1>5. CASE Wakes
  BY <1>5 DEF Wakes, QueueType, NeverOversleeps, queueVars
<1>6. CASE WakesSpuriously
  BY <1>6 DEF WakesSpuriously, QueueType, NeverOversleeps, queueVars
<1>7. CASE StopRequested
  BY <1>7 DEF StopRequested, QueueType, NeverOversleeps, Queue
<1>8. CASE StopNotified
  BY <1>8 DEF StopNotified, QueueType, NeverOversleeps, Queue, queueVars
<1>9. CASE Tick
  <2>1. QueueType'
    <3>1. left' \in [Tasks -> Times]
      BY <1>9 DEF Tick, QueueType, Times
    <3>2. wake' \in Times \cup {None}
      BY <1>9 DEF Tick, QueueType, Times
    <3> QED
      BY <1>9, <3>1, <3>2 DEF Tick, QueueType
  <2>2. ASSUME timer' = "sleep", ~notified', NEW t \in Queue'
        PROVE  wake' \in Nat /\ wake' <= left'[t]
    <3>1. t \in Queue /\ timer = "sleep" /\ ~notified
      BY <1>9, <2>2 DEF Tick, Queue
    <3>2. wake \in Nat /\ wake <= left[t] /\ left[t] \in Times
      BY <3>1 DEF NeverOversleeps, QueueType, Queue
    <3>3. left'[t] = (IF left[t] > 0 THEN left[t] - 1 ELSE 0)
      BY <1>9, <3>1 DEF Tick, Queue
    <3>4. wake' = IF wake > 0 THEN wake - 1 ELSE wake
      BY <1>9, <3>2 DEF Tick
    <3> QED
      BY <3>2, <3>3, <3>4 DEF Times
  <2> QED
    BY <2>1, <2>2 DEF NeverOversleeps
<1>10. ASSUME NEW t \in Tasks, Begin(t) PROVE QueueType' /\ NeverOversleeps'
  <2>1. /\ task[t] = "given" /\ UNCHANGED <<left, timer, wake, notified, stop>>
        /\ task' = [task EXCEPT ![t] = IF token[t[1]] = "live" THEN "working" ELSE "ended"]
    BY <1>10 DEF Begin, timerVars
  <2>2. QueueType'
    BY <2>1 DEF QueueType
  <2>3. Queue' \subseteq Queue
    BY <2>1 DEF Queue, QueueType
  <2> QED
    BY <2>1, <2>2, <2>3 DEF NeverOversleeps
<1> QED
  BY <1>1, <1>2, <1>3, <1>4, <1>5, <1>6, <1>7, <1>8, <1>9, <1>10 DEF TimerNext
-----------------------------------------------------------------------------
(* The clock.  The steps of the thread and of time leave it alone.         *)
ClockInv == ClockType /\ TokensTellRuns /\ ToldRunsHaveNoPing /\ OnePingAtATime

LEMMA ClockStutters ==
    ASSUME ClockInv, UNCHANGED clockVars
    PROVE  ClockInv'
  BY DEF ClockInv, ClockType, TokensTellRuns, ToldRunsHaveNoPing, OnePingAtATime, clockVars

(* A cancelled source changes nothing until its callbacks run. *)
LEMMA CancelTokenKeeps ==
    ASSUME ClockInv, NEW r, CancelToken(r), client' \in BOOLEAN,
           UNCHANGED <<isRunning, lastPingFinished, values, run, pings, connected, broken>>
    PROVE  ClockInv'
<1>1. token' \in [Runs -> {"unset", "live", "cancelled", "told"}]
  BY DEF CancelToken, ClockInv, ClockType
<1>2. \A s \in Runs : token'[s] = token[s] \/ (token[s] = "live" /\ token'[s] = "cancelled")
  BY DEF CancelToken, ClockInv, ClockType
<1>3. TokensTellRuns'
  BY <1>2 DEF ClockInv, TokensTellRuns
<1>4. ToldRunsHaveNoPing' /\ OnePingAtATime'
  BY <1>2 DEF ClockInv, ToldRunsHaveNoPing, OnePingAtATime
<1> QED
  BY <1>1, <1>3, <1>4 DEF ClockInv, ClockType

(* No run has a ping when the last one has finished, nor when the clock is stopped. *)
LEMMA NoPingUnderWay ==
    ASSUME ClockInv, lastPingFinished \/ ~isRunning
    PROVE  \A r \in Runs : pings[r] = 0
  BY DEF ClockInv, ClockType, OnePingAtATime, ToldRunsHaveNoPing, TokensTellRuns

LEMMA StartKeeps ==
    ASSUME ClockInv, Start
    PROVE  ClockInv'
<1>1. \A r \in Runs : pings[r] = 0
  BY NoPingUnderWay DEF Start
<1>2. /\ ~isRunning /\ run < MaxRuns /\ run' = run + 1 /\ isRunning' = TRUE
      /\ token' = [token EXCEPT ![run + 1] = "live"]
      /\ UNCHANGED <<lastPingFinished, values, pings, connected, client, broken>>
  BY DEF Start
<1>3. run \in 0 .. MaxRuns /\ run + 1 \in Runs /\ run' \in 0 .. MaxRuns
  BY <1>2, ClockAssumption DEF ClockInv, ClockType, Runs
<1>4. ClockType'
  BY <1>2, <1>3 DEF ClockInv, ClockType
<1>5. \A r \in Runs : token'[r] = IF r = run + 1 THEN "live" ELSE token[r]
  BY <1>2, <1>3 DEF ClockInv, ClockType
<1>6. TokensTellRuns'
  BY <1>2, <1>3, <1>5 DEF ClockInv, TokensTellRuns, Runs
<1>7. ToldRunsHaveNoPing' /\ OnePingAtATime'
  BY <1>1, <1>2 DEF ClockInv, ToldRunsHaveNoPing, OnePingAtATime
<1> QED
  BY <1>4, <1>6, <1>7 DEF ClockInv

LEMMA ToldKeeps ==
    ASSUME ClockInv, NEW r \in Runs, Told(r)
    PROVE  ClockInv'
<1>1. /\ token[r] = "cancelled" /\ token' = [token EXCEPT ![r] = "told"]
      /\ isRunning' = FALSE /\ pings' = [pings EXCEPT ![r] = 0]
      /\ broken' = (broken \/ pings[r] > 0)
      /\ UNCHANGED <<lastPingFinished, values, run, connected, client>>
  BY DEF Told
<1>2. r = run /\ isRunning
  BY <1>1 DEF ClockInv, ClockType, TokensTellRuns, Runs
<1>3. ClockType'
  <2>1. token' \in [Runs -> {"unset", "live", "cancelled", "told"}]
    BY <1>1 DEF ClockInv, ClockType
  <2>2. pings' \in [Runs -> 0 .. 1]
    BY <1>1 DEF ClockInv, ClockType
  <2>3. broken' \in BOOLEAN /\ isRunning' \in BOOLEAN
    BY <1>1 DEF ClockInv, ClockType
  <2> QED
    BY <1>1, <2>1, <2>2, <2>3 DEF ClockInv, ClockType
<1>4. /\ \A s \in Runs : token'[s] = IF s = r THEN "told" ELSE token[s]
      /\ \A s \in Runs : pings'[s] = IF s = r THEN 0 ELSE pings[s]
  BY <1>1 DEF ClockInv, ClockType
<1>5. TokensTellRuns'
  BY <1>1, <1>2, <1>4 DEF ClockInv, TokensTellRuns
<1>6. ToldRunsHaveNoPing'
  BY <1>4 DEF ClockInv, ToldRunsHaveNoPing
<1>7. OnePingAtATime'
  <2>1. \A s \in Runs : pings'[s] > 0 => pings[s] > 0
    BY <1>4
  <2>2. CASE pings[r] > 0
    BY <1>1, <2>1, <2>2 DEF ClockInv, OnePingAtATime
  <2>3. CASE ~(pings[r] > 0)
    <3>1. pings' = pings
      BY <1>1, <2>3 DEF ClockInv, ClockType
    <3> QED
      BY <1>1, <3>1 DEF ClockInv, OnePingAtATime
  <2> QED
    BY <2>2, <2>3
<1> QED
  BY <1>3, <1>5, <1>6, <1>7 DEF ClockInv

(* An answer, or an error, ends the ping of the latest run. *)
LEMMA PingEnds ==
    ASSUME ClockInv, NEW r \in Runs, Answer(r) \/ PingFails(r)
    PROVE  ClockInv'
<1>1. /\ pings[r] > 0 /\ pings' = [pings EXCEPT ![r] = @ - 1]
      /\ UNCHANGED <<isRunning, run, token, connected, client>>
      /\ \/ broken' = TRUE /\ UNCHANGED <<values, lastPingFinished>>
         \/ /\ UNCHANGED broken
            /\ lastPingFinished' = TRUE
            /\ values' = IF values = MaxValues THEN values ELSE values + 1
  BY DEF Answer, PingFails
<1>2. \A s \in Runs : pings'[s] = 0
  BY <1>1 DEF ClockInv, ClockType, OnePingAtATime
<1>3. ClockType'
  <2>1. values' \in 0 .. MaxValues
    BY <1>1, ClockAssumption DEF ClockInv, ClockType
  <2>2. pings' \in [Runs -> 0 .. 1]
    BY <1>1, <1>2 DEF ClockInv, ClockType
  <2>3. broken' \in BOOLEAN /\ lastPingFinished' \in BOOLEAN
    BY <1>1 DEF ClockInv, ClockType
  <2> QED
    BY <1>1, <2>1, <2>2, <2>3 DEF ClockInv, ClockType
<1>4. TokensTellRuns'
  BY <1>1 DEF ClockInv, TokensTellRuns
<1>5. ToldRunsHaveNoPing' /\ OnePingAtATime'
  BY <1>1, <1>2 DEF ClockInv, ToldRunsHaveNoPing, OnePingAtATime
<1> QED
  BY <1>3, <1>4, <1>5 DEF ClockInv

(* A ping is only sent when none is under way. *)
LEMMA PingKeeps ==
    ASSUME ClockInv, NEW t \in Tasks, Ping(t) \/ PingThrows(t)
    PROVE  ClockInv'
<1>1. /\ isRunning /\ lastPingFinished /\ lastPingFinished' = FALSE
      /\ UNCHANGED <<isRunning, values, run, token, connected, client>>
      /\ \/ broken' = TRUE /\ UNCHANGED pings
         \/ /\ token[run] = "live" /\ pings' = [pings EXCEPT ![run] = @ + 1]
            /\ UNCHANGED broken
  BY DEF Ping, PingThrows
<1>2. \A r \in Runs : pings[r] = 0
  BY <1>1, NoPingUnderWay
<1>3. run \in Runs
  BY <1>1, ClockAssumption DEF ClockInv, ClockType, TokensTellRuns, Runs
<1>4. \A r \in Runs : pings'[r] = 0 \/ (r = run /\ token[run] = "live" /\ pings'[r] = 1)
  BY <1>1, <1>2, <1>3 DEF ClockInv, ClockType
<1>5. ClockType'
  <2>1. pings' \in [Runs -> 0 .. 1]
    BY <1>1, <1>2, <1>4 DEF ClockInv, ClockType
  <2>2. broken' \in BOOLEAN
    BY <1>1 DEF ClockInv, ClockType
  <2> QED
    BY <1>1, <2>1, <2>2 DEF ClockInv, ClockType
<1>6. TokensTellRuns'
  BY <1>1 DEF ClockInv, TokensTellRuns
<1>7. ToldRunsHaveNoPing'
  BY <1>1, <1>4 DEF ToldRunsHaveNoPing
<1>8. OnePingAtATime'
  <2>1. (\A r \in Runs : pings'[r] = 0) => broken'
    BY <1>1, <1>2, <1>3 DEF ClockInv, ClockType
  <2> QED
    BY <1>1, <1>4, <2>1 DEF OnePingAtATime
<1> QED
  BY <1>5, <1>6, <1>7, <1>8 DEF ClockInv
-----------------------------------------------------------------------------
LEMMA InvParts == IInv <=> QueueType /\ NeverOversleeps /\ ClockInv
  BY TypeOKParts DEF IInv, ClockInv

(* Every step keeps the invariant: it schedules, runs on the thread or     *)
(* leaves the queue alone, and it cancels, starts, ends a ping, or leaves  *)
(* the clock alone.                                                        *)
LEMMA IInvStep == IInv /\ [Next]_vars => IInv'
<1>0. IInv' <=> (QueueType /\ NeverOversleeps /\ ClockInv)'
  BY InvParts, PTL
<1> SUFFICES ASSUME QueueType, NeverOversleeps, ClockInv, [Next]_vars
             PROVE  QueueType' /\ NeverOversleeps' /\ ClockInv'
  BY <1>0, InvParts
<1>1. CASE Start
  <2>1. {run + 1} \X {"periodic", "startup"} \in SUBSET Tasks
    BY <1>1, ClockAssumption DEF Start, Tasks, Runs, ClockInv, ClockType
  <2>2. Schedule({run + 1} \X {"periodic", "startup"}, [t \in Tasks |-> 0])
    BY <1>1 DEF Start
  <2>3. QueueType' /\ NeverOversleeps'
    BY <2>1, <2>2, DelayType, ScheduleKeepsWaking
  <2> QED
    BY <1>1, <2>3, StartKeeps
<1>2. CASE ClientCancels
  BY <1>2, QueueStutters, CancelTokenKeeps DEF ClientCancels
<1>3. CASE ConnectionGoes
  <2>1. ClockInv'
    BY <1>3 DEF ConnectionGoes, ClockInv, ClockType, TokensTellRuns, ToldRunsHaveNoPing,
                OnePingAtATime
  <2> QED
    BY <1>3, <2>1, QueueStutters DEF ConnectionGoes
<1>4. ASSUME NEW r \in Runs, Told(r) \/ Answer(r) \/ PingFails(r)
      PROVE  QueueType' /\ NeverOversleeps' /\ ClockInv'
  <2>1. QueueType' /\ NeverOversleeps'
    BY <1>4, QueueStutters DEF Told, Answer, PingFails
  <2> QED
    BY <1>4, <2>1, ToldKeeps, PingEnds
<1>5. ASSUME NEW t \in Tasks, Work(t)
      PROVE  QueueType' /\ NeverOversleeps' /\ ClockInv'
  <2>1. Again(t) \/ Thrown(t)
    BY <1>5 DEF Work, Enough, NoPing, Ping, PingThrows
  <2>2. QueueType' /\ NeverOversleeps'
    BY <2>1, AgainKeepsWaking
  <2>3. CASE Enough(t)
    BY <2>2, <2>3, CancelTokenKeeps DEF Enough, ClockInv, ClockType
  <2>4. CASE NoPing(t)
    BY <2>2, <2>4, ClockStutters DEF NoPing
  <2>5. CASE Ping(t) \/ PingThrows(t)
    BY <2>2, <2>5, PingKeeps
  <2> QED
    BY <1>5, <2>3, <2>4, <2>5 DEF Work
<1>6. CASE \/ TimerNext \/ WakesSpuriously \/ StopRequested \/ StopNotified \/ Tick
           \/ \E t \in Tasks : Begin(t)
  <2>1. UNCHANGED clockVars
    BY <1>6 DEF TimerNext, LoopTest, LoopEmpty, LoopWaits, LoopRuns, Wakes, WakesSpuriously,
                StopRequested, StopNotified, Tick, Begin
  <2> QED
    BY <1>6, <2>1, ThreadKeepsWaking, ClockStutters
<1>7. CASE UNCHANGED vars
  BY <1>7, QueueStutters, ClockStutters DEF vars
<1> QED
  BY <1>1, <1>2, <1>3, <1>4, <1>5, <1>6, <1>7 DEF Next

LEMMA IInvInit == Init => IInv
<1> SUFFICES ASSUME Init PROVE IInv
  OBVIOUS
<1>1. TypeOK
  <2>1. QueueType
    <3>1. 0 \in Times
      BY ClockAssumption DEF Times
    <3>2. task \in [Tasks -> {"none", "queued", "given", "working", "ended"}]
      BY DEF Init
    <3>3. left \in [Tasks -> Times]
      BY <3>1 DEF Init
    <3>4. timer = "test" /\ wake = None /\ notified = FALSE /\ stop = "no"
      BY DEF Init
    <3> QED
      BY <3>2, <3>3, <3>4 DEF QueueType
  <2>2. ClockType
    <3>1. token \in [Runs -> {"unset", "live", "cancelled", "told"}]
      BY DEF Init
    <3>2. pings \in [Runs -> 0 .. 1]
      BY DEF Init
    <3>3. 0 \in 0 .. MaxValues /\ 0 \in 0 .. MaxRuns
      BY ClockAssumption
    <3>4. /\ isRunning = FALSE /\ lastPingFinished = TRUE /\ values = 0 /\ run = 0
          /\ connected = TRUE /\ client = TRUE /\ broken = FALSE
      BY DEF Init
    <3> QED
      BY <3>1, <3>2, <3>3, <3>4 DEF ClockType
  <2> QED
    BY <2>1, <2>2, TypeOKParts
<1>2. NeverOversleeps
  BY DEF Init, NeverOversleeps
<1>3. TokensTellRuns /\ ToldRunsHaveNoPing /\ OnePingAtATime
  BY DEF Init, TokensTellRuns, ToldRunsHaveNoPing, OnePingAtATime, Runs
<1> QED
  BY <1>1, <1>2, <1>3 DEF IInv

LEMMA Inductive == Spec => []IInv
  BY IInvInit, IInvStep, PTL DEF Spec

(* Every variable keeps its type; in particular no run has two pings under *)
(* way (syncClockImplAsync) and no more values are kept than _maxValues.   *)
THEOREM ClockTypes == Spec => []TypeOK
  BY Inductive, PTL DEF IInv

(* The timer thread never sleeps past a function, though schedule notifies *)
(* it only for a function that comes first (TimerThread.cpp:51).           *)
THEOREM WakesInTime == Spec => []NeverOversleeps
  BY Inductive, PTL DEF IInv

(* Restarts and both tasks share one ping, and the clock forgets a ping    *)
(* only if it was not answered (SyncClock.cpp:144, :188).                  *)
THEOREM OnePing == Spec => []OnePingAtATime
  BY Inductive, PTL DEF IInv
=============================================================================
