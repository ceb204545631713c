------------------------------- MODULE SyncClock -------------------------------
(***************************************************************************)
(* The synchronised clock (SyncClock.cpp) on the scheduler and the thread  *)
(* that run its two periodic tasks (DefaultScheduler.cpp,                  *)
(* TimerThread.cpp).  The thread keeps a queue of functions by time and    *)
(* gives each that is due to the pool, where functions run concurrently.   *)
(* Times are relative: `left` of an entry is the time until it is due.     *)
(*                                                                         *)
(* A ping is a system request; it is answered, fails, or is ended by the   *)
(* token of the clock.  The connection may go at any time: a ping on its   *)
(* way then never ends (RequestProcessor).  The arithmetic on the answers  *)
(* is left out, only the number of values kept is modelled.                *)
(***************************************************************************)
EXTENDS Integers, FiniteSets

CONSTANTS MaxValues, \* values the clock keeps (24 in the code)
          Interval, IntervalAtStart,
          MaxRuns,   \* bound: calls of start that find the clock stopped
          None

ASSUME ClockAssumption ==
    /\ MaxValues \in Nat \ {0} /\ MaxRuns \in Nat \ {0}
    /\ IntervalAtStart \in Nat \ {0} /\ Interval \in Nat \ {0}
    /\ IntervalAtStart <= Interval /\ None \notin Nat

Runs == 1 .. MaxRuns
Tasks == Runs \X {"periodic", "startup"}
Times == 0 .. Interval

Delay == [t \in Tasks |-> IF t[2] = "periodic" THEN Interval ELSE IntervalAtStart]

VARIABLES
    isRunning, lastPingFinished,
    values,    \* how many _clockValues
    run,       \* the start that is the latest; its token is _cancellationToken
    token,     \* of each run: unset, live, cancelled (callbacks to come), told
    pings,     \* pings not ended, by the run whose token they have
    connected, \* the remote connection still exists
    client,    \* the client is not destroyed
    broken,    \* history: a ping ended without an answer, or was never sent
    task,      \* the two periodic tasks of each run
    left,
    timer,     \* the place of the thread in _threadLoop
    wake,      \* when wait_for ends, None for wait
    notified, stop

clockVars == <<isRunning, lastPingFinished, values, run, token, pings,
               connected, client, broken>>
queueVars == <<task, left>>
timerVars == <<timer, wake, notified, stop>>
vars == <<clockVars, queueVars, timerVars>>

Queue == {t \in Tasks : task[t] = "queued"}
Earliest(t) == t \in Queue /\ \A u \in Queue : left[t] <= left[u]

TypeOK ==
    /\ isRunning \in BOOLEAN /\ lastPingFinished \in BOOLEAN
    /\ values \in 0 .. MaxValues
    /\ run \in 0 .. MaxRuns
    /\ token \in [Runs -> {"unset", "live", "cancelled", "told"}]
    /\ pings \in [Runs -> 0 .. 1]
    /\ connected \in BOOLEAN /\ client \in BOOLEAN /\ broken \in BOOLEAN
    /\ task \in [Tasks -> {"none", "queued", "given", "working", "ended"}]
    /\ left \in [Tasks -> Times]
    /\ timer \in {"test", "lock", "sleep", "undefined", "ended"}
    /\ wake \in Times \cup {None} /\ notified \in BOOLEAN
    /\ stop \in {"no", "requested", "notified"}

Init ==
    /\ isRunning = FALSE /\ lastPingFinished = TRUE /\ values = 0 /\ run = 0
    /\ token = [r \in Runs |-> "unset"] /\ pings = [r \in Runs |-> 0]
    /\ connected = TRUE /\ client = TRUE /\ broken = FALSE
    /\ task = [t \in Tasks |-> "none"] /\ left = [t \in Tasks |-> 0]
    /\ timer = "test" /\ wake = None /\ notified = FALSE /\ stop = "no"

-----------------------------------------------------------------------------
(* Mutation of Schedule: the comparison with the first entry is turned. *)
ScheduleQuietly(ts, delay) ==
    IF stop # "no"
    THEN /\ task' = [t \in Tasks |-> IF t \in ts THEN "ended" ELSE task[t]]
         /\ UNCHANGED <<left, timerVars>>
    ELSE /\ task' = [t \in Tasks |-> IF t \in ts THEN "queued" ELSE task[t]]
         /\ left' = [t \in Tasks |-> IF t \in ts THEN delay[t] ELSE left[t]]
         /\ notified' = (notified \/ (timer = "sleep" /\
                \E t \in ts : ~\E u \in Queue : left[u] > delay[t]))
         /\ UNCHANGED <<timer, wake, stop>>

(* TimerThread::schedule of tasks, each due after its delay.  The thread   *)
(* is notified unless an entry that is due no later is queued already; a   *)
(* notification that finds nobody waiting is lost.                         *)
Schedule(ts, delay) ==
    IF stop # "no"
    THEN /\ task' = [t \in Tasks |-> IF t \in ts THEN "ended" ELSE task[t]]
         /\ UNCHANGED <<left, timerVars>>
    ELSE /\ task' = [t \in Tasks |-> IF t \in ts THEN "queued" ELSE task[t]]
         /\ left' = [t \in Tasks |-> IF t \in ts THEN delay[t] ELSE left[t]]
         /\ notified' = (notified \/ (timer = "sleep" /\
                \E t \in ts : ~\E u \in Queue : left[u] <= delay[t]))
         /\ UNCHANGED <<timer, wake, stop>>

(* SyncClock::start, called by a client that is alive: both tasks are due  *)
(* at once.                                                                *)
Start ==
    /\ client /\ ~isRunning /\ run < MaxRuns
    /\ run' = run + 1
    /\ isRunning' = TRUE
    /\ token' = [token EXCEPT ![run + 1] = "live"]
    /\ Schedule({run + 1} \X {"periodic", "startup"}, [t \in Tasks |-> 0])
    /\ UNCHANGED <<lastPingFinished, values, pings, connected, client, broken>>

(* The first half of a cancellation, by the client that is destroyed or by *)
(* the startup task.  A source is cancelled once.                          *)
CancelToken(r) ==
    token' = [token EXCEPT ![r] = IF @ = "live" THEN "cancelled" ELSE @]

ClientCancels ==
    /\ client /\ run > 0
    /\ client' = FALSE
    /\ CancelToken(run)
    /\ UNCHANGED <<isRunning, lastPingFinished, values, run, pings, connected, broken>>
    /\ UNCHANGED <<queueVars, timerVars>>

(* The callbacks of the token: SyncClock::stop, and the end of the pings   *)
(* that have it, which lets no answer reach the clock.                     *)
Told(r) ==
    /\ token[r] = "cancelled"
    /\ token' = [token EXCEPT ![r] = "told"]
    /\ isRunning' = FALSE
    /\ pings' = [pings EXCEPT ![r] = 0]
    /\ broken' = (broken \/ pings[r] > 0)
    /\ UNCHANGED <<lastPingFinished, values, run, connected, client>>
    /\ UNCHANGED <<queueVars, timerVars>>

-----------------------------------------------------------------------------
(* DefaultScheduler::periodicFunc on the pool: the token is tested...      *)
Begin(t) ==
    /\ task[t] = "given"
    /\ task' = [task EXCEPT ![t] = IF token[t[1]] = "live" THEN "working" ELSE "ended"]
    /\ UNCHANGED <<left, clockVars, timerVars>>

(* ... and the task is queued again when its work returned, not when it    *)
(* threw.                                                                  *)
Again(t) == Schedule({t}, Delay)
Thrown(t) == task' = [task EXCEPT ![t] = "ended"] /\ UNCHANGED <<left, timerVars>>

(* syncClockImplAsync when no ping is due.                                 *)
NoPing(t) ==
    /\ ~isRunning \/ ~lastPingFinished
    /\ Again(t)
    /\ UNCHANGED clockVars

(* Mutation of Ping: _lastPingFinished is left to the answer. *)
PingUnmarked(t) ==
    /\ isRunning /\ lastPingFinished /\ connected
    /\ Again(t)
    /\ \/ /\ token[run] = "live"
          /\ pings' = [pings EXCEPT ![run] = @ + 1]
          /\ UNCHANGED broken
       \/ broken' = TRUE /\ UNCHANGED pings
    /\ UNCHANGED <<isRunning, lastPingFinished, values, run, token, connected, client>>

(* syncClockImplAsync sends a ping, with the token of the latest run.  The *)
(* token may be cancelled by now, or the send may fail: the ping is over.  *)
Ping(t) ==
    /\ isRunning /\ lastPingFinished /\ connected
    /\ lastPingFinished' = FALSE
    /\ Again(t)
    /\ \/ /\ token[run] = "live"
          /\ pings' = [pings EXCEPT ![run] = @ + 1]
          /\ UNCHANGED broken
       \/ broken' = TRUE /\ UNCHANGED pings
    /\ UNCHANGED <<isRunning, values, run, token, connected, client>>

(* syncClockImplAsync throws: the connection is no more.                   *)
PingThrows(t) ==
    /\ isRunning /\ lastPingFinished /\ ~connected
    /\ lastPingFinished' = FALSE
    /\ broken' = TRUE
    /\ Thrown(t)
    /\ UNCHANGED <<isRunning, values, run, token, pings, connected, client>>

(* The work of the startup task when enough values are there: it cancels   *)
(* the source that the periodic task shares.  It is queued once more.      *)
Enough(t) ==
    /\ CancelToken(t[1])
    /\ Again(t)
    /\ UNCHANGED <<isRunning, lastPingFinished, values, run, pings, connected, client, broken>>

Work(t) ==
    /\ task[t] = "working"
    /\ IF t[2] = "startup" /\ values >= MaxValues
       THEN Enough(t)
       ELSE NoPing(t) \/ Ping(t) \/ PingThrows(t)

(* Mutation of Answer: _lastPingFinished is not set again. *)
AnswerUnmarked(r) ==
    /\ pings[r] > 0 /\ connected
    /\ pings' = [pings EXCEPT ![r] = @ - 1]
    /\ values' = IF values = MaxValues THEN values ELSE values + 1
    /\ UNCHANGED <<lastPingFinished, isRunning, run, token, connected, client, broken>>
    /\ UNCHANGED <<queueVars, timerVars>>

(* Mutation of Answer: the oldest value is not dropped. *)
AnswerKeepsAll(r) ==
    /\ pings[r] > 0 /\ connected
    /\ pings' = [pings EXCEPT ![r] = @ - 1]
    /\ lastPingFinished' = TRUE
    /\ values' = values + 1
    /\ UNCHANGED <<isRunning, run, token, connected, client, broken, queueVars, timerVars>>

(* processResult: an answer, at any time after the ping.                   *)
Answer(r) ==
    /\ pings[r] > 0 /\ connected
    /\ pings' = [pings EXCEPT ![r] = @ - 1]
    /\ lastPingFinished' = TRUE
    /\ values' = IF values = MaxValues THEN values ELSE values + 1
    /\ UNCHANGED <<isRunning, run, token, connected, client, broken, queueVars, timerVars>>

(* The server answers with an error, or its answer cannot be read.         *)
PingFails(r) ==
    /\ pings[r] > 0 /\ connected
    /\ pings' = [pings EXCEPT ![r] = @ - 1]
    /\ broken' = TRUE
    /\ UNCHANGED <<isRunning, lastPingFinished, values, run, token, connected, client>>
    /\ UNCHANGED <<queueVars, timerVars>>

ConnectionGoes ==
    /\ connected /\ run > 0
    /\ connected' = FALSE
    /\ UNCHANGED <<isRunning, lastPingFinished, values, run, token, pings, client, broken>>
    /\ UNCHANGED <<queueVars, timerVars>>

-----------------------------------------------------------------------------
(* The condition of the loop, read without the mutex.                      *)
LoopTest ==
    /\ timer = "test"
    /\ timer' = IF stop # "no" /\ Queue = {} THEN "ended" ELSE "lock"
    /\ UNCHANGED <<wake, notified, stop, queueVars, clockVars>>

(* Under the mutex: nothing is queued.  When the thread was told to stop   *)
(* after it had tested the condition, it reads the top of an empty queue.  *)
LoopEmpty ==
    /\ timer = "lock" /\ Queue = {}
    /\ timer' = IF stop = "no" THEN "sleep" ELSE "undefined"
    /\ wake' = None /\ notified' = FALSE
    /\ UNCHANGED <<stop, queueVars, clockVars>>

(* The earliest function is not due: wait_for.                             *)
LoopWaits ==
    /\ timer = "lock"
    /\ \E t \in Queue : Earliest(t) /\ left[t] > 0 /\ wake' = left[t]
    /\ timer' = "sleep" /\ notified' = FALSE
    /\ UNCHANGED <<stop, queueVars, clockVars>>

(* It is due: it is taken from the queue and given to the pool.            *)
LoopRuns(t) ==
    /\ timer = "lock" /\ Earliest(t) /\ left[t] = 0
    /\ task' = [task EXCEPT ![t] = "given"]
    /\ timer' = "test"
    /\ UNCHANGED <<left, wake, notified, stop, clockVars>>

Wakes ==
    /\ timer = "sleep"
    /\ notified \/ wake = 0
    /\ timer' = "test" /\ wake' = None /\ notified' = FALSE
    /\ UNCHANGED <<stop, queueVars, clockVars>>

WakesSpuriously ==
    /\ timer = "sleep" /\ ~notified /\ wake # 0
    /\ timer' = "test" /\ wake' = None
    /\ UNCHANGED <<notified, stop, queueVars, clockVars>>

(* TimerThread::_stop of the destructor: the queue is cleared under the    *)
(* mutex, the thread is notified after it.                                 *)
StopRequested ==
    /\ stop = "no" /\ run > 0
    /\ stop' = "requested"
    /\ task' = [t \in Tasks |-> IF task[t] = "queued" THEN "ended" ELSE task[t]]
    /\ UNCHANGED <<left, timer, wake, notified, clockVars>>

StopNotified ==
    /\ stop = "requested"
    /\ stop' = "notified"
    /\ notified' = (notified \/ timer = "sleep")
    /\ UNCHANGED <<timer, wake, queueVars, clockVars>>

(* Time passes.  A function that is overdue stays due.                     *)
Tick ==
    /\ left' = [t \in Tasks |-> IF left[t] > 0 THEN left[t] - 1 ELSE 0]
    /\ wake' = IF wake \in Nat /\ wake > 0 THEN wake - 1 ELSE wake
    /\ UNCHANGED <<task, timer, notified, stop, clockVars>>

-----------------------------------------------------------------------------
TimerNext ==
    \/ LoopTest \/ LoopEmpty \/ LoopWaits \/ (\E t \in Tasks : LoopRuns(t))
    \/ Wakes

Next ==
    \/ Start \/ ClientCancels \/ ConnectionGoes
    \/ \E r \in Runs : Told(r) \/ Answer(r) \/ PingFails(r)
    \/ \E t \in Tasks : Begin(t) \/ Work(t)
    \/ TimerNext \/ WakesSpuriously \/ StopRequested \/ StopNotified \/ Tick

Spec == Init /\ [][Next]_vars

(* The timer thread runs, time passes, the pool runs what it is given, a   *)
(* stop that is begun ends, and while the connection lasts the server      *)
(* answers a ping, if only with an error.                                  *)
Fairness ==
    /\ WF_vars(TimerNext) /\ WF_vars(Tick) /\ WF_vars(StopNotified)
    /\ \A t \in Tasks : WF_vars(Begin(t)) /\ WF_vars(Work(t))
    /\ \A r \in Runs : WF_vars(Told(r)) /\ WF_vars(Answer(r) \/ PingFails(r))

LiveSpec == Spec /\ Fairness

-----------------------------------------------------------------------------
(* The thread never sleeps past a function: while it waits and nobody has  *)
(* notified it, its wait ends no later than the earliest entry is due      *)
(* (TimerThread::schedule only notifies for an entry that comes first).    *)
NeverOversleeps ==
    timer = "sleep" /\ ~notified =>
        \A t \in Queue : wake \in Nat /\ wake <= left[t]

(* Two tasks on the pool and every restart share one ping: the clock       *)
(* believes its last ping finished exactly when none is on its way, except *)
(* after a ping that was not answered (syncClockImplAsync, processResult). *)
OnePingAtATime ==
    /\ \A r \in Runs : pings[r] > 0 => ~lastPingFinished /\ r = run
    /\ ~lastPingFinished /\ (\A r \in Runs : pings[r] = 0) => broken

(* A clock that is started gets all the values it keeps, or is stopped,    *)
(* provided that no ping fails and the connection and the timer stay.      *)
FirstPingsEnd ==
    isRunning ~> (values = MaxValues \/ ~isRunning \/ broken \/ ~connected \/ stop # "no")
=============================================================================
