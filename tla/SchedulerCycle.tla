---------------------------- MODULE SchedulerCycle ----------------------------
(***************************************************************************)
(* The web server's side of the scheduler: runSchedulerCycle of            *)
(* src/lib/scheduler.ts, the loop of src/lib/testing/test-scheduler.ts     *)
(* that calls it every few seconds, the panel that starts, stops and       *)
(* re-times the loop, and the restart of the process.                      *)
(*                                                                         *)
(* What a cycle does is runTick (SendQueue, RateWindow,                    *)
(* CampaignActivation); here it only lasts some time and ends, well or     *)
(* badly.  JavaScript runs one callback at a time, so everything up to an  *)
(* await is one step.  A pass that finds a cycle in flight is answered     *)
(* without waiting for anything, so it begins and ends in one step.        *)
(***************************************************************************)
EXTENDS Integers, FiniteSets

CONSTANTS
  Intervals,        \* the intervals the panel may set, in units of time
  DefaultInterval,  \* TEST_LIMITS.schedulerInterval.default
  MaxInterval,      \* the longest of them; ages are counted up to it
  TimerIds,         \* the handles setTimeout returns
  NoTimer,          \* null
  MaxCycles         \* bound of the model: cycles in flight at the same time

ASSUME SchedulerAssumption ==
  /\ Intervals \subseteq 1..MaxInterval
  /\ DefaultInterval \in Intervals
  /\ MaxInterval \in Nat
  /\ NoTimer \notin TimerIds
  /\ MaxCycles \in Nat

VARIABLES
  testing,   \* testPanelEnabled(), which a process never changes
  up,        \* the server process is alive
  inFlight,  \* runtime.inFlight
  cycles,    \* cycles[s]: the calls of runTick in flight that s asked for
  loop,      \* loopState
  timers     \* the timers node holds: how long until each one fires

vars == <<testing, up, inFlight, cycles, loop, timers>>

CycleSource == {"worker", "panel-loop", "run-now"}

NoCycle == [s \in CycleSource |-> 0]

NoTimers == [t \in {} |-> 0]

\* lastEndedAt = null.
Never == -1

\* loopState as processState makes it in a fresh process.
FreshLoop == [running |-> FALSE, interval |-> DefaultInterval, timer |-> NoTimer, lastEnded |-> Never]

LoopState ==
  [running : BOOLEAN, interval : Intervals, timer : TimerIds \cup {NoTimer},
   lastEnded : Never..MaxInterval]

TypeOK ==
  /\ testing \in BOOLEAN
  /\ up \in BOOLEAN
  /\ inFlight \in BOOLEAN
  /\ cycles \in [CycleSource -> Nat]
  /\ loop \in LoopState
  /\ DOMAIN timers \subseteq TimerIds
  /\ timers \in [DOMAIN timers -> 0..MaxInterval]

Greater(a, b) == IF a <= b THEN b ELSE a
Lesser(a, b)  == IF a <= b THEN a ELSE b

CyclesInFlight == cycles["worker"] + cycles["panel-loop"] + cycles["run-now"]

-----------------------------------------------------------------------------
(* runSchedulerCycle. *)

Exclusive(s) == testing \/ s # "worker"

\* Why a cycle is not run: { ran: false, reason }.
RefusedStopped(s) == testing /\ s = "worker" /\ ~loop.running
RefusedBusy(s)    == Exclusive(s) /\ inFlight

RefusedUnlessSameSource(s) == RefusedStopped(s) \/ (RefusedBusy(s) /\ cycles[s] > 0)

RefusedOnlyWhenBusy(s) == RefusedBusy(s)

Refused(s) == RefusedStopped(s) \/ RefusedBusy(s)

CycleBegins(s) ==
  /\ ~Refused(s)
  /\ inFlight' = (inFlight \/ Exclusive(s))
  /\ cycles' = [cycles EXCEPT ![s] = @ + 1]

CycleSettlesLockKept(s) ==
  /\ cycles[s] > 0
  /\ inFlight' = inFlight
  /\ cycles' = [cycles EXCEPT ![s] = @ - 1]

\* The finally block; a failed cycle ends the same way.
CycleSettles(s) ==
  /\ cycles[s] > 0
  /\ inFlight' = (inFlight /\ ~Exclusive(s))
  /\ cycles' = [cycles EXCEPT ![s] = @ - 1]

-----------------------------------------------------------------------------
(* The timer of the loop.  An operator takes the loop as the caller left it. *)

Without(held, t) == [u \in DOMAIN held \ {t} |-> held[u]]

\* clearTimer().
ClearTimer(l, held) ==
  /\ loop' = [l EXCEPT !.timer = NoTimer]
  /\ timers' = Without(held, l.timer)

ReplaceTimerKeepingOld(l, held, delay) ==
  \E t \in TimerIds \ DOMAIN held :
    /\ loop' = [l EXCEPT !.timer = t]
    /\ timers' = [u \in DOMAIN held \cup {t} |-> IF u = t THEN delay ELSE held[u]]

\* setTimeout(pass, delay), in place of the timer there was: node hands out a fresh handle.
ReplaceTimer(l, held, delay) ==
  \E t \in TimerIds \ DOMAIN held :
    /\ loop' = [l EXCEPT !.timer = t]
    /\ timers' = [u \in (DOMAIN held \ {l.timer}) \cup {t} |-> IF u = t THEN delay ELSE held[u]]

\* scheduleNext(delayMs).
ScheduleNext(l, held, delay) ==
  \/ l.running /\ ReplaceTimer(l, held, delay)
  \/ ~l.running /\ ClearTimer(l, held)

\* The finally block of pass(), which may find a timer a stop and a start have set meanwhile.
PassEnded(l, held) == ScheduleNext([l EXCEPT !.lastEnded = 0], held, l.interval)

-----------------------------------------------------------------------------

Init ==
  /\ testing \in BOOLEAN
  /\ up = FALSE
  /\ inFlight = FALSE
  /\ cycles = NoCycle
  /\ loop = FreshLoop
  /\ timers = NoTimers

(* The process starts: register() brings the test tools up before the      *)
(* server takes requests.                                                  *)
ServerStarts ==
  /\ ~up
  /\ up' = TRUE
  /\ \/ testing /\ ScheduleNext([loop EXCEPT !.running = TRUE], timers, 0)
     \/ ~testing /\ UNCHANGED <<loop, timers>>
  /\ UNCHANGED <<testing, inFlight, cycles>>

(* The process ends at any moment, and all of this is its memory. *)
ServerStops ==
  /\ up
  /\ up' = FALSE
  /\ inFlight' = FALSE
  /\ cycles' = NoCycle
  /\ loop' = FreshLoop
  /\ timers' = NoTimers
  /\ UNCHANGED testing

(* POST /api/worker/tick: a caller who holds the secret asks for a cycle.  *)
WorkerAsks ==
  /\ up
  /\ CyclesInFlight < MaxCycles
  /\ CycleBegins("worker")
  /\ UNCHANGED <<testing, up, loop, timers>>

(* "Run now" of the panel. *)
RunNow ==
  /\ up /\ testing
  /\ CycleBegins("run-now")
  /\ UNCHANGED <<testing, up, loop, timers>>

(* A timer fires and calls pass().  The stop that would make pass() return *)
(* early has cleared the timer, so the loop is running.                    *)
TimerFires(t) ==
  /\ t \in DOMAIN timers
  /\ timers[t] = 0
  /\ loop.running

PassBegins(t) ==
  /\ TimerFires(t)
  /\ CycleBegins("panel-loop")
  /\ loop' = [loop EXCEPT !.timer = NoTimer]
  /\ timers' = Without(timers, t)
  /\ UNCHANGED <<testing, up>>

PassSkippedForGood(t) ==
  /\ TimerFires(t)
  /\ Refused("panel-loop")
  /\ loop' = [loop EXCEPT !.timer = NoTimer]
  /\ timers' = Without(timers, t)
  /\ UNCHANGED <<testing, up, inFlight, cycles>>

(* The same, when a cycle is in flight: the pass ends without one. *)
PassSkipped(t) ==
  /\ TimerFires(t)
  /\ Refused("panel-loop")
  /\ PassEnded([loop EXCEPT !.timer = NoTimer], Without(timers, t))
  /\ UNCHANGED <<testing, up, inFlight, cycles>>

(* The cycle of a worker's request, or of "Run now", ends or fails. *)
RequestedCycleEnds(s) ==
  /\ CycleSettles(s)
  /\ UNCHANGED <<testing, up, loop, timers>>

WorkerCycleEnds == RequestedCycleEnds("worker")

RunNowEnds == RequestedCycleEnds("run-now")

(* A cycle of the loop ends, or fails, and the pass with it. *)
PassEnds ==
  /\ CycleSettles("panel-loop")
  /\ PassEnded(loop, timers)
  /\ UNCHANGED <<testing, up>>

(* testScheduler.start(). *)
Start ==
  /\ up /\ testing
  /\ ~loop.running
  /\ ScheduleNext([loop EXCEPT !.running = TRUE], timers, 0)
  /\ UNCHANGED <<testing, up, inFlight, cycles>>

(* testScheduler.stop(). *)
Stop ==
  /\ up /\ testing
  /\ loop.running
  /\ ClearTimer([loop EXCEPT !.running = FALSE], timers)
  /\ UNCHANGED <<testing, up, inFlight, cycles>>

(* testScheduler.setInterval(seconds): the wait under way is re-timed,     *)
(* measured from the end of the last pass.                                 *)
SinceLastPass == IF loop.lastEnded = Never THEN 0 ELSE loop.lastEnded

SetIntervalFromNow(seconds) ==
  /\ up /\ testing
  /\ LET l == [loop EXCEPT !.interval = seconds] IN
       \/ /\ loop.running /\ loop.timer # NoTimer
          /\ ScheduleNext(l, timers, seconds)
       \/ /\ ~(loop.running /\ loop.timer # NoTimer)
          /\ loop' = l
          /\ UNCHANGED timers
  /\ UNCHANGED <<testing, up, inFlight, cycles>>

SetInterval(seconds) ==
  /\ up /\ testing
  /\ LET l == [loop EXCEPT !.interval = seconds] IN
       \/ /\ loop.running /\ loop.timer # NoTimer
          /\ ScheduleNext(l, timers, Greater(0, seconds - SinceLastPass))
       \/ /\ ~(loop.running /\ loop.timer # NoTimer)
          /\ loop' = l
          /\ UNCHANGED timers
  /\ UNCHANGED <<testing, up, inFlight, cycles>>

(* A unit of time.  Timers are prompt: time waits for one that is due. *)
TimePasses ==
  /\ \A t \in DOMAIN timers : timers[t] > 0
  /\ timers' = [t \in DOMAIN timers |-> timers[t] - 1]
  /\ loop' = IF loop.lastEnded = Never THEN loop
             ELSE [loop EXCEPT !.lastEnded = Lesser(MaxInterval, @ + 1)]
  /\ UNCHANGED <<testing, up, inFlight, cycles>>

(* Everything the process does that is not the answer to a worker's request. *)
ServerStep ==
  \/ ServerStarts \/ ServerStops
  \/ RunNow \/ RunNowEnds
  \/ \E t \in TimerIds : PassBegins(t) \/ PassSkipped(t)
  \/ PassEnds
  \/ Start \/ Stop
  \/ \E seconds \in Intervals : SetInterval(seconds)

Next == ServerStep \/ WorkerAsks \/ WorkerCycleEnds \/ TimePasses

Spec == Init /\ [][Next]_vars

-----------------------------------------------------------------------------
(* Properties. *)

\* Where the test tools are on, two cycles never run at the same time, whoever asks for them:
\* the worker endpoint, the loop or "Run now" (src/lib/scheduler.ts:93).
OneCycle == testing => CyclesInFlight <= 1

\* The lock of runSchedulerCycle is held exactly while a cycle that took it is in flight: a
\* failure, a stop or a restart never leaves it behind.
LockHeldByCycle == inFlight <=> \E s \in CycleSource : Exclusive(s) /\ cycles[s] > 0

\* Node holds no timer but the one the loop knows, so a stop stops every future pass; and a
\* loop that runs is either waiting for a timer or has a pass in flight.
NoLeakedTimer ==
  /\ DOMAIN timers \subseteq {loop.timer}
  /\ loop.timer # NoTimer => loop.running /\ loop.timer \in DOMAIN timers
  /\ loop.running /\ loop.timer = NoTimer => cycles["panel-loop"] = 1

\* However the loop is stopped, started and re-timed, the next pass is never later than the
\* interval in force, measured from the end of the last pass (the comment of setInterval,
\* src/lib/testing/test-scheduler.ts:89-92).
WaitMeasuredFromLastPass ==
  \A t \in DOMAIN timers : timers[t] <= Greater(0, loop.interval - SinceLastPass)

\* While the test scheduler is stopped nothing but "Run now" begins a cycle, and nothing but a
\* start sets a timer, whatever was in flight when it was stopped.
StoppedMeansStopped ==
  [][testing /\ up /\ ~loop.running =>
       /\ \A s \in {"worker", "panel-loop"} : cycles'[s] <= cycles[s]
       /\ ~loop'.running => DOMAIN timers' = {}]_vars

\* Whatever is started, stopped, re-timed, run by hand, failed or restarted, the scheduler keeps what
\* its callers rely on: one cycle at a time, a lock that is given back, one timer that is the loop's
\* own and not too late, and a stop that holds.
SchedulerIntact ==
  /\ [](OneCycle /\ LockHeldByCycle /\ NoLeakedTimer /\ WaitMeasuredFromLastPass)
  /\ StoppedMeansStopped

\* A loop that has ended a pass begins a cycle again, or finds one in flight, unless it is
\* stopped: no sequence of new intervals, stops, starts and run-nows loses the next pass.
CycleOrHalt == CyclesInFlight > 0 \/ ~loop.running

PassesKeepComing == loop.running /\ loop.lastEnded # Never ~> CycleOrHalt

-----------------------------------------------------------------------------
(* The promise this module implements. *)

Service ==
  INSTANCE TickService WITH
    exclusive <- testing,
    open      <- loop.running,
    active    <- cycles

ImplementsTickService == Service!Spec
================================================================================
