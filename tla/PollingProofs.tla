----------------------------- MODULE PollingProofs -----------------------------
(***************************************************************************)
(* Proofs about what goes on by timers: the scheduler cycles, the          *)
(* composition with the ticker (WorkerLoop), which only takes steps        *)
(* SchedulerCycle allows, so that every theorem about the server holds     *)
(* with the ticker too, and the page of a campaign that polls it           *)
(* (CampaignReport).                                                       *)
(***************************************************************************)
EXTENDS WorkerLoop, CampaignReport, TLAPS, FiniteSetTheorems

\* A process without test tools has no loop and takes no lock.
ProductionInv ==
  ~testing => /\ cycles["panel-loop"] = 0 /\ cycles["run-now"] = 0
              /\ ~inFlight
              /\ ~loop.running

\* Where the test tools are on, the lock says whether a cycle is in flight.
TestingInv ==
  testing => /\ CyclesInFlight <= 1
             /\ inFlight <=> CyclesInFlight = 1

\* A process that is not up has nothing.
DownInv == ~up => cycles = NoCycle /\ loop = FreshLoop /\ timers = NoTimers

\* The inductive invariant.
SchedulerInv ==
  /\ TypeOK
  /\ ProductionInv
  /\ TestingInv
  /\ DownInv
  /\ NoLeakedTimer
  /\ WaitMeasuredFromLastPass

\* What is left in place of a timer: at most the one the loop knows, and a delay of its own.
TimerWithin(delay) ==
  /\ DOMAIN timers \subseteq TimerIds
  /\ timers \in [DOMAIN timers -> 0..MaxInterval]
  /\ DOMAIN timers \subseteq {loop.timer}
  /\ loop.timer # NoTimer => loop.running /\ loop.timer \in DOMAIN timers
  /\ \A t \in DOMAIN timers : timers[t] <= delay

\* clearTimer leaves no timer when the loop knows all there are.
LEMMA ClearTimerEffect ==
  ASSUME SchedulerAssumption, NEW l \in LoopState, NEW held, DOMAIN held \subseteq {l.timer},
         ClearTimer(l, held)
  PROVE  /\ loop' \in LoopState
         /\ loop'.running = l.running /\ loop'.interval = l.interval /\ loop'.lastEnded = l.lastEnded
         /\ loop'.timer = NoTimer
         /\ DOMAIN timers' = {}
         /\ TimerWithin(0)'
<1>1. loop' = [l EXCEPT !.timer = NoTimer]
  BY DEF ClearTimer
<1>2. loop' \in LoopState
  BY <1>1 DEF LoopState
<1>3. loop'.timer = NoTimer /\ loop'.running = l.running /\ loop'.interval = l.interval
      /\ loop'.lastEnded = l.lastEnded
  BY <1>1 DEF LoopState
<1>4. DOMAIN timers' = {}
  BY DEF ClearTimer, Without
<1>5. timers' \in [DOMAIN timers' -> 0..MaxInterval]
  BY <1>4 DEF ClearTimer, Without
<1> QED BY <1>2, <1>3, <1>4, <1>5 DEF TimerWithin

\* setTimeout after clearTimer leaves the new timer alone.
LEMMA ReplaceTimerEffect ==
  ASSUME SchedulerAssumption, NEW l \in LoopState, NEW held, DOMAIN held \subseteq {l.timer},
         NEW delay \in 0..MaxInterval, l.running, ReplaceTimer(l, held, delay)
  PROVE  /\ loop' \in LoopState
         /\ loop'.running = l.running /\ loop'.interval = l.interval /\ loop'.lastEnded = l.lastEnded
         /\ loop'.timer # NoTimer
         /\ TimerWithin(delay)'
<1>1. PICK t \in TimerIds \ DOMAIN held :
        /\ loop' = [l EXCEPT !.timer = t]
        /\ timers' = [u \in (DOMAIN held \ {l.timer}) \cup {t} |-> IF u = t THEN delay ELSE held[u]]
  BY DEF ReplaceTimer
<1>2. (DOMAIN held \ {l.timer}) \cup {t} = {t}
  OBVIOUS
<1>3. timers' = [u \in {t} |-> delay]
  BY <1>1, <1>2
<1>4. loop' \in LoopState /\ loop'.timer = t /\ t # NoTimer
  BY <1>1 DEF LoopState, SchedulerAssumption
<1>5. loop'.running = l.running /\ loop'.interval = l.interval /\ loop'.lastEnded = l.lastEnded
  BY <1>1 DEF LoopState
<1>6. TimerWithin(delay)'
  BY <1>3, <1>4, <1>5 DEF TimerWithin
<1> QED BY <1>4, <1>5, <1>6

\* scheduleNext: a timer with that delay when the loop runs, none otherwise.
LEMMA ScheduleNextEffect ==
  ASSUME SchedulerAssumption, NEW l \in LoopState, NEW held, DOMAIN held \subseteq {l.timer},
         NEW delay \in 0..MaxInterval, ScheduleNext(l, held, delay)
  PROVE  /\ loop' \in LoopState
         /\ loop'.running = l.running /\ loop'.interval = l.interval /\ loop'.lastEnded = l.lastEnded
         /\ loop'.timer # NoTimer <=> l.running
         /\ TimerWithin(delay)'
<1>1. CASE l.running
  BY <1>1, ReplaceTimerEffect DEF ScheduleNext
<1>2. CASE ~l.running
  <2>1. ClearTimer(l, held)
    BY <1>2 DEF ScheduleNext
  <2>2. TimerWithin(0)' /\ DOMAIN timers' = {}
    BY <2>1, ClearTimerEffect
  <2>3. TimerWithin(delay)'
    BY <2>2 DEF TimerWithin
  <2> QED BY <1>2, <2>1, <2>3, ClearTimerEffect
<1> QED BY <1>1, <1>2

\* Initially nothing runs.
LEMMA SchedulerInit ==
  ASSUME SchedulerAssumption, Init
  PROVE  SchedulerInv
<1>1. DOMAIN timers = {} /\ timers \in [DOMAIN timers -> 0..MaxInterval]
  BY DEF Init, NoTimers
<1>2. loop \in LoopState
  BY DEF Init, FreshLoop, LoopState, SchedulerAssumption, Never
<1>3. TypeOK
  BY <1>1, <1>2 DEF Init, TypeOK, NoCycle, CycleSource
<1> QED BY <1>1, <1>3 DEF Init, SchedulerInv, ProductionInv, TestingInv, DownInv, NoLeakedTimer,
       WaitMeasuredFromLastPass, NoCycle, CycleSource, CyclesInFlight, FreshLoop

\* The parts of the invariant that only the cycles and the lock decide.
CyclesInv ==
  /\ testing \in BOOLEAN /\ inFlight \in BOOLEAN
  /\ cycles \in [CycleSource -> Nat]
  /\ testing => /\ CyclesInFlight <= 1
                /\ inFlight <=> CyclesInFlight = 1
  /\ ~testing => /\ cycles["panel-loop"] = 0 /\ cycles["run-now"] = 0
                 /\ ~inFlight

\* A cycle begins only where one may.
LEMMA CycleBeginsEffect ==
  ASSUME SchedulerInv, NEW s \in CycleSource, CycleBegins(s), testing \/ s = "worker", UNCHANGED testing
  PROVE  /\ CyclesInv'
         /\ testing => CyclesInFlight = 0 /\ inFlight'
         /\ \A r \in CycleSource \ {s} : cycles'[r] = cycles[r]
         /\ cycles'[s] = cycles[s] + 1
<1>1. cycles \in [CycleSource -> Nat] /\ inFlight \in BOOLEAN /\ testing \in BOOLEAN
  BY DEF SchedulerInv, TypeOK
<1>2. cycles' = [cycles EXCEPT ![s] = @ + 1]
  BY DEF CycleBegins
<1>3. cycles' \in [CycleSource -> Nat] /\ cycles'[s] = cycles[s] + 1
      /\ \A r \in CycleSource \ {s} : cycles'[r] = cycles[r]
  BY <1>1, <1>2
<1>4. CASE testing
  <2>1. ~inFlight /\ inFlight' = TRUE
    BY <1>4 DEF CycleBegins, Refused, RefusedBusy, Exclusive
  <2>2. CyclesInFlight = 0
    BY <1>1, <1>4, <2>1 DEF SchedulerInv, TestingInv, CyclesInFlight, CycleSource
  <2>3. cycles["worker"] = 0 /\ cycles["panel-loop"] = 0 /\ cycles["run-now"] = 0
    BY <1>1, <2>2 DEF CyclesInFlight, CycleSource
  <2>4. CyclesInFlight' = 1
    <3>1. CASE s = "worker"
      BY <1>3, <2>3, <3>1 DEF CyclesInFlight, CycleSource
    <3>2. CASE s = "panel-loop"
      BY <1>3, <2>3, <3>2 DEF CyclesInFlight, CycleSource
    <3>3. CASE s = "run-now"
      BY <1>3, <2>3, <3>3 DEF CyclesInFlight, CycleSource
    <3> QED BY <3>1, <3>2, <3>3 DEF CycleSource
  <2> QED BY <1>3, <1>4, <2>1, <2>2, <2>4 DEF CyclesInv
<1>5. CASE ~testing
  <2>1. s = "worker"
    BY <1>5
  <2>2. ~inFlight /\ cycles["panel-loop"] = 0 /\ cycles["run-now"] = 0
    BY <1>5 DEF SchedulerInv, ProductionInv
  <2>3. inFlight' = FALSE
    BY <1>5, <2>1, <2>2 DEF CycleBegins, Exclusive
  <2>4. cycles'["panel-loop"] = 0 /\ cycles'["run-now"] = 0
    BY <1>3, <2>1, <2>2 DEF CycleSource
  <2>5. CyclesInv'
    BY <1>1, <1>3, <1>5, <2>3, <2>4 DEF CyclesInv
  <2> QED BY <1>3, <1>5, <2>5
<1> QED BY <1>1, <1>4, <1>5

\* A cycle that ends gives the lock back.
LEMMA CycleSettlesEffect ==
  ASSUME SchedulerInv, NEW s \in CycleSource, CycleSettles(s), UNCHANGED testing
  PROVE  /\ CyclesInv'
         /\ testing => CyclesInFlight' = 0 /\ ~inFlight'
         /\ \A r \in CycleSource \ {s} : cycles'[r] = cycles[r]
         /\ cycles'[s] = cycles[s] - 1 /\ cycles[s] > 0
<1>1. cycles \in [CycleSource -> Nat] /\ inFlight \in BOOLEAN /\ testing \in BOOLEAN
  BY DEF SchedulerInv, TypeOK
<1>2. cycles' = [cycles EXCEPT ![s] = @ - 1] /\ cycles[s] > 0
  BY DEF CycleSettles
<1>3. cycles' \in [CycleSource -> Nat] /\ cycles'[s] = cycles[s] - 1
      /\ \A r \in CycleSource \ {s} : cycles'[r] = cycles[r]
  BY <1>1, <1>2
<1>4. CASE testing
  <2>1. inFlight' = FALSE
    BY <1>4 DEF CycleSettles, Exclusive
  <2>2. CyclesInFlight <= 1
    BY <1>4 DEF SchedulerInv, TestingInv
  <2>3. CyclesInFlight' = CyclesInFlight - 1
    <3>1. CASE s = "worker"
      BY <1>1, <1>3, <3>1 DEF CyclesInFlight, CycleSource
    <3>2. CASE s = "panel-loop"
      BY <1>1, <1>3, <3>2 DEF CyclesInFlight, CycleSource
    <3>3. CASE s = "run-now"
      BY <1>1, <1>3, <3>3 DEF CyclesInFlight, CycleSource
    <3> QED BY <3>1, <3>2, <3>3 DEF CycleSource
  <2>4. CyclesInFlight >= 1
    BY <1>1, <1>2 DEF CyclesInFlight, CycleSource
  <2>5. CyclesInFlight \in Int
    BY <1>1 DEF CyclesInFlight, CycleSource
  <2>6. CyclesInFlight' = 0
    BY <2>2, <2>3, <2>4, <2>5
  <2>7. CyclesInFlight' # 1 /\ CyclesInFlight' <= 1
    BY <2>6
  <2>8. CyclesInv'
    BY <1>1, <1>3, <1>4, <2>1, <2>7 DEF CyclesInv
  <2> QED BY <1>2, <1>3, <2>1, <2>6, <2>8
<1>5. CASE ~testing
  <2>1. ~inFlight /\ cycles["panel-loop"] = 0 /\ cycles["run-now"] = 0
    BY <1>5 DEF SchedulerInv, ProductionInv
  <2>2. s = "worker"
    BY <1>2, <2>1 DEF CycleSource
  <2>3. inFlight' = FALSE
    BY <2>1 DEF CycleSettles
  <2>4. cycles'["panel-loop"] = 0 /\ cycles'["run-now"] = 0
    BY <1>3, <2>1, <2>2 DEF CycleSource
  <2>5. CyclesInv'
    BY <1>1, <1>3, <1>5, <2>3, <2>4 DEF CyclesInv
  <2> QED BY <1>2, <1>3, <1>5, <2>5
<1> QED BY <1>1, <1>4, <1>5

-----------------------------------------------------------------------------
(* The steps. *)

\* A step of the loop alone leaves the rest of the invariant.
LEMMA LoopStepKeepsCycles ==
  ASSUME SchedulerInv, UNCHANGED <<testing, inFlight, cycles>>, testing \/ ~loop'.running,
         loop' \in LoopState
  PROVE  /\ CyclesInv'
         /\ ProductionInv'
         /\ TestingInv'
<1> USE DEF SchedulerInv, TypeOK, ProductionInv, TestingInv
<1>1. CyclesInFlight' = CyclesInFlight
  BY DEF CyclesInFlight
<1>2. ProductionInv' /\ TestingInv'
  BY <1>1
<1> QED BY <1>1, <1>2 DEF CyclesInv

\* From what the loop does and what the cycles do, the invariant.
LEMMA Assemble ==
  ASSUME CyclesInv', ProductionInv', NEW delay \in Nat, TimerWithin(delay)', loop' \in LoopState, up' \in BOOLEAN,
         up', DOMAIN timers' = {} \/ delay <= Greater(0, loop'.interval - SinceLastPass'),
         (loop'.running /\ loop'.timer = NoTimer) => cycles'["panel-loop"] = 1
  PROVE  SchedulerInv'
<1>1. TypeOK'
  BY DEF CyclesInv, TimerWithin, TypeOK
<1>2. TestingInv'
  BY DEF CyclesInv, TestingInv
<1>3. NoLeakedTimer'
  BY DEF NoLeakedTimer, TimerWithin
<1>4. WaitMeasuredFromLastPass'
  <2> SUFFICES ASSUME NEW t \in DOMAIN timers'
      PROVE  timers'[t] <= Greater(0, loop'.interval - SinceLastPass')
    BY DEF WaitMeasuredFromLastPass
  <2>1. timers'[t] \in Nat /\ timers'[t] <= delay
    BY <1>1 DEF TimerWithin, TypeOK
  <2>2. Greater(0, loop'.interval - SinceLastPass') \in Int
    <3>1. loop'.interval \in Int /\ loop'.lastEnded \in Int
      <4>1. loop'.interval \in Intervals /\ loop'.lastEnded \in Never..MaxInterval
        BY DEF LoopState
      <4>2. loop'.interval \in 1..MaxInterval
        BY <4>1, SchedulerAssumption DEF SchedulerAssumption
      <4> QED BY <4>1, <4>2, SchedulerAssumption DEF SchedulerAssumption, Never
    <3>2. SinceLastPass' \in Int
      BY <3>1 DEF SinceLastPass
    <3> QED BY <3>1, <3>2 DEF Greater
  <2> QED BY <2>1, <2>2
<1> QED BY <1>1, <1>2, <1>3, <1>4 DEF SchedulerInv, DownInv

\* What the cycles do, with the loop and the timers left alone.
LEMMA CyclesStepKeepsInv ==
  ASSUME SchedulerInv, CyclesInv', UNCHANGED <<testing, up, loop, timers>>, up,
         cycles'["panel-loop"] = cycles["panel-loop"]
  PROVE  SchedulerInv'
<1>1. TypeOK'
  BY DEF CyclesInv, SchedulerInv, TypeOK
<1>2. ProductionInv' /\ TestingInv'
  BY DEF CyclesInv, SchedulerInv, ProductionInv, TestingInv
<1>3. NoLeakedTimer' /\ WaitMeasuredFromLastPass'
  BY DEF SchedulerInv, NoLeakedTimer, WaitMeasuredFromLastPass, SinceLastPass
<1> QED BY <1>1, <1>2, <1>3 DEF SchedulerInv, DownInv

\* The delays scheduleNext is given are within the bounds.
LEMMA Delays ==
  ASSUME SchedulerInv, NEW seconds \in Intervals
  PROVE  /\ loop.interval \in 0..MaxInterval
         /\ Greater(0, seconds - SinceLastPass) \in 0..MaxInterval
         /\ SinceLastPass \in Nat
<1>1. loop.lastEnded \in Never..MaxInterval /\ loop.interval \in Intervals
  BY DEF SchedulerInv, TypeOK, LoopState
<1>2. seconds \in 1..MaxInterval /\ loop.interval \in 1..MaxInterval /\ MaxInterval \in Nat
  BY <1>1, SchedulerAssumption DEF SchedulerAssumption
<1>3. SinceLastPass \in Nat
  BY <1>1, <1>2 DEF SinceLastPass, Never
<1> QED BY <1>2, <1>3 DEF Greater

\* The loop scheduled anew, by a start, a new interval or the end of a pass.
LEMMA ScheduledAnew ==
  ASSUME SchedulerInv, NEW l \in LoopState, NEW held, DOMAIN held \subseteq {l.timer},
         NEW delay \in 0..MaxInterval, ScheduleNext(l, held, delay),
         CyclesInv', testing \/ ~l.running, UNCHANGED testing, up' = TRUE,
         delay <= Greater(0, l.interval - (IF l.lastEnded = Never THEN 0 ELSE l.lastEnded))
  PROVE  SchedulerInv'
<1>1. /\ loop' \in LoopState
      /\ loop'.running = l.running /\ loop'.interval = l.interval /\ loop'.lastEnded = l.lastEnded
      /\ loop'.timer # NoTimer <=> l.running
      /\ TimerWithin(delay)'
  BY SchedulerAssumption, ScheduleNextEffect
<1>2. delay <= Greater(0, loop'.interval - SinceLastPass')
  BY <1>1 DEF SinceLastPass
<1>3. ProductionInv'
  BY <1>1 DEF ProductionInv, CyclesInv
<1>4. delay \in Nat
  BY SchedulerAssumption DEF SchedulerAssumption
<1>5. ~(loop'.running /\ loop'.timer = NoTimer)
  BY <1>1
<1> QED BY <1>1, <1>2, <1>3, <1>4, <1>5, Assemble

\* Every step keeps the invariant.
LEMMA SchedulerNext ==
  ASSUME SchedulerInv, Next
  PROVE  SchedulerInv'
<1>a. loop \in LoopState /\ testing \in BOOLEAN /\ cycles \in [CycleSource -> Nat] /\ up \in BOOLEAN
  BY DEF SchedulerInv, TypeOK
<1>b. DOMAIN timers \subseteq {loop.timer} /\ timers \in [DOMAIN timers -> 0..MaxInterval]
      /\ DOMAIN timers \subseteq TimerIds
  BY DEF SchedulerInv, NoLeakedTimer, TypeOK
<1>c. CyclesInv
  BY DEF SchedulerInv, TypeOK, ProductionInv, TestingInv, CyclesInv
<1>d. UNCHANGED <<testing, inFlight, cycles>> => CyclesInv'
  BY <1>c DEF CyclesInv, CyclesInFlight
<1>1. CASE ServerStarts
  <2> DEFINE l == [loop EXCEPT !.running = TRUE]
  <2>1. CASE testing
    <3>1. ScheduleNext(l, timers, 0)
      BY <1>1, <2>1 DEF ServerStarts
    <3>2. l \in LoopState /\ l.timer = loop.timer /\ l.interval \in Intervals
      BY <1>a DEF LoopState
    <3>3. 0 \in 0..MaxInterval
      BY SchedulerAssumption DEF SchedulerAssumption
    <3>4. loop.lastEnded = Never /\ l.lastEnded = Never
      BY <1>1, <1>a DEF ServerStarts, SchedulerInv, DownInv, FreshLoop, LoopState
    <3>5. 0 <= Greater(0, l.interval - (IF l.lastEnded = Never THEN 0 ELSE l.lastEnded))
      BY <3>2, <3>4, SchedulerAssumption DEF Greater, SchedulerAssumption
    <3>6. UNCHANGED <<testing, inFlight, cycles>> /\ up' = TRUE
      BY <1>1 DEF ServerStarts
    <3> HIDE DEF l
    <3> QED BY <1>b, <1>d, <2>1, <3>1, <3>2, <3>3, <3>5, <3>6, ScheduledAnew
  <2>2. CASE ~testing
    <3>1. UNCHANGED <<testing, inFlight, cycles, loop, timers>> /\ up' = TRUE /\ ~up
      BY <1>1, <2>2 DEF ServerStarts
    <3>2. TypeOK' /\ ProductionInv' /\ TestingInv'
      BY <3>1 DEF SchedulerInv, TypeOK, ProductionInv, TestingInv, CyclesInFlight
    <3>3. NoLeakedTimer' /\ WaitMeasuredFromLastPass'
      BY <3>1 DEF SchedulerInv, NoLeakedTimer, WaitMeasuredFromLastPass, SinceLastPass
    <3> QED BY <3>1, <3>2, <3>3 DEF SchedulerInv, DownInv
  <2> QED BY <1>a, <2>1, <2>2
<1>2. CASE ServerStops
  <2>1. inFlight' = FALSE /\ cycles' = NoCycle /\ loop' = FreshLoop /\ timers' = NoTimers /\ up' = FALSE
        /\ testing' = testing
    BY <1>2 DEF ServerStops
  <2>2. DOMAIN timers' = {} /\ timers' \in [DOMAIN timers' -> 0..MaxInterval]
    BY <2>1 DEF NoTimers
  <2>3. loop' \in LoopState
    BY <2>1, SchedulerAssumption DEF FreshLoop, LoopState, SchedulerAssumption, Never
  <2>4. TypeOK'
    BY <1>a, <2>1, <2>2, <2>3 DEF TypeOK, NoCycle, CycleSource
  <2> QED BY <2>1, <2>2, <2>4 DEF SchedulerInv, ProductionInv, TestingInv, DownInv, NoLeakedTimer,
         WaitMeasuredFromLastPass, NoCycle, CycleSource, CyclesInFlight, FreshLoop
<1>3. CASE WorkerAsks
  <2>1. CycleBegins("worker") /\ UNCHANGED <<testing, up, loop, timers>> /\ up
    BY <1>3 DEF WorkerAsks
  <2>2. CyclesInv' /\ cycles'["panel-loop"] = cycles["panel-loop"]
    BY <2>1, CycleBeginsEffect DEF CycleSource
  <2> QED BY <2>1, <2>2, CyclesStepKeepsInv
<1>4. CASE RunNow
  <2>1. CycleBegins("run-now") /\ UNCHANGED <<testing, up, loop, timers>> /\ up /\ testing
    BY <1>4 DEF RunNow
  <2>2. CyclesInv' /\ cycles'["panel-loop"] = cycles["panel-loop"]
    BY <2>1, CycleBeginsEffect DEF CycleSource
  <2> QED BY <2>1, <2>2, CyclesStepKeepsInv
<1>5. ASSUME NEW s \in {"worker", "run-now"}, RequestedCycleEnds(s)
      PROVE  SchedulerInv'
  <2>1. CycleSettles(s) /\ UNCHANGED <<testing, up, loop, timers>>
    BY <1>5 DEF RequestedCycleEnds
  <2>2. CyclesInv' /\ cycles'["panel-loop"] = cycles["panel-loop"] /\ cycles[s] > 0
    BY <2>1, CycleSettlesEffect DEF CycleSource
  <2>3. up
    BY <2>2, <1>a DEF SchedulerInv, DownInv, NoCycle, CycleSource
  <2> QED BY <2>1, <2>2, <2>3, CyclesStepKeepsInv
<1>6. ASSUME NEW t \in TimerIds, PassBegins(t)
      PROVE  SchedulerInv'
  <2>1. /\ TimerFires(t) /\ CycleBegins("panel-loop")
        /\ loop' = [loop EXCEPT !.timer = NoTimer] /\ timers' = Without(timers, t)
        /\ UNCHANGED <<testing, up>>
    BY <1>6 DEF PassBegins
  <2>2. t \in DOMAIN timers /\ loop.running /\ t = loop.timer
    BY <1>b, <2>1 DEF TimerFires
  <2>3. testing
    BY <2>2, <1>a DEF SchedulerInv, ProductionInv
  <2>4. CyclesInv' /\ CyclesInFlight = 0 /\ cycles'["panel-loop"] = cycles["panel-loop"] + 1
    BY <2>1, <2>3, CycleBeginsEffect DEF CycleSource
  <2>5. cycles'["panel-loop"] = 1
    BY <1>a, <2>4 DEF CyclesInFlight, CycleSource
  <2>6. DOMAIN timers' = {} /\ timers' \in [DOMAIN timers' -> 0..MaxInterval]
    BY <1>b, <2>1, <2>2 DEF Without
  <2>7. loop' \in LoopState /\ loop'.timer = NoTimer
    BY <1>a, <2>1 DEF LoopState
  <2>8. up
    BY <2>2 DEF SchedulerInv, DownInv, FreshLoop
  <2>9. TimerWithin(0)' /\ ProductionInv' /\ 0 \in Nat
    BY <2>1, <2>3, <2>6, <2>7 DEF TimerWithin, ProductionInv
  <2>10. up' \in BOOLEAN /\ up'
    BY <1>a, <2>1, <2>8
  <2> QED BY <2>4, <2>5, <2>6, <2>7, <2>9, <2>10, Assemble
<1>7. ASSUME NEW t \in TimerIds, PassSkipped(t)
      PROVE  SchedulerInv'
  <2> DEFINE l == [[loop EXCEPT !.timer = NoTimer] EXCEPT !.lastEnded = 0]
  <2>1. TimerFires(t) /\ ScheduleNext(l, Without(timers, t), l.interval)
        /\ UNCHANGED <<testing, up, inFlight, cycles>>
    BY <1>7, <1>a DEF PassSkipped, PassEnded, LoopState
  <2>2. t \in DOMAIN timers /\ loop.running /\ t = loop.timer
    BY <1>b, <2>1 DEF TimerFires
  <2>3. testing
    BY <2>2, <1>a DEF SchedulerInv, ProductionInv
  <2>4. DOMAIN Without(timers, t) = {}
    BY <1>b, <2>2 DEF Without
  <2>5. l \in LoopState /\ l.interval = loop.interval /\ l.lastEnded = 0
    <3>1. 0 \in Never..MaxInterval
      BY SchedulerAssumption DEF SchedulerAssumption, Never
    <3>2. [loop EXCEPT !.timer = NoTimer] \in LoopState
      BY <1>a DEF LoopState
    <3> QED BY <1>a, <3>1, <3>2 DEF LoopState
  <2>6. up' = TRUE
    BY <1>a, <2>1, <2>2 DEF SchedulerInv, DownInv, FreshLoop
  <2>7. loop.interval \in 0..MaxInterval /\ loop.interval \in Nat
    BY Delays, SchedulerAssumption DEF SchedulerAssumption
  <2>8. l.interval <= Greater(0, l.interval - (IF l.lastEnded = Never THEN 0 ELSE l.lastEnded))
    BY <2>5, <2>7 DEF Greater, Never
  <2>9. DOMAIN Without(timers, t) \subseteq {l.timer}
    BY <2>4
  <2> HIDE DEF l
  <2> QED BY <1>d, <2>1, <2>3, <2>5, <2>6, <2>7, <2>8, <2>9, ScheduledAnew
<1>8. CASE PassEnds
  <2> DEFINE l == [loop EXCEPT !.lastEnded = 0]
  <2>1. CycleSettles("panel-loop") /\ ScheduleNext(l, timers, l.interval) /\ UNCHANGED <<testing, up>>
    BY <1>8, <1>a DEF PassEnds, PassEnded, LoopState
  <2>2. CyclesInv' /\ cycles["panel-loop"] > 0
    BY <2>1, CycleSettlesEffect DEF CycleSource
  <2>3. testing
    BY <2>2, <1>a DEF SchedulerInv, ProductionInv
  <2>4. up' = TRUE
    BY <1>a, <2>1, <2>2 DEF SchedulerInv, DownInv, NoCycle, CycleSource
  <2>5. l \in LoopState /\ l.interval = loop.interval /\ l.lastEnded = 0 /\ l.timer = loop.timer
    BY <1>a, SchedulerAssumption DEF LoopState, SchedulerAssumption, Never
  <2>6. loop.interval \in 0..MaxInterval /\ loop.interval \in Nat
    BY Delays, SchedulerAssumption DEF SchedulerAssumption
  <2>7. l.interval <= Greater(0, l.interval - (IF l.lastEnded = Never THEN 0 ELSE l.lastEnded))
    BY <2>5, <2>6 DEF Greater, Never
  <2> HIDE DEF l
  <2> QED BY <1>b, <2>1, <2>2, <2>3, <2>4, <2>5, <2>6, <2>7, ScheduledAnew
<1>9. CASE Start
  <2> DEFINE l == [loop EXCEPT !.running = TRUE]
  <2>1. ScheduleNext(l, timers, 0) /\ UNCHANGED <<testing, up, inFlight, cycles>> /\ up /\ testing
    BY <1>9 DEF Start
  <2>2. l \in LoopState /\ l.timer = loop.timer /\ l.interval = loop.interval /\ l.lastEnded = loop.lastEnded
    BY <1>a DEF LoopState
  <2>3. 0 \in 0..MaxInterval
    BY SchedulerAssumption DEF SchedulerAssumption
  <2>4. SinceLastPass \in Nat /\ loop.interval \in Int
    BY Delays, SchedulerAssumption DEF SchedulerAssumption
  <2>5. 0 <= Greater(0, l.interval - (IF l.lastEnded = Never THEN 0 ELSE l.lastEnded))
    BY <2>2, <2>4 DEF Greater, SinceLastPass
  <2>6. up' = TRUE
    BY <1>a, <2>1
  <2> HIDE DEF l
  <2> QED BY <1>b, <1>d, <2>1, <2>2, <2>3, <2>5, <2>6, ScheduledAnew
<1>10. CASE Stop
  <2> DEFINE l == [loop EXCEPT !.running = FALSE]
  <2>1. ClearTimer(l, timers) /\ UNCHANGED <<testing, up, inFlight, cycles>> /\ up /\ testing
    BY <1>10 DEF Stop
  <2>2. l \in LoopState /\ l.timer = loop.timer /\ l.running = FALSE
    BY <1>a DEF LoopState
  <2> HIDE DEF l
  <2>3. DOMAIN timers' = {} /\ TimerWithin(0)' /\ loop' \in LoopState /\ loop'.running = FALSE
    BY <1>b, <2>1, <2>2, ClearTimerEffect, SchedulerAssumption
  <2>4. ProductionInv' /\ 0 \in Nat /\ up' \in BOOLEAN /\ up'
    BY <1>a, <2>1 DEF ProductionInv
  <2> QED BY <1>d, <2>1, <2>3, <2>4, Assemble
<1>11. ASSUME NEW seconds \in Intervals, SetInterval(seconds)
       PROVE  SchedulerInv'
  <2> DEFINE l == [loop EXCEPT !.interval = seconds]
  <2>1. UNCHANGED <<testing, up, inFlight, cycles>> /\ up' = TRUE /\ testing
    BY <1>11, <1>a DEF SetInterval
  <2>2. l \in LoopState /\ l.timer = loop.timer /\ l.interval = seconds /\ l.lastEnded = loop.lastEnded
        /\ l.running = loop.running
    BY <1>a DEF LoopState
  <2>3. Greater(0, seconds - SinceLastPass) \in 0..MaxInterval /\ SinceLastPass \in Nat
    BY Delays
  <2>4. CASE ScheduleNext(l, timers, Greater(0, seconds - SinceLastPass))
    <3>1. Greater(0, seconds - SinceLastPass)
            <= Greater(0, l.interval - (IF l.lastEnded = Never THEN 0 ELSE l.lastEnded))
      BY <2>2, <2>3 DEF SinceLastPass
    <3> HIDE DEF l
    <3> QED BY <1>b, <1>d, <2>1, <2>2, <2>3, <2>4, <3>1, ScheduledAnew
  <2>5. CASE loop' = l /\ UNCHANGED timers /\ ~(loop.running /\ loop.timer # NoTimer)
    <3>1. loop' \in LoopState /\ loop'.running = loop.running /\ loop'.timer = loop.timer
      BY <2>2, <2>5
    <3>2. loop.timer = NoTimer
      BY <2>5 DEF SchedulerInv, NoLeakedTimer
    <3>3. DOMAIN timers = {}
      BY <1>b, <3>2, SchedulerAssumption DEF SchedulerAssumption
    <3>4. TimerWithin(0)' /\ 0 \in Nat
      BY <1>b, <2>5, <3>1, <3>2, <3>3 DEF TimerWithin
    <3>5. ProductionInv' /\ up' \in BOOLEAN /\ up'
      BY <2>1 DEF ProductionInv
    <3>6. (loop'.running /\ loop'.timer = NoTimer) => cycles'["panel-loop"] = 1
      BY <2>1, <3>1 DEF SchedulerInv, NoLeakedTimer
    <3> QED BY <1>d, <2>1, <2>5, <3>1, <3>3, <3>4, <3>5, <3>6, Assemble
  <2> QED BY <1>11, <2>4, <2>5 DEF SetInterval
<1>12. CASE TimePasses
  <2>1. /\ \A t \in DOMAIN timers : timers[t] > 0
        /\ timers' = [t \in DOMAIN timers |-> timers[t] - 1]
        /\ UNCHANGED <<testing, up, inFlight, cycles>>
    BY <1>12 DEF TimePasses
  <2>2. DOMAIN timers' = DOMAIN timers /\ \A t \in DOMAIN timers : timers'[t] = timers[t] - 1
    BY <2>1
  <2>3. MaxInterval \in Nat /\ \A t \in DOMAIN timers : timers[t] \in 1..MaxInterval
    BY <1>b, <2>1, SchedulerAssumption DEF SchedulerAssumption
  <2>4. timers' \in [DOMAIN timers' -> 0..MaxInterval]
    BY <2>1, <2>2, <2>3
  <2>5. /\ loop' \in LoopState /\ loop'.running = loop.running /\ loop'.timer = loop.timer
        /\ loop'.interval = loop.interval
        /\ loop.lastEnded = Never => loop'.lastEnded = Never
        /\ loop.lastEnded # Never => loop'.lastEnded \in Nat /\ loop'.lastEnded <= loop.lastEnded + 1
    <3>1. CASE loop.lastEnded = Never
      BY <1>12, <1>a, <3>1 DEF TimePasses
    <3>2. CASE loop.lastEnded # Never
      <4>1. loop' = [loop EXCEPT !.lastEnded = Lesser(MaxInterval, loop.lastEnded + 1)]
        BY <1>12, <3>2 DEF TimePasses
      <4>2. loop.lastEnded \in 0..MaxInterval
        BY <1>a, <2>3, <3>2 DEF LoopState, Never
      <4>3. Lesser(MaxInterval, loop.lastEnded + 1) \in 0..MaxInterval
            /\ Lesser(MaxInterval, loop.lastEnded + 1) <= loop.lastEnded + 1
        BY <2>3, <4>2 DEF Lesser
      <4>4. Lesser(MaxInterval, loop.lastEnded + 1) \in Never..MaxInterval
        BY <4>3 DEF Never
      <4> QED BY <1>a, <2>3, <3>2, <4>1, <4>3, <4>4 DEF LoopState
    <3> QED BY <3>1, <3>2
  <2>6. TypeOK'
    BY <1>a, <1>b, <2>1, <2>2, <2>4, <2>5 DEF TypeOK, SchedulerInv
  <2>7. ProductionInv' /\ TestingInv' /\ NoLeakedTimer'
    BY <2>1, <2>2, <2>5 DEF SchedulerInv, ProductionInv, TestingInv, NoLeakedTimer, CyclesInFlight
  <2>8. DownInv'
    <3>1. SUFFICES ASSUME ~up
                   PROVE  loop' = FreshLoop /\ timers' = NoTimers /\ cycles' = NoCycle
      BY <2>1 DEF DownInv
    <3>2. loop = FreshLoop /\ timers = NoTimers /\ cycles = NoCycle
      BY <3>1 DEF SchedulerInv, DownInv
    <3>3. loop.lastEnded = Never
      BY <3>2 DEF FreshLoop
    <3>4. timers' = NoTimers
      BY <2>1, <3>2 DEF NoTimers
    <3> QED BY <1>12, <2>1, <3>2, <3>3, <3>4 DEF TimePasses
  <2>9. WaitMeasuredFromLastPass'
    <3> SUFFICES ASSUME NEW t \in DOMAIN timers
        PROVE  timers'[t] <= Greater(0, loop'.interval - SinceLastPass')
      BY <2>2 DEF WaitMeasuredFromLastPass
    <3>1. timers[t] <= Greater(0, loop.interval - SinceLastPass)
      BY DEF SchedulerInv, WaitMeasuredFromLastPass
    <3>2. loop.interval \in Nat
      <4>1. loop.interval \in Intervals
        BY <1>a DEF LoopState
      <4>2. loop.interval \in 1..MaxInterval
        BY <4>1, SchedulerAssumption DEF SchedulerAssumption
      <4> QED BY <4>2
    <3>3. SinceLastPass \in Nat /\ SinceLastPass' \in Nat /\ SinceLastPass' <= SinceLastPass + 1
      BY <1>a, <2>3, <2>5 DEF SinceLastPass, LoopState, Never
    <3>4. timers[t] \in Nat /\ timers[t] > 0 /\ timers'[t] = timers[t] - 1
      BY <2>2, <2>3
    <3> QED BY <2>5, <3>1, <3>2, <3>3, <3>4 DEF Greater
  <2> QED BY <2>6, <2>7, <2>8, <2>9 DEF SchedulerInv
<1> QED BY <1>1, <1>2, <1>3, <1>4, <1>5, <1>6, <1>7, <1>8, <1>9, <1>10, <1>11, <1>12
       DEF Next, ServerStep, WorkerCycleEnds, RunNowEnds

\* A stuttering step keeps the invariant.
LEMMA SchedulerInvStutter ==
  ASSUME SchedulerInv, UNCHANGED vars
  PROVE  SchedulerInv'
<1>1. TypeOK' /\ ProductionInv' /\ TestingInv' /\ DownInv'
  BY DEF vars, SchedulerInv, TypeOK, ProductionInv, TestingInv, DownInv, CyclesInFlight
<1>2. NoLeakedTimer' /\ WaitMeasuredFromLastPass'
  BY DEF vars, SchedulerInv, NoLeakedTimer, WaitMeasuredFromLastPass, SinceLastPass
<1> QED BY <1>1, <1>2 DEF SchedulerInv

\* The specification keeps the inductive invariant.
LEMMA SchedulerInvariant == Spec => []SchedulerInv
<1>1. Init => SchedulerInv
  BY SchedulerAssumption, SchedulerInit
<1>2. SchedulerInv /\ [Next]_vars => SchedulerInv'
  BY SchedulerNext, SchedulerInvStutter
<1> QED BY <1>1, <1>2, PTL DEF Spec

-----------------------------------------------------------------------------
(* The composition with the ticker. *)

\* Each step of the ticker and the server together is a step of the server or none.
LEMMA WorkerLoopStep == [WorkerLoopNext]_allVars => [Next]_vars
<1> SUFFICES ASSUME [WorkerLoopNext]_allVars
             PROVE  [Next]_vars
  OBVIOUS
<1>1. CASE TickerStep
  BY <1>1 DEF TickerStep, TickerStarts, TickerKilled, StopTicker, TickBegins, LoopEnds,
              RequestBegins, RequestSkipped, RequestRefused, RequestTimesOut, RequestAnswered, Next
<1>2. CASE AbandonedCycleEnds
  BY <1>2 DEF AbandonedCycleEnds, Next
<1>3. CASE ServerMoves
  BY <1>3 DEF ServerMoves, Next
<1>4. CASE TimePassesForBoth
  BY <1>4 DEF TimePassesForBoth, Next
<1>5. CASE UNCHANGED allVars
  BY <1>5 DEF allVars
<1> QED BY <1>1, <1>2, <1>3, <1>4, <1>5 DEF WorkerLoopNext

\* The ticker drives the scheduler (scripts/worker-loop.ts) and never does more to it than any
\* other caller: the composition implements SchedulerCycle.
THEOREM WorkerLoopImplementsScheduler == WorkerLoopSpec => Spec
<1>1. WorkerLoopInit => Init
  BY DEF WorkerLoopInit
<1> QED BY <1>1, WorkerLoopStep, PTL DEF WorkerLoopSpec, Spec

\* The inductive invariant of the ticker: besides its type, that of the server's count of its cycles,
\* and that only a request has one.
TickerInv ==
  /\ WorkerLoopTypeOK
  /\ cycles["worker"] <= MaxCycles
  /\ ticker.inCycle => ticker.at = "asking"
  /\ StopCutsTheWait

\* The longest the ticker waits for anything.
Longest == Greater(Greater(TickWait, RequestTimeout), StartupDelay)

\* Every wait is one of them.
LEMMA WaitsAreKnown ==
  /\ Longest \in Nat /\ {TickWait, RequestTimeout, StartupDelay} \subseteq 0..Longest
  /\ \A f \in 0..MaxFailures : Delay(f) \in 0..Longest
<1>1. Longest \in Nat /\ {TickWait, RequestTimeout, StartupDelay} \subseteq 0..Longest
  BY WorkerLoopAssumption DEF WorkerLoopAssumption, Longest, Greater
<1>2. ASSUME NEW f \in 1..MaxFailures
      PROVE  Lesser(TickWait, RetryBase * 2^(f - 1)) \in 0..Longest
  <2>1. PICK power : power = 2^(f - 1)
    OBVIOUS
  <2>2. f - 1 \in Nat /\ f - 1 \in 0..(MaxFailures - 1)
    BY WorkerLoopAssumption DEF WorkerLoopAssumption
  <2>3. \A n \in Nat : 2^n \in Int
    OBVIOUS
  <2>4. power \in Nat
    BY <2>1, <2>2, <2>3, WorkerLoopAssumption DEF WorkerLoopAssumption
  <2>5. RetryBase * power \in Nat
    BY <2>4, WorkerLoopAssumption DEF WorkerLoopAssumption
  <2> QED BY <1>1, <2>1, <2>5, WorkerLoopAssumption DEF WorkerLoopAssumption, Lesser
<1>3. \A f \in 0..MaxFailures : Delay(f) \in 0..Longest
  BY <1>1, <1>2, WorkerLoopAssumption DEF Delay, WorkerLoopAssumption
<1> QED BY <1>1, <1>3

\* A ticker that is off, or that has ended, or that starts.
LEMMA OffIs ==
  /\ Off \in Ticker /\ Off.at = "off"
  /\ [Off EXCEPT !.at = "ended"] \in Ticker
  /\ [Off EXCEPT !.at = "sleeping", !.left = StartupDelay] \in Ticker
  /\ \A at \in Place, left \in Nat : LET t == [Off EXCEPT !.at = at, !.left = left]  u == [Off EXCEPT !.at = at] IN
       ~Off.inCycle /\ ~Off.stopping /\ ~t.inCycle /\ ~t.stopping /\ ~u.inCycle /\ ~u.stopping
<1>1. 0 \in 0..Longest /\ StartupDelay \in 0..Longest /\ 0 \in 0..MaxFailures
  BY WaitsAreKnown, WorkerLoopAssumption DEF WorkerLoopAssumption
<1>2. Ticker = [at : Place, stopping : BOOLEAN, failures : 0..MaxFailures, inCycle : BOOLEAN, left : 0..Longest]
  BY DEF Ticker, Longest
<1> QED BY <1>1, <1>2 DEF Off, Place

\* After a tick the ticker sleeps, or has ended because it was told to stop.
LEMMA TickedIs ==
  ASSUME ticker \in Ticker, NEW ok \in BOOLEAN, Ticked(ok)
  PROVE  /\ ticker' \in Ticker /\ ~ticker'.inCycle
         /\ ticker'.stopping => ticker'.at # "sleeping"
<1>1. PICK f : f = IF ok THEN 0 ELSE Lesser(MaxFailures, ticker.failures + 1)
  OBVIOUS
<1>2. f \in 0..MaxFailures
  BY <1>1, WorkerLoopAssumption DEF WorkerLoopAssumption, Ticker, Lesser
<1>3. Delay(f) \in 0..Longest /\ 0 \in 0..Longest
  BY <1>2, WaitsAreKnown
<1>4. ticker' = IF ticker.stopping THEN [Off EXCEPT !.at = "ended"]
                ELSE [ticker EXCEPT !.at = "sleeping", !.inCycle = FALSE, !.failures = f, !.left = Delay(f)]
  BY <1>1 DEF Ticked
<1>5. CASE ticker.stopping
  BY <1>4, <1>5, OffIs DEF Off
<1>6. CASE ~ticker.stopping
  <2>1. Ticker = [at : Place, stopping : BOOLEAN, failures : 0..MaxFailures, inCycle : BOOLEAN, left : 0..Longest]
    BY DEF Ticker, Longest
  <2> QED BY <1>2, <1>3, <1>4, <1>6, <2>1 DEF Place
<1> QED BY <1>5, <1>6

\* The server's own steps leave the worker's cycles alone, or end them all.
LEMMA WorkerCyclesStay ==
  ASSUME SchedulerInv, ServerStep
  PROVE  cycles'["worker"] = (IF up' THEN cycles["worker"] ELSE 0)
<1>1. cycles \in [CycleSource -> Nat] /\ up \in BOOLEAN
  BY DEF SchedulerInv, TypeOK
<1>2. ~up => cycles = NoCycle /\ DOMAIN timers = {}
  BY DEF SchedulerInv, DownInv, NoTimers
<1>3. CASE ServerStops
  BY <1>3 DEF ServerStops, NoCycle, CycleSource
<1>4. CASE ServerStarts \/ RunNow \/ Start \/ Stop \/ \E seconds \in Intervals : SetInterval(seconds)
  BY <1>1, <1>4 DEF ServerStarts, RunNow, Start, Stop, SetInterval, CycleBegins, CycleSource
<1>5. CASE RunNowEnds
  BY <1>1, <1>2, <1>5 DEF RunNowEnds, RequestedCycleEnds, CycleSettles, CycleSource, NoCycle
<1>6. CASE PassEnds
  BY <1>1, <1>2, <1>6 DEF PassEnds, CycleSettles, CycleSource, NoCycle
<1>7. ASSUME NEW t \in TimerIds, PassBegins(t) \/ PassSkipped(t)
      PROVE  cycles'["worker"] = (IF up' THEN cycles["worker"] ELSE 0)
  BY <1>1, <1>2, <1>7 DEF PassBegins, PassSkipped, TimerFires, CycleBegins, CycleSource
<1> QED BY <1>3, <1>4, <1>5, <1>6, <1>7 DEF ServerStep

\* Nothing runs at first.
LEMMA TickerStarted == ASSUME WorkerLoopInit PROVE TickerInv
<1>1. TypeOK /\ cycles["worker"] = 0
  BY SchedulerAssumption, SchedulerInit DEF WorkerLoopInit, SchedulerInv, Init, NoCycle, CycleSource
<1>2. 0 \in 0..Longest
  BY WaitsAreKnown
<1>3. ticker \in Ticker
  BY <1>2, WorkerLoopAssumption DEF WorkerLoopAssumption, WorkerLoopInit, Off, Ticker, Place, Longest
<1> QED BY <1>1, <1>3, SchedulerAssumption
        DEF SchedulerAssumption, WorkerLoopInit, TickerInv, WorkerLoopTypeOK, StopCutsTheWait, Off

\* What each step does to the ticker and to the count of its cycles.
LEMMA TickerInvStep ==
  ASSUME TickerInv, SchedulerInv, SchedulerInv', [WorkerLoopNext]_allVars
  PROVE  TickerInv'
<1>1. TypeOK' /\ cycles \in [CycleSource -> Nat] /\ cycles' \in [CycleSource -> Nat]
  BY DEF SchedulerInv, TypeOK
<1>2. /\ ticker \in Ticker /\ abandoned \in 0..MaxCycles /\ MaxCycles \in Nat
      /\ cycles["worker"] = abandoned + (IF ticker.inCycle THEN 1 ELSE 0) /\ cycles["worker"] <= MaxCycles
      /\ ticker.inCycle => ticker.at = "asking"
      /\ ticker.stopping /\ ticker.at = "sleeping" => ticker.left = 0
  BY SchedulerAssumption DEF TickerInv, WorkerLoopTypeOK, StopCutsTheWait, SchedulerAssumption
<1>3. SUFFICES /\ ticker' \in Ticker /\ abandoned' \in 0..MaxCycles
               /\ cycles'["worker"] = abandoned' + (IF ticker'.inCycle THEN 1 ELSE 0) /\ cycles'["worker"] <= MaxCycles
               /\ ticker'.inCycle => ticker'.at = "asking"
               /\ ticker'.stopping /\ ticker'.at = "sleeping" => ticker'.left = 0
  BY <1>1 DEF TickerInv, WorkerLoopTypeOK, StopCutsTheWait
<1>4. Longest \in Nat /\ {TickWait, RequestTimeout, StartupDelay} \subseteq 0..Longest /\ 0 \in 0..Longest
  BY WaitsAreKnown
<1>5. CASE TickerStarts \/ TickerKilled \/ LoopEnds
  <2>1. ticker' \in Ticker /\ ~ticker'.inCycle /\ ~ticker'.stopping
    BY <1>5, OffIs, WorkerLoopAssumption DEF TickerStarts, TickerKilled, LoopEnds, Place, WorkerLoopAssumption
  <2>2. cycles' = cycles /\ abandoned' = abandoned + (IF ticker.inCycle THEN 1 ELSE 0)
    BY <1>2, <1>5 DEF TickerStarts, TickerKilled, LoopEnds, Alive, Awake, GivenUp, vars
  <2> QED BY <1>2, <2>1, <2>2
<1>6. CASE StopTicker \/ TickBegins
  <2>1. /\ ticker' \in Ticker /\ ticker'.inCycle = ticker.inCycle /\ (ticker.inCycle => ticker'.at = "asking")
        /\ ticker'.stopping /\ ticker'.at = "sleeping" => ticker'.left = 0
    BY <1>2, <1>4, <1>6 DEF StopTicker, TickBegins, Awake, Ticker, Place, Longest
  <2> QED BY <1>2, <1>6, <2>1 DEF StopTicker, TickBegins, vars
<1>7. CASE RequestBegins
  <2>1. cycles'["worker"] = cycles["worker"] + 1 /\ CyclesInFlight < MaxCycles
    BY <1>1, <1>7 DEF RequestBegins, WorkerAsks, CycleBegins, CycleSource
  <2>2. cycles["worker"] <= CyclesInFlight
    BY <1>1 DEF CyclesInFlight, CycleSource
  <2>3. CyclesInFlight \in Nat
    BY <1>1 DEF CyclesInFlight, CycleSource
  <2>4. ticker' \in Ticker /\ ticker'.inCycle /\ ticker'.at = "asking" /\ ~ticker.inCycle /\ abandoned' = abandoned
    BY <1>2, <1>7 DEF RequestBegins, Ticker
  <2> QED BY <1>1, <1>2, <2>1, <2>2, <2>3, <2>4
<1>8. CASE RequestSkipped \/ RequestRefused
  <2>1. /\ ticker' \in Ticker /\ ~ticker'.inCycle
        /\ ticker'.stopping => ticker'.at # "sleeping"
    BY <1>2, <1>8, TickedIs DEF RequestSkipped, RequestRefused
  <2> QED BY <1>2, <1>8, <2>1 DEF RequestSkipped, RequestRefused, vars
<1>9. CASE RequestTimesOut
  <2>1. /\ ticker' \in Ticker /\ ~ticker'.inCycle
        /\ ticker'.stopping => ticker'.at # "sleeping"
    BY <1>2, <1>9, TickedIs DEF RequestTimesOut
  <2> QED BY <1>2, <1>9, <2>1 DEF RequestTimesOut, GivenUp, vars
<1>10. CASE \E ok \in BOOLEAN : RequestAnswered(ok)
  <2>0. PICK ok \in BOOLEAN : RequestAnswered(ok)
    BY <1>10
  <2>1. /\ ticker' \in Ticker /\ ~ticker'.inCycle
        /\ ticker'.stopping => ticker'.at # "sleeping"
    BY <1>2, <2>0, TickedIs DEF RequestAnswered
  <2>2. cycles'["worker"] = cycles["worker"] - 1 /\ ticker.inCycle /\ abandoned' = abandoned
    BY <1>1, <2>0 DEF RequestAnswered, WorkerCycleEnds, RequestedCycleEnds, CycleSettles, CycleSource
  <2> QED BY <1>2, <2>1, <2>2
<1>11. CASE AbandonedCycleEnds
  <2>1. cycles'["worker"] = cycles["worker"] - 1 /\ abandoned > 0 /\ abandoned' = abandoned - 1 /\ ticker' = ticker
    BY <1>1, <1>11 DEF AbandonedCycleEnds, WorkerCycleEnds, RequestedCycleEnds, CycleSettles, CycleSource
  <2> QED BY <1>2, <2>1
<1>12. CASE ServerMoves
  <2>1. cycles'["worker"] = (IF up' THEN cycles["worker"] ELSE 0)
    BY <1>12, WorkerCyclesStay DEF ServerMoves
  <2>2. CASE up'
    BY <1>2, <1>12, <2>1, <2>2 DEF ServerMoves
  <2>3. CASE ~up'
    <3>1. ticker' = [ticker EXCEPT !.inCycle = FALSE] /\ abandoned' = 0 /\ cycles'["worker"] = 0
      BY <1>12, <2>1, <2>3 DEF ServerMoves
    <3>2. /\ ticker' \in Ticker /\ ~ticker'.inCycle /\ ticker'.at = ticker.at /\ ticker'.stopping = ticker.stopping
          /\ ticker'.left = ticker.left
      BY <1>2, <3>1 DEF Ticker
    <3> QED BY <1>2, <3>1, <3>2
  <2> QED BY <2>2, <2>3
<1>13. CASE TimePassesForBoth
  <2>1. ticker' = [ticker EXCEPT !.left = Greater(0, ticker.left - 1)] /\ UNCHANGED <<cycles, abandoned>>
    BY <1>13 DEF TimePassesForBoth, TimePasses
  <2>2. Greater(0, ticker.left - 1) \in 0..Longest /\ (ticker.left = 0 => Greater(0, ticker.left - 1) = 0)
    BY <1>2, <1>4 DEF Greater, Ticker, Longest
  <2> QED BY <1>2, <2>1, <2>2 DEF Ticker, Longest
<1>14. CASE UNCHANGED allVars
  BY <1>2, <1>14 DEF allVars, vars
<1> QED BY <1>5, <1>6, <1>7, <1>8, <1>9, <1>10, <1>11, <1>12, <1>13, <1>14 DEF WorkerLoopNext, TickerStep

\* For any delays, time-outs and number of cycles: the ticker and the server agree on whose cycles are in
\* flight, and a ticker told to stop does not sit out its sleep (worker-loop.ts, scripts/worker-loop.ts:50).
THEOREM TickerStaysSound == WorkerLoopSpec => [](WorkerLoopTypeOK /\ StopCutsTheWait)
<1>1. TickerInv => WorkerLoopTypeOK /\ StopCutsTheWait
  BY DEF TickerInv
<1>2. WorkerLoopSpec => []SchedulerInv
  BY WorkerLoopImplementsScheduler, SchedulerInvariant, PTL
<1>3. WorkerLoopInit => TickerInv
  BY TickerStarted
<1>4. TickerInv /\ SchedulerInv /\ SchedulerInv' /\ [WorkerLoopNext]_allVars => TickerInv'
  BY TickerInvStep
<1> QED BY <1>1, <1>2, <1>3, <1>4, PTL DEF WorkerLoopSpec

-----------------------------------------------------------------------------
(* The theorems. *)

\* Every variable keeps its type (loopState and runtime of the web server).
THEOREM SchedulerTypeCorrect == Spec => []TypeOK
<1>1. SchedulerInv => TypeOK
  BY DEF SchedulerInv
<1> QED BY <1>1, SchedulerInvariant, PTL

\* In the test environment two cycles never overlap, for any number of callers and any intervals
\* (runSchedulerCycle, src/lib/scheduler.ts:93-96).
THEOREM OneCycleAtATime == Spec => []OneCycle
<1>1. SchedulerInv => OneCycle
  BY DEF SchedulerInv, TestingInv, OneCycle
<1> QED BY <1>1, SchedulerInvariant, PTL

\* The lock is held exactly while a cycle that took it is in flight (src/lib/scheduler.ts:116-118).
THEOREM LockNeverLeaks == Spec => []LockHeldByCycle
<1>1. SchedulerInv => LockHeldByCycle
  <2> SUFFICES ASSUME SchedulerInv
               PROVE  LockHeldByCycle
    OBVIOUS
  <2>1. cycles \in [CycleSource -> Nat] /\ testing \in BOOLEAN /\ inFlight \in BOOLEAN
    BY DEF SchedulerInv, TypeOK
  <2>2. CASE testing
    <3>1. inFlight <=> CyclesInFlight = 1
      BY <2>2 DEF SchedulerInv, TestingInv
    <3>2. CyclesInFlight <= 1
      BY <2>2 DEF SchedulerInv, TestingInv
    <3>3. CyclesInFlight = 1 <=> \E s \in CycleSource : cycles[s] > 0
      BY <2>1, <3>2 DEF CyclesInFlight, CycleSource
    <3> QED BY <2>2, <3>1, <3>3 DEF LockHeldByCycle, Exclusive
  <2>3. CASE ~testing
    BY <2>1, <2>3 DEF SchedulerInv, ProductionInv, LockHeldByCycle, Exclusive, CycleSource
  <2> QED BY <2>1, <2>2, <2>3
<1> QED BY <1>1, SchedulerInvariant, PTL

\* Node holds no timer the loop has lost sight of (src/lib/testing/test-scheduler.ts:24-37).
THEOREM NoTimerLeaks == Spec => []NoLeakedTimer
<1>1. SchedulerInv => NoLeakedTimer
  BY DEF SchedulerInv
<1> QED BY <1>1, SchedulerInvariant, PTL

\* The next pass is never later than the interval after the last (src/lib/testing/test-scheduler.ts:93-106).
THEOREM WaitIsMeasured == Spec => []WaitMeasuredFromLastPass
<1>1. SchedulerInv => WaitMeasuredFromLastPass
  BY DEF SchedulerInv
<1> QED BY <1>1, SchedulerInvariant, PTL

\* While the loop is stopped, nothing but a run-now begins a cycle.
LEMMA StoppedStep ==
  ASSUME SchedulerInv, [Next]_vars, testing, up, ~loop.running
  PROVE  /\ \A s \in {"worker", "panel-loop"} : cycles'[s] <= cycles[s]
         /\ ~loop'.running => DOMAIN timers' = {}
<1>1. cycles \in [CycleSource -> Nat] /\ loop \in LoopState
  BY DEF SchedulerInv, TypeOK
<1>2. \A s \in {"worker", "panel-loop"} : cycles'[s] <= cycles[s]
  <2>1. CASE UNCHANGED cycles
    BY <1>1, <2>1 DEF CycleSource
  <2>2. CASE ServerStops
    BY <1>1, <2>2 DEF ServerStops, NoCycle, CycleSource
  <2>3. CASE WorkerAsks
    BY <2>3 DEF WorkerAsks, CycleBegins, Refused, RefusedStopped
  <2>4. CASE RunNow
    BY <1>1, <2>4 DEF RunNow, CycleBegins, CycleSource
  <2>5. ASSUME NEW s \in CycleSource, CycleSettles(s)
        PROVE  \A r \in {"worker", "panel-loop"} : cycles'[r] <= cycles[r]
    BY <1>1, <2>5 DEF CycleSettles, CycleSource
  <2>6. \A t \in TimerIds : ~PassBegins(t)
    BY DEF PassBegins, TimerFires
  <2> QED BY <2>1, <2>2, <2>3, <2>4, <2>5, <2>6
          DEF Next, ServerStep, WorkerCycleEnds, RunNowEnds, RequestedCycleEnds, PassEnds, ServerStarts,
              PassSkipped, Start, Stop, SetInterval, TimePasses, vars, CycleSource
<1>3. SchedulerInv'
  <2>1. CASE Next
    BY <2>1, SchedulerNext
  <2>2. CASE UNCHANGED vars
    BY <2>2, SchedulerInvStutter
  <2> QED BY <2>1, <2>2
<1>4. ~loop'.running => DOMAIN timers' = {}
  <2>1. ~loop'.running => loop'.timer = NoTimer
    BY <1>3 DEF SchedulerInv, NoLeakedTimer
  <2>2. DOMAIN timers' \subseteq {loop'.timer} /\ DOMAIN timers' \subseteq TimerIds
    BY <1>3 DEF SchedulerInv, NoLeakedTimer, TypeOK
  <2> QED BY <2>1, <2>2, SchedulerAssumption DEF SchedulerAssumption
<1> QED BY <1>2, <1>4

\* Stop means stop (src/lib/testing/test-scheduler.ts:80-87).
THEOREM StopIsRespected == Spec => StoppedMeansStopped
<1>1. SchedulerInv /\ [Next]_vars =>
        [testing /\ up /\ ~loop.running =>
           /\ \A s \in {"worker", "panel-loop"} : cycles'[s] <= cycles[s]
           /\ ~loop'.running => DOMAIN timers' = {}]_vars
  BY StoppedStep
<1> QED BY <1>1, SchedulerInvariant, PTL DEF Spec, StoppedMeansStopped

\* scheduleNext neither starts nor stops the loop.
LEMMA ScheduleNextRunning ==
  ASSUME NEW l \in LoopState, NEW held, NEW delay, ScheduleNext(l, held, delay)
  PROVE  loop'.running = l.running
BY DEF ScheduleNext, ReplaceTimer, ClearTimer, LoopState

\* Each step of the scheduler is a step of the service, or none.
LEMMA ServiceStep ==
  ASSUME SchedulerInv, [Next]_vars
  PROVE  [Service!Next]_(Service!vars)
<1>a. cycles \in [CycleSource -> Nat] /\ loop \in LoopState /\ testing \in BOOLEAN
  BY DEF SchedulerInv, TypeOK
<1>1. ASSUME NEW s \in CycleSource, CycleBegins(s), UNCHANGED <<testing>>, loop'.running = loop.running,
             testing \/ s = "worker", testing => loop.running \/ s = "run-now"
      PROVE  Service!Begin(s)
  <2>1. testing => CyclesInFlight = 0
    BY <1>1, CycleBeginsEffect
  <2>2. testing => Service!Idle
    <3> SUFFICES ASSUME testing, NEW r \in CycleSource
                 PROVE  cycles[r] = 0
      BY DEF Service!Idle
    <3>1. cycles["worker"] = 0 /\ cycles["panel-loop"] = 0 /\ cycles["run-now"] = 0
      BY <1>a, <2>1 DEF CyclesInFlight, CycleSource
    <3> QED BY <3>1 DEF CycleSource
  <2> QED BY <1>1, <2>2 DEF Service!Begin, CycleBegins
<1>2. ASSUME NEW s \in CycleSource, CycleSettles(s), UNCHANGED <<testing>>, loop'.running = loop.running
      PROVE  Service!End(s)
  BY <1>2 DEF Service!End, CycleSettles
<1>3. ASSUME testing, loop'.running # loop.running, loop'.running \in BOOLEAN, UNCHANGED <<testing, cycles>>
      PROVE  Service!OpenOrClose
  BY <1>a, <1>3 DEF Service!OpenOrClose, LoopState
<1>4. UNCHANGED <<testing, cycles>> /\ loop'.running = loop.running => UNCHANGED Service!vars
  BY DEF Service!vars
<1>5. CASE ServerStarts
  <2>1. CASE testing
    <3>1. loop'.running = TRUE
      <4>1. [loop EXCEPT !.running = TRUE] \in LoopState /\ [loop EXCEPT !.running = TRUE].running = TRUE
        BY <1>a DEF LoopState
      <4> QED BY <1>5, <2>1, <4>1, ScheduleNextRunning DEF ServerStarts
    <3>2. UNCHANGED <<testing, cycles>> /\ loop'.running \in BOOLEAN
      BY <1>5, <3>1 DEF ServerStarts
    <3> QED BY <1>3, <1>4, <2>1, <3>2 DEF Service!Next
  <2>2. CASE ~testing
    BY <1>4, <1>5, <2>2 DEF ServerStarts
  <2> QED BY <1>a, <2>1, <2>2
<1>6. CASE ServerStops
  BY <1>6 DEF ServerStops, Service!Next, Service!Die, FreshLoop, NoCycle
<1>7. CASE WorkerAsks
  <2>1. CycleBegins("worker") /\ UNCHANGED <<testing, loop>>
    BY <1>7 DEF WorkerAsks
  <2>2. testing => loop.running
    BY <2>1 DEF CycleBegins, Refused, RefusedStopped
  <2>3. Service!Begin("worker")
    BY <1>1, <2>1, <2>2 DEF CycleSource
  <2> QED BY <2>3 DEF Service!Next, CycleSource
<1>8. CASE RunNow
  <2>1. Service!Begin("run-now")
    BY <1>1, <1>8 DEF RunNow, CycleSource
  <2> QED BY <2>1 DEF Service!Next, CycleSource
<1>9. ASSUME NEW s \in {"worker", "run-now"}, RequestedCycleEnds(s)
      PROVE  [Service!Next]_(Service!vars)
  <2>1. Service!End(s) /\ s \in CycleSource
    BY <1>2, <1>9 DEF RequestedCycleEnds, CycleSource
  <2> QED BY <2>1 DEF Service!Next
<1>10. ASSUME NEW t \in TimerIds, PassBegins(t)
       PROVE  [Service!Next]_(Service!vars)
  <2>1. CycleBegins("panel-loop") /\ UNCHANGED testing /\ loop.running
    BY <1>10 DEF PassBegins, TimerFires
  <2>2. testing
    BY <1>a, <2>1 DEF SchedulerInv, ProductionInv
  <2>3. loop'.running = loop.running
    BY <1>10, <1>a DEF PassBegins, LoopState
  <2>4. Service!Begin("panel-loop")
    BY <1>1, <2>1, <2>2, <2>3 DEF CycleSource
  <2> QED BY <2>4 DEF Service!Next, CycleSource
<1>11. ASSUME NEW t \in TimerIds, PassSkipped(t)
       PROVE  [Service!Next]_(Service!vars)
  <2> DEFINE l == [[loop EXCEPT !.timer = NoTimer] EXCEPT !.lastEnded = 0]
  <2>1. l \in LoopState /\ l.running = loop.running
    <3>1. 0 \in Never..MaxInterval
      BY SchedulerAssumption DEF SchedulerAssumption, Never
    <3>2. [loop EXCEPT !.timer = NoTimer] \in LoopState
      BY <1>a DEF LoopState
    <3> QED BY <1>a, <3>1, <3>2 DEF LoopState
  <2>2. ScheduleNext(l, Without(timers, t), loop.interval) /\ UNCHANGED <<testing, cycles>>
    BY <1>11, <1>a DEF PassSkipped, PassEnded, LoopState
  <2> HIDE DEF l
  <2> QED BY <1>4, <2>1, <2>2, ScheduleNextRunning
<1>12. CASE PassEnds
  <2> DEFINE l == [loop EXCEPT !.lastEnded = 0]
  <2>1. l \in LoopState /\ l.running = loop.running
    BY <1>a, SchedulerAssumption DEF LoopState, SchedulerAssumption, Never
  <2>2. ScheduleNext(l, timers, loop.interval) /\ CycleSettles("panel-loop") /\ UNCHANGED testing
    BY <1>12, <1>a DEF PassEnds, PassEnded, LoopState
  <2> HIDE DEF l
  <2>3. loop'.running = loop.running
    BY <2>1, <2>2, ScheduleNextRunning
  <2>4. Service!End("panel-loop")
    BY <1>2, <2>2, <2>3 DEF CycleSource
  <2> QED BY <2>4 DEF Service!Next, CycleSource
<1>13. CASE Start
  <2> DEFINE l == [loop EXCEPT !.running = TRUE]
  <2>1. l \in LoopState /\ l.running = TRUE
    BY <1>a DEF LoopState
  <2>2. ScheduleNext(l, timers, 0) /\ UNCHANGED <<testing, cycles>> /\ testing /\ ~loop.running
    BY <1>13 DEF Start
  <2> HIDE DEF l
  <2>3. loop'.running = TRUE
    BY <2>1, <2>2, ScheduleNextRunning
  <2> QED BY <1>3, <2>2, <2>3 DEF Service!Next
<1>14. CASE Stop
  <2>1. loop'.running = FALSE
    BY <1>14, <1>a DEF Stop, ClearTimer, LoopState
  <2> QED BY <1>3, <1>14, <2>1 DEF Stop, Service!Next
<1>15. ASSUME NEW seconds \in Intervals, SetInterval(seconds)
       PROVE  [Service!Next]_(Service!vars)
  <2> DEFINE l == [loop EXCEPT !.interval = seconds]
  <2>1. l \in LoopState /\ l.running = loop.running
    BY <1>a DEF LoopState
  <2>2. ScheduleNext(l, timers, Greater(0, seconds - SinceLastPass)) \/ loop' = l
    BY <1>15 DEF SetInterval
  <2> HIDE DEF l
  <2>3. loop'.running = loop.running
    BY <2>1, <2>2, ScheduleNextRunning
  <2> QED BY <1>4, <1>15, <2>3 DEF SetInterval
<1>16. CASE TimePasses
  <2>1. loop'.running = loop.running
    BY <1>16, <1>a DEF TimePasses, LoopState
  <2> QED BY <1>4, <1>16, <2>1 DEF TimePasses
<1>17. CASE UNCHANGED vars
  BY <1>4, <1>17 DEF vars
<1> QED BY <1>5, <1>6, <1>7, <1>8, <1>9, <1>10, <1>11, <1>12, <1>13, <1>14, <1>15, <1>16, <1>17
       DEF Next, ServerStep, WorkerCycleEnds, RunNowEnds

\* The scheduler implements the service: one cycle at a time where the test tools are on, none but
\* a run-now while the scheduler is closed (src/lib/scheduler.ts:88-96).
THEOREM SchedulerImplementsService == Spec => ImplementsTickService
<1>1. Init => Service!Init
  BY DEF Init, Service!Init, FreshLoop, NoCycle
<1>2. SchedulerInv /\ [Next]_vars => [Service!Next]_(Service!vars)
  BY ServiceStep
<1> QED BY <1>1, <1>2, SchedulerInvariant, PTL DEF Spec, ImplementsTickService, Service!Spec

\* All that a scheduler's callers rely on, together: cycles, lock, timer and stop.
THEOREM SchedulerStaysIntact == Spec => SchedulerIntact
<1> QED BY OneCycleAtATime, LockNeverLeaks, NoTimerLeaks, WaitIsMeasured, StopIsRespected, PTL DEF SchedulerIntact

-----------------------------------------------------------------------------
(* The report. *)

Campaigns == [version : Nat, timed : Nat, status : ReportStatus]
NoLoad    == [at |-> "none"]
SentLoads == [at : {"sent"}, cancelled : BOOLEAN]
OkLoads   == [at : {"ok"}, cancelled : BOOLEAN, seen : Campaigns]
NoPress   == [kind |-> "none"]
Presses   == [kind : ActKinds \cup DialogKinds, at : {"sent", "ok", "stale"}, timed : Nat]

ReportTypes ==
  /\ campaignNow \in Campaigns
  /\ report \in [open : BOOLEAN, version : Nat, timed : Nat, badge : ReportStatus, busy : BOOLEAN,
                 dialog : {"none"} \cup DialogKinds, running : BOOLEAN]
  /\ loads \in [LoadSlots -> {NoLoad} \cup SentLoads \cup OkLoads]
  /\ presses \in [PressSlots -> {NoPress} \cup Presses]

\* What is shown, loaded or answered was so at some time, and the one load that can still be shown is of
\* a campaign no older than the one on screen.
NothingNewerGivenUp ==
  /\ campaignNow.timed <= campaignNow.version
  /\ report.version <= campaignNow.version /\ report.timed <= campaignNow.timed
  /\ \A s \in PressSlots : presses[s] # NoPress => presses[s].timed <= campaignNow.timed
  /\ \A s, u \in LoadSlots : Current(s) /\ Current(u) => s = u
  /\ \A s \in LoadSlots :
       Current(s) /\ loads[s].at = "ok" =>
         /\ report.version <= loads[s].seen.version /\ loads[s].seen.version <= campaignNow.version
         /\ report.timed <= loads[s].seen.timed /\ loads[s].seen.timed <= campaignNow.timed

\* One request of the page at a time, and who waits for it.
OnePress ==
  /\ \A s, u \in PressSlots : presses[s].kind # "none" /\ presses[u].kind # "none" => s = u
  /\ report.busy <=> \E s \in PressSlots : presses[s].kind \in ActKinds
  /\ report.running <=> \E s \in PressSlots : presses[s].kind \in DialogKinds
  /\ report.busy => report.dialog = "none"
  /\ report.running => report.dialog # "none"

\* The inductive invariant of the report.
ReportInv == ReportTypes /\ NothingNewerGivenUp /\ OnePress

\* The page opens on a scheduled campaign, before its first load.
LEMMA ReportStarts == ReportInit => ReportInv
  BY DEF ReportInit, ReportStart, ReportInv, ReportTypes, NothingNewerGivenUp, OnePress, Campaigns, ReportStatus, LiveStatus,
         NoLoad, NoPress, ActKinds, DialogKinds, Current

\* The load that leaves is the only one that can still be shown.
LEMMA StartLoadKeeps ==
  ASSUME ReportTypes, StartLoad
  PROVE  /\ loads' \in [LoadSlots -> {NoLoad} \cup SentLoads \cup OkLoads]
         /\ \E s \in LoadSlots : Current(s)' /\ loads'[s].at = "sent" /\ \A u \in LoadSlots : Current(u)' => u = s
<1>1. PICK s \in LoadSlots :
        /\ loads[s].at = "none"
        /\ loads' = [u \in LoadSlots |->
                   IF u = s THEN [at |-> "sent", cancelled |-> FALSE]
                   ELSE IF loads[u].at = "none" THEN loads[u] ELSE [loads[u] EXCEPT !.cancelled = TRUE]]
  BY DEF StartLoad
<1>2. ASSUME NEW u \in LoadSlots, u # s
      PROVE  loads'[u] \in {NoLoad} \cup SentLoads \cup OkLoads /\ ~Current(u)'
  BY ZenonT(60), <1>1, <1>2 DEF ReportTypes, NoLoad, SentLoads, OkLoads, Current
<1>3. loads'[s] \in SentLoads /\ Current(s)' /\ loads'[s].at = "sent"
  BY <1>1 DEF SentLoads, Current
<1>4. loads' \in [LoadSlots -> {NoLoad} \cup SentLoads \cup OkLoads]
  <2>1. \A u \in LoadSlots : loads'[u] \in {NoLoad} \cup SentLoads \cup OkLoads
    BY <1>2, <1>3
  <2>2. loads' = [u \in LoadSlots |-> loads'[u]]
    BY <1>1
  <2> HIDE DEF StartLoad
  <2> QED BY <2>1, <2>2
<1> QED BY <1>2, <1>3, <1>4

\* A load ends.
LEMMA LoadOverKeeps ==
  ASSUME ReportTypes, NEW s \in LoadSlots, LoadOver(s)
  PROVE  /\ loads' \in [LoadSlots -> {NoLoad} \cup SentLoads \cup OkLoads]
         /\ ~Current(s)'
         /\ \A u \in LoadSlots \ {s} : loads'[u] = loads[u]
  BY DEF ReportTypes, LoadOver, NoLoad, Current

\* A press that finds no other under way.
LEMMA PressKeeps ==
  ASSUME ReportTypes, NEW kind \in ActKinds \cup DialogKinds, Press(kind), ~report.busy, ~report.running, OnePress
  PROVE  /\ presses' \in [PressSlots -> {NoPress} \cup Presses]
         /\ \E s \in PressSlots : /\ presses'[s].kind = kind /\ presses'[s].timed = 0
                                  /\ \A u \in PressSlots \ {s} : presses'[u] = NoPress
<1>1. PICK s \in PressSlots :
        presses[s].kind = "none" /\ presses' = [presses EXCEPT ![s] = [kind |-> kind, at |-> "sent", timed |-> 0]]
  BY DEF Press
<1>2. \A u \in PressSlots : presses[u] = NoPress
  BY DEF ReportTypes, OnePress, Presses, NoPress
<1>3. [kind |-> kind, at |-> "sent", timed |-> 0] \in Presses
  BY DEF Presses
<1> QED BY <1>1, <1>2, <1>3 DEF ReportTypes

\* The request of the page ends.
LEMMA PressOverKeeps ==
  ASSUME ReportTypes, OnePress, NEW s \in PressSlots, presses[s].kind # "none", PressOver(s)
  PROVE  presses' \in [PressSlots -> {NoPress} \cup Presses] /\ \A u \in PressSlots : presses'[u] = NoPress
<1>1. \A u \in PressSlots \ {s} : presses[u] = NoPress
  BY DEF ReportTypes, OnePress, NoPress, Presses, ActKinds, DialogKinds
<1>2. presses' = [presses EXCEPT ![s] = NoPress]
  BY DEF PressOver, NoPress
<1> QED BY <1>1, <1>2 DEF ReportTypes

\* The campaign only moves forward.
LEMMA Forward ==
  ASSUME ReportInv
  PROVE  /\ Retimed \in Campaigns /\ Retimed.timed <= Retimed.version
         /\ Retimed.version >= campaignNow.version /\ Retimed.timed >= campaignNow.timed
         /\ \A status \in ReportStatus :
              /\ MoveTo(status) \in Campaigns /\ MoveTo(status).timed <= MoveTo(status).version
              /\ MoveTo(status).version >= campaignNow.version /\ MoveTo(status).timed >= campaignNow.timed
<1> DEFINE next == campaignNow.version + 1
<1>1. /\ campaignNow \in Campaigns /\ campaignNow.timed <= campaignNow.version
      /\ campaignNow.version \in Nat /\ campaignNow.timed \in Nat
  BY DEF ReportInv, ReportTypes, NothingNewerGivenUp, Campaigns
<1>2. next \in Nat /\ next >= campaignNow.version /\ next >= campaignNow.timed
  BY <1>1
<1>3. Retimed = [campaignNow EXCEPT !.version = next, !.timed = next]
  BY DEF Retimed
<1>4. \A status : MoveTo(status) = [campaignNow EXCEPT !.version = next, !.status = status]
  BY DEF MoveTo
<1> HIDE DEF next
<1>5. Retimed \in Campaigns /\ Retimed.timed = next /\ Retimed.version = next
  BY <1>1, <1>2, <1>3 DEF Campaigns
<1>6. ASSUME NEW status \in ReportStatus
      PROVE  MoveTo(status) \in Campaigns /\ MoveTo(status).timed = campaignNow.timed /\ MoveTo(status).version = next
  BY <1>1, <1>2, <1>4 DEF Campaigns
<1> QED BY <1>1, <1>2, <1>5, <1>6

\* What the page holds was so before, and a campaign that moves on leaves it so.
LEMMA CampaignChange ==
  ASSUME ReportInv, campaignNow' \in Campaigns, campaignNow'.timed <= campaignNow'.version,
         campaignNow'.version >= campaignNow.version, campaignNow'.timed >= campaignNow.timed,
         UNCHANGED <<report, loads>>
  PROVE  /\ report'.version <= campaignNow'.version /\ report'.timed <= campaignNow'.timed
         /\ \A s \in LoadSlots :
              Current(s)' /\ loads'[s].at = "ok" =>
                /\ report'.version <= loads'[s].seen.version /\ loads'[s].seen.version <= campaignNow'.version
                /\ report'.timed <= loads'[s].seen.timed /\ loads'[s].seen.timed <= campaignNow'.timed
         /\ \A s, u \in LoadSlots : Current(s)' /\ Current(u)' => s = u
<1>1. \A s \in LoadSlots : loads[s].at = "ok" /\ Current(s) => loads[s].seen \in Campaigns
  BY DEF ReportInv, ReportTypes, NoLoad, SentLoads, OkLoads
<1> QED BY <1>1 DEF ReportInv, ReportTypes, NothingNewerGivenUp, Campaigns, Current

\* Every step of the page, the campaign and the server keeps the invariant.
LEMMA ReportSteps == ReportInv /\ [ReportNext]_reportVars => ReportInv'
<1> SUFFICES ASSUME ReportInv, [ReportNext]_reportVars PROVE ReportInv'
  OBVIOUS
<1> USE DEF ReportInv
<1>1. CASE CampaignMoves
  <2>1. /\ campaignNow' \in Campaigns /\ campaignNow'.timed <= campaignNow'.version
        /\ campaignNow'.version >= campaignNow.version /\ campaignNow'.timed >= campaignNow.timed
        /\ UNCHANGED <<report, loads, presses>>
    <3>1. campaignNow' = Retimed \/ \E status \in ReportStatus : campaignNow' = MoveTo(status)
      BY <1>1 DEF CampaignMoves, Moves, ReportStatus, LiveStatus
    <3> QED BY <1>1, <3>1, Forward DEF CampaignMoves, ReportTypes, Campaigns
  <2>2. ReportTypes' /\ OnePress'
    BY <2>1 DEF ReportTypes, OnePress
  <2>3. NothingNewerGivenUp'
    BY <2>1, CampaignChange DEF NothingNewerGivenUp, ReportTypes, Presses, NoPress, Campaigns
  <2> QED BY <2>2, <2>3
<1>2. ASSUME NEW s \in PressSlots, PressAnswered(s) PROVE ReportInv'
  <2>1. presses[s] \in Presses
    BY <1>2 DEF PressAnswered, ReportTypes, NoPress
  <2>2. /\ campaignNow' \in Campaigns /\ campaignNow'.timed <= campaignNow'.version
        /\ campaignNow'.version >= campaignNow.version /\ campaignNow'.timed >= campaignNow.timed
        /\ UNCHANGED <<report, loads>>
    <3>1. \/ campaignNow' = Retimed \/ \E status \in ReportStatus : campaignNow' = MoveTo(status)
          \/ campaignNow' = campaignNow
      <4>1. presses[s].kind \in {"pause", "resume", "cancel", "reschedule", "call-off"}
        BY <2>1 DEF Presses, ActKinds, DialogKinds
      <4> QED BY <1>2, <4>1 DEF PressAnswered, Done, ReportStatus, LiveStatus
    <3> QED BY <1>2, <3>1, Forward DEF PressAnswered, ReportTypes, Campaigns, NothingNewerGivenUp
  <2>3. PICK p \in Presses :
          /\ presses' = [presses EXCEPT ![s] = p]
          /\ p.kind = presses[s].kind
          /\ p.timed \in {campaignNow'.timed, presses[s].timed}
    <3>1. CASE presses' = [presses EXCEPT ![s].at = "ok", ![s].timed = campaignNow'.timed]
      <4> DEFINE p == [presses[s] EXCEPT !.at = "ok", !.timed = campaignNow'.timed]
      <4>1. p \in Presses /\ p.kind = presses[s].kind /\ p.timed = campaignNow'.timed
        BY <2>1, <2>2 DEF Presses, Campaigns
      <4>2. presses' = [presses EXCEPT ![s] = p]
        BY <3>1 DEF ReportTypes
      <4> QED BY <4>1, <4>2
    <3>2. CASE presses' = [presses EXCEPT ![s].at = "stale"]
      <4> DEFINE p == [presses[s] EXCEPT !.at = "stale"]
      <4>1. p \in Presses /\ p.kind = presses[s].kind /\ p.timed = presses[s].timed
        BY <2>1 DEF Presses
      <4>2. presses' = [presses EXCEPT ![s] = p]
        BY <3>2 DEF ReportTypes
      <4> QED BY <4>1, <4>2
    <3> QED BY <1>2, <3>1, <3>2 DEF PressAnswered
  <2>4. ReportTypes'
    BY <2>2, <2>3 DEF ReportTypes
  <2>5. OnePress'
    BY <2>2, <2>3 DEF OnePress, ReportTypes
  <2>6. NothingNewerGivenUp'
    <3>1. \A u \in PressSlots : presses'[u] # NoPress => presses'[u].timed <= campaignNow'.timed
      <4> SUFFICES ASSUME NEW u \in PressSlots, presses'[u] # NoPress PROVE presses'[u].timed <= campaignNow'.timed
        OBVIOUS
      <4>1. presses[s] # NoPress
        BY <2>1 DEF Presses, NoPress, ActKinds, DialogKinds
      <4> QED BY <2>1, <2>2, <2>3, <4>1 DEF NothingNewerGivenUp, ReportTypes, Presses, Campaigns
    <3> QED BY <2>2, <3>1, CampaignChange DEF NothingNewerGivenUp
  <2> QED BY <2>4, <2>5, <2>6
<1>3. ASSUME NEW s \in LoadSlots, LoadAnswered(s) PROVE ReportInv'
  <2>1. loads[s] \in SentLoads
    BY <1>3 DEF LoadAnswered, ReportTypes, NoLoad, SentLoads, OkLoads
  <2>2. /\ loads'[s] \in OkLoads /\ loads'[s].seen = campaignNow /\ (Current(s)' => Current(s))
        /\ \A u \in LoadSlots \ {s} : loads'[u] = loads[u]
    BY <1>3, <2>1 DEF LoadAnswered, ReportTypes, SentLoads, OkLoads, Current
  <2>3. ReportTypes' /\ OnePress'
    BY <1>3, <2>2 DEF LoadAnswered, ReportTypes, OnePress
  <2>4. NothingNewerGivenUp'
    BY <1>3, <2>2 DEF LoadAnswered, ReportTypes, NothingNewerGivenUp, Campaigns, Current
  <2> QED BY <2>3, <2>4
<1>4. ASSUME NEW s \in LoadSlots, LoadArrives(s) PROVE ReportInv'
  <2>1. loads[s] \in OkLoads
    BY <1>4 DEF LoadArrives, ReportTypes, NoLoad, SentLoads, OkLoads
  <2>2. /\ report' \in [open : BOOLEAN, version : Nat, timed : Nat, badge : ReportStatus, busy : BOOLEAN,
                        dialog : {"none"} \cup DialogKinds, running : BOOLEAN]
        /\ report'.version = loads[s].seen.version /\ report'.timed = loads[s].seen.timed
        /\ report'.busy = report.busy /\ report'.running = report.running /\ report'.dialog = report.dialog
    BY <1>4, <2>1 DEF LoadArrives, ReportTypes, OkLoads, Campaigns
  <2>3. ReportTypes' /\ OnePress'
    BY <1>4, <2>2, LoadOverKeeps DEF LoadArrives, ReportTypes, OnePress
  <2>4. \A u \in LoadSlots : ~Current(u)'
    BY <1>4, LoadOverKeeps DEF LoadArrives, NothingNewerGivenUp, Current
  <2>5. NothingNewerGivenUp'
    BY <1>4, <2>2, <2>4 DEF LoadArrives, NothingNewerGivenUp
  <2> QED BY <2>3, <2>5
<1>5. ASSUME NEW s \in LoadSlots, LoadDropped(s) PROVE ReportInv'
  <2>1. ReportTypes' /\ OnePress'
    BY <1>5, LoadOverKeeps DEF LoadDropped, ReportTypes, OnePress
  <2>2. NothingNewerGivenUp'
    BY <1>5, LoadOverKeeps DEF LoadDropped, NothingNewerGivenUp, Current
  <2> QED BY <2>1, <2>2
<1>6. CASE PollReport
  BY <1>6, StartLoadKeeps DEF PollReport, ReportTypes, OnePress, NothingNewerGivenUp
<1>7. ASSUME NEW kind \in ActKinds, Act(kind) PROVE ReportInv'
  <2>1. ~report.running
    BY <1>7 DEF Act, OnePress
  <2>2. ReportTypes'
    BY <1>7, <2>1, PressKeeps DEF Act, ReportTypes
  <2>3. OnePress'
    BY <1>7, <2>1, PressKeeps DEF Act, ReportTypes, OnePress, NoPress, ActKinds, DialogKinds
  <2>4. NothingNewerGivenUp'
    BY <1>7, <2>1, PressKeeps DEF Act, ReportTypes, NothingNewerGivenUp, Current, Campaigns
  <2> QED BY <2>2, <2>3, <2>4
<1>8. ASSUME NEW kind \in DialogKinds, OpenReportDialog(kind) PROVE ReportInv'
  BY <1>8 DEF OpenReportDialog, ReportTypes, OnePress, NothingNewerGivenUp, Current, DialogKinds
<1>9. CASE CloseReportDialog
  BY <1>9 DEF CloseReportDialog, ReportTypes, OnePress, NothingNewerGivenUp, Current
<1>10. CASE SubmitDialog
  <2>1. ~report.busy /\ report.dialog \in DialogKinds
    BY <1>10 DEF SubmitDialog, OnePress, ReportTypes
  <2>2. ReportTypes'
    BY <1>10, <2>1, PressKeeps DEF SubmitDialog, ReportTypes
  <2>3. OnePress'
    BY <1>10, <2>1, PressKeeps DEF SubmitDialog, ReportTypes, OnePress, NoPress, ActKinds, DialogKinds
  <2>4. NothingNewerGivenUp'
    BY <1>10, <2>1, PressKeeps DEF SubmitDialog, ReportTypes, NothingNewerGivenUp, Current, Campaigns
  <2> QED BY <2>2, <2>3, <2>4
<1>11. ASSUME NEW s \in PressSlots, ActEnds(s) PROVE ReportInv'
  <2>1. presses[s].kind # "none" /\ PressOver(s) /\ (StartLoad \/ UNCHANGED loads) /\ UNCHANGED campaignNow
        /\ report' = [report EXCEPT !.busy = FALSE]
    BY <1>11 DEF ActEnds, ActKinds
  <2>2. ~report.running
    BY <1>11 DEF ActEnds, OnePress, ActKinds, DialogKinds
  <2>3. ReportTypes'
    BY <2>1, PressOverKeeps, StartLoadKeeps DEF ReportTypes
  <2>4. OnePress'
    BY <2>1, <2>2, PressOverKeeps DEF ReportTypes, OnePress, NoPress, ActKinds, DialogKinds
  <2>5. NothingNewerGivenUp'
    BY <2>1, PressOverKeeps, StartLoadKeeps DEF ReportTypes, NothingNewerGivenUp, Current
  <2> QED BY <2>3, <2>4, <2>5
<1>12. ASSUME NEW s \in PressSlots, DialogSucceeds(s) PROVE ReportInv'
  <2>1. /\ presses[s] \in Presses /\ presses[s].kind \in DialogKinds /\ PressOver(s) /\ StartLoad /\ UNCHANGED campaignNow
        /\ report' \in [open : BOOLEAN, version : Nat, timed : Nat, badge : ReportStatus, busy : BOOLEAN,
                        dialog : {"none"} \cup DialogKinds, running : BOOLEAN]
        /\ report'.version = report.version /\ report'.timed \in {report.timed, presses[s].timed}
        /\ report'.busy = report.busy /\ ~report'.running /\ report'.dialog = "none"
    <3>1. /\ presses[s].kind \in DialogKinds /\ PressOver(s) /\ StartLoad /\ UNCHANGED campaignNow
          /\ report' = [report EXCEPT !.dialog = "none", !.running = FALSE,
                                      !.timed = IF presses[s].kind = "reschedule" THEN presses[s].timed ELSE @]
      BY <1>12 DEF DialogSucceeds
    <3>2. presses[s] \in Presses
      BY <3>1 DEF ReportTypes, NoPress, DialogKinds
    <3>3. presses[s].timed \in Nat
      BY <3>2 DEF Presses
    <3> QED BY <3>1, <3>2, <3>3 DEF ReportTypes
  <2>2. ~report.busy /\ presses[s].kind # "none"
    BY <2>1 DEF OnePress, ActKinds, DialogKinds
  <2>3. ReportTypes'
    BY <2>1, <2>2, PressOverKeeps, StartLoadKeeps DEF ReportTypes
  <2>4. OnePress'
    BY <2>1, <2>2, PressOverKeeps DEF ReportTypes, OnePress, NoPress, ActKinds, DialogKinds
  <2>5. presses[s] # NoPress
    BY <2>2 DEF NoPress
  <2>6. NothingNewerGivenUp'
    BY <2>1, <2>2, <2>5, PressOverKeeps, StartLoadKeeps DEF ReportTypes, NothingNewerGivenUp
  <2> QED BY <2>3, <2>4, <2>6
<1>13. ASSUME NEW s \in PressSlots, DialogFails(s) PROVE ReportInv'
  <2>1. presses[s].kind # "none" /\ PressOver(s) /\ (StartLoad \/ UNCHANGED loads) /\ UNCHANGED campaignNow
        /\ report' = [report EXCEPT !.running = FALSE]
    BY <1>13 DEF DialogFails, DialogKinds
  <2>2. ~report.busy
    BY <1>13 DEF DialogFails, OnePress, ActKinds, DialogKinds
  <2>3. ReportTypes'
    BY <2>1, PressOverKeeps, StartLoadKeeps DEF ReportTypes
  <2>4. OnePress'
    BY <2>1, <2>2, PressOverKeeps DEF ReportTypes, OnePress, NoPress, ActKinds, DialogKinds
  <2>5. NothingNewerGivenUp'
    BY <2>1, PressOverKeeps, StartLoadKeeps DEF ReportTypes, NothingNewerGivenUp, Current
  <2> QED BY <2>3, <2>4, <2>5
<1>14. CASE LeaveReport
  BY <1>14 DEF LeaveReport, ReportTypes, OnePress, NothingNewerGivenUp, Current
<1>15. CASE UNCHANGED reportVars
  BY <1>15 DEF reportVars, ReportTypes, OnePress, NothingNewerGivenUp, Current
<1> QED
  BY <1>1, <1>2, <1>3, <1>4, <1>5, <1>6, <1>7, <1>8, <1>9, <1>10, <1>11, <1>12, <1>13, <1>14, <1>15 DEF ReportNext, ReportPage

\* What the invariant says of a state.
LEMMA ReportHolds == ReportInv => OneRequestPerPress /\ TimeIsNotOlderThanSaved
<1> SUFFICES ASSUME ReportInv PROVE OneRequestPerPress /\ TimeIsNotOlderThanSaved
  OBVIOUS
<1> DEFINE S == {s \in PressSlots : presses[s].kind # "none"}
<1>1. Cardinality(S) <= 1
  <2>1. CASE S = {}
    BY <2>1, FS_EmptySet
  <2>2. CASE S # {}
    <3>1. PICK s \in S : S = {s}
      BY <2>2 DEF ReportInv, OnePress
    <3> QED BY <3>1, FS_Singleton
  <2> QED BY <2>1, <2>2
<1>2. TimeIsNotOlderThanSaved
  BY DEF ReportInv, ReportTypes, NothingNewerGivenUp, TimeIsNotOlderThanSaved, OkLoads, SentLoads, NoLoad, Campaigns
<1> QED BY <1>1, <1>2 DEF ReportInv, OnePress, OneRequestPerPress

\* ShownNeverGoesBack, of one step.
ShownForward ==
  /\ report'.version >= report.version
  /\ report'.timed < report.timed => \E s \in LoadSlots : Current(s)' /\ loads'[s].at = "sent"

\* A step shows nothing older than what is shown, but for a time just saved, which a load puts right.
LEMMA ReportForward == ReportInv /\ ReportNext => ShownForward
<1> SUFFICES ASSUME ReportInv, ReportNext PROVE ShownForward
  OBVIOUS
<1>0. report.version \in Nat /\ report.timed \in Nat
  BY DEF ReportInv, ReportTypes
<1>1. ASSUME NEW s \in LoadSlots, LoadArrives(s) PROVE ShownForward
  <2>1. report'.version = loads[s].seen.version /\ report'.timed = loads[s].seen.timed /\ loads[s].seen \in Campaigns
    BY <1>1 DEF LoadArrives, ReportInv, ReportTypes, NoLoad, SentLoads, OkLoads
  <2> QED BY <1>0, <1>1, <2>1 DEF LoadArrives, ReportInv, NothingNewerGivenUp, ShownForward, Campaigns
<1>2. ASSUME NEW s \in PressSlots, DialogSucceeds(s) PROVE ShownForward
  <2>1. report'.version = report.version
    BY <1>2 DEF DialogSucceeds, ReportInv, ReportTypes
  <2> QED BY <1>0, <1>2, <2>1, StartLoadKeeps DEF DialogSucceeds, ShownForward, ReportInv
<1>3. ASSUME report'.version = report.version, report'.timed = report.timed PROVE ShownForward
  BY <1>0, <1>3 DEF ShownForward
<1> QED
  BY <1>1, <1>2, <1>3 DEF ReportNext, ReportPage, ReportInv, ReportTypes, LeaveReport, PollReport, LoadDropped, Act, OpenReportDialog,
     CloseReportDialog, SubmitDialog, ActEnds, DialogFails, CampaignMoves, LoadAnswered, PressAnswered

\* The page of a campaign has one request for each press and shows no answer in the place of a newer
\* one, however polls, presses and the campaign's own changes overlap (CampaignReport.tsx, useLoader); for
\* any number of loads and presses under way and of changes of the campaign.
THEOREM ReportStaysInOrder == ReportSpec => ReportInOrder
<1>1. ReportSpec => []ReportInv
  BY ReportStarts, ReportSteps, PTL DEF ReportSpec
<1>2. ReportInv /\ [ReportNext]_reportVars => [ShownForward]_reportVars
  BY ReportForward
<1>3. ReportSpec => [][ShownForward]_reportVars
  BY <1>1, <1>2, PTL DEF ReportSpec
<1>4. [][ShownForward]_reportVars => ShownNeverGoesBack
  BY PTL DEF ShownForward, ShownNeverGoesBack
<1> QED BY <1>1, <1>3, <1>4, ReportHolds, PTL DEF ReportInOrder
================================================================================
