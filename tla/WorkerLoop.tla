------------------------------ MODULE WorkerLoop ------------------------------
(***************************************************************************)
(* The ticker (npm run worker): createWorkerLoop of                        *)
(* src/lib/worker-loop.ts as scripts/worker-loop.ts runs it, together with *)
(* the server it calls (SchedulerCycle).  The ticker is a process of its   *)
(* own that asks for a cycle over HTTP, waits, and asks again; it gives a  *)
(* request up after requestTimeoutMs, and the server does not notice.      *)
(***************************************************************************)
EXTENDS SchedulerCycle

CONSTANTS
  TickWait,        \* intervalMs, in units of time
  RetryBase,       \* RETRY_BASE_MS
  RequestTimeout,  \* requestTimeoutMs
  StartupDelay,    \* startupDelayMs
  MaxFailures      \* bound of the model: failures in a row are counted up to it

\* Beyond MaxFailures the delay no longer depends on the count.  That powers of 2 are positive is
\* arithmetic, put down here for the proofs.
ASSUME WorkerLoopAssumption ==
  /\ {TickWait, RetryBase, RequestTimeout} \subseteq Nat \ {0}
  /\ StartupDelay \in Nat
  /\ MaxFailures \in Nat \ {0}
  /\ RetryBase * 2^(MaxFailures - 1) >= TickWait
  /\ \A n \in 0..(MaxFailures - 1) : 2^n > 0

VARIABLES
  ticker,    \* the ticker process
  abandoned  \* worker cycles in flight whose request was given up

allVars == <<vars, ticker, abandoned>>

Place == {"off", "sleeping", "asking", "ended"}

\* inCycle: the server runs a cycle for the request; left: until the sleep ends, or the request is given up.
Ticker ==
  [at : Place, stopping : BOOLEAN, failures : 0..MaxFailures, inCycle : BOOLEAN,
   left : 0..Greater(Greater(TickWait, RequestTimeout), StartupDelay)]

Off == [at |-> "off", stopping |-> FALSE, failures |-> 0, inCycle |-> FALSE, left |-> 0]

Alive == ticker.at \in {"sleeping", "asking"}

WorkerLoopTypeOK ==
  /\ TypeOK
  /\ ticker \in Ticker
  /\ abandoned \in 0..MaxCycles
  /\ cycles["worker"] = abandoned + (IF ticker.inCycle THEN 1 ELSE 0)

WorkerLoopInit ==
  /\ Init
  /\ ticker = Off
  /\ abandoned = 0

-----------------------------------------------------------------------------

(* loop.run(): the container starts the ticker, again after an end. *)
TickerStarts ==
  /\ ~Alive
  /\ ticker' = [Off EXCEPT !.at = "sleeping", !.left = StartupDelay]
  /\ UNCHANGED <<vars, abandoned>>

\* What the server still does for the request that t gives up.
GivenUp(t) == IF t.inCycle THEN 1 ELSE 0

TickerKilledWithCycle ==
  /\ Alive
  /\ ticker' = Off
  /\ UNCHANGED <<vars, abandoned>>

(* The ticker is killed at any moment. *)
TickerKilled ==
  /\ Alive
  /\ ticker' = Off
  /\ abandoned' = abandoned + GivenUp(ticker)
  /\ UNCHANGED vars

StopTickerWithoutWaking ==
  /\ Alive /\ ~ticker.stopping
  /\ ticker' = [ticker EXCEPT !.stopping = TRUE]
  /\ UNCHANGED <<vars, abandoned>>

(* loop.stop(), on a signal: the sleep is cut short, a request is not. *)
StopTicker ==
  /\ Alive /\ ~ticker.stopping
  /\ ticker' = [ticker EXCEPT !.stopping = TRUE, !.left = IF ticker.at = "sleeping" THEN 0 ELSE @]
  /\ UNCHANGED <<vars, abandoned>>

Awake == ticker.at = "sleeping" /\ ticker.left = 0

(* tick(): the request is sent. *)
TickBegins ==
  /\ Awake /\ ~ticker.stopping
  /\ ticker' = [ticker EXCEPT !.at = "asking", !.left = RequestTimeout]
  /\ UNCHANGED <<vars, abandoned>>

(* The loop ends after its sleep, and the process with it. *)
LoopEnds ==
  /\ Awake /\ ticker.stopping
  /\ ticker' = [Off EXCEPT !.at = "ended"]
  /\ UNCHANGED <<vars, abandoned>>

Delay(failures) ==
  IF failures = 0 THEN TickWait ELSE Lesser(TickWait, RetryBase * 2^(failures - 1))

\* tick() has returned ok: the loop ends, or sleeps until the next one.
Ticked(ok) ==
  LET failures == IF ok THEN 0 ELSE Lesser(MaxFailures, ticker.failures + 1)
      sleeping == [ticker EXCEPT !.at = "sleeping", !.inCycle = FALSE,
                                 !.failures = failures, !.left = Delay(failures)]
  IN ticker' = IF ticker.stopping THEN [Off EXCEPT !.at = "ended"] ELSE sleeping

(* The request reaches the server, which begins a cycle for it. *)
RequestBegins ==
  /\ ticker.at = "asking" /\ ~ticker.inCycle
  /\ WorkerAsks
  /\ ticker' = [ticker EXCEPT !.inCycle = TRUE]
  /\ UNCHANGED abandoned

(* The server answers "skipped": that is a tick that went well. *)
RequestSkipped ==
  /\ ticker.at = "asking" /\ ~ticker.inCycle
  /\ up /\ Refused("worker")
  /\ Ticked(TRUE)
  /\ UNCHANGED <<vars, abandoned>>

(* The server is down, or answers 401. *)
RequestRefused ==
  /\ ticker.at = "asking" /\ ~ticker.inCycle
  /\ Ticked(FALSE)
  /\ UNCHANGED <<vars, abandoned>>

(* The cycle ends and the server answers 200, or 500 when it failed. *)
RequestAnswered(ok) ==
  /\ ticker.at = "asking" /\ ticker.inCycle
  /\ WorkerCycleEnds
  /\ Ticked(ok)
  /\ UNCHANGED abandoned

RequestTimesOutConnecting ==
  /\ ticker.at = "asking" /\ ticker.left = 0 /\ ~ticker.inCycle
  /\ Ticked(FALSE)
  /\ UNCHANGED <<vars, abandoned>>

(* AbortSignal.timeout: the server goes on with the cycle. *)
RequestTimesOut ==
  /\ ticker.at = "asking" /\ ticker.left = 0
  /\ Ticked(FALSE)
  /\ abandoned' = abandoned + GivenUp(ticker)
  /\ UNCHANGED vars

(* A cycle nobody waits for ends. *)
AbandonedCycleEnds ==
  /\ abandoned > 0
  /\ WorkerCycleEnds
  /\ abandoned' = abandoned - 1
  /\ UNCHANGED ticker

(* The server's other steps.  When its process ends so does every cycle,   *)
(* and the ticker's request is then refused.                               *)
ServerMoves ==
  /\ ServerStep
  /\ IF up' THEN UNCHANGED <<ticker, abandoned>>
     ELSE ticker' = [ticker EXCEPT !.inCycle = FALSE] /\ abandoned' = 0

(* Time passes for both; it waits for a sleep or a request that is over.   *)
TimePassesForBoth ==
  /\ TimePasses
  /\ Alive => ticker.left > 0
  /\ ticker' = [ticker EXCEPT !.left = Greater(0, @ - 1)]
  /\ UNCHANGED abandoned

TickerStep ==
  \/ TickerStarts \/ TickerKilled \/ StopTicker
  \/ TickBegins \/ LoopEnds
  \/ RequestBegins \/ RequestSkipped \/ RequestRefused \/ RequestTimesOut
  \/ \E ok \in BOOLEAN : RequestAnswered(ok)

WorkerLoopNext == TickerStep \/ AbandonedCycleEnds \/ ServerMoves \/ TimePassesForBoth

WorkerLoopSpec == WorkerLoopInit /\ [][WorkerLoopNext]_allVars

(* Time goes on, due timers fire and a ticker that is awake goes on.  No   *)
(* cycle has to end and nobody has to press a button.  The first two are   *)
(* strongly fair because nothing people do takes time in the model: the    *)
(* loop could otherwise be re-timed to and fro, or tickers started and     *)
(* killed, for ever within one unit of time.                               *)
TimersFire == ServerMoves /\ \E t \in TimerIds : PassBegins(t) \/ PassSkipped(t)
TickerGoesOn == TickBegins \/ LoopEnds \/ RequestTimesOut

WorkerLoopFairSpec ==
  /\ WorkerLoopSpec
  /\ SF_allVars(TimePassesForBoth)
  /\ SF_allVars(TimersFire)
  /\ WF_allVars(TickerGoesOn)

-----------------------------------------------------------------------------
(* Properties. *)

\* A ticker that was told to stop does not sit out the rest of its sleep, which the container
\* runtime would answer with a kill (scripts/worker-loop.ts:50).
StopCutsTheWait == ticker.stopping /\ ticker.at = "sleeping" => ticker.left = 0

\* A ticker that was told to stop ends, even while the cycle it waits for never does.
StopEnds == ticker.stopping ~> ~Alive

\* A ticker that is not stopped asks again and again, whatever became of its last request: no
\* request, answered or not, keeps it from the next one.
TickerKeepsTicking ==
  /\ ticker.at = "asking" ~> ticker.at # "asking"
  /\ ticker.at = "sleeping" ~> ticker.at = "asking" \/ ~Alive \/ ticker.stopping

\* The ticker and the server agree on whose cycles are in flight, and neither a request that is never
\* answered nor a signal at any moment leaves the ticker hanging.
TickerSound ==
  /\ [](WorkerLoopTypeOK /\ StopCutsTheWait)
  /\ StopEnds /\ TickerKeepsTicking
================================================================================
