------------------------------ MODULE RateWindow ------------------------------
(***************************************************************************)
(* The rate limiter: the arithmetic of src/lib/rate-limit.ts, the rolling  *)
(* log smtp_send_log kept by src/lib/queue.ts, and the part of runTick     *)
(* (src/lib/worker.ts) that counts, reserves, sends and refunds.           *)
(*                                                                         *)
(* Time has no clock value: the model keeps, for every s, the number of    *)
(* rows less than s time units old, which is what countSentInWindow(s)     *)
(* returns, and a Tick of time shifts that count by one unit.              *)
(*                                                                         *)
(* Which rows a tick claims, and what becomes of them, is SendQueue; here  *)
(* a batch is a number of messages.  A worker is one call of runTick       *)
(* together with every loop it started, so a worker whose runTick has      *)
(* rejected lives on until its last loop ends.                             *)
(***************************************************************************)
EXTENDS Integers, FiniteSets

CONSTANTS
  Workers,       \* ticks that may be alive at the same time
  MaxEmails,     \* maxEmails of the RateWindow in force
  WindowSeconds, \* windowSeconds, in units of time
  FactorNum,     \* the safety factor, as a fraction
  FactorDen,
  BatchCap,      \* WORKER_BATCH_CAP
  Concurrency,   \* WORKER_CONCURRENCY
  TickInterval,  \* tickIntervalSeconds, in units of time
  PruneAfter,    \* age at which pruneSendLog deletes a row ('3 hours')
  Horizon,       \* the largest s for which rows are counted
  FaultKinds,    \* the faults this instance allows
  MaxFaults,     \* bound of the model: how many faults occur
  MaxTests       \* bound of the model: how many test messages are sent

AllFaults == {"crash", "database", "transport", "reply"}

ASSUME RateWindowAssumption ==
  /\ IsFiniteSet(Workers) /\ Workers # {}
  /\ MaxEmails \in Nat /\ WindowSeconds \in Nat \ {0}
  /\ FactorNum \in Nat \ {0} /\ FactorDen \in Nat \ {0} /\ FactorNum <= FactorDen
  /\ BatchCap \in Nat \ {0} /\ Concurrency \in Nat \ {0}
  /\ TickInterval \in Nat
  /\ PruneAfter \in Nat /\ WindowSeconds <= PruneAfter
  /\ Horizon \in Nat /\ PruneAfter < Horizon
  /\ FaultKinds \subseteq AllFaults
  /\ MaxFaults \in Nat /\ MaxTests \in Nat

VARIABLES
  logged,  \* logged[s]: rows of smtp_send_log the queue wrote, less than s old
  tested,  \* tested[s]: rows of smtp_send_log test messages wrote, less than s old
  phase,   \* where the worker is
  quota,   \* the limit it was given, then the size of the batch it will reserve
  batch,   \* the batch it is sending
  \* history
  wire,    \* wire[s]: queue messages handed to the SMTP server less than s ago
  faults,  \* faults so far
  tests    \* test messages so far

vars == <<logged, tested, phase, quota, batch, wire, faults, tests>>

-----------------------------------------------------------------------------
(* The arithmetic. *)

Lesser(a, b)  == IF a <= b THEN a ELSE b
Greater(a, b) == IF a <= b THEN b ELSE a
Ceiling(a, b) == (a + b - 1) \div b

EffectiveLimit == IF MaxEmails = 0 THEN 0 ELSE Greater(1, (MaxEmails * FactorNum) \div FactorDen)

RemainingAllowance(n) == Greater(0, EffectiveLimit - n)

PerTickShareRoundedDown == (EffectiveLimit * Greater(1, TickInterval)) \div WindowSeconds

PerTickShare == Ceiling(EffectiveLimit * Greater(1, TickInterval), WindowSeconds)

BatchSizeIgnoringAllowance(n) ==
  IF RemainingAllowance(n) <= 0 THEN 0 ELSE Lesser(BatchCap, PerTickShare)

BatchSize(n) ==
  IF RemainingAllowance(n) <= 0 THEN 0
  ELSE Lesser(RemainingAllowance(n), Lesser(BatchCap, PerTickShare))

MaxBatch == BatchSize(0)

-----------------------------------------------------------------------------
(* The log. *)

Age == 0..Horizon

\* Rows counted by age: a row less than s old is less than t old when s <= t.
Rows == {r \in [Age -> Nat] : \A s, t \in Age : s <= t => r[s] <= r[t]}

NoRows == [s \in Age |-> 0]

\* now() moves on: a row less than s old is now less than s + 1 old.
OneUnitLater(rows) == [s \in Age |-> IF s = 0 THEN 0 ELSE rows[s - 1]]

\* n rows with occurred_at = now().
WithRows(rows, n) == [s \in Age |-> IF s = 0 THEN 0 ELSE rows[s] + n]

\* n of the rows of age a are deleted, those of them that still exist.
WithoutRows(rows, a, n) ==
  [s \in Age |-> IF s <= a THEN rows[s] ELSE Greater(rows[a], rows[s] - n)]

\* The rows of age a or more are deleted.
Pruned(rows, a) == [s \in Age |-> rows[Lesser(s, a)]]

CountSentInWindow == logged[WindowSeconds] + tested[WindowSeconds]

-----------------------------------------------------------------------------

Phase == {"idle", "loop", "claim", "reserve", "send", "leaving"}

\* The messages of a batch: still in sendBatch's queue, handed to the transport, answered,
\* and handed over without the answer being seen.
NewBatch(n) ==
  [size |-> n, queued |-> n, flying |-> 0, attempted |-> 0, lost |-> 0,
   loops |-> Lesser(Concurrency, n), age |-> 0, broken |-> FALSE, threw |-> FALSE]

NoBatch == NewBatch(0)

\* Every message of a batch is in one place, and a loop sends one message at a time.
Batch ==
  {b \in [size : 0..MaxBatch, queued : 0..MaxBatch, flying : 0..MaxBatch,
          attempted : 0..MaxBatch, lost : 0..MaxBatch, loops : 0..MaxBatch,
          age : Age, broken : BOOLEAN, threw : BOOLEAN] :
     /\ b.queued + b.flying + b.attempted + b.lost <= b.size
     /\ b.flying <= b.loops}

TypeOK ==
  /\ logged \in Rows
  /\ tested \in Rows
  /\ phase \in [Workers -> Phase]
  /\ quota \in [Workers -> 0..MaxBatch]
  /\ batch \in [Workers -> Batch]
  /\ wire \in Rows
  /\ faults \in Nat
  /\ tests \in Nat

Init ==
  /\ logged = NoRows
  /\ tested = NoRows
  /\ phase = [w \in Workers |-> "idle"]
  /\ quota = [w \in Workers |-> 0]
  /\ batch = [w \in Workers |-> NoBatch]
  /\ wire = NoRows
  /\ faults = 0
  /\ tests = 0

-----------------------------------------------------------------------------
(* One tick. *)

Fault(kind) ==
  /\ kind \in FaultKinds
  /\ faults < MaxFaults
  /\ faults' = faults + 1

Enter(w, p) == phase' = [phase EXCEPT ![w] = p]

\* The tick's earlier steps (activation, recovery, reclaim) are over.
Begin(w) ==
  /\ phase[w] = "idle"
  /\ Enter(w, "loop")
  /\ UNCHANGED <<logged, tested, quota, batch, wire, faults, tests>>

\* countSentInWindow and batchSize; or the time budget is spent.
Count(w) ==
  /\ phase[w] = "loop"
  /\ \/ /\ BatchSize(CountSentInWindow) > 0
        /\ quota' = [quota EXCEPT ![w] = BatchSize(CountSentInWindow)]
        /\ Enter(w, "claim")
     \/ /\ Enter(w, "leaving")
        /\ UNCHANGED quota
  /\ UNCHANGED <<logged, tested, batch, wire, faults, tests>>

\* claimRecipients takes up to quota rows, of which n are sendable.
Claim(w) ==
  /\ phase[w] = "claim"
  /\ \/ \E n \in 1..quota[w] :
          /\ quota' = [quota EXCEPT ![w] = n]
          /\ Enter(w, "reserve")
     \/ /\ quota' = [quota EXCEPT ![w] = 0]
        /\ \/ Enter(w, "loop")     \* every claimed row was suppressed
           \/ Enter(w, "leaving")  \* nothing to claim
  /\ UNCHANGED <<logged, tested, batch, wire, faults, tests>>

StartBatch(w, n) ==
  /\ batch' = [batch EXCEPT ![w] = NewBatch(n)]
  /\ quota' = [quota EXCEPT ![w] = 0]
  /\ Enter(w, "send")

ReserveOnlyOne(w) ==
  /\ phase[w] = "reserve"
  /\ logged' = WithRows(logged, 1)
  /\ StartBatch(w, quota[w])
  /\ UNCHANGED <<tested, wire, faults, tests>>

\* logSendAttempt(sendable.length), then sendBatch starts its loops.
Reserve(w) ==
  /\ phase[w] = "reserve"
  /\ logged' = WithRows(logged, quota[w])
  /\ StartBatch(w, quota[w])
  /\ UNCHANGED <<tested, wire, faults, tests>>

\* A loop takes the next message off the queue and hands it to the transport.
StartSend(w) ==
  /\ phase[w] = "send"
  /\ batch[w].queued > 0
  /\ batch[w].flying < batch[w].loops
  /\ ~ batch[w].broken
  /\ batch' = [batch EXCEPT ![w].queued = @ - 1, ![w].flying = @ + 1]
  /\ UNCHANGED <<logged, tested, phase, quota, wire, faults, tests>>

\* The server answered, well or badly, and the outcome was recorded.
Attempted(w) ==
  /\ phase[w] = "send"
  /\ batch[w].flying > 0
  /\ batch' = [batch EXCEPT ![w].flying = @ - 1, ![w].attempted = @ + 1]
  /\ wire' = WithRows(wire, 1)
  /\ UNCHANGED <<logged, tested, phase, quota, faults, tests>>

\* isTransportFailure: the connection was refused, or broke before the message was taken.
TransportFails(w) ==
  /\ Fault("transport")
  /\ phase[w] = "send"
  /\ batch[w].flying > 0
  /\ batch' = [batch EXCEPT ![w].flying = @ - 1, ![w].broken = TRUE]
  /\ UNCHANGED <<logged, tested, phase, quota, wire, tests>>

\* The connection broke after the server took the message: the same code path.
ReplyLost(w) ==
  /\ Fault("reply")
  /\ phase[w] = "send"
  /\ batch[w].flying > 0
  /\ batch' = [batch EXCEPT ![w].flying = @ - 1, ![w].lost = @ + 1, ![w].broken = TRUE]
  /\ wire' = WithRows(wire, 1)
  /\ UNCHANGED <<logged, tested, phase, quota, tests>>

\* A write in the catch block fails, whether or not the message was taken: the loop
\* rejects, and with it runTick, while the other loops go on.
RecordThrows(w) ==
  /\ Fault("database")
  /\ phase[w] = "send"
  /\ batch[w].flying > 0
  /\ batch' = [batch EXCEPT ![w].flying = @ - 1, ![w].attempted = @ + 1,
                            ![w].loops = @ - 1, ![w].threw = TRUE]
  /\ wire' \in {wire, WithRows(wire, 1)}
  /\ UNCHANGED <<logged, tested, phase, quota, tests>>

Drained(b) == b.flying = 0 /\ (b.queued = 0 \/ b.broken \/ b.loops = 0)

RefundedWhole(b) == b.size

\* reservations.slice(attempted)
Refunded(b) == b.size - b.attempted

\* Promise.all settles: a batch that aborted refunds what it did not attempt and ends the
\* tick, another one goes back to the loop; a tick that rejected does neither.
EndBatch(w) ==
  /\ phase[w] = "send"
  /\ Drained(batch[w])
  /\ \/ /\ batch[w].threw
        /\ Enter(w, "idle")
        /\ UNCHANGED logged
     \/ /\ batch[w].broken /\ ~ batch[w].threw
        /\ Enter(w, "leaving")
        /\ logged' = WithoutRows(logged, batch[w].age, Refunded(batch[w]))
     \/ /\ ~ batch[w].broken /\ ~ batch[w].threw
        /\ Enter(w, "loop")
        /\ UNCHANGED logged
  /\ batch' = [batch EXCEPT ![w] = NoBatch]
  /\ UNCHANGED <<tested, quota, wire, faults, tests>>

\* finalizeCompletedCampaigns, then pruneSendLog, whose failure is ignored.
Leave(w) ==
  /\ phase[w] = "leaving"
  /\ \/ /\ logged' = Pruned(logged, PruneAfter)
        /\ tested' = Pruned(tested, PruneAfter)
     \/ UNCHANGED <<logged, tested>>
  /\ Enter(w, "idle")
  /\ UNCHANGED <<quota, batch, wire, faults, tests>>

\* The process dies: nothing is refunded, and of the messages in flight any number arrives.
Crash(w) ==
  /\ Fault("crash")
  /\ phase[w] # "idle"
  /\ Enter(w, "idle")
  /\ quota' = [quota EXCEPT ![w] = 0]
  /\ batch' = [batch EXCEPT ![w] = NoBatch]
  /\ \E n \in 0..batch[w].flying : wire' = WithRows(wire, n)
  /\ UNCHANGED <<logged, tested, tests>>

-----------------------------------------------------------------------------
(* Around the ticks. *)

\* A test message is sent without asking the limiter, and then counts against it.
TestSend ==
  /\ tests < MaxTests
  /\ tests' = tests + 1
  /\ tested' = WithRows(tested, 1)
  /\ UNCHANGED <<logged, phase, quota, batch, wire, faults>>

\* One unit of time passes; a batch older than the horizon is as old as it gets.
Tick ==
  /\ logged' = OneUnitLater(logged)
  /\ tested' = OneUnitLater(tested)
  /\ wire' = OneUnitLater(wire)
  /\ batch' = [w \in Workers |->
       IF phase[w] = "send" THEN [batch[w] EXCEPT !.age = Lesser(Horizon, @ + 1)]
                            ELSE batch[w]]
  /\ UNCHANGED <<phase, quota, faults, tests>>

Work(w) ==
  \/ Begin(w) \/ Count(w) \/ Claim(w) \/ Reserve(w)
  \/ StartSend(w) \/ Attempted(w) \/ EndBatch(w) \/ Leave(w)

Break(w) == TransportFails(w) \/ ReplyLost(w) \/ RecordThrows(w) \/ Crash(w)

Next ==
  \/ \E w \in Workers : Work(w) \/ Break(w)
  \/ TestSend
  \/ Tick

Spec == Init /\ [][Next]_vars

FairSpec == Spec /\ WF_vars(Tick)

-----------------------------------------------------------------------------
(* Properties. *)

(* The reservations of a window never exceed the limit by more than what the other ticks
   were promised before they reserved it: countSentInWindow and logSendAttempt are two
   statements, with a claim and a suppression check between them. *)
OvershootBounded ==
  logged[WindowSeconds] <= EffectiveLimit + (Cardinality(Workers) - 1) * MaxBatch

Straddling == Cardinality(Workers) * MaxBatch

(* What reaches the SMTP server within a window is bounded too: on top of the reservations
   of the window itself, only the one batch per tick that was reserved before it and is
   still being sent.  Neither crashes, failed writes nor refunds add to that, as long as
   no reply is lost. *)
TrafficBounded ==
  wire[WindowSeconds] <= EffectiveLimit + (Cardinality(Workers) - 1) * MaxBatch + Straddling

(* refundSendAttempts gives back only reservations of messages that were not handed over:
   a row of smtp_send_log stays behind for every message the batch put on the wire. *)
HandedOverStaysLogged ==
  [][\A w \in Workers :
       /\ phase[w] = "send" /\ phase'[w] = "leaving"
       => batch[w].size - (logged[Horizon] - logged'[Horizon])
            >= batch[w].attempted + batch[w].lost]_vars

(* Whatever ticks reserve, throw away or refund, the quota comes back: again and again
   there is something a tick may send.  It would not with a share rounded down to nothing
   or with a log that keeps reservations for longer than the window. *)
QuotaReturns == []<>(BatchSize(CountSentInWindow) > 0)
=============================================================================
