------------------------------ MODULE SendQueue ------------------------------
(***************************************************************************)
(* The delivery queue: the rows of campaign_recipients, the ticks that     *)
(* work through them (src/lib/worker.ts, src/lib/queue.ts), and the        *)
(* requests that touch the same rows while ticks run: queueing a campaign, *)
(* pausing, resuming and cancelling it, and suppressing an address.        *)
(*                                                                         *)
(* One SQL statement is one action (READ COMMITTED, each statement         *)
(* conditional on the row it writes).  Between two statements anything     *)
(* else may run.  A worker here is one call of runTick; several run at     *)
(* once whenever cron invocations, containers or the scheduler overlap.    *)
(*                                                                         *)
(* Time is abstracted to what the code compares: a lease is live or        *)
(* expired, a queued row is due or not.  The quota that bounds a batch is  *)
(* the subject of RateWindow; here a batch is any set of due rows of at    *)
(* most BatchCap rows, and a tick may always stop claiming.                *)
(***************************************************************************)
EXTENDS Integers, FiniteSets

CONSTANTS
  Campaigns,
  Addresses,     \* normalized e-mail addresses
  Workers,       \* ticks that may run at the same time
  NoWorker,      \* claimed_by IS NULL
  MaxAttempts,   \* SMTP_MAX_ATTEMPTS
  BatchCap,      \* BATCH_CAP: rows per claim
  Concurrency,   \* CONCURRENCY: parallel sends per batch
  FaultKinds,    \* the infrastructure faults this instance allows
  MaxFaults      \* bound of the model: how many faults occur

AllFaults == {"crash", "database", "transport", "reply", "overrun"}

ASSUME SendQueueAssumption ==
  /\ IsFiniteSet(Campaigns) /\ IsFiniteSet(Addresses) /\ IsFiniteSet(Workers)
  /\ NoWorker \notin Workers
  /\ MaxAttempts \in Nat \ {0}
  /\ BatchCap \in Nat \ {0}
  /\ Concurrency \in Nat \ {0}
  /\ FaultKinds \subseteq AllFaults
  /\ MaxFaults \in Nat

VARIABLES
  \* tables
  campaign,    \* campaigns.status, of the campaigns this queue can hold
  status,      \* campaign_recipients.delivery_status
  attempts,    \* campaign_recipients.attempts
  due,         \* next_attempt_at <= now()
  lease,       \* lease_expires_at: none, in the future, in the past
  claimedBy,   \* campaign_recipients.claimed_by
  suppressed,  \* addresses in suppressions
  \* local state of the ticks
  phase,       \* where runTick is
  job,         \* what the tick is doing for each row of its batch
  tries,       \* recipient.attempts as RETURNed by the claim
  broken,      \* sendBatch's authFailure
  lanes,       \* sendBatch loops still alive
  threw,       \* a loop rejected, so runTick has rejected as well
  \* requests in progress
  planned,     \* rows a queueCampaign transaction is about to insert
  cancelling,  \* cancel requests between their two statements
  suppressing, \* suppressEmail calls between their two statements
  \* history
  delivered,   \* how often the SMTP server accepted the row's message
  excused,     \* how often the code lost the knowledge of who sends a row
  muted,       \* rows claimed while their address was suppressed, and still is
  faults       \* faults so far

claim    == <<status, lease, claimedBy>>
row      == <<claim, attempts, due>>
batch    == <<tries, broken, lanes, threw>>
tables   == <<campaign, row, suppressed>>
tick     == <<phase, job, batch>>
requests == <<planned, cancelling, suppressing>>
history  == <<delivered, excused, muted, faults>>
vars     == <<tables, tick, requests, history>>

Row        == Campaigns \X Addresses
CampaignOf(r) == r[1]
AddressOf(r)  == r[2]

Pending        == {"QUEUED", "SENDING"}
Terminal       == {"SENT", "FAILED", "SUPPRESSED", "CANCELLED"}
DeliveryStatus == {"ABSENT"} \cup Pending \cup Terminal
\* "DRAFT" stands for every status a campaign can be queued from.
CampaignStatus == {"DRAFT", "QUEUED", "SENDING", "PAUSED", "COMPLETED", "CANCELLED"}
Phase          == {"idle", "exhausted", "loop", "start", "filter", "send", "finalize"}

\* A job that has not put a message on the wire, or whose message was refused.
Undelivered == {"claimed", "suppress", "ready", "handoff", "tempfail", "permfail", "transport"}
\* A job some loop of sendBatch is awaiting.
InLane      == {"handoff", "accepted", "tempfail", "permfail", "transport"}
Job         == {"none", "accepted"} \cup Undelivered

TypeOK ==
  /\ campaign \in [Campaigns -> CampaignStatus]
  /\ status \in [Row -> DeliveryStatus]
  /\ attempts \in [Row -> Nat]
  /\ due \in [Row -> BOOLEAN]
  /\ lease \in [Row -> {"none", "live", "expired"}]
  /\ claimedBy \in [Row -> Workers \cup {NoWorker}]
  /\ suppressed \subseteq Addresses
  /\ phase \in [Workers -> Phase]
  /\ job \in [Workers -> [Row -> Job]]
  /\ tries \in [Workers -> [Row -> Nat]]
  /\ broken \in [Workers -> BOOLEAN]
  /\ lanes \in [Workers -> Int]
  /\ threw \in [Workers -> BOOLEAN]
  /\ planned \in [Campaigns -> SUBSET Addresses]
  /\ cancelling \subseteq Campaigns
  /\ suppressing \subseteq Addresses
  /\ delivered \in [Row -> Nat]
  /\ excused \in [Row -> Nat]
  /\ muted \in [Workers -> SUBSET Row]
  /\ faults \in Nat
  \* a claim is a lease and a claimant, on a SENDING row and on no other
  /\ \A r \in Row : /\ status[r] = "SENDING" <=> lease[r] # "none"
                    /\ status[r] = "SENDING" <=> claimedBy[r] # NoWorker

NoJobs == [r \in Row |-> "none"]

Init ==
  /\ campaign = [c \in Campaigns |-> "DRAFT"]
  /\ status = [r \in Row |-> "ABSENT"]
  /\ attempts = [r \in Row |-> 0]
  /\ due = [r \in Row |-> FALSE]
  /\ lease = [r \in Row |-> "none"]
  /\ claimedBy = [r \in Row |-> NoWorker]
  /\ suppressed = {}
  /\ phase = [w \in Workers |-> "idle"]
  /\ job = [w \in Workers |-> NoJobs]
  /\ tries = [w \in Workers |-> [r \in Row |-> 0]]
  /\ broken = [w \in Workers |-> FALSE]
  /\ lanes = [w \in Workers |-> 0]
  /\ threw = [w \in Workers |-> FALSE]
  /\ planned = [c \in Campaigns |-> {}]
  /\ cancelling = {}
  /\ suppressing = {}
  /\ delivered = [r \in Row |-> 0]
  /\ excused = [r \in Row |-> 0]
  /\ muted = [w \in Workers |-> {}]
  /\ faults = 0

RowsOf(c)    == {r \in Row : CampaignOf(r) = c}
Batch(w)     == {r \in Row : job[w][r] # "none"}
Holders(r)   == {w \in Workers : job[w][r] # "none"}

Fault(kind) ==
  /\ kind \in FaultKinds
  /\ faults < MaxFaults
  /\ faults' = faults + 1

\* An UPDATE that takes the rows of S out of whatever claim they are under.
Move(S, to) ==
  /\ status' = [r \in Row |-> IF r \in S THEN to ELSE status[r]]
  /\ lease' = [r \in Row |-> IF r \in S THEN "none" ELSE lease[r]]
  /\ claimedBy' = [r \in Row |-> IF r \in S THEN NoWorker ELSE claimedBy[r]]

-----------------------------------------------------------------------------
(***************************************************************************)
(* Requests.                                                               *)
(***************************************************************************)

\* generateRecipients inside queueCampaign's transaction: read the
\* suppressions, then insert one row per remaining address.  The campaign row
\* is locked throughout, but suppressEmail takes no such lock.
ReadAudience(c) ==
  /\ campaign[c] = "DRAFT"
  /\ planned[c] = {}
  /\ Addresses \ suppressed # {}
  /\ planned' = [planned EXCEPT ![c] = Addresses \ suppressed]
  /\ UNCHANGED <<tables, tick, cancelling, suppressing, history>>

\* The inserts (ON CONFLICT DO NOTHING) and the status become visible together.
QueueCampaign(c) ==
  LET new == {r \in RowsOf(c) : AddressOf(r) \in planned[c] /\ status[r] = "ABSENT"} IN
  /\ planned[c] # {}
  /\ campaign' = [campaign EXCEPT ![c] = "QUEUED"]
  /\ status' = [r \in Row |-> IF r \in new THEN "QUEUED" ELSE status[r]]
  /\ due' = [r \in Row |-> due[r] \/ r \in new]
  /\ planned' = [planned EXCEPT ![c] = {}]
  /\ UNCHANGED <<attempts, lease, claimedBy, suppressed, tick, cancelling,
                 suppressing, history>>

PauseCampaign(c) ==
  /\ campaign[c] \in {"QUEUED", "SENDING"}
  /\ campaign' = [campaign EXCEPT ![c] = "PAUSED"]
  /\ UNCHANGED <<row, suppressed, tick, requests, history>>

ResumeCampaign(c) ==
  /\ campaign[c] = "PAUSED"
  /\ campaign' = [campaign EXCEPT ![c] = "SENDING"]
  /\ UNCHANGED <<row, suppressed, tick, requests, history>>

\* The two statements of POST /api/campaigns/[id]/cancel.
CancelCampaign(c) ==
  /\ campaign[c] \in {"QUEUED", "SENDING", "PAUSED"}
  /\ campaign' = [campaign EXCEPT ![c] = "CANCELLED"]
  /\ cancelling' = cancelling \cup {c}
  /\ UNCHANGED <<row, suppressed, tick, planned, suppressing, history>>

\* Mutant: rows in flight are cancelled too.
CancelPendingRows(c) ==
  /\ c \in cancelling
  /\ Move({r \in RowsOf(c) : status[r] \in Pending}, "CANCELLED")
  /\ cancelling' = cancelling \ {c}
  /\ UNCHANGED <<campaign, attempts, due, suppressed, tick, planned, suppressing,
                 history>>

CancelQueuedRows(c) ==
  /\ c \in cancelling
  /\ Move({r \in RowsOf(c) : status[r] = "QUEUED"}, "CANCELLED")
  /\ cancelling' = cancelling \ {c}
  /\ UNCHANGED <<campaign, attempts, due, suppressed, tick, planned, suppressing,
                 history>>

\* The two statements of suppressEmail.  Inserting is idempotent.
SuppressEmail(a) ==
  /\ suppressed' = suppressed \cup {a}
  /\ suppressing' = suppressing \cup {a}
  /\ UNCHANGED <<campaign, row, tick, planned, cancelling, history>>

SuppressQueuedRows(a) ==
  /\ a \in suppressing
  /\ Move({r \in Row : AddressOf(r) = a /\ status[r] = "QUEUED"}, "SUPPRESSED")
  /\ suppressing' = suppressing \ {a}
  /\ UNCHANGED <<campaign, attempts, due, suppressed, tick, planned, cancelling,
                 history>>

\* DELETE /api/suppressions: later campaigns may mail the address again.
LiftSuppression(a) ==
  /\ a \in suppressed
  /\ suppressed' = suppressed \ {a}
  /\ muted' = [w \in Workers |-> {r \in muted[w] : AddressOf(r) # a}]
  /\ UNCHANGED <<campaign, row, tick, requests, delivered, excused, faults>>

-----------------------------------------------------------------------------
(***************************************************************************)
(* One tick, up to the SMTP hand-off.                                      *)
(***************************************************************************)

\* Mutant: reclaiming without looking at the lease.
ExpiredIgnoringLease(r) == status[r] = "SENDING"

\* Mutant: only rows with attempts left are ever reclaimed.
ExpiredWithAttemptsLeft(r) ==
  status[r] = "SENDING" /\ lease[r] = "expired" /\ attempts[r] < MaxAttempts

Expired(r) == status[r] = "SENDING" /\ lease[r] = "expired"

\* A reclaim may take a row from a tick that is alive and sending it: that tick
\* and the row's status go separate ways, which excused counts.
Overrun(S) ==
  excused' = [r \in Row |-> IF r \in S /\ lease[r] = "expired" /\ claimedBy[r] \in Holders(r)
                            THEN excused[r] + 1 ELSE excused[r]]

\* reclaimExpiredLeases, first statement.
ReclaimRetryable(w) ==
  LET back == {r \in Row : Expired(r) /\ attempts[r] < MaxAttempts} IN
  /\ phase[w] = "idle"
  /\ Move(back, "QUEUED")
  /\ Overrun(back)
  /\ phase' = [phase EXCEPT ![w] = "exhausted"]
  /\ UNCHANGED <<campaign, attempts, due, suppressed, job, batch, requests,
                 delivered, muted, faults>>

\* Second statement: rows that burned all their attempts.
ReclaimExhausted(w) ==
  LET lost == {r \in Row : Expired(r) /\ attempts[r] >= MaxAttempts} IN
  /\ phase[w] = "exhausted"
  /\ Move(lost, "FAILED")
  /\ Overrun(lost)
  /\ phase' = [phase EXCEPT ![w] = "loop"]
  /\ UNCHANGED <<campaign, attempts, due, suppressed, job, batch, requests,
                 delivered, muted, faults>>

\* Mutant: a paused or cancelled campaign is still claimed from.
ClaimableAnyCampaign == {r \in Row : status[r] = "QUEUED" /\ due[r]}

\* Mutant: rows another tick holds can be claimed as well.
ClaimableTwice ==
  {r \in Row : status[r] \in Pending /\ due[r] /\ campaign[CampaignOf(r)] \in {"QUEUED", "SENDING"}}

Claimable ==
  {r \in Row : status[r] = "QUEUED" /\ due[r] /\ campaign[CampaignOf(r)] \in {"QUEUED", "SENDING"}}

\* LIMIT and SKIP LOCKED may leave any of the due rows behind.
ClaimRecipients(w) ==
  /\ phase[w] = "loop"
  /\ \E S \in SUBSET Claimable :
       /\ S # {}
       /\ Cardinality(S) <= BatchCap
       /\ status' = [r \in Row |-> IF r \in S THEN "SENDING" ELSE status[r]]
       /\ attempts' = [r \in Row |-> IF r \in S THEN attempts[r] + 1 ELSE attempts[r]]
       /\ lease' = [r \in Row |-> IF r \in S THEN "live" ELSE lease[r]]
       /\ claimedBy' = [r \in Row |-> IF r \in S THEN w ELSE claimedBy[r]]
       /\ job' = [job EXCEPT ![w] = [r \in Row |-> IF r \in S THEN "claimed" ELSE "none"]]
       /\ tries' = [tries EXCEPT ![w] = [r \in Row |-> IF r \in S THEN attempts[r] + 1 ELSE 0]]
       /\ muted' = [muted EXCEPT ![w] = {r \in S : AddressOf(r) \in suppressed}]
  /\ phase' = [phase EXCEPT ![w] = "start"]
  /\ UNCHANGED <<campaign, due, suppressed, broken, lanes, threw, requests,
                 delivered, excused, faults>>

\* The loop ends: nothing due, no quota left, the deadline has passed, or there
\* is no SMTP configuration.
LeaveLoop(w) ==
  /\ phase[w] = "loop"
  /\ phase' = [phase EXCEPT ![w] = "finalize"]
  /\ UNCHANGED <<tables, job, batch, requests, history>>

MarkCampaignsStarted(w) ==
  LET begun == {c \in Campaigns : campaign[c] = "QUEUED" /\ Batch(w) \cap RowsOf(c) # {}} IN
  /\ phase[w] = "start"
  /\ campaign' = [c \in Campaigns |-> IF c \in begun THEN "SENDING" ELSE campaign[c]]
  /\ phase' = [phase EXCEPT ![w] = "filter"]
  /\ UNCHANGED <<row, suppressed, job, batch, requests, history>>

\* Mutant: the batch is sent as it was queued.
SendableUnfiltered(w) == Batch(w)

Sendable(w) == {r \in Batch(w) : AddressOf(r) \notin suppressed}

\* filterSuppressed splits the batch; sendBatch will get the sendable rows and
\* runs at most Concurrency loops over them.
FilterSuppressed(w) ==
  /\ phase[w] = "filter"
  /\ job' = [job EXCEPT ![w] = [r \in Row |-> IF r \in Sendable(w) THEN "ready"
                                              ELSE IF r \in Batch(w) THEN "suppress" ELSE "none"]]
  /\ lanes' = [lanes EXCEPT ![w] = IF Cardinality(Sendable(w)) < Concurrency
                                   THEN Cardinality(Sendable(w)) ELSE Concurrency]
  /\ phase' = [phase EXCEPT ![w] = "send"]
  /\ UNCHANGED <<tables, tries, broken, threw, requests, history>>
-----------------------------------------------------------------------------
(***************************************************************************)
(* sendBatch.  Every write is conditional on the row being SENDING, and on *)
(* nothing else: not on claimed_by.                                        *)
(***************************************************************************)

\* Mutant: WHERE id = ... without the status.
LeaveUnconditionally(r, to) == Move({r}, to)

\* The row leaves SENDING if it is still there.
Leave(r, to) == Move({q \in {r} : status[q] = "SENDING"}, to)

\* GREATEST(attempts - 1, 0), written together with Leave.
GiveBackAttempt(r) ==
  attempts' = [attempts EXCEPT ![r] = IF status[r] = "SENDING" /\ @ > 0 THEN @ - 1 ELSE @]

SetJob(w, r, j) == job' = [job EXCEPT ![w][r] = j]

MarkSuppressed(w, r) ==
  /\ job[w][r] = "suppress"
  /\ Leave(r, "SUPPRESSED")
  /\ GiveBackAttempt(r)
  /\ SetJob(w, r, "none")
  /\ UNCHANGED <<campaign, due, suppressed, phase, batch, requests, history>>

\* A loop shifts the next recipient; after a transport failure it only releases.
StartSend(w, r) ==
  /\ job[w][r] = "ready"
  /\ \A q \in Row : job[w][q] # "suppress"
  /\ Cardinality({q \in Row : job[w][q] \in InLane}) < lanes[w]
  /\ SetJob(w, r, IF broken[w] THEN "transport" ELSE "handoff")
  /\ UNCHANGED <<tables, phase, batch, requests, history>>

SmtpAccepts(w, r) ==
  /\ job[w][r] = "handoff"
  /\ SetJob(w, r, "accepted")
  /\ delivered' = [delivered EXCEPT ![r] = @ + 1]
  /\ UNCHANGED <<tables, phase, batch, requests, excused, muted, faults>>

\* A 4xx or an unknown error, or a 5xx reply.
SmtpRefuses(w, r) ==
  /\ job[w][r] = "handoff"
  /\ \E j \in {"tempfail", "permfail"} : SetJob(w, r, j)
  /\ UNCHANGED <<tables, phase, batch, requests, history>>

\* EAUTH, ECONNECTION, ESOCKET, ETIMEDOUT, 421: isTransportFailure.
SmtpUnreachable(w, r) ==
  /\ Fault("transport")
  /\ job[w][r] = "handoff"
  /\ SetJob(w, r, "transport")
  /\ broken' = [broken EXCEPT ![w] = TRUE]
  /\ UNCHANGED <<tables, phase, tries, lanes, threw, requests, delivered, excused, muted>>

\* The server took the message and the connection died before its reply: to
\* isTransportFailure the same thing.
SmtpLosesReply(w, r) ==
  /\ Fault("reply")
  /\ job[w][r] = "handoff"
  /\ SetJob(w, r, "transport")
  /\ broken' = [broken EXCEPT ![w] = TRUE]
  /\ delivered' = [delivered EXCEPT ![r] = @ + 1]
  /\ excused' = [excused EXCEPT ![r] = @ + 1]
  /\ UNCHANGED <<tables, phase, tries, lanes, threw, requests, muted>>

MarkSent(w, r) ==
  /\ job[w][r] = "accepted"
  /\ Leave(r, "SENT")
  /\ SetJob(w, r, "none")
  /\ UNCHANGED <<campaign, attempts, due, suppressed, phase, batch, requests, history>>

\* markSent throws inside the try block, so the catch block treats the accepted
\* message as a temporary failure.  The statement may have been committed.
MarkSentThrows(w, r) ==
  /\ Fault("database")
  /\ job[w][r] = "accepted"
  /\ Leave(r, "SENT") \/ UNCHANGED claim
  /\ SetJob(w, r, "tempfail")
  /\ excused' = [excused EXCEPT ![r] = @ + 1]
  /\ UNCHANGED <<campaign, attempts, due, suppressed, phase, batch, requests,
                 delivered, muted>>

\* Mutant: one retry too many.
ShouldRetryOnceMore(w, r) == job[w][r] = "tempfail" /\ tries[w][r] <= MaxAttempts

\* shouldRetry looks at the attempt number the claim returned, not at the row.
ShouldRetry(w, r) == job[w][r] = "tempfail" /\ tries[w][r] < MaxAttempts

ScheduleRetry(w, r) ==
  /\ ShouldRetry(w, r)
  /\ Leave(r, "QUEUED")
  /\ due' = [due EXCEPT ![r] = IF status[r] = "SENDING" THEN FALSE ELSE @]
  /\ SetJob(w, r, "none")
  /\ UNCHANGED <<campaign, attempts, suppressed, phase, batch, requests, history>>

MarkFailed(w, r) ==
  /\ job[w][r] \in {"tempfail", "permfail"}
  /\ ~ShouldRetry(w, r)
  /\ Leave(r, "FAILED")
  /\ SetJob(w, r, "none")
  /\ UNCHANGED <<campaign, attempts, due, suppressed, phase, batch, requests, history>>

ReleaseClaims(w, r) ==
  /\ job[w][r] = "transport"
  /\ Leave(r, "QUEUED")
  /\ GiveBackAttempt(r)
  /\ SetJob(w, r, "none")
  /\ UNCHANGED <<campaign, due, suppressed, phase, batch, requests, history>>

\* Mutant: the loop that threw goes on with the same recipient.
RecordThrowsAgain(w, r) ==
  /\ Fault("database")
  /\ job[w][r] \in {"tempfail", "permfail", "transport"}
  /\ lanes' = [lanes EXCEPT ![w] = @ - 1]
  /\ threw' = [threw EXCEPT ![w] = TRUE]
  /\ UNCHANGED <<tables, phase, job, tries, broken, requests, delivered, excused, muted>>

\* A write of the catch block fails: that loop is gone and runTick rejects,
\* while the other loops go on.
RecordThrows(w, r) ==
  /\ Fault("database")
  /\ job[w][r] \in {"tempfail", "permfail", "transport"}
  /\ SetJob(w, r, "none")
  /\ lanes' = [lanes EXCEPT ![w] = @ - 1]
  /\ threw' = [threw EXCEPT ![w] = TRUE]
  /\ UNCHANGED <<tables, phase, tries, broken, requests, delivered, excused, muted>>

Forget(w) ==
  /\ job' = [job EXCEPT ![w] = NoJobs]
  /\ tries' = [tries EXCEPT ![w] = [r \in Row |-> 0]]
  /\ broken' = [broken EXCEPT ![w] = FALSE]
  /\ lanes' = [lanes EXCEPT ![w] = 0]
  /\ threw' = [threw EXCEPT ![w] = FALSE]
  /\ muted' = [muted EXCEPT ![w] = {}]

\* Rows nobody shifted (no loop left, or the transport was closed under the
\* remaining loops) stay SENDING until their lease expires.
BatchEnds(w) ==
  /\ phase[w] = "send"
  /\ \A r \in Row : /\ job[w][r] \in {"none", "ready"}
                    /\ job[w][r] = "ready" => lanes[w] = 0 \/ threw[w]
  /\ Forget(w)
  /\ phase' = [phase EXCEPT ![w] = IF threw[w] THEN "idle"
                                   ELSE IF broken[w] THEN "finalize" ELSE "loop"]
  /\ UNCHANGED <<tables, requests, delivered, excused, faults>>

\* Mutant: claimed rows are not counted as pending.
FinishedUnderClaim(c) ==
  /\ campaign[c] \in {"QUEUED", "SENDING"} /\ \E r \in RowsOf(c) : status[r] # "ABSENT"
  /\ \A r \in RowsOf(c) : status[r] # "QUEUED"

\* Mutant: only a campaign that was claimed from can finish.
FinishedAfterStart(c) ==
  campaign[c] = "SENDING" /\ \A r \in RowsOf(c) : status[r] \notin Pending

\* finalizeCompletedCampaigns.
Finished(c) ==
  /\ \/ campaign[c] = "SENDING"
     \/ campaign[c] = "QUEUED" /\ \E r \in RowsOf(c) : status[r] # "ABSENT"
  /\ \A r \in RowsOf(c) : status[r] \notin Pending

FinalizeCompletedCampaigns(w) ==
  /\ phase[w] = "finalize"
  /\ campaign' = [c \in Campaigns |-> IF Finished(c) THEN "COMPLETED" ELSE campaign[c]]
  /\ phase' = [phase EXCEPT ![w] = "idle"]
  /\ UNCHANGED <<row, suppressed, job, batch, requests, history>>
-----------------------------------------------------------------------------
(***************************************************************************)
(* The environment: time, and processes that die.                          *)
(***************************************************************************)

\* next_attempt_at passes.
BecomeDue(r) ==
  /\ status[r] = "QUEUED"
  /\ ~due[r]
  /\ due' = [due EXCEPT ![r] = TRUE]
  /\ UNCHANGED <<campaign, claim, attempts, suppressed, tick, requests, history>>

\* lease_expires_at passes.  LEASE_SECONDS does not bound sendBatch, so the tick
\* that holds the row may still be at work: that is the fault "overrun".
ExpireLease(r) ==
  /\ lease[r] = "live"
  /\ lease' = [lease EXCEPT ![r] = "expired"]
  /\ IF claimedBy[r] \in Holders(r) THEN Fault("overrun") ELSE UNCHANGED faults
  /\ UNCHANGED <<campaign, status, attempts, due, claimedBy, suppressed, tick,
                 requests, delivered, excused, muted>>

\* The process of a tick dies, is timed out by its platform, or a statement
\* outside sendBatch throws: the rows of its batch stay as they are.
Crash(w) ==
  /\ Fault("crash")
  /\ phase[w] # "idle"
  /\ excused' = [r \in Row |-> IF job[w][r] = "accepted" THEN excused[r] + 1 ELSE excused[r]]
  /\ Forget(w)
  /\ phase' = [phase EXCEPT ![w] = "idle"]
  /\ UNCHANGED <<tables, requests, delivered>>

\* A request dies between two statements: a queueCampaign transaction rolls
\* back, cancel and suppressEmail stay half done.
RequestCrash ==
  /\ Fault("crash")
  /\ \/ \E c \in Campaigns : /\ planned[c] # {}
                            /\ planned' = [planned EXCEPT ![c] = {}]
                            /\ UNCHANGED <<cancelling, suppressing>>
     \/ \E c \in cancelling : /\ cancelling' = cancelling \ {c}
                             /\ UNCHANGED <<planned, suppressing>>
     \/ \E a \in suppressing : /\ suppressing' = suppressing \ {a}
                              /\ UNCHANGED <<planned, cancelling>>
  /\ UNCHANGED <<tables, tick, delivered, excused, muted>>

-----------------------------------------------------------------------------
Requests ==
  \/ \E c \in Campaigns : \/ ReadAudience(c) \/ QueueCampaign(c)
                          \/ PauseCampaign(c) \/ ResumeCampaign(c)
                          \/ CancelCampaign(c) \/ CancelQueuedRows(c)
  \/ \E a \in Addresses : SuppressEmail(a) \/ SuppressQueuedRows(a) \/ LiftSuppression(a)

Outcome(w, r) ==
  \/ MarkSuppressed(w, r) \/ StartSend(w, r)
  \/ SmtpAccepts(w, r) \/ SmtpRefuses(w, r)
  \/ MarkSent(w, r) \/ ScheduleRetry(w, r) \/ MarkFailed(w, r) \/ ReleaseClaims(w, r)

\* What a tick does when nothing goes wrong.
TickStep(w) ==
  \/ ReclaimRetryable(w) \/ ReclaimExhausted(w)
  \/ ClaimRecipients(w) \/ LeaveLoop(w)
  \/ MarkCampaignsStarted(w) \/ FilterSuppressed(w)
  \/ \E r \in Row : Outcome(w, r)
  \/ BatchEnds(w) \/ FinalizeCompletedCampaigns(w)

Environment ==
  \/ \E r \in Row : BecomeDue(r) \/ ExpireLease(r)
  \/ RequestCrash
  \/ \E w \in Workers :
       \/ Crash(w)
       \/ \E r \in Row : \/ SmtpUnreachable(w, r) \/ SmtpLosesReply(w, r)
                         \/ MarkSentThrows(w, r) \/ RecordThrows(w, r)

Next == Requests \/ (\E w \in Workers : TickStep(w)) \/ Environment

Spec == Init /\ [][Next]_vars

(***************************************************************************)
(* Ticks keep coming and keep running (the worker loop, the cron), a       *)
(* request that was begun is finished, time passes, and a tick that can    *)
(* claim again and again eventually does: the rolling window frees quota,  *)
(* and SMTP is configured.                                                 *)
(***************************************************************************)
Fairness ==
  /\ \A w \in Workers : WF_vars(TickStep(w))
  /\ SF_vars(\E w \in Workers : ClaimRecipients(w))
  /\ \A r \in Row : WF_vars(BecomeDue(r)) /\ WF_vars(ExpireLease(r))
  /\ \A c \in Campaigns : WF_vars(QueueCampaign(c)) /\ WF_vars(CancelQueuedRows(c))
  /\ \A a \in Addresses : WF_vars(SuppressQueuedRows(a))

FairSpec == Spec /\ Fairness

-----------------------------------------------------------------------------
(***************************************************************************)
(* Properties.                                                             *)
(***************************************************************************)

\* A row that reached SENT, FAILED, SUPPRESSED or CANCELLED never changes its
\* status again, whoever writes late: reclaims, stale ticks, requests.
TerminalIsFinal ==
  [][\A r \in Row : status[r] \in Terminal => status'[r] = status[r]]_vars

\* A COMPLETED campaign has nothing left to send, and never gets it back: no late
\* retry, release, reclaim or resume reopens a row behind finalizeCompletedCampaigns.
CompletedIsDone ==
  \A c \in Campaigns : campaign[c] = "COMPLETED" =>
    \A r \in RowsOf(c) : status[r] \notin Pending

Lifecycle == INSTANCE DeliveryLifecycle

\* One campaign as the module CampaignActivation sees it, from its queue on: its
\* status and the addresses that have a row, whatever became of them.
Campaign(c) == INSTANCE CampaignLifecycle WITH
  Campaigns <- {c}, MaxTime <- 1, now <- 1, scheduledAt <- [d \in {c} |-> 0],
  status <- [d \in {c} |-> campaign[d]],
  rows <- [d \in {c} |-> {a \in Addresses : status[<<d, a>>] # "ABSENT"}]

\* Whatever ticks and requests do to a campaign is a step the activation's model
\* lets the queue take: started once with its rows, and none of them ever taken away.
MovesAsActivationExpects ==
  [][\A c \in Campaigns : [Campaign(c)!CampaignStep(c)]_(Campaign(c)!vars)]_vars

\* Statuses move only as DeliveryLifecycle allows (a claim is taken only from an
\* active campaign, only rows nobody holds are withdrawn, a campaign is launched
\* once and with recipients, and completes only with nothing pending), and each
\* campaign only as CampaignLifecycle does.
ImplementsLifecycle == Lifecycle!Spec /\ MovesAsActivationExpects

\* A row is sent a second time only if the knowledge of its first send was lost:
\* a crash between the server's acceptance and markSent, a lost SMTP reply, a
\* failed markSent, or a lease reclaimed under a live tick; each costs at most
\* one message.  Everything else, in any interleaving of ticks, costs none.
SecondSendsExcused == \A r \in Row : delivered[r] <= 1 + excused[r]

\* As long as no such window was hit, two ticks never work on the same row.
ExclusiveClaim ==
  \A r \in Row : excused[r] = 0 => \A v, w \in Holders(r) : v = w

\* Retries are bounded: every acceptance by the server is paid for by an attempt,
\* so a row that keeps crashing its tick stops after SMTP_MAX_ATTEMPTS messages.
SendsWithinAttempts ==
  \A r \in Row : delivered[r] <= attempts[r] /\ attempts[r] <= MaxAttempts

\* An address that was on the suppression list when its row was claimed, and was
\* not taken off since, is not mailed: the check at claim time catches the rows a
\* queueCampaign transaction inserted while suppressEmail looked elsewhere.
SuppressedNotMailed ==
  \A w \in Workers : \A r \in muted[w] : job[w][r] \notin {"handoff", "accepted"}

\* A tick never has more messages on the wire than it has loops, nor more loops
\* than CONCURRENCY: a loop that threw does not come back, and takes its place along.
LanesBounded ==
  \A w \in Workers : /\ Cardinality({r \in Row : job[w][r] \in InLane}) <= lanes[w]
                     /\ lanes[w] <= Concurrency

\* What the campaign report says is what happened: SENT is only written for a
\* message the server took, and unless one of the windows above was hit a message
\* the server took ends as SENT, even when the admin cancels or the address
\* unsubscribes while it is in flight.
ReportIsTruthful ==
  \A r \in Row :
    /\ status[r] = "SENT" => delivered[r] > 0
    /\ status[r] \in Terminal /\ delivered[r] > 0 /\ excused[r] = 0 => status[r] = "SENT"

\* A campaign the worker may claim from ends: it completes, unless an admin
\* pauses or cancels it first.
CampaignDrains ==
  \A c \in Campaigns :
    campaign[c] \in {"QUEUED", "SENDING"} ~> campaign[c] \in {"COMPLETED", "PAUSED", "CANCELLED"}

\* worker.ts on runTick: running two ticks concurrently cannot produce a second send.
NoSecondSend == \A r \in Row : delivered[r] <= 1

\* cancel/route.ts: rows held by a worker when their campaign is cancelled resolve
\* on their own.
CancelledRowsResolve ==
  \A c \in Campaigns : campaign[c] = "CANCELLED" ~> \A r \in RowsOf(c) : status[r] \notin Pending

\* No claim is held for ever, whatever happened to the tick and to the campaign.
ClaimsResolve == \A r \in Row : status[r] = "SENDING" ~> status[r] # "SENDING"

\* What a batch leaves behind, by whichever fault, is sorted out in the end: no row stays claimed and
\* no campaign stays open.
BatchResolves == ClaimsResolve /\ CampaignDrains
=============================================================================
