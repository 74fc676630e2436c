--------------------------- MODULE SendQueueProofs ---------------------------
(***************************************************************************)
(* Theorems about SendQueue, for every set of campaigns, addresses and     *)
(* ticks, every number of attempts and every number of faults.             *)
(***************************************************************************)
EXTENDS SendQueue, FiniteSetTheorems, TLAPS

\* How the type invariant splits: what one action leaves alone is carried over
\* by unchanged variables.
LEMMA RowFinite == IsFiniteSet(Row)
  BY SendQueueAssumption, FS_Product DEF Row

LEMMA SendableFinite ==
  ASSUME NEW w \in Workers
  PROVE  Cardinality(Sendable(w)) \in Nat
<1>1. IsFiniteSet(Sendable(w))
  BY RowFinite, FS_Subset DEF Sendable, Batch
<1> QED
  BY <1>1, FS_CardinalityType

LEMMA InitType == Init => TypeOK
  BY SendQueueAssumption DEF Init, TypeOK, CampaignStatus, DeliveryStatus, Phase, Job, NoJobs

LEMMA MoveType ==
  ASSUME TypeOK, NEW S, NEW to \in DeliveryStatus \ {"SENDING"}, Move(S, to)
  PROVE  /\ status' \in [Row -> DeliveryStatus]
         /\ lease' \in [Row -> {"none", "live", "expired"}]
         /\ claimedBy' \in [Row -> Workers \cup {NoWorker}]
         /\ \A r \in Row : /\ status'[r] = "SENDING" <=> lease'[r] # "none"
                           /\ status'[r] = "SENDING" <=> claimedBy'[r] # NoWorker
  BY DEF TypeOK, Move

LEMMA LeaveType ==
  ASSUME TypeOK, NEW r \in Row, NEW to \in DeliveryStatus \ {"SENDING"}, Leave(r, to)
  PROVE  /\ status' \in [Row -> DeliveryStatus]
         /\ lease' \in [Row -> {"none", "live", "expired"}]
         /\ claimedBy' \in [Row -> Workers \cup {NoWorker}]
         /\ \A q \in Row : /\ status'[q] = "SENDING" <=> lease'[q] # "none"
                           /\ status'[q] = "SENDING" <=> claimedBy'[q] # NoWorker
  BY MoveType DEF Leave

LEMMA GiveBackType ==
  ASSUME TypeOK, NEW r \in Row, GiveBackAttempt(r)
  PROVE  attempts' \in [Row -> Nat]
  BY DEF TypeOK, GiveBackAttempt

LEMMA SetJobType ==
  ASSUME TypeOK, NEW w \in Workers, NEW r \in Row, NEW j \in Job, SetJob(w, r, j)
  PROVE  job' \in [Workers -> [Row -> Job]]
  BY DEF TypeOK, SetJob

LEMMA OverrunType ==
  ASSUME TypeOK, NEW S, Overrun(S)
  PROVE  excused' \in [Row -> Nat]
  BY DEF TypeOK, Overrun

LEMMA FaultType ==
  ASSUME TypeOK, NEW kind, Fault(kind)
  PROVE  faults' \in Nat
  BY DEF TypeOK, Fault

LEMMA ForgetType ==
  ASSUME TypeOK, NEW w \in Workers, Forget(w)
  PROVE  /\ job' \in [Workers -> [Row -> Job]]
         /\ tries' \in [Workers -> [Row -> Nat]]
         /\ broken' \in [Workers -> BOOLEAN]
         /\ lanes' \in [Workers -> Int]
         /\ threw' \in [Workers -> BOOLEAN]
         /\ muted' \in [Workers -> SUBSET Row]
  BY SendQueueAssumption DEF TypeOK, Forget, NoJobs, Job

LEMMA RequestsType == TypeOK /\ Requests => TypeOK'
<1> USE DEF tables, row, claim, tick, batch, requests, history
<1> SUFFICES ASSUME TypeOK, Requests PROVE TypeOK'
  OBVIOUS
<1>1. ASSUME NEW c \in Campaigns, ReadAudience(c) PROVE TypeOK'
  BY <1>1 DEF TypeOK, ReadAudience
<1>2. ASSUME NEW c \in Campaigns, QueueCampaign(c) PROVE TypeOK'
  BY <1>2 DEF TypeOK, QueueCampaign, CampaignStatus, DeliveryStatus, Pending
<1>3. ASSUME NEW c \in Campaigns, PauseCampaign(c) PROVE TypeOK'
  BY <1>3 DEF TypeOK, PauseCampaign, CampaignStatus
<1>4. ASSUME NEW c \in Campaigns, ResumeCampaign(c) PROVE TypeOK'
  BY <1>4 DEF TypeOK, ResumeCampaign, CampaignStatus
<1>5. ASSUME NEW c \in Campaigns, CancelCampaign(c) PROVE TypeOK'
  BY <1>5 DEF TypeOK, CancelCampaign, CampaignStatus
<1>6. ASSUME NEW c \in Campaigns, CancelQueuedRows(c) PROVE TypeOK'
  BY <1>6, MoveType DEF TypeOK, CancelQueuedRows, DeliveryStatus, Terminal
<1>7. ASSUME NEW a \in Addresses, SuppressEmail(a) PROVE TypeOK'
  BY <1>7 DEF TypeOK, SuppressEmail
<1>8. ASSUME NEW a \in Addresses, SuppressQueuedRows(a) PROVE TypeOK'
  BY <1>8, MoveType DEF TypeOK, SuppressQueuedRows, DeliveryStatus, Terminal
<1>9. ASSUME NEW a \in Addresses, LiftSuppression(a) PROVE TypeOK'
  BY <1>9 DEF TypeOK, LiftSuppression
<1> QED
  BY <1>1, <1>2, <1>3, <1>4, <1>5, <1>6, <1>7, <1>8, <1>9 DEF Requests

LEMMA TickType == ASSUME NEW w \in Workers PROVE TypeOK /\ TickStep(w) => TypeOK'
<1> USE DEF tables, row, claim, tick, batch, requests, history
<1> SUFFICES ASSUME TypeOK, TickStep(w) PROVE TypeOK'
  OBVIOUS
<1>1. CASE ReclaimRetryable(w)
  BY <1>1, MoveType, OverrunType DEF TypeOK, ReclaimRetryable, Phase, DeliveryStatus, Pending
<1>2. CASE ReclaimExhausted(w)
  BY <1>2, MoveType, OverrunType DEF TypeOK, ReclaimExhausted, Phase, DeliveryStatus, Terminal
<1>3. CASE ClaimRecipients(w)
  BY <1>3, SendQueueAssumption DEF TypeOK, ClaimRecipients, Claimable, Phase, DeliveryStatus, Pending, Job, Undelivered
<1>4. CASE LeaveLoop(w)
  BY <1>4 DEF TypeOK, LeaveLoop, Phase
<1>5. CASE MarkCampaignsStarted(w)
  BY <1>5 DEF TypeOK, MarkCampaignsStarted, Phase, CampaignStatus
<1>6. CASE FilterSuppressed(w)
  BY <1>6, SendableFinite, SendQueueAssumption DEF TypeOK, FilterSuppressed, Phase, Job, Undelivered
<1>7. ASSUME NEW r \in Row, Outcome(w, r) PROVE TypeOK'
  <2>1. CASE MarkSuppressed(w, r)
    BY <2>1, LeaveType, GiveBackType, SetJobType
    DEF TypeOK, MarkSuppressed, DeliveryStatus, Terminal, Job
  <2>2. CASE StartSend(w, r)
    BY <2>2, SetJobType DEF TypeOK, StartSend, Job, Undelivered
  <2>3. CASE SmtpAccepts(w, r)
    BY <2>3, SetJobType DEF TypeOK, SmtpAccepts, Job
  <2>4. CASE SmtpRefuses(w, r)
    BY <2>4, SetJobType DEF TypeOK, SmtpRefuses, Job, Undelivered
  <2>5. CASE MarkSent(w, r)
    BY <2>5, LeaveType, SetJobType DEF TypeOK, MarkSent, DeliveryStatus, Terminal, Job
  <2>6. CASE ScheduleRetry(w, r)
    BY <2>6, LeaveType, SetJobType DEF TypeOK, ScheduleRetry, DeliveryStatus, Pending, Job
  <2>7. CASE MarkFailed(w, r)
    BY <2>7, LeaveType, SetJobType DEF TypeOK, MarkFailed, DeliveryStatus, Terminal, Job
  <2>8. CASE ReleaseClaims(w, r)
    BY <2>8, LeaveType, GiveBackType, SetJobType
    DEF TypeOK, ReleaseClaims, DeliveryStatus, Pending, Job
  <2> QED
    BY <1>7, <2>1, <2>2, <2>3, <2>4, <2>5, <2>6, <2>7, <2>8 DEF Outcome
<1>8. CASE BatchEnds(w)
  BY <1>8, ForgetType DEF TypeOK, BatchEnds, Phase
<1>9. CASE FinalizeCompletedCampaigns(w)
  BY <1>9 DEF TypeOK, FinalizeCompletedCampaigns, Phase, CampaignStatus
<1> QED
  BY <1>1, <1>2, <1>3, <1>4, <1>5, <1>6, <1>7, <1>8, <1>9 DEF TickStep

LEMMA EnvironmentType == TypeOK /\ Environment => TypeOK'
<1> USE DEF tables, row, claim, tick, batch, requests, history
<1> SUFFICES ASSUME TypeOK, Environment PROVE TypeOK'
  OBVIOUS
<1>1. ASSUME NEW r \in Row, BecomeDue(r) PROVE TypeOK'
  BY <1>1 DEF TypeOK, BecomeDue
<1>2. ASSUME NEW r \in Row, ExpireLease(r) PROVE TypeOK'
  BY <1>2, FaultType DEF TypeOK, ExpireLease
<1>3. CASE RequestCrash
  BY <1>3, FaultType DEF TypeOK, RequestCrash
<1>4. ASSUME NEW w \in Workers, Crash(w) PROVE TypeOK'
  BY <1>4, FaultType, ForgetType DEF TypeOK, Crash, Phase
<1>5. ASSUME NEW w \in Workers, NEW r \in Row, SmtpUnreachable(w, r) PROVE TypeOK'
  BY <1>5, FaultType, SetJobType DEF TypeOK, SmtpUnreachable, Job, Undelivered
<1>6. ASSUME NEW w \in Workers, NEW r \in Row, SmtpLosesReply(w, r) PROVE TypeOK'
  BY <1>6, FaultType, SetJobType DEF TypeOK, SmtpLosesReply, Job, Undelivered
<1>7. ASSUME NEW w \in Workers, NEW r \in Row, MarkSentThrows(w, r) PROVE TypeOK'
  BY <1>7, FaultType, SetJobType, LeaveType
  DEF TypeOK, MarkSentThrows, Job, Undelivered, DeliveryStatus, Terminal
<1>8. ASSUME NEW w \in Workers, NEW r \in Row, RecordThrows(w, r) PROVE TypeOK'
  BY <1>8, FaultType, SetJobType DEF TypeOK, RecordThrows, Job
<1> QED
  BY <1>1, <1>2, <1>3, <1>4, <1>5, <1>6, <1>7, <1>8 DEF Environment

LEMMA StepType == TypeOK /\ [Next]_vars => TypeOK'
<1>1. TypeOK /\ UNCHANGED vars => TypeOK'
  BY DEF TypeOK, vars, tables, row, claim, tick, batch, requests, history
<1> QED
  BY <1>1, RequestsType, TickType, EnvironmentType DEF Next

\* The tables and the local state of the ticks are well formed, and a row carries
\* a lease and a claimant exactly while it is SENDING.
THEOREM TypeCorrect == Spec => []TypeOK
  BY InitType, StepType, PTL DEF Spec

-----------------------------------------------------------------------------
(***************************************************************************)
(* SendQueue implements DeliveryLifecycle: every step of a request, a tick *)
(* or the environment is a step of the abstract lifecycle or leaves both   *)
(* statuses alone.  What the lifecycle guarantees about terminal rows and  *)
(* completed campaigns follows for the queue.                              *)
(***************************************************************************)

\* The part of the campaign row's lock the simulation needs: a queueCampaign
\* transaction is under way only on a campaign still to be queued, and such a
\* campaign has no rows.
AudienceInv ==
  \A c \in Campaigns :
    /\ planned[c] # {} => campaign[c] = "DRAFT"
    /\ campaign[c] = "DRAFT" => \A r \in RowsOf(c) : status[r] = "ABSENT"

LifecycleStep == Lifecycle!Next \/ UNCHANGED <<campaign, status>>

\* Moving rows out of their claims is one of the abstract status changes.
LEMMA MoveSimulates ==
  ASSUME NEW S \in SUBSET Row, NEW to, Move(S, to), UNCHANGED campaign,
         \/ /\ to \in {"QUEUED", "SENT", "FAILED", "SUPPRESSED"}
            /\ \A r \in S : status[r] = "SENDING"
         \/ /\ to \in {"SUPPRESSED", "CANCELLED"}
            /\ \A r \in S : status[r] = "QUEUED"
  PROVE  Lifecycle!Next
<1>1. S \in SUBSET Lifecycle!Row /\ Lifecycle!SetStatus(S, to)
  BY DEF Move, Row, Lifecycle!Row, Lifecycle!SetStatus
<1>2. \/ to \in {"QUEUED", "SENT", "FAILED", "SUPPRESSED"} /\ Lifecycle!Resolve(S, to)
      \/ to \in {"SUPPRESSED", "CANCELLED"} /\ Lifecycle!Withdraw(S, to)
  BY <1>1 DEF Lifecycle!Resolve, Lifecycle!Withdraw
<1> QED
  BY <1>1, <1>2 DEF Lifecycle!Next

LEMMA LeaveSimulates ==
  ASSUME NEW r \in Row, NEW to \in {"QUEUED", "SENT", "FAILED", "SUPPRESSED"},
         Leave(r, to), UNCHANGED campaign
  PROVE  Lifecycle!Next
<1>1. {q \in {r} : status[q] = "SENDING"} \in SUBSET Row
  OBVIOUS
<1> QED
  BY <1>1, MoveSimulates DEF Leave

\* A change of one campaign's status that the lifecycle allows.
LEMMA SteerSimulates ==
  ASSUME TypeOK, NEW C \in SUBSET Campaigns, NEW to \in {"SENDING", "PAUSED", "CANCELLED"},
         campaign' = [c \in Campaigns |-> IF c \in C THEN to ELSE campaign[c]],
         \A c \in C : <<campaign[c], to>> \in
           {<<"QUEUED", "SENDING">>, <<"QUEUED", "PAUSED">>, <<"SENDING", "PAUSED">>,
            <<"PAUSED", "SENDING">>, <<"QUEUED", "CANCELLED">>, <<"SENDING", "CANCELLED">>,
            <<"PAUSED", "CANCELLED">>},
         UNCHANGED status
  PROVE  Lifecycle!Next
<1>1. Lifecycle!Steer(C, to)
  BY DEF Lifecycle!Steer, Lifecycle!SetCampaign
<1> QED
  BY <1>1 DEF Lifecycle!Next

LEMMA SteerOneSimulates ==
  ASSUME TypeOK, NEW c \in Campaigns, NEW to \in {"SENDING", "PAUSED", "CANCELLED"},
         campaign' = [campaign EXCEPT ![c] = to],
         <<campaign[c], to>> \in
           {<<"QUEUED", "SENDING">>, <<"QUEUED", "PAUSED">>, <<"SENDING", "PAUSED">>,
            <<"PAUSED", "SENDING">>, <<"QUEUED", "CANCELLED">>, <<"SENDING", "CANCELLED">>,
            <<"PAUSED", "CANCELLED">>},
         UNCHANGED status
  PROVE  Lifecycle!Next
<1>1. campaign' = [d \in Campaigns |-> IF d \in {c} THEN to ELSE campaign[d]]
  BY DEF TypeOK
<1> QED
  BY <1>1, SteerSimulates, {c} \in SUBSET Campaigns

LEMMA LaunchSimulates ==
  ASSUME TypeOK, AudienceInv, NEW c \in Campaigns, QueueCampaign(c)
  PROVE  Lifecycle!Next
<1> DEFINE new == {r \in RowsOf(c) : AddressOf(r) \in planned[c] /\ status[r] = "ABSENT"}
<1>1. campaign[c] = "DRAFT" /\ \A r \in RowsOf(c) : status[r] = "ABSENT"
  BY DEF AudienceInv, QueueCampaign
<1>2. PICK a \in Addresses : a \in planned[c]
  BY DEF QueueCampaign, TypeOK
<1>3. <<c, a>> \in new
  BY <1>1, <1>2 DEF RowsOf, Row, CampaignOf, AddressOf
<1>4. new \in SUBSET Lifecycle!RowsOf(c)
  BY DEF RowsOf, Row, CampaignOf, Lifecycle!RowsOf, Lifecycle!Row
<1>5. Lifecycle!SetCampaign({c}, "QUEUED") /\ Lifecycle!SetStatus(new, "QUEUED")
  BY DEF QueueCampaign, TypeOK, Lifecycle!SetCampaign, Lifecycle!SetStatus, Row, Lifecycle!Row
<1>6. Lifecycle!Launch(c)
  <2> HIDE DEF new
  <2> SUFFICES /\ new \in SUBSET Lifecycle!RowsOf(c) /\ new # {}
               /\ \A r \in new : status[r] = "ABSENT"
               /\ Lifecycle!SetStatus(new, "QUEUED")
    BY <1>1, <1>5 DEF Lifecycle!Launch
  <2> QED
    BY <1>3, <1>4, <1>5 DEF new
<1> QED
  BY <1>6 DEF Lifecycle!Next

LEMMA InitSimulates == Init => Lifecycle!Init /\ AudienceInv
  BY DEF Init, Lifecycle!Init, Row, Lifecycle!Row, AudienceInv, RowsOf

LEMMA RequestsSimulate ==
  ASSUME TypeOK, AudienceInv, Requests
  PROVE  LifecycleStep
<1> USE DEF tables, row, claim, tick, batch, requests, history, LifecycleStep
<1>1. ASSUME NEW c \in Campaigns, ReadAudience(c) PROVE LifecycleStep
  BY <1>1 DEF ReadAudience
<1>2. ASSUME NEW c \in Campaigns, QueueCampaign(c) PROVE LifecycleStep
  BY <1>2, LaunchSimulates
<1>3. ASSUME NEW c \in Campaigns, PauseCampaign(c) PROVE LifecycleStep
  BY <1>3, SteerOneSimulates DEF PauseCampaign
<1>4. ASSUME NEW c \in Campaigns, ResumeCampaign(c) PROVE LifecycleStep
  BY <1>4, SteerOneSimulates DEF ResumeCampaign
<1>5. ASSUME NEW c \in Campaigns, CancelCampaign(c) PROVE LifecycleStep
  BY <1>5, SteerOneSimulates DEF CancelCampaign
<1>6. ASSUME NEW c \in Campaigns, CancelQueuedRows(c) PROVE LifecycleStep
  BY <1>6, MoveSimulates DEF CancelQueuedRows, RowsOf
<1>7. ASSUME NEW a \in Addresses, SuppressEmail(a) PROVE LifecycleStep
  BY <1>7 DEF SuppressEmail
<1>8. ASSUME NEW a \in Addresses, SuppressQueuedRows(a) PROVE LifecycleStep
  BY <1>8, MoveSimulates DEF SuppressQueuedRows
<1>9. ASSUME NEW a \in Addresses, LiftSuppression(a) PROVE LifecycleStep
  BY <1>9 DEF LiftSuppression
<1> QED
  BY <1>1, <1>2, <1>3, <1>4, <1>5, <1>6, <1>7, <1>8, <1>9 DEF Requests

LEMMA ClaimSimulates ==
  ASSUME NEW w \in Workers, ClaimRecipients(w)
  PROVE  LifecycleStep
<1> USE DEF tables, row, claim, tick, batch, requests, history
<1>1. PICK S \in SUBSET Claimable :
        status' = [r \in Row |-> IF r \in S THEN "SENDING" ELSE status[r]]
  BY DEF ClaimRecipients
<1>2. S \in SUBSET Lifecycle!Row
  BY DEF Claimable, Row, Lifecycle!Row
<1>3. Lifecycle!Claim(S)
  BY <1>1 DEF ClaimRecipients, Claimable, CampaignOf, Row, Lifecycle!Row, Lifecycle!Claim,
              Lifecycle!Active, Lifecycle!SetStatus
<1> QED
  BY <1>2, <1>3 DEF LifecycleStep, Lifecycle!Next

LEMMA FinalizeSimulates ==
  ASSUME NEW w \in Workers, FinalizeCompletedCampaigns(w)
  PROVE  LifecycleStep
<1> USE DEF tables, row, claim, tick, batch, requests, history
<1> DEFINE done == {c \in Campaigns : Finished(c)}
<1>1. Lifecycle!Complete(done)
  BY DEF FinalizeCompletedCampaigns, Finished, Lifecycle!Complete, Lifecycle!Active,
         Lifecycle!SetCampaign, Lifecycle!RowsOf, Lifecycle!Row, Lifecycle!Pending,
         RowsOf, Row, CampaignOf, Pending
<1> QED
  BY <1>1 DEF LifecycleStep, Lifecycle!Next

LEMMA TickSimulates ==
  ASSUME TypeOK, NEW w \in Workers, TickStep(w)
  PROVE  LifecycleStep
<1> USE DEF tables, row, claim, tick, batch, requests, history, LifecycleStep
<1>1. CASE ReclaimRetryable(w)
  BY <1>1, MoveSimulates DEF ReclaimRetryable, Expired
<1>2. CASE ReclaimExhausted(w)
  BY <1>2, MoveSimulates DEF ReclaimExhausted, Expired
<1>3. CASE ClaimRecipients(w)
  BY <1>3, ClaimSimulates
<1>4. CASE LeaveLoop(w)
  BY <1>4 DEF LeaveLoop
<1>5. CASE MarkCampaignsStarted(w)
  BY <1>5, SteerSimulates DEF MarkCampaignsStarted
<1>6. CASE FilterSuppressed(w)
  BY <1>6 DEF FilterSuppressed
<1>7. ASSUME NEW r \in Row, Outcome(w, r) PROVE LifecycleStep
  <2>1. CASE MarkSuppressed(w, r) \/ MarkSent(w, r)
    BY <2>1, LeaveSimulates DEF MarkSuppressed, MarkSent
  <2>2. CASE ScheduleRetry(w, r) \/ ReleaseClaims(w, r)
    BY <2>2, LeaveSimulates DEF ScheduleRetry, ReleaseClaims
  <2>3. CASE MarkFailed(w, r)
    BY <2>3, LeaveSimulates DEF MarkFailed
  <2>4. CASE StartSend(w, r) \/ SmtpAccepts(w, r) \/ SmtpRefuses(w, r)
    BY <2>4 DEF StartSend, SmtpAccepts, SmtpRefuses
  <2> QED
    BY <1>7, <2>1, <2>2, <2>3, <2>4 DEF Outcome
<1>8. CASE BatchEnds(w)
  BY <1>8 DEF BatchEnds
<1>9. CASE FinalizeCompletedCampaigns(w)
  BY <1>9, FinalizeSimulates
<1> QED
  BY <1>1, <1>2, <1>3, <1>4, <1>5, <1>6, <1>7, <1>8, <1>9 DEF TickStep

LEMMA EnvironmentSimulates ==
  ASSUME TypeOK, Environment
  PROVE  LifecycleStep
<1> USE DEF tables, row, claim, tick, batch, requests, history, LifecycleStep
<1>1. ASSUME NEW r \in Row, BecomeDue(r) \/ ExpireLease(r) PROVE LifecycleStep
  BY <1>1 DEF BecomeDue, ExpireLease
<1>2. CASE RequestCrash
  BY <1>2 DEF RequestCrash
<1>3. ASSUME NEW w \in Workers, Crash(w) PROVE LifecycleStep
  BY <1>3 DEF Crash
<1>4. ASSUME NEW w \in Workers, NEW r \in Row,
             SmtpUnreachable(w, r) \/ SmtpLosesReply(w, r) \/ RecordThrows(w, r)
      PROVE LifecycleStep
  BY <1>4 DEF SmtpUnreachable, SmtpLosesReply, RecordThrows
<1>5. ASSUME NEW w \in Workers, NEW r \in Row, MarkSentThrows(w, r) PROVE LifecycleStep
  BY <1>5, LeaveSimulates DEF MarkSentThrows
<1> QED
  BY <1>1, <1>2, <1>3, <1>4, <1>5 DEF Environment

LEMMA StepSimulates == TypeOK /\ AudienceInv /\ [Next]_vars => LifecycleStep
<1>1. UNCHANGED vars => LifecycleStep
  BY DEF vars, tables, LifecycleStep, row, claim
<1> QED
  BY <1>1, RequestsSimulate, TickSimulates, EnvironmentSimulates DEF Next

-----------------------------------------------------------------------------
(***************************************************************************)
(* The invariant behind the simulation.                                    *)
(***************************************************************************)

\* The abstract step alone keeps the rows of an unqueued campaign absent.
LEMMA LifecycleKeepsDrafts ==
  ASSUME TypeOK, AudienceInv, LifecycleStep, NEW c \in Campaigns, campaign'[c] = "DRAFT"
  PROVE  campaign[c] = "DRAFT" /\ \A r \in RowsOf(c) : status'[r] = "ABSENT"
<1> USE DEF AudienceInv, TypeOK, RowsOf, Row, CampaignOf, Lifecycle!Row, Lifecycle!RowsOf,
            Lifecycle!SetStatus, Lifecycle!SetCampaign
<1>1. ASSUME NEW d \in Campaigns, Lifecycle!Launch(d)
      PROVE  campaign[c] = "DRAFT" /\ \A r \in RowsOf(c) : status'[r] = "ABSENT"
  BY <1>1 DEF Lifecycle!Launch
<1>2. ASSUME NEW S \in SUBSET Lifecycle!Row,
             \/ Lifecycle!Claim(S)
             \/ \E to : Lifecycle!Resolve(S, to)
             \/ \E to : Lifecycle!Withdraw(S, to)
      PROVE  campaign[c] = "DRAFT" /\ \A r \in RowsOf(c) : status'[r] = "ABSENT"
  BY <1>2 DEF Lifecycle!Claim, Lifecycle!Resolve, Lifecycle!Withdraw
<1>3. ASSUME NEW C \in SUBSET Campaigns,
             \/ \E to \in {"SENDING", "PAUSED", "CANCELLED"} : Lifecycle!Steer(C, to)
             \/ Lifecycle!Complete(C)
      PROVE  campaign[c] = "DRAFT" /\ \A r \in RowsOf(c) : status'[r] = "ABSENT"
  BY <1>3 DEF Lifecycle!Steer, Lifecycle!Complete
<1>4. CASE UNCHANGED <<campaign, status>>
  BY <1>4
<1> QED
  BY <1>1, <1>2, <1>3, <1>4 DEF LifecycleStep, Lifecycle!Next

\* A transaction that is under way after a step was so before it or has just
\* begun, and the campaign's status did not move meanwhile.
PlannedStep ==
  \A c \in Campaigns : planned'[c] # {} =>
    /\ campaign'[c] = campaign[c]
    /\ planned[c] # {} \/ campaign[c] = "DRAFT"

LEMMA PlannedMoves == TypeOK /\ AudienceInv /\ [Next]_vars => PlannedStep
<1> USE DEF tables, row, claim, tick, batch, requests, history, PlannedStep
<1> SUFFICES ASSUME TypeOK, AudienceInv, [Next]_vars PROVE PlannedStep
  OBVIOUS
<1>1. CASE Requests
  <2>1. ASSUME NEW c \in Campaigns, ReadAudience(c) \/ QueueCampaign(c) PROVE PlannedStep
    BY <2>1 DEF ReadAudience, QueueCampaign, TypeOK
  <2>2. ASSUME NEW c \in Campaigns,
               PauseCampaign(c) \/ ResumeCampaign(c) \/ CancelCampaign(c)
        PROVE PlannedStep
    BY <2>2 DEF PauseCampaign, ResumeCampaign, CancelCampaign, TypeOK, AudienceInv
  <2>3. ASSUME NEW c \in Campaigns, CancelQueuedRows(c) PROVE UNCHANGED <<campaign, planned>>
    BY <2>3 DEF CancelQueuedRows
  <2>4. ASSUME NEW a \in Addresses, SuppressEmail(a) \/ SuppressQueuedRows(a) \/ LiftSuppression(a)
        PROVE UNCHANGED <<campaign, planned>>
    BY <2>4 DEF SuppressEmail, SuppressQueuedRows, LiftSuppression
  <2>5. UNCHANGED <<campaign, planned>> => PlannedStep
    OBVIOUS
  <2> QED
    BY <1>1, <2>1, <2>2, <2>3, <2>4, <2>5 DEF Requests
<1>2. ASSUME NEW w \in Workers, TickStep(w) PROVE PlannedStep
  <2>1. CASE MarkCampaignsStarted(w) \/ FinalizeCompletedCampaigns(w)
    BY <2>1 DEF MarkCampaignsStarted, FinalizeCompletedCampaigns, Finished, AudienceInv, TypeOK
  <2>2. ASSUME NEW r \in Row, Outcome(w, r) PROVE UNCHANGED <<campaign, planned>>
    BY <2>2 DEF Outcome, MarkSuppressed, StartSend, SmtpAccepts, SmtpRefuses, MarkSent,
                ScheduleRetry, MarkFailed, ReleaseClaims
  <2>3. CASE \/ ReclaimRetryable(w) \/ ReclaimExhausted(w) \/ ClaimRecipients(w)
             \/ LeaveLoop(w) \/ FilterSuppressed(w) \/ BatchEnds(w)
    BY <2>3 DEF ReclaimRetryable, ReclaimExhausted, ClaimRecipients, LeaveLoop,
                FilterSuppressed, BatchEnds
  <2> QED
    BY <1>2, <2>1, <2>2, <2>3 DEF TickStep
<1>3. CASE Environment
  <2>1. CASE RequestCrash
    BY <2>1 DEF RequestCrash, TypeOK
  <2>2. CASE ~RequestCrash
    BY <1>3, <2>2 DEF Environment, BecomeDue, ExpireLease, Crash, SmtpUnreachable,
                      SmtpLosesReply, MarkSentThrows, RecordThrows
  <2> QED
    BY <2>1, <2>2
<1>4. CASE UNCHANGED vars
  BY <1>4 DEF vars
<1> QED
  BY <1>1, <1>2, <1>3, <1>4 DEF Next

LEMMA AudienceStep == TypeOK /\ AudienceInv /\ [Next]_vars => AudienceInv'
<1> SUFFICES ASSUME TypeOK, AudienceInv, [Next]_vars, NEW c \in Campaigns
             PROVE  /\ planned'[c] # {} => campaign'[c] = "DRAFT"
                    /\ campaign'[c] = "DRAFT" => \A r \in RowsOf(c) : status'[r] = "ABSENT"
  BY DEF AudienceInv, RowsOf, Row, CampaignOf
<1>1. planned'[c] # {} => campaign'[c] = "DRAFT"
  BY PlannedMoves DEF PlannedStep, AudienceInv
<1>2. campaign'[c] = "DRAFT" => \A r \in RowsOf(c) : status'[r] = "ABSENT"
  BY StepSimulates, LifecycleKeepsDrafts
<1> QED
  BY <1>1, <1>2

LEMMA AudienceAlways == Spec => [](TypeOK /\ AudienceInv)
  BY InitType, InitSimulates, StepType, AudienceStep, PTL DEF Spec

-----------------------------------------------------------------------------
(***************************************************************************)
(* Seen campaign by campaign, the same steps are CampaignLifecycle's.      *)
(***************************************************************************)

\* The addresses a campaign has a row for.
Queued(c) == {a \in Addresses : status[<<c, a>>] # "ABSENT"}

\* A campaign that was queued has rows, and keeps them.
RowsInv == \A c \in Campaigns : campaign[c] # "DRAFT" => Queued(c) # {}

\* A campaign and its rows, before and after a step of one of the abstract kinds.
Stays(c)    == campaign'[c] = campaign[c] /\ Queued(c)' = Queued(c)
Launched(c) == campaign[c] = "DRAFT" /\ campaign'[c] = "QUEUED" /\ Queued(c)' # {}
Steered(c)  ==
  /\ Queued(c)' = Queued(c)
  /\ <<campaign[c], campaign'[c]>> \in
       {<<"QUEUED", "SENDING">>, <<"QUEUED", "PAUSED">>, <<"SENDING", "PAUSED">>, <<"PAUSED", "SENDING">>,
        <<"QUEUED", "COMPLETED">>, <<"SENDING", "COMPLETED">>,
        <<"QUEUED", "CANCELLED">>, <<"SENDING", "CANCELLED">>, <<"PAUSED", "CANCELLED">>}

\* A step that only moves rows that are there, and removes none, leaves their campaign as it is.
LEMMA RowsMoved ==
  ASSUME NEW S \in SUBSET Lifecycle!Row, NEW to, to # "ABSENT", \A r \in S : status[r] # "ABSENT",
         Lifecycle!SetStatus(S, to), UNCHANGED campaign, NEW c \in Campaigns
  PROVE  Stays(c)
<1>1. \A a \in Addresses : <<c, a>> \in Lifecycle!Row
  BY DEF Lifecycle!Row
<1>2. \A r \in Lifecycle!Row : status'[r] # "ABSENT" <=> status[r] # "ABSENT"
  BY DEF Lifecycle!SetStatus
<1>3. Queued(c)' = Queued(c)
  BY <1>1, <1>2 DEF Queued
<1> QED
  BY <1>3 DEF Stays

\* No step of DeliveryLifecycle does anything else to a campaign.
LEMMA LifecycleMoves ==
  ASSUME TypeOK, LifecycleStep, NEW c \in Campaigns
  PROVE  Stays(c) \/ Launched(c) \/ Steered(c)
<1>1. ASSUME NEW S \in SUBSET Lifecycle!Row, Lifecycle!Claim(S) PROVE Stays(c)
  <2>1. (\A r \in S : status[r] # "ABSENT") /\ Lifecycle!SetStatus(S, "SENDING") /\ UNCHANGED campaign
    BY <1>1 DEF Lifecycle!Claim
  <2> QED
    BY <2>1, RowsMoved
<1>2. ASSUME NEW S \in SUBSET Lifecycle!Row, NEW to \in {"QUEUED", "SENT", "FAILED", "SUPPRESSED"},
             Lifecycle!Resolve(S, to)
      PROVE  Stays(c)
  <2>1. (\A r \in S : status[r] # "ABSENT") /\ Lifecycle!SetStatus(S, to) /\ UNCHANGED campaign
    BY <1>2 DEF Lifecycle!Resolve
  <2> QED
    BY <2>1, RowsMoved
<1>3. ASSUME NEW S \in SUBSET Lifecycle!Row, NEW to \in {"SUPPRESSED", "CANCELLED"}, Lifecycle!Withdraw(S, to)
      PROVE  Stays(c)
  <2>1. (\A r \in S : status[r] # "ABSENT") /\ Lifecycle!SetStatus(S, to) /\ UNCHANGED campaign
    BY <1>3 DEF Lifecycle!Withdraw
  <2> QED
    BY <2>1, RowsMoved
<1> USE DEF TypeOK, Row, Lifecycle!Row, Lifecycle!RowsOf, Lifecycle!SetStatus, Lifecycle!SetCampaign, Queued
<1> DEFINE Moved == Stays(c) \/ Launched(c) \/ Steered(c)
<1>0. \A a \in Addresses : <<c, a>> \in Row /\ <<c, a>>[1] = c /\ status[<<c, a>>] \in DeliveryStatus
  OBVIOUS
<1>4. ASSUME NEW d \in Campaigns, Lifecycle!Launch(d) PROVE Moved
  <2>1. PICK S \in SUBSET Lifecycle!RowsOf(d) :
          S # {} /\ (\A r \in S : status[r] = "ABSENT") /\ Lifecycle!SetStatus(S, "QUEUED")
    BY <1>4 DEF Lifecycle!Launch
  <2>2. CASE d = c
    <3>1. PICK r \in S : r \in Row /\ r[1] = c
      BY <2>1, <2>2
    <3>2. r[2] \in Addresses /\ r = <<c, r[2]>>
      BY <3>1
    <3>3. status'[r] = "QUEUED"
      BY <2>1, <3>1
    <3>4. r[2] \in Queued(c)'
      <4>1. status'[<<c, r[2]>>] = "QUEUED"
        BY <3>2, <3>3, Zenon
      <4> QED
        BY <3>2, <4>1
    <3> QED
      BY <1>4, <2>2, <3>4 DEF Lifecycle!Launch, Launched
  <2>3. CASE d # c
    <3>1. \A a \in Addresses : <<c, a>> \notin S
      BY <2>1, <2>3
    <3>2. \A a \in Addresses : status'[<<c, a>>] = status[<<c, a>>]
      BY <1>0, <2>1, <3>1
    <3> QED
      BY <1>4, <2>3, <3>2 DEF Lifecycle!Launch, Stays
  <2> QED
    BY <2>2, <2>3
<1>5. ASSUME NEW C \in SUBSET Campaigns, NEW to \in {"SENDING", "PAUSED", "CANCELLED"},
             Lifecycle!Steer(C, to)
      PROVE  Moved
  <2>1. Queued(c)' = Queued(c)
    BY <1>5 DEF Lifecycle!Steer
  <2> QED
    BY <1>5, <2>1 DEF Lifecycle!Steer, Steered, Stays
<1>6. ASSUME NEW C \in SUBSET Campaigns, Lifecycle!Complete(C) PROVE Moved
  <2>1. Queued(c)' = Queued(c)
    BY <1>6 DEF Lifecycle!Complete
  <2> QED
    BY <1>6, <2>1 DEF Lifecycle!Complete, Lifecycle!Active, Steered, Stays
<1>7. CASE UNCHANGED <<campaign, status>>
  BY <1>7 DEF Stays
<1> QED
  BY <1>1, <1>2, <1>3, <1>4, <1>5, <1>6, <1>7 DEF LifecycleStep, Lifecycle!Next

\* A campaign that was queued has rows.
LEMMA RowsAre ==
  /\ Init => RowsInv
  /\ TypeOK /\ RowsInv /\ LifecycleStep => RowsInv'
<1>2. Init => RowsInv
  BY DEF Init, RowsInv
<1>3. ASSUME TypeOK, RowsInv, LifecycleStep, NEW c \in Campaigns, campaign'[c] # "DRAFT" PROVE Queued(c)' # {}
  <2>1. Stays(c) \/ Launched(c) \/ Steered(c)
    BY <1>3, LifecycleMoves
  <2> QED
    BY <1>3, <2>1 DEF RowsInv, Stays, Launched, Steered
<1>4. ASSUME TypeOK, RowsInv, LifecycleStep PROVE RowsInv'
  BY <1>3, <1>4 DEF RowsInv
<1> QED
  BY <1>2, <1>4

\* Each of them is a step that CampaignLifecycle has for that campaign.
LEMMA MovesAreCampaigns ==
  ASSUME TypeOK, RowsInv, LifecycleStep, NEW c \in Campaigns
  PROVE  [Campaign(c)!CampaignStep(c)]_(Campaign(c)!vars)
<1> DEFINE now == [d \in {c} |-> campaign[d]]
           then == [d \in {c} |-> campaign'[d]]
           had == [d \in {c} |-> {a \in Addresses : status[<<d, a>>] # "ABSENT"}]
           has == [d \in {c} |-> {a \in Addresses : status'[<<d, a>>] # "ABSENT"}]
<1>1. Stays(c) \/ Launched(c) \/ Steered(c)
  BY LifecycleMoves
<1>2. now[c] = campaign[c] /\ then = [now EXCEPT ![c] = campaign'[c]]
  OBVIOUS
<1>3. had[c] = Queued(c) /\ has[c] = Queued(c)' /\ has = [had EXCEPT ![c] = Queued(c)'] /\ (has[c] = had[c] => has = had)
  BY DEF Queued
<1>4. CASE Stays(c)
  <2>1. then = now /\ has = had
    BY <1>3, <1>4 DEF Stays
  <2> QED
    BY <2>1 DEF Campaign!vars
<1>5. CASE Launched(c)
  <2>1. Queued(c)' \in (SUBSET Addresses) \ {{}}
    BY <1>5 DEF Launched, Queued
  <2>2. Campaign(c)!Start(c)
    BY <1>2, <1>3, <1>5, <2>1 DEF Launched, Campaign!Start, Campaign!Becomes, Campaign!Queues
  <2> QED
    BY <2>2 DEF Campaign!CampaignStep
<1>6. CASE Steered(c)
  <2>1. Queued(c) # {}
    BY <1>6 DEF Steered, RowsInv
  <2>2. has = had
    BY <1>3, <1>6 DEF Steered
  <2>3. CASE campaign'[c] = "CANCELLED"
    <3>1. Campaign(c)!Withdraw(c)
      BY <1>2, <1>6, <2>2, <2>3 DEF Steered, Campaign!Withdraw, Campaign!Becomes
    <3> QED
      BY <3>1 DEF Campaign!CampaignStep
  <2>4. CASE campaign'[c] # "CANCELLED"
    <3>1. Campaign(c)!Deliver(c)
      BY <1>2, <1>3, <1>6, <2>1, <2>2, <2>4 DEF Steered, Campaign!Deliver, Campaign!Becomes
    <3> QED
      BY <3>1 DEF Campaign!CampaignStep
  <2> QED
    BY <2>3, <2>4
<1> QED
  BY <1>1, <1>4, <1>5, <1>6

\* Whatever the queue does to a campaign is a step CampaignLifecycle has for it.
LEMMA QueueMovesAsExpected == Spec => MovesAsActivationExpects
<1>1. TypeOK /\ AudienceInv /\ RowsInv /\ [Next]_vars => RowsInv'
  BY RowsAre, StepSimulates
<1>2. TypeOK /\ AudienceInv /\ RowsInv /\ [Next]_vars
        => [\A c \in Campaigns : [Campaign(c)!CampaignStep(c)]_(Campaign(c)!vars)]_vars
  BY StepSimulates, MovesAreCampaigns
<1>3. Init => RowsInv
  BY RowsAre
<1> QED
  BY <1>1, <1>2, <1>3, AudienceAlways, PTL DEF Spec, MovesAsActivationExpects

-----------------------------------------------------------------------------
(***************************************************************************)
(* The theorems.                                                           *)
(***************************************************************************)

\* The queue implements the lifecycle: with ticks, leases, retries, faults and
\* requests in any order, statuses move only as DeliveryLifecycle allows, and a
\* campaign with its rows only as CampaignActivation takes the queue to move them.
THEOREM QueueImplementsLifecycle == Spec => ImplementsLifecycle
<1>1. [LifecycleStep]_<<campaign, status>> => [Lifecycle!Next]_Lifecycle!vars
  BY DEF LifecycleStep, Lifecycle!vars
<1>2. TypeOK /\ AudienceInv /\ [Next]_vars => [Lifecycle!Next]_Lifecycle!vars
  BY <1>1, StepSimulates
<1>3. Init => Lifecycle!Init
  BY InitSimulates
<1>4. Spec => Lifecycle!Spec
  BY <1>2, <1>3, AudienceAlways, PTL DEF Spec, Lifecycle!Spec
<1> QED
  BY <1>4, QueueMovesAsExpected DEF ImplementsLifecycle

\* The abstract lifecycle touches a row only while it is pending, or to launch
\* its campaign.
LEMMA LifecycleRows ==
  ASSUME TypeOK, LifecycleStep, NEW r \in Row, status'[r] # status[r]
  PROVE  \/ status[r] \in Pending
         \/ campaign[CampaignOf(r)] = "DRAFT" /\ status[r] = "ABSENT"
<1> USE DEF TypeOK, Row, CampaignOf, Pending, Lifecycle!Row, Lifecycle!RowsOf, Lifecycle!SetStatus
<1> DEFINE Touchable == \/ status[r] \in Pending
                        \/ campaign[CampaignOf(r)] = "DRAFT" /\ status[r] = "ABSENT"
<1>1. ASSUME NEW d \in Campaigns, Lifecycle!Launch(d) PROVE Touchable
  BY <1>1 DEF Lifecycle!Launch
<1>2. ASSUME NEW S \in SUBSET Lifecycle!Row, Lifecycle!Claim(S) PROVE Touchable
  BY <1>2 DEF Lifecycle!Claim
<1>3. ASSUME NEW S \in SUBSET Lifecycle!Row, NEW to, Lifecycle!Resolve(S, to) PROVE Touchable
  BY <1>3 DEF Lifecycle!Resolve
<1>4. ASSUME NEW S \in SUBSET Lifecycle!Row, NEW to, Lifecycle!Withdraw(S, to) PROVE Touchable
  BY <1>4 DEF Lifecycle!Withdraw
<1>5. ASSUME NEW C \in SUBSET Campaigns, NEW to, Lifecycle!Steer(C, to) \/ Lifecycle!Complete(C)
      PROVE Touchable
  BY <1>5 DEF Lifecycle!Steer, Lifecycle!Complete
<1> HIDE DEF Touchable
<1>6. Touchable
  BY <1>1, <1>2, <1>3, <1>4, <1>5 DEF LifecycleStep, Lifecycle!Next
<1> QED
  BY <1>6 DEF Touchable

\* It completes a campaign only with nothing pending, in a step of its own.
LEMMA LifecycleCompletes ==
  ASSUME TypeOK, LifecycleStep, NEW c \in Campaigns,
         campaign'[c] = "COMPLETED", campaign[c] # "COMPLETED"
  PROVE  UNCHANGED status /\ \A r \in RowsOf(c) : status[r] \notin Pending
<1> USE DEF TypeOK, Row, RowsOf, CampaignOf, Pending, Lifecycle!Row, Lifecycle!RowsOf,
            Lifecycle!Pending, Lifecycle!SetCampaign
<1> DEFINE Drained == UNCHANGED status /\ \A r \in RowsOf(c) : status[r] \notin Pending
<1>1. ASSUME NEW d \in Campaigns, Lifecycle!Launch(d) PROVE FALSE
  BY <1>1 DEF Lifecycle!Launch
<1>2. ASSUME NEW S, NEW to, Lifecycle!Claim(S) \/ Lifecycle!Resolve(S, to) \/ Lifecycle!Withdraw(S, to)
      PROVE FALSE
  BY <1>2 DEF Lifecycle!Claim, Lifecycle!Resolve, Lifecycle!Withdraw
<1>3. ASSUME NEW C \in SUBSET Campaigns, NEW to \in {"SENDING", "PAUSED", "CANCELLED"},
             Lifecycle!Steer(C, to)
      PROVE FALSE
  BY <1>3 DEF Lifecycle!Steer
<1>4. ASSUME NEW C \in SUBSET Campaigns, Lifecycle!Complete(C) PROVE Drained
  BY <1>4 DEF Lifecycle!Complete
<1> HIDE DEF Drained
<1>5. Drained
  BY <1>1, <1>2, <1>3, <1>4 DEF LifecycleStep, Lifecycle!Next
<1> QED
  BY <1>5 DEF Drained

\* Late writes, reclaims and requests never take a row out of SENT, FAILED,
\* SUPPRESSED or CANCELLED.
THEOREM TerminalForever == Spec => TerminalIsFinal
<1>1. TypeOK /\ AudienceInv /\ [Next]_vars =>
        \A r \in Row : status[r] \in Terminal => status'[r] = status[r]
  BY StepSimulates, LifecycleRows DEF Terminal, Pending
<1> QED
  BY <1>1, AudienceAlways, PTL DEF Spec, TerminalIsFinal

\* No late retry, release, reclaim or resume reopens a completed campaign.
THEOREM CompletedForever == Spec => []CompletedIsDone
<1>1. Init => CompletedIsDone
  BY DEF Init, CompletedIsDone
<1>2. ASSUME TypeOK, AudienceInv, CompletedIsDone, [Next]_vars PROVE CompletedIsDone'
  <2>1. SUFFICES ASSUME NEW c \in Campaigns, campaign'[c] = "COMPLETED", NEW r \in RowsOf(c)
                 PROVE  status'[r] \notin Pending
    BY DEF CompletedIsDone, RowsOf, Row, CampaignOf, Pending
  <2>2. LifecycleStep
    BY <1>2, StepSimulates
  <2>3. CASE campaign[c] = "COMPLETED"
    BY <1>2, <2>2, <2>3, LifecycleRows DEF CompletedIsDone, RowsOf
  <2>4. CASE campaign[c] # "COMPLETED"
    BY <1>2, <2>1, <2>2, <2>4, LifecycleCompletes
  <2> QED
    BY <2>3, <2>4
<1> QED
  BY <1>1, <1>2, AudienceAlways, PTL DEF Spec

-----------------------------------------------------------------------------
(* How often a recipient is mailed.  A step of the queue makes one of a      *)
(* dozen moves on each row; the invariant RowInv is about a single row and   *)
(* is preserved by every move, so it holds for any number of ticks.          *)

\* Ticks that may still put r on the wire.
Tokens(r) == {w \in Workers : job[w][r] \in Undelivered}

\* Nobody works on r, and some tick may claim it, now or after a reclaim.
Loose(r) ==
  IF status[r] = "QUEUED" \/ (status[r] = "SENDING" /\ claimedBy[r] \notin Holders(r))
  THEN 1 ELSE 0

\* A row owes one message; each loss of knowledge lets it owe one more.
Accounted(r) == delivered[r] + Cardinality(Tokens(r)) + Loose(r) <= 1 + excused[r]

RowInv(r) ==
  /\ Accounted(r)
  /\ status[r] = "ABSENT" => delivered[r] = 0 /\ \A w \in Workers : job[w][r] = "none"
  /\ \A w \in Workers : excused[r] = 0 /\ job[w][r] # "none" =>
       status[r] = "SENDING" /\ claimedBy[r] = w
  /\ \A w \in Workers : job[w][r] = "accepted" => delivered[r] > 0
  /\ status[r] = "SENT" => delivered[r] > 0
  /\ excused[r] = 0 /\ delivered[r] > 0 =>
       status[r] = "SENT" \/ \E w \in Workers : job[w][r] = "accepted"

\* Which jobs a tick can have where.
PhaseInv ==
  \A w \in Workers, r \in Row :
    /\ job[w][r] # "none" => phase[w] \in {"start", "filter", "send"}
    /\ phase[w] \in {"start", "filter"} => job[w][r] \in {"none", "claimed"}

DeliveryInv == PhaseInv /\ \A r \in Row : RowInv(r)

-----------------------------------------------------------------------------
(***************************************************************************)
(* The moves a step can make on one row.                                   *)
(***************************************************************************)
SameClaim(r)   == status'[r] = status[r] /\ claimedBy'[r] = claimedBy[r]
SameJobs(r)    == \A v \in Workers : job'[v][r] = job[v][r]
SameHistory(r) == delivered'[r] = delivered[r] /\ excused'[r] = excused[r]
OnlyJobOf(w, r) == \A v \in Workers \ {w} : job'[v][r] = job[v][r]

Rests(r) == SameClaim(r) /\ SameJobs(r) /\ SameHistory(r)

Launches(r) ==
  /\ status[r] = "ABSENT" /\ status'[r] = "QUEUED"
  /\ SameJobs(r) /\ SameHistory(r)

IsWithdrawn(r) ==
  /\ status[r] = "QUEUED" /\ status'[r] \in {"SUPPRESSED", "CANCELLED"}
  /\ SameJobs(r) /\ SameHistory(r)

IsReclaimed(r) ==
  /\ status[r] = "SENDING" /\ status'[r] \in {"QUEUED", "FAILED"}
  /\ SameJobs(r)
  /\ delivered'[r] = delivered[r]
  /\ excused'[r] = IF claimedBy[r] \in Holders(r) THEN excused[r] + 1 ELSE excused[r]

IsClaimed(w, r) ==
  /\ status[r] = "QUEUED" /\ status'[r] = "SENDING" /\ claimedBy'[r] = w
  /\ job[w][r] = "none" /\ job'[w][r] = "claimed" /\ OnlyJobOf(w, r)
  /\ SameHistory(r)

IsHandled(w, r) ==
  /\ job[w][r] \in Undelivered /\ job'[w][r] \in Undelivered /\ OnlyJobOf(w, r)
  /\ SameClaim(r) /\ SameHistory(r)

LosesReply(w, r) ==
  /\ job[w][r] \in Undelivered /\ job'[w][r] \in Undelivered /\ OnlyJobOf(w, r)
  /\ SameClaim(r)
  /\ delivered'[r] = delivered[r] + 1 /\ excused'[r] = excused[r] + 1

IsAccepted(w, r) ==
  /\ job[w][r] \in Undelivered /\ job'[w][r] = "accepted" /\ OnlyJobOf(w, r)
  /\ SameClaim(r)
  /\ delivered'[r] = delivered[r] + 1 /\ excused'[r] = excused[r]

IsResolved(w, r) ==
  /\ job[w][r] \in Undelivered /\ job'[w][r] = "none" /\ OnlyJobOf(w, r)
  /\ SameHistory(r)
  /\ IF status[r] = "SENDING" THEN status'[r] \in {"QUEUED", "FAILED", "SUPPRESSED"}
                              ELSE SameClaim(r)

IsRecorded(w, r) ==
  /\ job[w][r] = "accepted" /\ job'[w][r] = "none" /\ OnlyJobOf(w, r)
  /\ SameHistory(r)
  /\ IF status[r] = "SENDING" THEN status'[r] = "SENT" ELSE SameClaim(r)

IsForgotten(w, r) ==
  /\ job[w][r] = "accepted" /\ job'[w][r] = "tempfail" /\ OnlyJobOf(w, r)
  /\ delivered'[r] = delivered[r] /\ excused'[r] = excused[r] + 1
  /\ SameClaim(r) \/ (status[r] = "SENDING" /\ status'[r] = "SENT")

IsDropped(w, r) ==
  /\ job[w][r] # "none" /\ job'[w][r] = "none" /\ OnlyJobOf(w, r)
  /\ SameClaim(r)
  /\ delivered'[r] = delivered[r]
  /\ excused'[r] = IF job[w][r] = "accepted" THEN excused[r] + 1 ELSE excused[r]

MoveOf(w, r) ==
  \/ IsClaimed(w, r) \/ IsHandled(w, r) \/ LosesReply(w, r) \/ IsAccepted(w, r)
  \/ IsResolved(w, r) \/ IsRecorded(w, r) \/ IsForgotten(w, r) \/ IsDropped(w, r)

RowMove(r) ==
  \/ Rests(r) \/ Launches(r) \/ IsWithdrawn(r) \/ IsReclaimed(r)
  \/ \E w \in Workers : MoveOf(w, r)

-----------------------------------------------------------------------------
(***************************************************************************)
(* Every move preserves RowInv.                                            *)
(***************************************************************************)
LEMMA TokensCounted ==
  ASSUME NEW r \in Row
  PROVE  IsFiniteSet(Tokens(r)) /\ Cardinality(Tokens(r)) \in Nat
<1>1. IsFiniteSet(Tokens(r))
  BY SendQueueAssumption, FS_Subset DEF Tokens
<1> QED
  BY <1>1, FS_CardinalityType

\* Jobs that stay as they are, stay counted as they are.
LEMMA SameTokens ==
  ASSUME NEW r \in Row, SameJobs(r)
  PROVE  Tokens(r)' = Tokens(r) /\ Holders(r)' = Holders(r)
  BY DEF SameJobs, Tokens, Holders

\* Only one tick's job for r changes: its token is kept, given up or created.
LEMMA OneToken ==
  ASSUME NEW w \in Workers, NEW r \in Row, OnlyJobOf(w, r)
  PROVE  /\ (job[w][r] \in Undelivered <=> job'[w][r] \in Undelivered) =>
              Cardinality(Tokens(r))' = Cardinality(Tokens(r))
         /\ job[w][r] \in Undelivered /\ job'[w][r] \notin Undelivered =>
              Cardinality(Tokens(r))' = Cardinality(Tokens(r)) - 1
         /\ job[w][r] \notin Undelivered /\ job'[w][r] \in Undelivered =>
              Cardinality(Tokens(r))' = Cardinality(Tokens(r)) + 1
<1>1. CASE job[w][r] \in Undelivered <=> job'[w][r] \in Undelivered
  <2>1. Tokens(r)' = Tokens(r)
    BY <1>1 DEF OnlyJobOf, Tokens
  <2> QED
    BY <1>1, <2>1
<1>2. CASE job[w][r] \in Undelivered /\ job'[w][r] \notin Undelivered
  <2>1. Tokens(r)' = Tokens(r) \ {w} /\ w \in Tokens(r)
    BY <1>2 DEF OnlyJobOf, Tokens
  <2>2. Cardinality(Tokens(r)') = Cardinality(Tokens(r)) - 1
    BY <2>1, TokensCounted, FS_RemoveElement
  <2> QED
    BY <1>2, <2>2
<1>3. CASE job[w][r] \notin Undelivered /\ job'[w][r] \in Undelivered
  <2>1. Tokens(r)' = Tokens(r) \cup {w} /\ w \notin Tokens(r)
    BY <1>3 DEF OnlyJobOf, Tokens
  <2>2. Cardinality(Tokens(r)') = Cardinality(Tokens(r)) + 1
    BY <2>1, TokensCounted, FS_AddElement
  <2> QED
    BY <1>3, <2>2
<1> QED
  BY <1>1, <1>2, <1>3

LEMMA MovesAccount ==
  ASSUME TypeOK, TypeOK', NEW r \in Row, RowInv(r), RowMove(r)
  PROVE  Accounted(r)'
<1> DEFINE n == Cardinality(Tokens(r))
<1>1. n \in Nat /\ delivered[r] \in Nat /\ excused[r] \in Nat
      /\ Loose(r) \in {0, 1} /\ Loose(r)' \in {0, 1} /\ Accounted(r)
  BY TokensCounted DEF TypeOK, Loose, RowInv
<1>2. CASE Rests(r) \/ IsWithdrawn(r) \/ IsReclaimed(r)
  <2>1. Tokens(r)' = Tokens(r) /\ Holders(r)' = Holders(r)
    BY <1>2, SameTokens DEF Rests, IsWithdrawn, IsReclaimed
  <2>2. delivered'[r] + Loose(r)' - excused'[r] <= delivered[r] + Loose(r) - excused[r]
    BY <1>1, <1>2, <2>1 DEF Rests, IsWithdrawn, IsReclaimed, SameClaim, SameHistory, Loose, TypeOK
  <2> HIDE DEF n
  <2>3. delivered'[r] + n + Loose(r)' <= 1 + excused'[r]
    <3>1. delivered[r] + n + Loose(r) <= 1 + excused[r]
      BY <1>1 DEF Accounted, n
    <3>2. delivered'[r] \in Nat /\ excused'[r] \in Nat
      BY DEF TypeOK
    <3> QED
      BY <1>1, <2>2, <3>1, <3>2
  <2> QED
    BY <2>1, <2>3 DEF Accounted, n
<1>3. CASE Launches(r)
  <2>1. Tokens(r)' = {} /\ delivered'[r] = 0
    BY <1>3 DEF Launches, RowInv, Tokens, Undelivered, SameJobs, SameHistory
  <2>2. Cardinality(Tokens(r)') = 0
    BY <2>1, FS_EmptySet
  <2>3. excused'[r] \in Nat
    BY DEF TypeOK
  <2> QED
    BY <1>1, <2>1, <2>2, <2>3 DEF Accounted
<1>4. ASSUME NEW w \in Workers, MoveOf(w, r) PROVE Accounted(r)'
  <2> DEFINE m == Cardinality(Tokens(r))'
  <2>1. OnlyJobOf(w, r)
    BY <1>4 DEF MoveOf, IsClaimed, IsHandled, LosesReply, IsAccepted, IsResolved, IsRecorded,
                IsForgotten, IsDropped
  <2>2. \A v \in Workers \ {w} : v \in Holders(r)' <=> v \in Holders(r)
    BY <2>1 DEF OnlyJobOf, Holders
  <2>3. /\ w \in Holders(r)' <=> job'[w][r] # "none"
        /\ w \in Holders(r) <=> job[w][r] # "none"
    BY DEF Holders
  <2>4. /\ (job[w][r] \in Undelivered <=> job'[w][r] \in Undelivered) => m = n
        /\ job[w][r] \in Undelivered /\ job'[w][r] \notin Undelivered => m = n - 1
        /\ job[w][r] \notin Undelivered /\ job'[w][r] \in Undelivered => m = n + 1
    BY <2>1, OneToken
  <2>5. delivered[r] + n + Loose(r) <= 1 + excused[r]
    BY <1>1 DEF Accounted
  <2>6. claimedBy[r] \in Workers \cup {NoWorker} /\ NoWorker \notin Holders(r) \cup Holders(r)'
    BY SendQueueAssumption DEF TypeOK, Holders
  <2> HIDE DEF m, n
  <2> USE <1>1, <2>4, <2>5
  <2>7. delivered'[r] + m + Loose(r)' <= 1 + excused'[r]
    <3>1. CASE IsClaimed(w, r)
      BY <3>1, <2>3 DEF IsClaimed, SameHistory, Loose, Undelivered
    <3>2. CASE IsHandled(w, r) \/ LosesReply(w, r) \/ IsAccepted(w, r)
      <4>1. Loose(r)' = Loose(r)
        BY <3>2, <2>2, <2>3, <2>6
        DEF IsHandled, LosesReply, IsAccepted, SameClaim, Loose, Undelivered
      <4> QED
        BY <3>2, <4>1 DEF IsHandled, LosesReply, IsAccepted, SameHistory, Undelivered
    <3>3. CASE IsResolved(w, r)
      <4>1. Loose(r)' <= Loose(r) + 1
        BY <1>1
      <4> QED
        BY <3>3, <4>1 DEF IsResolved, SameHistory, Undelivered
    <3>4. CASE IsRecorded(w, r)
      <4>1. Loose(r)' <= Loose(r)
        BY <3>4, <2>2, <2>3, <2>6 DEF IsRecorded, SameClaim, Loose
      <4> QED
        BY <3>4, <4>1 DEF IsRecorded, SameHistory, Undelivered
    <3>5. CASE IsForgotten(w, r)
      <4>1. Loose(r)' <= Loose(r)
        BY <3>5, <2>2, <2>3, <2>6 DEF IsForgotten, SameClaim, Loose
      <4> QED
        BY <3>5, <4>1 DEF IsForgotten, Undelivered
    <3>6. CASE IsDropped(w, r)
      <4>1. Loose(r)' <= Loose(r) + 1
        BY <1>1
      <4>2. job[w][r] \in Undelivered \/ job[w][r] = "accepted"
        BY <3>6 DEF IsDropped, TypeOK, Job
      <4> QED
        BY <3>6, <4>1, <4>2 DEF IsDropped, Undelivered
    <3> QED
      BY <1>4, <3>1, <3>2, <3>3, <3>4, <3>5, <3>6 DEF MoveOf
  <2> QED
    BY <2>7 DEF Accounted, m
<1> QED
  BY <1>2, <1>3, <1>4 DEF RowMove

LEMMA MovesKeepAbsent ==
  ASSUME TypeOK, TypeOK', NEW r \in Row, RowInv(r), RowMove(r), status'[r] = "ABSENT"
  PROVE  delivered'[r] = 0 /\ \A w \in Workers : job'[w][r] = "none"
<1>1. CASE Rests(r)
  BY <1>1 DEF RowInv, Rests, SameClaim, SameJobs, SameHistory
<1>2. CASE ~Rests(r)
  BY <1>2 DEF RowInv, RowMove, MoveOf, Launches, IsWithdrawn, IsReclaimed, IsClaimed, IsHandled,
              LosesReply, IsAccepted, IsResolved, IsRecorded, IsForgotten, IsDropped, SameClaim,
              Undelivered
<1> QED
  BY <1>1, <1>2

LEMMA MovesKeepClaimant ==
  ASSUME TypeOK, TypeOK', NEW r \in Row, RowInv(r), RowMove(r),
         NEW v \in Workers, excused'[r] = 0, job'[v][r] # "none"
  PROVE  status'[r] = "SENDING" /\ claimedBy'[r] = v
<1>1. excused[r] = 0 /\ job[v][r] # "none" => status[r] = "SENDING" /\ claimedBy[r] = v
  BY DEF RowInv
<1>2. excused[r] \in Nat /\ \A w \in Workers : job[w][r] # "none" <=> w \in Holders(r)
  BY DEF TypeOK, Holders
<1>3. CASE Rests(r)
  BY <1>1, <1>3 DEF Rests, SameClaim, SameJobs, SameHistory
<1>4. CASE Launches(r) \/ IsWithdrawn(r)
  BY <1>1, <1>4 DEF Launches, IsWithdrawn, SameJobs, SameHistory
<1>5. CASE IsReclaimed(r)
  BY <1>1, <1>2, <1>5 DEF IsReclaimed, SameJobs
<1>6. ASSUME NEW w \in Workers, MoveOf(w, r)
      PROVE  status'[r] = "SENDING" /\ claimedBy'[r] = v
  <2>1. \A u \in Workers \ {w} : job'[u][r] = job[u][r]
    BY <1>6 DEF MoveOf, IsClaimed, IsHandled, LosesReply, IsAccepted, IsResolved, IsRecorded,
                IsForgotten, IsDropped, OnlyJobOf
  <2>2. excused[r] = 0 /\ job[w][r] # "none" => status[r] = "SENDING" /\ claimedBy[r] = w
    BY DEF RowInv
  <2>3. CASE IsClaimed(w, r)
    BY <1>1, <2>1, <2>3 DEF IsClaimed, SameHistory
  <2>4. CASE IsHandled(w, r) \/ IsAccepted(w, r)
    BY <1>1, <2>1, <2>2, <2>4 DEF IsHandled, IsAccepted, SameClaim, SameHistory, Undelivered
  <2>5. CASE LosesReply(w, r) \/ IsForgotten(w, r)
    BY <1>2, <2>5 DEF LosesReply, IsForgotten
  <2>6. CASE IsResolved(w, r) \/ IsRecorded(w, r)
    <3>1. v # w /\ excused[r] = 0 /\ job[v][r] # "none" /\ job[w][r] # "none"
      BY <2>1, <2>6 DEF IsResolved, IsRecorded, SameHistory, Undelivered
    <3> QED
      BY <3>1, <1>1, <2>2
  <2>7. CASE IsDropped(w, r)
    <3>1. v # w /\ excused[r] = 0 /\ job[v][r] # "none" /\ job[w][r] # "none"
      BY <1>2, <2>1, <2>7 DEF IsDropped
    <3> QED
      BY <3>1, <1>1, <2>2
  <2> QED
    BY <1>6, <2>3, <2>4, <2>5, <2>6, <2>7 DEF MoveOf
<1> QED
  BY <1>3, <1>4, <1>5, <1>6 DEF RowMove

\* What the row and the loops say about deliveries.
LEMMA MovesKeepReport ==
  ASSUME TypeOK, TypeOK', NEW r \in Row, RowInv(r), RowMove(r)
  PROVE  /\ \A w \in Workers : job'[w][r] = "accepted" => delivered'[r] > 0
         /\ status'[r] = "SENT" => delivered'[r] > 0
         /\ excused'[r] = 0 /\ delivered'[r] > 0 =>
              status'[r] = "SENT" \/ \E w \in Workers : job'[w][r] = "accepted"
<1> DEFINE Report == /\ \A w \in Workers : job[w][r] = "accepted" => delivered[r] > 0
                     /\ status[r] = "SENT" => delivered[r] > 0
                     /\ excused[r] = 0 /\ delivered[r] > 0 =>
                          status[r] = "SENT" \/ \E w \in Workers : job[w][r] = "accepted"
<1>1. Report /\ delivered[r] \in Nat /\ excused[r] \in Nat
  BY DEF RowInv, TypeOK
<1>2. CASE Rests(r)
  BY <1>1, <1>2 DEF Rests, SameClaim, SameJobs, SameHistory
<1>3. CASE Launches(r) \/ IsWithdrawn(r)
  BY <1>1, <1>3 DEF Launches, IsWithdrawn, SameJobs, SameHistory
<1>4. CASE IsReclaimed(r)
  BY <1>1, <1>4 DEF IsReclaimed, SameJobs
<1>5. ASSUME NEW w \in Workers, MoveOf(w, r) PROVE Report'
  <2>1. CASE IsClaimed(w, r)
    BY <1>1, <2>1 DEF IsClaimed, OnlyJobOf, SameHistory
  <2>2. CASE IsHandled(w, r)
    BY <1>1, <2>2 DEF IsHandled, OnlyJobOf, SameClaim, SameHistory, Undelivered
  <2>3. CASE LosesReply(w, r)
    BY <1>1, <2>3 DEF LosesReply, OnlyJobOf, SameClaim, Undelivered
  <2>4. CASE IsAccepted(w, r)
    BY <1>1, <2>4 DEF IsAccepted, OnlyJobOf, SameClaim
  <2>5. CASE IsResolved(w, r)
    BY <1>1, <2>5 DEF IsResolved, OnlyJobOf, SameClaim, SameHistory, Undelivered
  <2>6. CASE IsRecorded(w, r)
    <3>1. excused[r] = 0 => status[r] = "SENDING"
      BY <2>6 DEF IsRecorded, RowInv
    <3> QED
      BY <1>1, <2>6, <3>1 DEF IsRecorded, OnlyJobOf, SameClaim, SameHistory
  <2>7. CASE IsForgotten(w, r)
    BY <1>1, <2>7 DEF IsForgotten, OnlyJobOf, SameClaim
  <2>8. CASE IsDropped(w, r)
    BY <1>1, <2>8 DEF IsDropped, OnlyJobOf, SameClaim
  <2> QED
    BY <1>5, <2>1, <2>2, <2>3, <2>4, <2>5, <2>6, <2>7, <2>8 DEF MoveOf
<1> QED
  BY <1>2, <1>3, <1>4, <1>5 DEF RowMove

LEMMA MovesKeepRowInv ==
  ASSUME TypeOK, TypeOK', NEW r \in Row, RowInv(r), RowMove(r)
  PROVE  RowInv(r)'
  BY MovesAccount, MovesKeepAbsent, MovesKeepClaimant, MovesKeepReport DEF RowInv

-----------------------------------------------------------------------------
(***************************************************************************)
(* Every step is such a move on every row.                                 *)
(***************************************************************************)
LEMMA RequestsMove ==
  ASSUME TypeOK, Requests, NEW r \in Row
  PROVE  RowMove(r)
<1> USE DEF tables, row, claim, tick, batch, requests, history,
            Rests, SameClaim, SameJobs, SameHistory, TypeOK
<1>1. ASSUME NEW c \in Campaigns, QueueCampaign(c) PROVE Rests(r) \/ Launches(r)
  BY <1>1 DEF QueueCampaign, Launches, RowsOf
<1>2. ASSUME NEW c \in Campaigns, CancelQueuedRows(c) PROVE Rests(r) \/ IsWithdrawn(r)
  BY <1>2 DEF CancelQueuedRows, IsWithdrawn, RowsOf, Move
<1>3. ASSUME NEW a \in Addresses, SuppressQueuedRows(a) PROVE Rests(r) \/ IsWithdrawn(r)
  BY <1>3 DEF SuppressQueuedRows, IsWithdrawn, Move
<1>4. ASSUME NEW c \in Campaigns,
             ReadAudience(c) \/ PauseCampaign(c) \/ ResumeCampaign(c) \/ CancelCampaign(c)
      PROVE  Rests(r)
  BY <1>4 DEF ReadAudience, PauseCampaign, ResumeCampaign, CancelCampaign
<1>5. ASSUME NEW a \in Addresses, SuppressEmail(a) \/ LiftSuppression(a) PROVE Rests(r)
  BY <1>5 DEF SuppressEmail, LiftSuppression
<1> QED
  BY <1>1, <1>2, <1>3, <1>4, <1>5 DEF Requests, RowMove

\* What a loop of sendBatch does to the row q it works on, and to the others.
LEMMA OutcomeMove ==
  ASSUME TypeOK, NEW w \in Workers, NEW q \in Row, Outcome(w, q), NEW r \in Row
  PROVE  RowMove(r)
<1> USE DEF tables, row, claim, tick, batch, requests, history,
            Rests, SameClaim, SameJobs, SameHistory, OnlyJobOf, TypeOK, SetJob
<1>1. CASE MarkSuppressed(w, q)
  BY <1>1 DEF MarkSuppressed, Leave, Move, IsResolved, Undelivered, RowMove, MoveOf
<1>2. CASE StartSend(w, q)
  BY <1>2 DEF StartSend, IsHandled, Undelivered, RowMove, MoveOf
<1>3. CASE SmtpAccepts(w, q)
  BY <1>3 DEF SmtpAccepts, IsAccepted, Undelivered, RowMove, MoveOf
<1>4. CASE SmtpRefuses(w, q)
  BY <1>4 DEF SmtpRefuses, IsHandled, Undelivered, RowMove, MoveOf
<1>5. CASE MarkSent(w, q)
  BY <1>5 DEF MarkSent, Leave, Move, IsRecorded, RowMove, MoveOf
<1>6. CASE ScheduleRetry(w, q)
  BY <1>6 DEF ScheduleRetry, ShouldRetry, Leave, Move, IsResolved, Undelivered, RowMove, MoveOf
<1>7. CASE MarkFailed(w, q)
  BY <1>7 DEF MarkFailed, Leave, Move, IsResolved, Undelivered, RowMove, MoveOf
<1>8. CASE ReleaseClaims(w, q)
  BY <1>8 DEF ReleaseClaims, Leave, Move, IsResolved, Undelivered, RowMove, MoveOf
<1> QED
  BY <1>1, <1>2, <1>3, <1>4, <1>5, <1>6, <1>7, <1>8 DEF Outcome

LEMMA TickMove ==
  ASSUME TypeOK, PhaseInv, NEW w \in Workers, TickStep(w), NEW r \in Row
  PROVE  RowMove(r)
<1> USE DEF tables, row, claim, tick, batch, requests, history,
            Rests, SameClaim, SameJobs, SameHistory, OnlyJobOf, TypeOK
<1>1. CASE ReclaimRetryable(w)
  BY <1>1 DEF ReclaimRetryable, Move, Overrun, Expired, IsReclaimed, RowMove
<1>2. CASE ReclaimExhausted(w)
  BY <1>2 DEF ReclaimExhausted, Move, Overrun, Expired, IsReclaimed, RowMove
<1>3. CASE ClaimRecipients(w)
  <2>1. job[w][r] = "none"
    BY <1>3 DEF ClaimRecipients, PhaseInv
  <2> QED
    BY <1>3, <2>1 DEF ClaimRecipients, Claimable, IsClaimed, RowMove, MoveOf
<1>4. CASE LeaveLoop(w) \/ MarkCampaignsStarted(w) \/ FinalizeCompletedCampaigns(w)
  BY <1>4 DEF LeaveLoop, MarkCampaignsStarted, FinalizeCompletedCampaigns, RowMove
<1>5. CASE FilterSuppressed(w)
  <2>1. job[w][r] \in {"none", "claimed"}
    BY <1>5 DEF FilterSuppressed, PhaseInv
  <2>2. /\ r \in Batch(w) <=> job[w][r] # "none"
        /\ Sendable(w) \subseteq Batch(w)
    BY DEF Batch, Sendable
  <2>3. /\ SameClaim(r) /\ SameHistory(r) /\ OnlyJobOf(w, r)
        /\ job'[w][r] = IF r \in Sendable(w) THEN "ready"
                        ELSE IF r \in Batch(w) THEN "suppress" ELSE "none"
    BY <1>5 DEF FilterSuppressed
  <2>4. CASE job[w][r] = "none"
    <3>1. SameJobs(r)
      BY <2>2, <2>3, <2>4
    <3> QED
      BY <2>3, <3>1 DEF RowMove
  <2>5. CASE job[w][r] = "claimed"
    <3>1. job'[w][r] \in {"ready", "suppress"}
      BY <2>2, <2>3, <2>5
    <3>2. IsHandled(w, r)
      BY <2>3, <2>5, <3>1 DEF IsHandled, Undelivered
    <3> QED
      BY <3>2 DEF RowMove, MoveOf
  <2> QED
    BY <2>1, <2>4, <2>5
<1>6. ASSUME NEW q \in Row, Outcome(w, q) PROVE RowMove(r)
  BY <1>6, OutcomeMove
<1>7. CASE BatchEnds(w)
  BY <1>7 DEF BatchEnds, Forget, NoJobs, IsDropped, RowMove, MoveOf
<1> QED
  BY <1>1, <1>2, <1>3, <1>4, <1>5, <1>6, <1>7 DEF TickStep

LEMMA EnvironmentMove ==
  ASSUME TypeOK, Environment, NEW r \in Row
  PROVE  RowMove(r)
<1> USE DEF tables, row, claim, tick, batch, requests, history,
            Rests, SameClaim, SameJobs, SameHistory, OnlyJobOf, TypeOK
<1>1. ASSUME NEW q \in Row, BecomeDue(q) \/ ExpireLease(q) PROVE Rests(r)
  BY <1>1 DEF BecomeDue, ExpireLease
<1>2. CASE RequestCrash
  BY <1>2 DEF RequestCrash, RowMove
<1>3. ASSUME NEW w \in Workers, Crash(w) PROVE RowMove(r)
  BY <1>3 DEF Crash, Forget, NoJobs, IsDropped, RowMove, MoveOf
<1>4. ASSUME NEW w \in Workers, NEW q \in Row, SmtpUnreachable(w, q) PROVE RowMove(r)
  BY <1>4 DEF SmtpUnreachable, SetJob, IsHandled, Undelivered, RowMove, MoveOf
<1>5. ASSUME NEW w \in Workers, NEW q \in Row, SmtpLosesReply(w, q) PROVE RowMove(r)
  BY <1>5 DEF SmtpLosesReply, SetJob, LosesReply, Undelivered, RowMove, MoveOf
<1>6. ASSUME NEW w \in Workers, NEW q \in Row, MarkSentThrows(w, q) PROVE RowMove(r)
  BY <1>6 DEF MarkSentThrows, SetJob, Leave, Move, IsForgotten, RowMove, MoveOf
<1>7. ASSUME NEW w \in Workers, NEW q \in Row, RecordThrows(w, q) PROVE RowMove(r)
  BY <1>7 DEF RecordThrows, SetJob, IsDropped, RowMove, MoveOf
<1> QED
  BY <1>1, <1>2, <1>3, <1>4, <1>5, <1>6, <1>7 DEF Environment, RowMove

LEMMA StepMoves ==
  ASSUME TypeOK, PhaseInv, [Next]_vars, NEW r \in Row
  PROVE  RowMove(r)
<1>1. CASE UNCHANGED vars
  BY <1>1 DEF vars, tables, row, claim, tick, history, RowMove, Rests, SameClaim, SameJobs, SameHistory
<1> QED
  BY <1>1, RequestsMove, TickMove, EnvironmentMove DEF Next

LEMMA PhaseStep ==
  ASSUME TypeOK, PhaseInv, [Next]_vars
  PROVE  PhaseInv'
<1> USE DEF tables, row, claim, tick, batch, requests, history, PhaseInv, TypeOK
<1>1. CASE UNCHANGED <<phase, job>>
  BY <1>1
<1>2. CASE Requests
  <2>1. ASSUME NEW c \in Campaigns,
               \/ ReadAudience(c) \/ QueueCampaign(c) \/ PauseCampaign(c)
               \/ ResumeCampaign(c) \/ CancelCampaign(c) \/ CancelQueuedRows(c)
        PROVE  UNCHANGED <<phase, job>>
    BY <2>1 DEF ReadAudience, QueueCampaign, PauseCampaign, ResumeCampaign, CancelCampaign,
                CancelQueuedRows
  <2>2. ASSUME NEW a \in Addresses, SuppressEmail(a) \/ SuppressQueuedRows(a) \/ LiftSuppression(a)
        PROVE  UNCHANGED <<phase, job>>
    BY <2>2 DEF SuppressEmail, SuppressQueuedRows, LiftSuppression
  <2> QED
    BY <1>1, <1>2, <2>1, <2>2 DEF Requests
\* A loop works on a job it has, and the phase stays.
<1>3. ASSUME NEW w \in Workers, NEW r \in Row, NEW j \in Job, SetJob(w, r, j),
             job[w][r] \notin {"none", "claimed"}, UNCHANGED phase
      PROVE  PhaseInv'
  BY <1>3 DEF SetJob
<1>4. ASSUME NEW w \in Workers, TickStep(w) PROVE PhaseInv'
  <2>1. CASE \/ ReclaimRetryable(w) \/ ReclaimExhausted(w) \/ LeaveLoop(w)
             \/ MarkCampaignsStarted(w) \/ FinalizeCompletedCampaigns(w)
    BY <2>1 DEF ReclaimRetryable, ReclaimExhausted, LeaveLoop, MarkCampaignsStarted,
                FinalizeCompletedCampaigns
  <2>2. CASE ClaimRecipients(w)
    BY <2>2 DEF ClaimRecipients, Claimable
  <2>3. CASE FilterSuppressed(w)
    BY <2>3 DEF FilterSuppressed
  <2>4. CASE BatchEnds(w)
    BY <2>4 DEF BatchEnds, Forget, NoJobs
  <2>5. ASSUME NEW r \in Row, Outcome(w, r) PROVE PhaseInv'
    <3>1. CASE MarkSuppressed(w, r)
      BY ZenonT(60), <1>3, <3>1 DEF MarkSuppressed, Job
    <3>2. CASE StartSend(w, r)
      <4>1. PICK j \in {"handoff", "transport"} : SetJob(w, r, j)
        BY <3>2 DEF StartSend
      <4>2. j \in Job /\ job[w][r] = "ready" /\ UNCHANGED phase
        BY <3>2 DEF StartSend, Job, Undelivered
      <4> QED
        BY ZenonT(60), <1>3, <4>1, <4>2
    <3>3. CASE SmtpAccepts(w, r)
      BY ZenonT(60), <1>3, <3>3 DEF SmtpAccepts, Job
    <3>4. CASE SmtpRefuses(w, r)
      BY ZenonT(60), <1>3, <3>4 DEF SmtpRefuses, Job, Undelivered
    <3>5. CASE MarkSent(w, r)
      BY ZenonT(60), <1>3, <3>5 DEF MarkSent, Job
    <3>6. CASE ScheduleRetry(w, r)
      BY ZenonT(60), <1>3, <3>6 DEF ScheduleRetry, ShouldRetry, Job
    <3>7. CASE MarkFailed(w, r)
      BY ZenonT(60), <1>3, <3>7 DEF MarkFailed, Job
    <3>8. CASE ReleaseClaims(w, r)
      BY ZenonT(60), <1>3, <3>8 DEF ReleaseClaims, Job
    <3> QED
      BY <2>5, <3>1, <3>2, <3>3, <3>4, <3>5, <3>6, <3>7, <3>8 DEF Outcome
  <2> QED
    BY <1>4, <2>1, <2>2, <2>3, <2>4, <2>5 DEF TickStep
<1>5. CASE Environment
  <2>1. CASE RequestCrash \/ \E r \in Row : BecomeDue(r) \/ ExpireLease(r)
    BY <2>1 DEF RequestCrash, BecomeDue, ExpireLease
  <2>2. ASSUME NEW w \in Workers, Crash(w) PROVE PhaseInv'
    BY <2>2 DEF Crash, Forget, NoJobs
  <2>3. ASSUME NEW w \in Workers, NEW r \in Row,
               SmtpUnreachable(w, r) \/ SmtpLosesReply(w, r)
        PROVE  PhaseInv'
    <3>1. SetJob(w, r, "transport") /\ job[w][r] = "handoff" /\ UNCHANGED phase
      BY <2>3 DEF SmtpUnreachable, SmtpLosesReply
    <3>2. "transport" \in Job
      BY DEF Job, Undelivered
    <3> QED
      BY ZenonT(60), <1>3, <3>1, <3>2
  <2>4. ASSUME NEW w \in Workers, NEW r \in Row,
               MarkSentThrows(w, r) \/ RecordThrows(w, r)
        PROVE  PhaseInv'
    <3>1. PICK j \in {"tempfail", "none"} : SetJob(w, r, j)
      BY <2>4 DEF MarkSentThrows, RecordThrows
    <3>2. j \in Job /\ job[w][r] \notin {"none", "claimed"} /\ UNCHANGED phase
      BY <2>4 DEF MarkSentThrows, RecordThrows, Job, Undelivered
    <3> QED
      BY <1>3, <3>1, <3>2
  <2> QED
    BY <1>5, <2>1, <2>2, <2>3, <2>4 DEF Environment
<1> QED
  BY <1>1, <1>2, <1>4, <1>5 DEF Next, vars

-----------------------------------------------------------------------------
(***************************************************************************)
(* The theorems.                                                           *)
(***************************************************************************)
LEMMA DeliveryInit == Init => DeliveryInv
<1> SUFFICES ASSUME Init PROVE DeliveryInv
  OBVIOUS
<1>1. PhaseInv
  BY DEF Init, NoJobs, PhaseInv
<1>2. ASSUME NEW r \in Row PROVE RowInv(r)
  <2>1. Tokens(r) = {} /\ Loose(r) = 0
    BY DEF Init, NoJobs, Tokens, Undelivered, Loose
  <2>2. Accounted(r)
    BY <2>1, FS_EmptySet DEF Init, Accounted
  <2> QED
    BY <2>2 DEF Init, NoJobs, RowInv
<1> QED
  BY <1>1, <1>2 DEF DeliveryInv

LEMMA DeliveryStep == TypeOK /\ DeliveryInv /\ [Next]_vars => DeliveryInv'
<1> SUFFICES ASSUME TypeOK, DeliveryInv, [Next]_vars PROVE DeliveryInv'
  OBVIOUS
<1>1. TypeOK' /\ PhaseInv'
  BY StepType, PhaseStep DEF DeliveryInv
<1>2. ASSUME NEW r \in Row PROVE RowInv(r)'
  BY <1>1, StepMoves, MovesKeepRowInv DEF DeliveryInv
<1> QED
  BY <1>1, <1>2 DEF DeliveryInv, Row

LEMMA DeliveryAlways == Spec => [](TypeOK /\ DeliveryInv)
  BY InitType, DeliveryInit, StepType, DeliveryStep, PTL DEF Spec

\* Without a crash after acceptance, a lost reply, a failed markSent or a reclaim
\* under a live tick a row is sent at most once; each of these costs at most one
\* message more, whatever the number of ticks and the order of their steps.
THEOREM SecondSendsAlwaysExcused == Spec => []SecondSendsExcused
<1>1. TypeOK /\ DeliveryInv => SecondSendsExcused
  <2> SUFFICES ASSUME TypeOK, DeliveryInv, NEW r \in Row PROVE delivered[r] <= 1 + excused[r]
    BY DEF SecondSendsExcused
  <2>1. Accounted(r) /\ Loose(r) \in {0, 1}
    BY DEF DeliveryInv, RowInv, Loose
  <2> QED
    BY <2>1, TokensCounted DEF Accounted, TypeOK
<1> QED
  BY <1>1, DeliveryAlways, PTL

\* As long as none of these windows was hit, no two ticks work on the same row.
THEOREM ClaimsExclusive == Spec => []ExclusiveClaim
<1>1. DeliveryInv => ExclusiveClaim
  BY DEF DeliveryInv, RowInv, ExclusiveClaim, Holders
<1> QED
  BY <1>1, DeliveryAlways, PTL

\* SENT is never written for a message the server did not take, and a message it
\* took ends as SENT unless one of the windows was hit.
THEOREM ReportAlwaysTruthful == Spec => []ReportIsTruthful
<1>1. TypeOK /\ DeliveryInv => ReportIsTruthful
  BY DEF DeliveryInv, RowInv, ReportIsTruthful, TypeOK, Terminal
<1> QED
  BY <1>1, DeliveryAlways, PTL

-----------------------------------------------------------------------------
(***************************************************************************)
(* What a row is charged: an attempt is taken by the claim, before the     *)
(* message, and given back only by a tick that has not sent it.            *)
(***************************************************************************)
\* A message that is not on the wire yet, or was never put there.
Unsent == {"claimed", "suppress", "ready", "handoff", "transport"}

\* A tick at work on r holds the live lease, under the attempt it was told; or
\* it does not know that its markSent was carried out.
AtWork(w, r) ==
  \/ status[r] = "SENDING" /\ lease[r] = "live" /\ claimedBy[r] = w /\ tries[w][r] = attempts[r]
  \/ status[r] = "SENT" /\ job[w][r] = "tempfail"

AttemptInv(r) ==
  /\ delivered[r] <= attempts[r] /\ attempts[r] <= MaxAttempts
  /\ status[r] = "ABSENT" => attempts[r] = 0
  /\ status[r] = "QUEUED" => attempts[r] < MaxAttempts
  /\ \A w \in Workers : job[w][r] # "none" => AtWork(w, r)
  /\ \A w \in Workers : job[w][r] \in Unsent => delivered[r] < attempts[r]

\* Nothing of r changes that AttemptInv is about.
Unmoved(r) ==
  /\ status'[r] = status[r] /\ lease'[r] = lease[r] /\ claimedBy'[r] = claimedBy[r]
  /\ attempts'[r] = attempts[r] /\ delivered'[r] = delivered[r]
  /\ \A w \in Workers : job'[w][r] = job[w][r] /\ tries'[w][r] = tries[w][r]

LEMMA UnmovedKeeps ==
  ASSUME NEW r \in Row, AttemptInv(r), Unmoved(r)
  PROVE  AttemptInv(r)'
  BY DEF AttemptInv, Unmoved, AtWork

\* Nobody else works on a row in flight.
LEMMA AloneAtWork ==
  ASSUME NEW r \in Row, AttemptInv(r), status[r] = "SENDING", NEW w \in Workers, job[w][r] # "none"
  PROVE  \A v \in Workers \ {w} : job[v][r] = "none"
  BY DEF AttemptInv, AtWork

LEMMA RequestsKeepAttempts ==
  ASSUME TypeOK, TypeOK', Requests, NEW r \in Row, AttemptInv(r)
  PROVE  AttemptInv(r)'
<1> USE DEF tables, row, claim, tick, batch, requests, history, TypeOK
<1>1. ASSUME NEW c \in Campaigns, QueueCampaign(c) PROVE AttemptInv(r)'
  BY <1>1, SendQueueAssumption DEF QueueCampaign, RowsOf, AttemptInv, AtWork
<1>2. ASSUME NEW c \in Campaigns, CancelQueuedRows(c) PROVE AttemptInv(r)'
  BY <1>2 DEF CancelQueuedRows, RowsOf, Move, AttemptInv, AtWork
<1>3. ASSUME NEW a \in Addresses, SuppressQueuedRows(a) PROVE AttemptInv(r)'
  BY <1>3 DEF SuppressQueuedRows, Move, AttemptInv, AtWork
<1>4. ASSUME NEW c \in Campaigns,
             ReadAudience(c) \/ PauseCampaign(c) \/ ResumeCampaign(c) \/ CancelCampaign(c)
      PROVE  Unmoved(r)
  BY <1>4 DEF ReadAudience, PauseCampaign, ResumeCampaign, CancelCampaign, Unmoved
<1>5. ASSUME NEW a \in Addresses, SuppressEmail(a) \/ LiftSuppression(a) PROVE Unmoved(r)
  BY <1>5 DEF SuppressEmail, LiftSuppression, Unmoved
<1> QED
  BY <1>1, <1>2, <1>3, <1>4, <1>5, UnmovedKeeps DEF Requests

LEMMA OutcomeKeepsAttempts ==
  ASSUME TypeOK, TypeOK', NEW w \in Workers, NEW q \in Row, Outcome(w, q), NEW r \in Row, AttemptInv(r)
  PROVE  AttemptInv(r)'
<1> USE DEF tables, row, claim, tick, batch, requests, history, TypeOK, SetJob
<1>1. CASE r # q
  <2>1. UNCHANGED tries /\ \E j \in Job : SetJob(w, q, j)
    BY DEF Outcome, MarkSuppressed, StartSend, SmtpAccepts, SmtpRefuses, MarkSent, ScheduleRetry,
           MarkFailed, ReleaseClaims, Job, Undelivered
  <2>2. delivered'[r] = delivered[r] /\ attempts'[r] = attempts[r]
    BY <1>1 DEF Outcome, MarkSuppressed, StartSend, SmtpAccepts, SmtpRefuses, MarkSent, ScheduleRetry,
                MarkFailed, ReleaseClaims, GiveBackAttempt
  <2>3. UNCHANGED claim \/ \E to \in DeliveryStatus : Leave(q, to)
    BY DEF Outcome, MarkSuppressed, StartSend, SmtpAccepts, SmtpRefuses, MarkSent, ScheduleRetry,
           MarkFailed, ReleaseClaims, DeliveryStatus, Pending, Terminal
  <2>4. status'[r] = status[r] /\ lease'[r] = lease[r] /\ claimedBy'[r] = claimedBy[r]
    BY <1>1, <2>3 DEF Leave, Move
  <2>5. \A v \in Workers : job'[v][r] = job[v][r] /\ tries'[v][r] = tries[v][r]
    BY <1>1, <2>1
  <2> QED
    BY <2>2, <2>4, <2>5, UnmovedKeeps DEF Unmoved
<1>2. CASE r = q
  <2> USE <1>2
  <2>1. CASE MarkSuppressed(w, r) \/ ReleaseClaims(w, r)
    <3>1. status[r] = "SENDING" /\ delivered[r] < attempts[r] /\ attempts[r] <= MaxAttempts
      BY <2>1 DEF MarkSuppressed, ReleaseClaims, AttemptInv, AtWork, Unsent
    <3>2. \A v \in Workers : job'[v][r] = "none"
      <4>1. job[w][r] # "none" /\ job' = [job EXCEPT ![w][r] = "none"]
        BY <2>1 DEF MarkSuppressed, ReleaseClaims
      <4> QED
        BY <3>1, <4>1, AloneAtWork
    <3>3. attempts'[r] = attempts[r] - 1 /\ delivered'[r] = delivered[r] /\ status'[r] \in {"QUEUED", "SUPPRESSED"}
      BY <2>1, <3>1 DEF MarkSuppressed, ReleaseClaims, Leave, Move, GiveBackAttempt
    <3> QED
      BY <3>1, <3>2, <3>3, SendQueueAssumption DEF AttemptInv, Unsent
  <2>2. CASE StartSend(w, r)
    BY <2>2 DEF StartSend, AttemptInv, AtWork, Unsent
  <2>3. CASE SmtpAccepts(w, r)
    BY <2>3 DEF SmtpAccepts, AttemptInv, AtWork, Unsent
  <2>4. CASE SmtpRefuses(w, r)
    BY <2>4 DEF SmtpRefuses, AttemptInv, AtWork, Unsent
  <2>5. CASE MarkSent(w, r) \/ MarkFailed(w, r)
    <3>1. /\ job[w][r] \in {"accepted", "tempfail", "permfail"} /\ job' = [job EXCEPT ![w][r] = "none"]
          /\ UNCHANGED <<attempts, delivered, tries>>
          /\ status'[r] = IF status[r] = "SENDING" THEN status'[r] ELSE status[r]
          /\ status'[r] \notin {"ABSENT", "QUEUED"}
      BY <2>5 DEF MarkSent, MarkFailed, Leave, Move, AttemptInv, AtWork
    <3>2. CASE status[r] = "SENDING"
      <4>1. \A v \in Workers : job'[v][r] = "none"
        BY <3>1, <3>2, AloneAtWork
      <4> QED
        BY <3>1, <4>1 DEF AttemptInv, Unsent
    <3>3. CASE status[r] # "SENDING"
      BY <3>1, <3>3 DEF AttemptInv, AtWork, Unsent
    <3> QED
      BY <3>2, <3>3
  <2>6. CASE ScheduleRetry(w, r)
    BY SMTT(30), <2>6 DEF ScheduleRetry, ShouldRetry, Leave, Move, AttemptInv, AtWork, Unsent
  <2> QED
    BY <2>1, <2>2, <2>3, <2>4, <2>5, <2>6 DEF Outcome
<1> QED
  BY <1>1, <1>2

LEMMA TickKeepsAttempts ==
  ASSUME TypeOK, TypeOK', PhaseInv, NEW w \in Workers, TickStep(w), NEW r \in Row, AttemptInv(r)
  PROVE  AttemptInv(r)'
<1> USE DEF tables, row, claim, tick, batch, requests, history, TypeOK
<1>1. CASE ReclaimRetryable(w)
  BY <1>1 DEF ReclaimRetryable, Move, Expired, AttemptInv, AtWork, Unsent
<1>2. CASE ReclaimExhausted(w)
  BY <1>2 DEF ReclaimExhausted, Move, Expired, AttemptInv, AtWork, Unsent
<1>3. CASE ClaimRecipients(w)
  <2>1. job[w][r] = "none"
    BY <1>3 DEF ClaimRecipients, PhaseInv
  <2>2. CASE status[r] = "QUEUED" /\ status'[r] = "SENDING"
    <3>1. \A v \in Workers : job[v][r] = "none"
      BY <2>2 DEF AttemptInv, AtWork
    <3>2. /\ attempts'[r] = attempts[r] + 1 /\ lease'[r] = "live" /\ claimedBy'[r] = w
          /\ job'[w][r] = "claimed" /\ tries'[w][r] = attempts[r] + 1
          /\ \A v \in Workers \ {w} : job'[v][r] = job[v][r]
          /\ delivered'[r] = delivered[r]
      BY <1>3, <2>2 DEF ClaimRecipients
    <3>3. \A v \in Workers : job'[v][r] # "none" => v = w
      BY <3>1, <3>2
    <3>4. AtWork(w, r)'
      BY <2>2, <3>2 DEF AtWork
    <3>5. delivered'[r] < attempts'[r] /\ attempts'[r] <= MaxAttempts
      BY <2>2, <3>2, SendQueueAssumption DEF AttemptInv
    <3> QED
      BY <2>2, <3>3, <3>4, <3>5 DEF AttemptInv, Unsent
  <2>3. CASE ~(status[r] = "QUEUED" /\ status'[r] = "SENDING")
    <3>1. /\ status'[r] = status[r] /\ attempts'[r] = attempts[r] /\ lease'[r] = lease[r]
          /\ claimedBy'[r] = claimedBy[r] /\ job'[w][r] = "none" /\ delivered'[r] = delivered[r]
          /\ \A v \in Workers \ {w} : job'[v][r] = job[v][r] /\ tries'[v][r] = tries[v][r]
      BY <1>3, <2>3 DEF ClaimRecipients, Claimable
    <3>2. \A v \in Workers : job'[v][r] = job[v][r]
      BY <2>1, <3>1
    <3>3. ASSUME NEW v \in Workers, job[v][r] # "none" PROVE AtWork(v, r)'
      <4>1. v # w /\ AtWork(v, r)
        BY <2>1, <3>3 DEF AttemptInv
      <4>2. job'[v][r] = job[v][r] /\ tries'[v][r] = tries[v][r]
        BY <3>1, <4>1
      <4> QED
        BY <3>1, <4>1, <4>2 DEF AtWork
    <3> QED
      BY <3>1, <3>2, <3>3 DEF AttemptInv, Unsent
  <2> QED
    BY <2>2, <2>3
<1>4. CASE LeaveLoop(w) \/ MarkCampaignsStarted(w) \/ FinalizeCompletedCampaigns(w)
  <2>1. Unmoved(r)
    BY <1>4 DEF LeaveLoop, MarkCampaignsStarted, FinalizeCompletedCampaigns, Unmoved
  <2> QED
    BY <2>1, UnmovedKeeps
<1>5. CASE FilterSuppressed(w)
  <2>1. job[w][r] \in {"none", "claimed"}
    BY <1>5 DEF FilterSuppressed, PhaseInv
  <2> QED
    BY <1>5, <2>1 DEF FilterSuppressed, Sendable, Batch, AttemptInv, AtWork, Unsent
<1>6. ASSUME NEW q \in Row, Outcome(w, q) PROVE AttemptInv(r)'
  BY <1>6, OutcomeKeepsAttempts
<1>7. CASE BatchEnds(w)
  BY <1>7 DEF BatchEnds, Forget, NoJobs, AttemptInv, AtWork, Unsent
<1> QED
  BY <1>1, <1>2, <1>3, <1>4, <1>5, <1>6, <1>7 DEF TickStep

LEMMA EnvironmentKeepsAttempts ==
  ASSUME {"reply", "overrun"} \cap FaultKinds = {},
         TypeOK, TypeOK', Environment, NEW r \in Row, AttemptInv(r)
  PROVE  AttemptInv(r)'
<1> USE DEF tables, row, claim, tick, batch, requests, history, TypeOK, SetJob
<1>1. ASSUME NEW q \in Row, BecomeDue(q) PROVE AttemptInv(r)'
  <2>1. Unmoved(r)
    BY <1>1 DEF BecomeDue, Unmoved
  <2> QED
    BY <2>1, UnmovedKeeps
\* Only a tick that is gone loses its lease.
<1>2. ASSUME NEW q \in Row, ExpireLease(q) PROVE AttemptInv(r)'
  <2>1. claimedBy[q] \notin Holders(q)
    BY <1>2 DEF ExpireLease, Fault
  <2> QED
    BY <1>2, <2>1 DEF ExpireLease, Holders, AttemptInv, AtWork, Unsent
<1>3. CASE RequestCrash
  <2>1. Unmoved(r)
    BY <1>3 DEF RequestCrash, Unmoved
  <2> QED
    BY <2>1, UnmovedKeeps
<1>4. ASSUME NEW w \in Workers, Crash(w) PROVE AttemptInv(r)'
  BY <1>4 DEF Crash, Forget, NoJobs, AttemptInv, AtWork, Unsent
<1>5. ASSUME NEW w \in Workers, NEW q \in Row, SmtpUnreachable(w, q) PROVE AttemptInv(r)'
  BY <1>5 DEF SmtpUnreachable, AttemptInv, AtWork, Unsent
<1>6. ASSUME NEW w \in Workers, NEW q \in Row, SmtpLosesReply(w, q) PROVE FALSE
  BY <1>6 DEF SmtpLosesReply, Fault
<1>7. ASSUME NEW w \in Workers, NEW q \in Row, MarkSentThrows(w, q) PROVE AttemptInv(r)'
  BY <1>7 DEF MarkSentThrows, Leave, Move, AttemptInv, AtWork, Unsent
<1>8. ASSUME NEW w \in Workers, NEW q \in Row, RecordThrows(w, q) PROVE AttemptInv(r)'
  BY <1>8 DEF RecordThrows, AttemptInv, AtWork, Unsent
<1> QED
  BY <1>1, <1>2, <1>3, <1>4, <1>5, <1>6, <1>7, <1>8 DEF Environment

LEMMA AttemptsInit ==
  ASSUME Init, NEW r \in Row
  PROVE  AttemptInv(r)
  BY SendQueueAssumption DEF Init, NoJobs, AttemptInv, Unsent

LEMMA AttemptsStep ==
  ASSUME {"reply", "overrun"} \cap FaultKinds = {},
         TypeOK, PhaseInv, [Next]_vars, NEW r \in Row, AttemptInv(r)
  PROVE  AttemptInv(r)'
<1>1. TypeOK'
  BY StepType
<1>2. CASE UNCHANGED vars
  <2>1. Unmoved(r)
    BY <1>2 DEF vars, tables, row, claim, tick, batch, history, Unmoved
  <2> QED
    BY <2>1, UnmovedKeeps
<1> QED
  BY <1>1, <1>2, RequestsKeepAttempts, TickKeepsAttempts, EnvironmentKeepsAttempts DEF Next

\* As long as no reply is lost and no tick outlives its lease, every message the server took
\* is paid for by an attempt, and there are no more attempts than SMTP_MAX_ATTEMPTS, whatever
\* crashes, fails to be written or cannot be connected.
THEOREM AttemptsPay ==
  ASSUME {"reply", "overrun"} \cap FaultKinds = {}
  PROVE  Spec => []SendsWithinAttempts
<1> DEFINE Paid == \A r \in Row : AttemptInv(r)
<1>1. Init => Paid
  BY AttemptsInit
<1>2. TypeOK /\ PhaseInv /\ Paid /\ [Next]_vars => Paid'
  <2> SUFFICES ASSUME TypeOK, PhaseInv, Paid, [Next]_vars, NEW r \in Row PROVE AttemptInv(r)'
    BY DEF Row
  <2> QED
    BY AttemptsStep
<1>3. DeliveryInv => PhaseInv
  BY DEF DeliveryInv
<1>4. Paid => SendsWithinAttempts
  BY DEF AttemptInv, SendsWithinAttempts
<1> HIDE DEF Paid
<1> QED
  BY <1>1, <1>2, <1>3, <1>4, DeliveryAlways, PTL DEF Spec

-----------------------------------------------------------------------------
(***************************************************************************)
(* What a single tick may have on the wire: no more messages than it has   *)
(* loops, and none to an address that was suppressed when it claimed.      *)
(* Both are about one tick's own variables; the rest of the system only    *)
(* matters where it lifts a suppression.                                   *)
(***************************************************************************)

InLaneOf(w) == {r \in Row : job[w][r] \in InLane}

\* A row that was muted when it was claimed goes no further than the filter, and its
\* address is suppressed as long as it is muted.
MutedInv(w) == \A r \in muted[w] : AddressOf(r) \in suppressed /\ job[w][r] \in {"none", "claimed", "suppress"}

LanesInv(w) == Cardinality(InLaneOf(w)) <= lanes[w] /\ lanes[w] <= Concurrency

TickInv == \A w \in Workers : MutedInv(w) /\ LanesInv(w)

-----------------------------------------------------------------------------
(***************************************************************************)
(* The moves a step can make on one tick.                                  *)
(***************************************************************************)

\* Somebody else's step; a suppression may be lifted.
LeftAlone(w) ==
  /\ job'[w] = job[w] /\ lanes'[w] = lanes[w]
  /\ muted'[w] \subseteq muted[w]
  /\ \A r \in muted'[w] : AddressOf(r) \in suppressed => AddressOf(r) \in suppressed'

SameMuted(w) == muted'[w] = muted[w] /\ suppressed' = suppressed

\* A job that goes on, on the wire or off it.
GoesOn(w, r) ==
  /\ job[w][r] \in InLane \/ job'[w][r] = "none"
  /\ job[w][r] \in {"none", "claimed", "suppress"} => job'[w][r] = "none"
  /\ \A q \in Row \ {r} : job'[w][q] = job[w][q]
  /\ lanes'[w] = lanes[w] /\ SameMuted(w)

\* A loop takes the next recipient.
Starts(w, r) ==
  /\ job[w][r] = "ready" /\ job'[w][r] \in InLane
  /\ \A q \in Row \ {r} : job'[w][q] = job[w][q]
  /\ Cardinality(InLaneOf(w)) < lanes[w]
  /\ lanes'[w] = lanes[w] /\ SameMuted(w)

\* A loop is gone, with the job it had.
LosesLoop(w, r) ==
  /\ job[w][r] \in InLane /\ job'[w][r] = "none"
  /\ \A q \in Row \ {r} : job'[w][q] = job[w][q]
  /\ lanes'[w] = lanes[w] - 1 /\ SameMuted(w)

\* A new batch is claimed.
Claims(w) ==
  /\ \A r \in Row : job'[w][r] \in {"none", "claimed"}
  /\ lanes'[w] = lanes[w]
  /\ suppressed' = suppressed
  /\ \A r \in muted'[w] : AddressOf(r) \in suppressed

\* It is split, and gets its loops.
Splits(w) ==
  /\ \A r \in Row : job'[w][r] = IF r \in Sendable(w) THEN "ready" ELSE IF r \in Batch(w) THEN "suppress" ELSE "none"
  /\ lanes'[w] \in 0..Concurrency
  /\ SameMuted(w)

\* It is over.
Ends(w) == job'[w] = NoJobs /\ lanes'[w] = 0 /\ muted'[w] = {}

TickMoves(w) ==
  \/ LeftAlone(w) \/ Claims(w) \/ Splits(w) \/ Ends(w)
  \/ \E r \in Row : GoesOn(w, r) \/ Starts(w, r) \/ LosesLoop(w, r)

-----------------------------------------------------------------------------
(***************************************************************************)
(* Every move preserves the invariant.                                     *)
(***************************************************************************)

LEMMA InLaneFinite ==
  ASSUME NEW w \in Workers
  PROVE  /\ IsFiniteSet(InLaneOf(w)) /\ Cardinality(InLaneOf(w)) \in Nat
         /\ IsFiniteSet(InLaneOf(w)') /\ Cardinality(InLaneOf(w)') \in Nat
<1>1. InLaneOf(w) \subseteq Row /\ InLaneOf(w)' \subseteq Row
  BY DEF InLaneOf, Row
<1> QED
  BY <1>1, RowFinite, FS_Subset, FS_CardinalityType

LEMMA MovesKeepMuted ==
  ASSUME TypeOK, TypeOK', NEW w \in Workers, MutedInv(w), TickMoves(w)
  PROVE  MutedInv(w)'
<1> USE DEF MutedInv
<1>1. muted[w] \subseteq Row /\ muted'[w] \subseteq Row
  BY DEF TypeOK
<1>2. CASE LeftAlone(w)
  BY <1>2 DEF LeftAlone
<1>3. CASE Claims(w)
  BY <1>1, <1>3 DEF Claims
<1>4. CASE Splits(w)
  BY <1>1, <1>4 DEF Splits, SameMuted, Sendable
<1>5. CASE Ends(w)
  BY <1>5 DEF Ends
<1>6. ASSUME NEW r \in Row, GoesOn(w, r) PROVE MutedInv(w)'
  BY <1>1, <1>6 DEF GoesOn, SameMuted
<1>7. ASSUME NEW r \in Row, Starts(w, r) PROVE MutedInv(w)'
  BY <1>1, <1>7 DEF Starts, SameMuted
<1>8. ASSUME NEW r \in Row, LosesLoop(w, r) PROVE MutedInv(w)'
  BY <1>1, <1>8 DEF LosesLoop, SameMuted
<1> QED
  BY <1>2, <1>3, <1>4, <1>5, <1>6, <1>7, <1>8 DEF TickMoves

LEMMA MovesKeepLanes ==
  ASSUME TypeOK, TypeOK', NEW w \in Workers, LanesInv(w), TickMoves(w)
  PROVE  LanesInv(w)'
<1> DEFINE before == InLaneOf(w)
           after  == InLaneOf(w)'
<1>1. /\ IsFiniteSet(before) /\ Cardinality(before) \in Nat
      /\ IsFiniteSet(after) /\ Cardinality(after) \in Nat
  BY InLaneFinite
<1>2. lanes[w] \in Int /\ lanes'[w] \in Int /\ Concurrency \in Nat
  BY SendQueueAssumption DEF TypeOK, SendQueueAssumption
<1>3. Cardinality(before) <= lanes[w] /\ lanes[w] <= Concurrency
  BY DEF LanesInv
<1>4. SUFFICES Cardinality(after) <= lanes'[w] /\ lanes'[w] <= Concurrency
  BY DEF LanesInv
<1>5. ASSUME after = {} PROVE Cardinality(after) = 0
  BY <1>5, FS_EmptySet
<1> HIDE DEF before, after
<1>6. CASE LeftAlone(w)
  <2>1. after = before
    BY <1>6 DEF LeftAlone, before, after, InLaneOf, Row
  <2> QED
    BY <1>3, <1>6, <2>1 DEF LeftAlone
<1>7. CASE Claims(w)
  <2>1. after = {}
    BY <1>7 DEF Claims, after, InLaneOf, InLane, Row
  <2> QED
    BY <1>1, <1>2, <1>3, <1>5, <1>7, <2>1 DEF Claims
<1>8. CASE Splits(w)
  <2>1. after = {}
    BY <1>8 DEF Splits, after, InLaneOf, InLane, Row
  <2>2. 0 <= lanes'[w] /\ lanes'[w] <= Concurrency
    BY <1>2, <1>8 DEF Splits
  <2> QED
    BY <1>5, <2>1, <2>2
<1>9. CASE Ends(w)
  <2>1. after = {}
    BY <1>9 DEF Ends, NoJobs, after, InLaneOf, InLane, Row
  <2> QED
    BY <1>2, <1>5, <1>9, <2>1 DEF Ends
<1>10. ASSUME NEW r \in Row, GoesOn(w, r) PROVE Cardinality(after) <= lanes'[w] /\ lanes'[w] <= Concurrency
  <2>1. after \subseteq before
    <3>1. ASSUME NEW q \in after PROVE q \in before
      BY <1>10, <3>1 DEF GoesOn, before, after, InLaneOf, InLane
    <3> QED
      BY <3>1
  <2>2. Cardinality(after) <= Cardinality(before)
    BY <1>1, <2>1, FS_Subset
  <2> QED
    BY <1>1, <1>2, <1>3, <1>10, <2>2 DEF GoesOn
<1>11. ASSUME NEW r \in Row, Starts(w, r) PROVE Cardinality(after) <= lanes'[w] /\ lanes'[w] <= Concurrency
  <2>1. after = before \cup {r} /\ r \notin before
    <3>1. r \in after /\ r \notin before
      BY <1>11 DEF Starts, before, after, InLaneOf, InLane
    <3>2. ASSUME NEW q \in Row \ {r} PROVE q \in after <=> q \in before
      BY <1>11, <3>2 DEF Starts, before, after, InLaneOf
    <3>3. before \subseteq Row /\ after \subseteq Row
      BY DEF before, after, InLaneOf, Row
    <3> QED
      BY <3>1, <3>2, <3>3
  <2>2. Cardinality(after) = Cardinality(before) + 1
    BY <1>1, <2>1, FS_AddElement
  <2>3. Cardinality(before) < lanes[w] /\ lanes'[w] = lanes[w]
    BY <1>11 DEF Starts, before
  <2> QED
    BY <1>1, <1>2, <1>3, <2>2, <2>3
<1>12. ASSUME NEW r \in Row, LosesLoop(w, r) PROVE Cardinality(after) <= lanes'[w] /\ lanes'[w] <= Concurrency
  <2>1. after = before \ {r} /\ r \in before
    <3>1. r \notin after /\ r \in before
      BY <1>12 DEF LosesLoop, before, after, InLaneOf, InLane
    <3>2. ASSUME NEW q \in Row \ {r} PROVE q \in after <=> q \in before
      BY <1>12, <3>2 DEF LosesLoop, before, after, InLaneOf
    <3>3. before \subseteq Row /\ after \subseteq Row
      BY DEF before, after, InLaneOf, Row
    <3> QED
      BY <3>1, <3>2, <3>3
  <2>2. Cardinality(after) = Cardinality(before) - 1
    BY <1>1, <2>1, FS_RemoveElement
  <2> QED
    BY <1>1, <1>2, <1>3, <1>12, <2>2 DEF LosesLoop
<1> QED
  BY <1>6, <1>7, <1>8, <1>9, <1>10, <1>11, <1>12 DEF TickMoves

-----------------------------------------------------------------------------
(***************************************************************************)
(* Every step is such a move of every tick.                                *)
(***************************************************************************)

\* The ticks whose variables a step does not write.
LEMMA OthersLeftAlone ==
  ASSUME TypeOK, NEW w \in Workers, NEW v \in Workers \ {w},
         job'[v] = job[v], lanes'[v] = lanes[v], muted'[v] = muted[v], suppressed' = suppressed
  PROVE  TickMoves(v)
  BY DEF TickMoves, LeftAlone

LEMMA SameTicks ==
  ASSUME TypeOK, UNCHANGED <<job, lanes, muted>>, suppressed \subseteq suppressed', NEW w \in Workers
  PROVE  TickMoves(w)
  BY DEF TickMoves, LeftAlone

LEMMA RequestMovesTicks ==
  ASSUME TypeOK, Requests, NEW w \in Workers
  PROVE  TickMoves(w)
<1> USE DEF tables, row, claim, tick, batch, requests, history
<1>1. ASSUME NEW c \in Campaigns,
             \/ ReadAudience(c) \/ QueueCampaign(c) \/ PauseCampaign(c)
             \/ ResumeCampaign(c) \/ CancelCampaign(c) \/ CancelQueuedRows(c)
      PROVE  TickMoves(w)
  BY <1>1, SameTicks DEF ReadAudience, QueueCampaign, PauseCampaign, ResumeCampaign, CancelCampaign, CancelQueuedRows
<1>2. ASSUME NEW a \in Addresses, SuppressEmail(a) \/ SuppressQueuedRows(a)
      PROVE  TickMoves(w)
  BY <1>2, SameTicks DEF SuppressEmail, SuppressQueuedRows
<1>3. ASSUME NEW a \in Addresses, LiftSuppression(a)
      PROVE  TickMoves(w)
  <2>1. muted'[w] = {r \in muted[w] : AddressOf(r) # a} /\ suppressed' = suppressed \ {a}
    BY <1>3 DEF LiftSuppression
  <2>2. UNCHANGED <<job, lanes>>
    BY <1>3 DEF LiftSuppression
  <2> QED
    BY <2>1, <2>2 DEF TickMoves, LeftAlone
<1> QED
  BY <1>1, <1>2, <1>3 DEF Requests

\* A loop changes the one job it works on.
LEMMA JobMove ==
  ASSUME TypeOK, NEW w \in Workers, NEW r \in Row, NEW j \in Job, SetJob(w, r, j),
         job[w][r] \in InLane \/ j = "none", UNCHANGED <<lanes, muted, suppressed>>, NEW v \in Workers
  PROVE  TickMoves(v)
<1>1. CASE v = w
  <2>1. job'[w][r] = j /\ \A q \in Row \ {r} : job'[w][q] = job[w][q]
    BY DEF TypeOK, SetJob
  <2>2. GoesOn(w, r)
    BY <2>1 DEF GoesOn, SameMuted, InLane
  <2> QED
    BY <1>1, <2>2 DEF TickMoves
<1>2. CASE v # w
  BY <1>2, OthersLeftAlone DEF TypeOK, SetJob
<1> QED
  BY <1>1, <1>2

LEMMA OutcomeMovesTicks ==
  ASSUME TypeOK, NEW w \in Workers, NEW r \in Row, Outcome(w, r), NEW v \in Workers
  PROVE  TickMoves(v)
<1> USE DEF tables, row, claim, tick, batch, requests, history
<1>1. CASE MarkSuppressed(w, r) \/ MarkSent(w, r) \/ ScheduleRetry(w, r) \/ MarkFailed(w, r) \/ ReleaseClaims(w, r)
  <2>1. SetJob(w, r, "none") /\ UNCHANGED <<lanes, muted, suppressed>>
    BY <1>1 DEF MarkSuppressed, MarkSent, ScheduleRetry, MarkFailed, ReleaseClaims
  <2> QED
    BY <2>1, JobMove DEF Job
<1>2. CASE SmtpAccepts(w, r)
  BY <1>2, JobMove DEF SmtpAccepts, Job, InLane
<1>3. CASE SmtpRefuses(w, r)
  <2>1. PICK j \in {"tempfail", "permfail"} : SetJob(w, r, j)
    BY <1>3 DEF SmtpRefuses
  <2>2. j \in Job /\ job[w][r] \in InLane /\ UNCHANGED <<lanes, muted, suppressed>>
    BY <1>3 DEF SmtpRefuses, Job, Undelivered, InLane
  <2> QED
    BY <2>1, <2>2, JobMove
<1>4. CASE StartSend(w, r)
  <2>1. PICK j \in {"handoff", "transport"} : SetJob(w, r, j)
    BY <1>4 DEF StartSend
  <2>2. UNCHANGED <<lanes, muted, suppressed>>
    BY <1>4 DEF StartSend
  <2>3. CASE v = w
    <3>1. job'[w][r] = j /\ \A q \in Row \ {r} : job'[w][q] = job[w][q]
      BY <2>1 DEF TypeOK, SetJob
    <3>2. job[w][r] = "ready" /\ Cardinality(InLaneOf(w)) < lanes[w]
      BY <1>4 DEF StartSend, InLaneOf
    <3>3. Starts(w, r)
      BY <2>2, <3>1, <3>2 DEF Starts, SameMuted, InLane
    <3> QED
      BY <2>3, <3>3 DEF TickMoves
  <2>4. CASE v # w
    BY <2>1, <2>2, <2>4, OthersLeftAlone DEF TypeOK, SetJob
  <2> QED
    BY <2>3, <2>4
<1> QED
  BY <1>1, <1>2, <1>3, <1>4 DEF Outcome

LEMMA SplitMovesTicks ==
  ASSUME TypeOK, NEW w \in Workers, FilterSuppressed(w), NEW v \in Workers
  PROVE  TickMoves(v)
<1> USE DEF tables, row, claim, tick, batch, requests, history
<1>1. CASE v = w
  <2>1. lanes'[w] \in 0..Concurrency
    <3>1. lanes'[w] = IF Cardinality(Sendable(w)) < Concurrency THEN Cardinality(Sendable(w)) ELSE Concurrency
      BY DEF FilterSuppressed, TypeOK
    <3> QED
      BY <3>1, SendableFinite, SendQueueAssumption DEF SendQueueAssumption
  <2>2. Splits(w)
    BY <2>1 DEF FilterSuppressed, Splits, SameMuted, TypeOK
  <2> QED
    BY <1>1, <2>2 DEF TickMoves
<1>2. CASE v # w
  BY <1>2, OthersLeftAlone DEF FilterSuppressed, TypeOK
<1> QED
  BY <1>1, <1>2

LEMMA ClaimMovesTicks ==
  ASSUME TypeOK, NEW w \in Workers, ClaimRecipients(w), NEW v \in Workers
  PROVE  TickMoves(v)
<1>1. PICK S \in SUBSET Claimable :
        /\ job' = [job EXCEPT ![w] = [r \in Row |-> IF r \in S THEN "claimed" ELSE "none"]]
        /\ muted' = [muted EXCEPT ![w] = {r \in S : AddressOf(r) \in suppressed}]
  BY DEF ClaimRecipients
<1>2. UNCHANGED <<lanes, suppressed>>
  BY DEF ClaimRecipients
<1>3. CASE v = w
  BY <1>1, <1>2, <1>3 DEF Claims, TickMoves, TypeOK
<1>4. CASE v # w
  BY <1>1, <1>2, <1>4, OthersLeftAlone DEF TypeOK
<1> QED
  BY <1>3, <1>4

LEMMA EndMovesTicks ==
  ASSUME TypeOK, NEW w \in Workers, Forget(w), UNCHANGED suppressed, NEW v \in Workers
  PROVE  TickMoves(v)
<1>1. CASE v = w
  BY <1>1 DEF Forget, Ends, TickMoves, TypeOK
<1>2. CASE v # w
  BY <1>2, OthersLeftAlone DEF Forget, TypeOK
<1> QED
  BY <1>1, <1>2

LEMMA FaultMovesTicks ==
  ASSUME TypeOK, NEW w \in Workers, NEW r \in Row, NEW v \in Workers,
         SmtpUnreachable(w, r) \/ SmtpLosesReply(w, r) \/ MarkSentThrows(w, r) \/ RecordThrows(w, r)
  PROVE  TickMoves(v)
<1> USE DEF tables, row, claim, tick, batch, requests, history
<1>1. CASE SmtpUnreachable(w, r) \/ SmtpLosesReply(w, r) \/ MarkSentThrows(w, r)
  <2>1. PICK j \in {"transport", "tempfail"} : SetJob(w, r, j)
    BY <1>1 DEF SmtpUnreachable, SmtpLosesReply, MarkSentThrows
  <2>2. j \in Job /\ job[w][r] \in InLane /\ UNCHANGED <<lanes, muted, suppressed>>
    BY <1>1 DEF SmtpUnreachable, SmtpLosesReply, MarkSentThrows, Job, Undelivered, InLane
  <2> QED
    BY <2>1, <2>2, JobMove
<1>2. CASE RecordThrows(w, r)
  <2>1. CASE v = w
    <3>1. job'[w][r] = "none" /\ \A q \in Row \ {r} : job'[w][q] = job[w][q]
      BY <1>2 DEF RecordThrows, SetJob, TypeOK
    <3>2. LosesLoop(w, r)
      BY <1>2, <3>1 DEF RecordThrows, LosesLoop, SameMuted, InLane, TypeOK
    <3> QED
      BY <2>1, <3>2 DEF TickMoves
  <2>2. CASE v # w
    BY <1>2, <2>2, OthersLeftAlone DEF RecordThrows, SetJob, TypeOK
  <2> QED
    BY <2>1, <2>2
<1> QED
  BY <1>1, <1>2

LEMMA StepMovesTicks ==
  ASSUME TypeOK, [Next]_vars, NEW v \in Workers
  PROVE  TickMoves(v)
<1> USE DEF tables, row, claim, tick, batch, requests, history
<1>1. CASE UNCHANGED vars
  BY <1>1, SameTicks DEF vars
<1>2. ASSUME NEW w \in Workers, TickStep(w) PROVE TickMoves(v)
  <2>1. CASE \/ ReclaimRetryable(w) \/ ReclaimExhausted(w) \/ LeaveLoop(w)
             \/ MarkCampaignsStarted(w) \/ FinalizeCompletedCampaigns(w)
    BY <2>1, SameTicks DEF ReclaimRetryable, ReclaimExhausted, LeaveLoop, MarkCampaignsStarted, FinalizeCompletedCampaigns
  <2>2. CASE BatchEnds(w)
    BY <2>2, EndMovesTicks DEF BatchEnds
  <2> QED
    BY <1>2, <2>1, <2>2, ClaimMovesTicks, SplitMovesTicks, OutcomeMovesTicks DEF TickStep
<1>3. CASE Environment
  <2>1. CASE RequestCrash \/ \E r \in Row : BecomeDue(r) \/ ExpireLease(r)
    BY <2>1, SameTicks DEF RequestCrash, BecomeDue, ExpireLease
  <2>2. ASSUME NEW w \in Workers, Crash(w) PROVE TickMoves(v)
    BY <2>2, EndMovesTicks DEF Crash
  <2> QED
    BY <1>3, <2>1, <2>2, FaultMovesTicks DEF Environment
<1> QED
  BY <1>1, <1>2, <1>3, RequestMovesTicks DEF Next

-----------------------------------------------------------------------------
(***************************************************************************)
(* The theorems.                                                           *)
(***************************************************************************)
LEMMA TicksInit == Init => TickInv
<1> SUFFICES ASSUME Init, NEW w \in Workers PROVE MutedInv(w) /\ LanesInv(w)
  BY DEF TickInv
<1>1. MutedInv(w)
  BY DEF Init, MutedInv
<1>2. InLaneOf(w) = {}
  BY DEF Init, InLaneOf, InLane, NoJobs
<1>3. LanesInv(w)
  BY <1>2, FS_EmptySet, SendQueueAssumption DEF Init, LanesInv, SendQueueAssumption
<1> QED
  BY <1>1, <1>3

LEMMA TicksStep == TypeOK /\ TickInv /\ [Next]_vars => TickInv'
<1> SUFFICES ASSUME TypeOK, TickInv, [Next]_vars, NEW w \in Workers PROVE MutedInv(w)' /\ LanesInv(w)'
  BY DEF TickInv
<1> QED
  BY StepType, StepMovesTicks, MovesKeepMuted, MovesKeepLanes DEF TickInv

LEMMA TicksAlways == Spec => [](TypeOK /\ TickInv)
  BY InitType, TicksInit, StepType, TicksStep, PTL DEF Spec

\* An address that was suppressed when a tick claimed its row, and is suppressed still, is not
\* mailed by that tick, whatever other ticks and requests do meanwhile: filterSuppressed comes
\* after the claim.  For every number of rows, ticks and faults.
THEOREM MutedNeverMailed == Spec => []SuppressedNotMailed
<1>1. TickInv => SuppressedNotMailed
  BY DEF TickInv, MutedInv, SuppressedNotMailed
<1> QED
  BY <1>1, TicksAlways, PTL

\* A tick never awaits more messages than it has loops, nor has more loops than CONCURRENCY,
\* also after loops were lost to failing writes (sendBatch).
THEOREM LanesAlwaysBounded == Spec => []LanesBounded
<1>1. TickInv => LanesBounded
  BY DEF TickInv, LanesInv, InLaneOf, LanesBounded
<1> QED
  BY <1>1, TicksAlways, PTL
==============================================================================
