--------------------------- MODULE CampaignLifecycle ---------------------------
(***************************************************************************)
(* What scheduling and queueing promise about a campaign, whoever carries  *)
(* them out: a campaign starts once, with its whole queue in the same      *)
(* step, never before its time, and never comes back.  No requests, no     *)
(* scheduler cycles, no locks: CampaignActivation implements this.         *)
(***************************************************************************)
EXTENDS Integers

CONSTANTS
  Campaigns,
  Addresses,
  MaxTime    \* bound of the model: the last instant

VARIABLES
  status,       \* campaigns.status; "ABSENT" once deleted
  scheduledAt,  \* campaigns.scheduled_at; 0 stands for NULL
  rows,         \* addresses with a row in campaign_recipients
  now           \* the database clock

vars == <<status, scheduledAt, rows, now>>

Queues == (SUBSET Addresses) \ {{}}

\* A draft, or a campaign an older version left QUEUED without rows.
Init ==
  /\ status \in [Campaigns -> {"DRAFT", "QUEUED"}]
  /\ scheduledAt = [c \in Campaigns |-> 0]
  /\ rows = [c \in Campaigns |-> {}]
  /\ now = 1

Becomes(c, s) == status' = [status EXCEPT ![c] = s]

\* A draft gets a time; the time was ahead when it was judged.
Schedule(c) ==
  /\ status[c] = "DRAFT"
  /\ Becomes(c, "SCHEDULED")
  /\ \E t \in 1..MaxTime : scheduledAt' = [scheduledAt EXCEPT ![c] = t]
  /\ UNCHANGED <<rows, now>>

\* A scheduled campaign moves only while its time has not come.
Reschedule(c) ==
  /\ status[c] = "SCHEDULED"
  /\ scheduledAt[c] > now
  /\ \E t \in 1..MaxTime : scheduledAt' = [scheduledAt EXCEPT ![c] = t]
  /\ UNCHANGED <<status, rows, now>>

\* The status and the whole queue, in one step: a draft at any time, a scheduled campaign
\* once it is due.
Start(c) ==
  /\ \/ status[c] = "DRAFT"
     \/ status[c] = "SCHEDULED" /\ scheduledAt[c] <= now
  /\ Becomes(c, "QUEUED")
  /\ \E Q \in Queues : rows' = [rows EXCEPT ![c] = Q]
  /\ UNCHANGED <<scheduledAt, now>>

\* A scheduled campaign that will not start.
Abandon(c) ==
  /\ status[c] = "SCHEDULED"
  /\ Becomes(c, "CANCELLED")
  /\ UNCHANGED <<scheduledAt, rows, now>>

\* A campaign without rows gets its queue, or is closed.
Repair(c) ==
  /\ status[c] = "QUEUED"
  /\ rows[c] = {}
  /\ \/ \E Q \in Queues : rows' = [rows EXCEPT ![c] = Q] /\ UNCHANGED status
     \/ Becomes(c, "CANCELLED") /\ UNCHANGED rows
  /\ UNCHANGED <<scheduledAt, now>>

\* The delivery queue works through the rows, and an admin holds it up.
Deliver(c) ==
  /\ \/ status[c] = "QUEUED" /\ rows[c] # {} /\ (Becomes(c, "SENDING") \/ Becomes(c, "COMPLETED"))
     \/ status[c] = "SENDING" /\ Becomes(c, "COMPLETED")
     \/ status[c] \in {"QUEUED", "SENDING"} /\ Becomes(c, "PAUSED")
     \/ status[c] = "PAUSED" /\ Becomes(c, "SENDING")
  /\ UNCHANGED <<scheduledAt, rows, now>>

\* An admin cancels a started campaign.
Withdraw(c) ==
  /\ status[c] \in {"QUEUED", "SENDING", "PAUSED"}
  /\ Becomes(c, "CANCELLED")
  /\ UNCHANGED <<scheduledAt, rows, now>>

\* An admin deletes a campaign and everything it owns.
Remove(c) ==
  /\ Becomes(c, "ABSENT")
  /\ rows' = [rows EXCEPT ![c] = {}]
  /\ UNCHANGED <<scheduledAt, now>>

Tick == now' = now + 1 /\ UNCHANGED <<status, scheduledAt, rows>>

CampaignStep(c) ==
  \/ Schedule(c) \/ Reschedule(c) \/ Start(c) \/ Abandon(c)
  \/ Repair(c) \/ Deliver(c) \/ Withdraw(c) \/ Remove(c)

Next == (\E c \in Campaigns : CampaignStep(c)) \/ Tick

Spec == Init /\ [][Next]_vars
=============================================================================
