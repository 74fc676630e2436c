--------------------------- MODULE CampaignActivation ---------------------------
(***************************************************************************)
(* How a campaign leaves the editor and reaches the queue: the requests    *)
(* that send, schedule, reschedule, cancel, edit and delete it             *)
(* (src/lib/campaign-send.ts and the routes under api/campaigns/[id]), and *)
(* the two steps at the start of every tick that activate due campaigns    *)
(* and repair stuck ones (src/lib/campaign-activation.ts).                 *)
(*                                                                         *)
(* A statement is one action.  queueCampaign and the repair are            *)
(* transactions: they hold the campaign's row lock from their first        *)
(* statement, write nothing that others see before they commit, and        *)
(* release the lock by committing or rolling back.  A conditional UPDATE   *)
(* waits for the lock and looks at the row it then finds.                  *)
(*                                                                         *)
(* The audience of a campaign is the set of addresses of its lists that    *)
(* can be reached: the contact exists and is not suppressed.               *)
(***************************************************************************)
EXTENDS Integers, FiniteSets

CONSTANTS
  Campaigns,
  Addresses,
  Cycles,       \* ticks whose activation phases may overlap
  Admins,       \* requests that may be in progress at the same time
  NoCampaign,
  NoText,       \* subject or body still empty
  Texts,        \* other contents a campaign can have
  Cursed,       \* campaigns whose activation fails whenever it is tried
  BatchLimit,   \* SCHEDULER_BATCH_LIMIT
  FaultKinds,   \* the faults this instance allows
  MaxFaults,    \* bound of the model: how many faults occur
  MaxTime       \* bound of the model: the last instant

AllFaults == {"crash", "database", "connection", "deadline"}

ASSUME CampaignActivationAssumption ==
  /\ IsFiniteSet(Campaigns) /\ IsFiniteSet(Addresses)
  /\ Cycles \cap Admins = {}
  /\ NoCampaign \notin Campaigns
  /\ NoText \notin Texts
  /\ Cursed \subseteq Campaigns
  /\ BatchLimit \in Nat \ {0}
  /\ FaultKinds \subseteq AllFaults
  /\ MaxFaults \in Nat /\ MaxTime \in Nat \ {0}

VARIABLES
  \* tables
  status,       \* campaigns.status; "ABSENT" once deleted
  scheduledAt,  \* campaigns.scheduled_at; 0 stands for NULL
  text,         \* campaigns.subject, compiled_html, text_body
  lists,        \* campaign_lists: the addresses of the campaign's lists
  aged,         \* updated_at lies longer ago than the grace period
  rows,         \* addresses with a row in campaign_recipients
  reachable,    \* addresses with a contact and without a suppression
  \* transactions, of cycles and of requests
  tx,           \* the open transaction: campaign held, statement, lists read
  \* local state
  cycle,        \* activateDueCampaigns and recoverStuckCampaigns of a tick
  request,      \* a request in progress: what it does, to which campaign, with which time
  \* environment
  now,          \* the database clock
  faults        \* faults so far

tables == <<status, scheduledAt, text, lists, aged, rows, reachable>>
vars   == <<tables, tx, cycle, request, now, faults>>

Actors == Cycles \cup Admins
Time   == 1..MaxTime

Status == {"DRAFT", "SCHEDULED", "QUEUED", "SENDING", "PAUSED", "COMPLETED", "CANCELLED", "ABSENT"}

Tx == [holds : Campaigns \cup {NoCampaign}, step : {"none", "lists", "write"},
       lists : SUBSET Addresses]
NoTx == [holds |-> NoCampaign, step |-> "none", lists |-> {}]

Phase == {"idle", "activate", "queueing", "empty", "recover", "repair", "repairing"}

Pages == UNION {[P -> Time] : P \in SUBSET Campaigns}

\* page: the due campaigns still to be looked at, with the time each had when it was found.
Cycle == [phase : Phase, page : Pages,
          tried : SUBSET Campaigns, started : Nat, current : Campaigns \cup {NoCampaign},
          stuck : SUBSET Campaigns]
NoPage == [c \in {} |-> 1]
NoCycle == [phase |-> "idle", page |-> NoPage, tried |-> {}, started |-> 0,
            current |-> NoCampaign, stuck |-> {}]

Step == {"none", "claim", "queueing", "preview", "schedule", "reschedule",
         "text", "drop", "add", "delete"}
Request == [step : Step, on : Campaigns \cup {NoCampaign}, time : 0..MaxTime]
NoRequest == [step |-> "none", on |-> NoCampaign, time |-> 0]

TypeOK ==
  /\ status \in [Campaigns -> Status]
  /\ scheduledAt \in [Campaigns -> 0..MaxTime]
  /\ text \in [Campaigns -> Texts \cup {NoText}]
  /\ lists \in [Campaigns -> SUBSET Addresses]
  /\ aged \in [Campaigns -> BOOLEAN]
  /\ rows \in [Campaigns -> SUBSET Addresses]
  /\ reachable \subseteq Addresses
  /\ tx \in [Actors -> Tx]
  /\ cycle \in [Cycles -> Cycle]
  /\ request \in [Admins -> Request]
  /\ now \in Time
  /\ faults \in Nat
  \* campaigns_scheduled_requires_time
  /\ \A c \in Campaigns : status[c] = "SCHEDULED" => scheduledAt[c] # 0

\* A draft, or a campaign an older version left QUEUED without rows.
Init ==
  /\ status \in [Campaigns -> {"DRAFT", "QUEUED"}]
  /\ scheduledAt = [c \in Campaigns |-> 0]
  /\ text \in [Campaigns -> Texts \cup {NoText}]
  /\ lists = [c \in Campaigns |-> Addresses]
  /\ aged = [c \in Campaigns |-> FALSE]
  /\ rows = [c \in Campaigns |-> {}]
  /\ reachable = Addresses
  /\ tx = [a \in Actors |-> NoTx]
  /\ cycle = [w \in Cycles |-> NoCycle]
  /\ request = [a \in Admins |-> NoRequest]
  /\ now = 1
  /\ faults = 0

-----------------------------------------------------------------------------
(* Rows, locks and transactions. *)

Locked(c) == \E a \in Actors : tx[a].holds = c

Due(c) == status[c] = "SCHEDULED" /\ scheduledAt[c] <= now

\* SELECT ... FOR UPDATE SKIP LOCKED of queueCampaign: the row is in the expected status,
\* due if it is scheduled, and held by nobody else.
Claimable(c, from) ==
  /\ status[c] = from
  /\ from = "SCHEDULED" => scheduledAt[c] <= now
  /\ ~ Locked(c)

Hold(a, c) == tx' = [tx EXCEPT ![a] = [holds |-> c, step |-> "lists", lists |-> {}]]

Release(a) == tx' = [tx EXCEPT ![a] = NoTx]

\* generateRecipients reads the campaign's lists ...
ReadLists(a) ==
  /\ tx[a].step = "lists"
  /\ tx' = [tx EXCEPT ![a] = [@ EXCEPT !.step = "write", !.lists = lists[tx[a].holds]]]
  /\ UNCHANGED <<tables, cycle, request, now, faults>>

\* ... then the contacts and the suppressions, and inserts what is not there yet.
Queue(a) == rows[tx[a].holds] \cup (tx[a].lists \cap reachable)

\* generateRecipients wrote the rows and updated_at.
CommitRows(a) ==
  /\ tx[a].step = "write"
  /\ tx[a].holds \notin Cursed
  /\ rows' = [rows EXCEPT ![tx[a].holds] = Queue(a)]
  /\ aged' = [aged EXCEPT ![tx[a].holds] = FALSE]
  /\ Release(a)
  /\ UNCHANGED <<scheduledAt, text, lists, reachable>>

CommitQueueEvenEmpty(a) ==
  /\ CommitRows(a)
  /\ status' = [status EXCEPT ![tx[a].holds] = "QUEUED"]

\* queueCampaign commits: the status and the rows become visible in one step.
CommitQueue(a) ==
  /\ Queue(a) # {}
  /\ CommitRows(a)
  /\ status' = [status EXCEPT ![tx[a].holds] = "QUEUED"]

\* NoRecipients: nobody to send to, so nothing is kept.
RollBackEmpty(a) ==
  /\ tx[a].step = "write"
  /\ Queue(a) = {}
  /\ Release(a)
  /\ UNCHANGED tables

Fault(kind) ==
  /\ kind \in FaultKinds
  /\ faults < MaxFaults
  /\ faults' = faults + 1

\* A statement of the transaction fails, once or every time.
FailQueue(a) ==
  /\ tx[a].holds # NoCampaign
  /\ \/ Fault("database")
     \/ tx[a].holds \in Cursed /\ UNCHANGED faults
  /\ Release(a)
  /\ UNCHANGED tables

-----------------------------------------------------------------------------
(* The tick: activateDueCampaigns, then recoverStuckCampaigns. *)

Enter(w, p) == cycle' = [cycle EXCEPT ![w].phase = p]

StartCycle(w) ==
  /\ cycle[w].phase = "idle"
  /\ Enter(w, "activate")
  /\ UNCHANGED <<tables, tx, request, now, faults>>

Untried(w) == {c \in Campaigns \ cycle[w].tried : Due(c)}

Smaller(m, n) == IF m <= n THEN m ELSE n

\* The oldest due campaigns not tried yet, as many as may still be started.
FindDue(w) ==
  /\ cycle[w].phase = "activate"
  /\ DOMAIN cycle[w].page = {}
  /\ IF cycle[w].started >= BatchLimit \/ Untried(w) = {}
     THEN Enter(w, "recover")
     ELSE \E P \in SUBSET Untried(w) :
            /\ Cardinality(P) = Smaller(Cardinality(Untried(w)), BatchLimit - cycle[w].started)
            /\ \A c \in P, d \in Untried(w) \ P : scheduledAt[c] <= scheduledAt[d]
            /\ cycle' = [cycle EXCEPT ![w].page = [c \in P |-> scheduledAt[c]]]
  /\ UNCHANGED <<tables, tx, request, now, faults>>

\* The next candidate of the page is claimed, or skipped when it is held or has changed.
Take(w) ==
  /\ cycle[w].phase = "activate"
  /\ \E c \in DOMAIN cycle[w].page :
       LET page == cycle[w].page
           rest == [d \in DOMAIN page \ {c} |-> page[d]]
           looked == [cycle[w] EXCEPT !.page = rest, !.tried = @ \cup {c}]
       IN
       /\ \A d \in DOMAIN page : page[c] <= page[d]
       /\ IF Claimable(c, "SCHEDULED")
          THEN /\ cycle' = [cycle EXCEPT ![w] =
                    [looked EXCEPT !.phase = "queueing", !.current = c]]
               /\ Hold(w, c)
          ELSE cycle' = [cycle EXCEPT ![w] = looked] /\ UNCHANGED tx
  /\ UNCHANGED <<tables, request, now, faults>>

\* Back to the page, with one more campaign counted against the limit or not.
NextCandidate(w, counted) ==
  cycle' = [cycle EXCEPT ![w].phase = "activate", ![w].current = NoCampaign,
                         ![w].started = @ + counted]

Activated(w) ==
  /\ cycle[w].phase = "queueing"
  /\ CommitQueue(w)
  /\ NextCandidate(w, 1)
  /\ UNCHANGED <<request, now, faults>>

FoundEmpty(w) ==
  /\ cycle[w].phase = "queueing"
  /\ RollBackEmpty(w)
  /\ Enter(w, "empty")
  /\ UNCHANGED <<request, now, faults>>

ActivationFailsCounted(w) ==
  /\ cycle[w].phase = "queueing"
  /\ FailQueue(w)
  /\ NextCandidate(w, 1)
  /\ UNCHANGED <<request, now>>

\* The campaign stays SCHEDULED for the next cycle, and does not count.
ActivationFails(w) ==
  /\ cycle[w].phase = "queueing"
  /\ FailQueue(w)
  /\ NextCandidate(w, 0)
  /\ UNCHANGED <<request, now>>

CancelEmptyUnconditionally(w) ==
  LET c == cycle[w].current IN
  /\ cycle[w].phase = "empty"
  /\ ~ Locked(c)
  /\ status' = [status EXCEPT ![c] = "CANCELLED"]
  /\ aged' = [aged EXCEPT ![c] = FALSE]
  /\ NextCandidate(w, 1)
  /\ UNCHANGED <<scheduledAt, text, lists, rows, reachable, tx, request, now, faults>>

\* cancelEmptyCampaign: one more conditional UPDATE, after the rollback.
CancelEmpty(w) ==
  LET c == cycle[w].current IN
  /\ cycle[w].phase = "empty"
  /\ ~ Locked(c)
  /\ IF status[c] = "SCHEDULED"
     THEN /\ status' = [status EXCEPT ![c] = "CANCELLED"]
          /\ aged' = [aged EXCEPT ![c] = FALSE]
     ELSE UNCHANGED <<status, aged>>
  /\ NextCandidate(w, 1)
  /\ UNCHANGED <<scheduledAt, text, lists, rows, reachable, tx, request, now, faults>>

\* The UPDATE fails: the campaign stays SCHEDULED, as after a failed activation.
CancelEmptyFails(w) ==
  /\ cycle[w].phase = "empty"
  /\ Fault("database")
  /\ NextCandidate(w, 0)
  /\ UNCHANGED <<tables, tx, request, now>>

\* pastDeadline, a search that fails, or a connection that is gone: the rest waits for the
\* next cycle.
StopActivating(w) ==
  /\ \/ Fault("deadline") /\ cycle[w].phase = "activate"
     \/ Fault("database") /\ cycle[w].phase = "activate" /\ DOMAIN cycle[w].page = {}
     \/ Fault("connection") /\ cycle[w].phase \in {"activate", "queueing", "empty"}
  /\ cycle' = [cycle EXCEPT ![w] = [NoCycle EXCEPT !.phase = "recover"]]
  /\ Release(w)
  /\ UNCHANGED <<tables, request, now>>

\* The connection dies under the COMMIT, which the database has carried out.
CommitUnacknowledged(w) ==
  /\ cycle[w].phase = "queueing"
  /\ Fault("connection")
  /\ CommitQueue(w)
  /\ cycle' = [cycle EXCEPT ![w] = [NoCycle EXCEPT !.phase = "recover"]]
  /\ UNCHANGED <<request, now>>

StuckWhileSending(c) == status[c] = "SENDING" /\ aged[c] /\ rows[c] = {}

\* QUEUED for longer than the grace period, and not a single row.
Stuck(c) == status[c] = "QUEUED" /\ aged[c] /\ rows[c] = {}

FindStuck(w) ==
  /\ cycle[w].phase = "recover"
  /\ cycle' = [cycle EXCEPT ![w] =
       [NoCycle EXCEPT !.phase = "repair", !.stuck = {c \in Campaigns : Stuck(c)}]]
  /\ UNCHANGED <<tables, tx, request, now, faults>>

\* Under the lock the campaign must still be QUEUED, and still be empty.
TakeStuck(w) ==
  /\ cycle[w].phase = "repair"
  /\ \E c \in cycle[w].stuck :
       IF Claimable(c, "QUEUED") /\ rows[c] = {}
       THEN /\ cycle' = [cycle EXCEPT ![w].stuck = @ \ {c}, ![w].phase = "repairing"]
            /\ Hold(w, c)
       ELSE cycle' = [cycle EXCEPT ![w].stuck = @ \ {c}] /\ UNCHANGED tx
  /\ UNCHANGED <<tables, request, now, faults>>

Recovered(w) ==
  /\ cycle[w].phase = "repairing"
  /\ Queue(w) # {}
  /\ CommitRows(w)
  /\ Enter(w, "repair")
  /\ UNCHANGED <<status, request, now, faults>>

\* An empty campaign that was never sent is cancelled in the same transaction.
RecoveredEmpty(w) ==
  LET c == tx[w].holds IN
  /\ cycle[w].phase = "repairing"
  /\ tx[w].step = "write"
  /\ Queue(w) = {}
  /\ status' = [status EXCEPT ![c] = "CANCELLED"]
  /\ aged' = [aged EXCEPT ![c] = FALSE]
  /\ Release(w)
  /\ Enter(w, "repair")
  /\ UNCHANGED <<scheduledAt, text, lists, rows, reachable, request, now, faults>>

RecoveryFails(w) ==
  /\ cycle[w].phase = "repairing"
  /\ FailQueue(w)
  /\ Enter(w, "repair")
  /\ UNCHANGED <<request, now>>

StopRecovering(w) ==
  /\ \/ Fault("deadline") /\ cycle[w].phase = "repair"
     \/ Fault("database") /\ cycle[w].phase = "recover"
     \/ Fault("connection") /\ cycle[w].phase \in {"recover", "repairing"}
  /\ cycle' = [cycle EXCEPT ![w] = NoCycle]
  /\ Release(w)
  /\ UNCHANGED <<tables, request, now>>

\* What follows in the tick is SendQueue's.
EndCycle(w) ==
  /\ cycle[w].phase = "repair"
  /\ cycle[w].stuck = {}
  /\ cycle' = [cycle EXCEPT ![w] = NoCycle]
  /\ UNCHANGED <<tables, tx, request, now, faults>>

\* The process dies; the database rolls its transaction back.
CrashCycle(w) ==
  /\ Fault("crash")
  /\ cycle[w].phase # "idle"
  /\ cycle' = [cycle EXCEPT ![w] = NoCycle]
  /\ Release(w)
  /\ UNCHANGED <<tables, request, now>>

-----------------------------------------------------------------------------
(* Requests.  Every one of them reads the campaign before it writes. *)

Busy(a)    == request[a].step # "none"
Ask(a, s, c, t) == request' = [request EXCEPT ![a] = [step |-> s, on |-> c, time |-> t]]
Then(a, s) == request' = [request EXCEPT ![a].step = s]
Answer(a)  == request' = [request EXCEPT ![a] = NoRequest]

\* assertReadyToSend: a subject, a body and a configured SMTP server.
Ready(c) == status[c] = "DRAFT" /\ text[c] # NoText

AskToSend(a, c) ==
  /\ ~ Busy(a)
  /\ Ready(c)
  /\ Ask(a, "claim", c, 0)
  /\ UNCHANGED <<tables, tx, cycle, now, faults>>

\* sendDraftCampaign calls queueCampaign(id, "DRAFT").
ClaimDraft(a) ==
  LET c == request[a].on IN
  /\ request[a].step = "claim"
  /\ IF Claimable(c, "DRAFT") THEN Hold(a, c) /\ Then(a, "queueing")
                              ELSE Answer(a) /\ UNCHANGED tx
  /\ UNCHANGED <<tables, cycle, now, faults>>

SendDraft(a) ==
  /\ request[a].step = "queueing"
  /\ \/ CommitQueue(a)
     \/ RollBackEmpty(a)
  /\ Answer(a)
  /\ UNCHANGED <<cycle, now, faults>>

SendFails(a) ==
  /\ request[a].step = "queueing"
  /\ FailQueue(a)
  /\ Answer(a)
  /\ UNCHANGED <<cycle, now>>

\* scheduleDraftCampaign reads the draft and judges the time ...
AskToSchedule(a, c) ==
  /\ ~ Busy(a)
  /\ Ready(c)
  /\ \E t \in Time : t > now /\ Ask(a, "preview", c, t)
  /\ UNCHANGED <<tables, tx, cycle, now, faults>>

\* ... looks whether there is anybody to send to ...
Preview(a) ==
  LET c == request[a].on IN
  /\ request[a].step = "preview"
  /\ IF lists[c] \cap reachable = {} THEN Answer(a) ELSE Then(a, "schedule")
  /\ UNCHANGED <<tables, tx, cycle, now, faults>>

\* ... and schedules it if it is a draft still.
ScheduleDraft(a) ==
  LET c == request[a].on IN
  /\ request[a].step = "schedule"
  /\ ~ Locked(c)
  /\ IF status[c] = "DRAFT"
     THEN /\ status' = [status EXCEPT ![c] = "SCHEDULED"]
          /\ scheduledAt' = [scheduledAt EXCEPT ![c] = request[a].time]
          /\ aged' = [aged EXCEPT ![c] = FALSE]
     ELSE UNCHANGED <<status, scheduledAt, aged>>
  /\ Answer(a)
  /\ UNCHANGED <<text, lists, rows, reachable, tx, cycle, now, faults>>

AskToReschedule(a, c) ==
  /\ ~ Busy(a)
  /\ status[c] = "SCHEDULED"
  /\ \E t \in Time : t > now /\ Ask(a, "reschedule", c, t)
  /\ UNCHANGED <<tables, tx, cycle, now, faults>>

MovableWhileScheduled(c) == status[c] = "SCHEDULED"

Movable(c) == status[c] = "SCHEDULED" /\ scheduledAt[c] > now

\* rescheduleCampaign: only while the scheduler may not start it yet.
Reschedule(a) ==
  LET c == request[a].on IN
  /\ request[a].step = "reschedule"
  /\ ~ Locked(c)
  /\ IF Movable(c)
     THEN /\ scheduledAt' = [scheduledAt EXCEPT ![c] = request[a].time]
          /\ aged' = [aged EXCEPT ![c] = FALSE]
     ELSE UNCHANGED <<scheduledAt, aged>>
  /\ Answer(a)
  /\ UNCHANGED <<status, text, lists, rows, reachable, tx, cycle, now, faults>>

\* cancelScheduledCampaign, and the first statement of POST cancel: one conditional
\* UPDATE each, on the status found once the row is free.
Cancel(c, from) ==
  /\ status[c] \in from
  /\ ~ Locked(c)
  /\ status' = [status EXCEPT ![c] = "CANCELLED"]
  /\ aged' = [aged EXCEPT ![c] = FALSE]
  /\ UNCHANGED <<scheduledAt, text, lists, rows, reachable, tx, cycle, request, now, faults>>

CancelScheduled(c) == Cancel(c, {"SCHEDULED"})
CancelStarted(c)   == Cancel(c, {"QUEUED", "SENDING", "PAUSED"})

\* PATCH reads the draft ...
AskToEdit(a, c) ==
  /\ ~ Busy(a)
  /\ status[c] = "DRAFT"
  /\ Ask(a, "text", c, 0)
  /\ UNCHANGED <<tables, tx, cycle, now, faults>>

\* ... updates its content whatever its status is by then ...
EditText(a) ==
  LET c == request[a].on IN
  /\ request[a].step = "text"
  /\ ~ Locked(c)
  /\ IF status[c] # "ABSENT"
     THEN /\ \E x \in Texts \cup {NoText} : text' = [text EXCEPT ![c] = x]
          /\ aged' = [aged EXCEPT ![c] = FALSE]
     ELSE UNCHANGED <<text, aged>>
  /\ Then(a, "drop") \/ Answer(a)
  /\ UNCHANGED <<status, scheduledAt, lists, rows, reachable, tx, cycle, now, faults>>

\* ... and replaces its lists, in two statements.
DropLists(a) ==
  /\ request[a].step = "drop"
  /\ lists' = [lists EXCEPT ![request[a].on] = {}]
  /\ Then(a, "add") \/ Answer(a)
  /\ UNCHANGED <<status, scheduledAt, text, aged, rows, reachable, tx, cycle, now, faults>>

AddListsToNothing(a) ==
  LET c == request[a].on IN
  /\ request[a].step = "add"
  /\ ~ Locked(c)
  /\ \E L \in SUBSET Addresses : lists' = [lists EXCEPT ![c] = L]
  /\ Answer(a)
  /\ UNCHANGED <<status, scheduledAt, text, aged, rows, reachable, tx, cycle, now, faults>>

\* The foreign key makes the insert wait for the campaign's row lock.
AddLists(a) ==
  LET c == request[a].on IN
  /\ request[a].step = "add"
  /\ ~ Locked(c)
  /\ IF status[c] # "ABSENT"
     THEN \E L \in SUBSET Addresses : lists' = [lists EXCEPT ![c] = L]
     ELSE UNCHANGED lists
  /\ Answer(a)
  /\ UNCHANGED <<status, scheduledAt, text, aged, rows, reachable, tx, cycle, now, faults>>

\* DELETE refuses a campaign it reads as SENDING ...
AskToDelete(a, c) ==
  /\ ~ Busy(a)
  /\ status[c] \notin {"SENDING", "ABSENT"}
  /\ Ask(a, "delete", c, 0)
  /\ UNCHANGED <<tables, tx, cycle, now, faults>>

\* ... and deletes any other, with its rows and its lists.
Delete(a) ==
  LET c == request[a].on IN
  /\ request[a].step = "delete"
  /\ ~ Locked(c)
  /\ status' = [status EXCEPT ![c] = "ABSENT"]
  /\ rows' = [rows EXCEPT ![c] = {}]
  /\ lists' = [lists EXCEPT ![c] = {}]
  /\ Answer(a)
  /\ UNCHANGED <<scheduledAt, text, aged, reachable, tx, cycle, now, faults>>

\* The server dies under a request.
CrashRequest(a) ==
  /\ Fault("crash")
  /\ Busy(a)
  /\ Release(a)
  /\ Answer(a)
  /\ UNCHANGED <<tables, cycle, now>>

-----------------------------------------------------------------------------
(* Around them. *)

\* markCampaignsStarted, finalizeCompletedCampaigns, pausing and resuming.
Deliver(c) ==
  /\ ~ Locked(c)
  /\ \/ status[c] = "QUEUED" /\ rows[c] # {} /\ status' = [status EXCEPT ![c] = "SENDING"]
     \/ status[c] = "QUEUED" /\ rows[c] # {} /\ status' = [status EXCEPT ![c] = "COMPLETED"]
     \/ status[c] = "SENDING" /\ status' = [status EXCEPT ![c] = "COMPLETED"]
     \/ status[c] \in {"QUEUED", "SENDING"} /\ status' = [status EXCEPT ![c] = "PAUSED"]
     \/ status[c] = "PAUSED" /\ status' = [status EXCEPT ![c] = "SENDING"]
  /\ aged' = [aged EXCEPT ![c] = FALSE]
  /\ UNCHANGED <<scheduledAt, text, lists, rows, reachable, tx, cycle, request, now, faults>>

\* Contacts are imported and deleted, addresses suppressed and allowed again.
AudienceChanges ==
  /\ \E S \in SUBSET Addresses : S # reachable /\ reachable' = S
  /\ UNCHANGED <<status, scheduledAt, text, lists, aged, rows, tx, cycle, request, now, faults>>

\* The grace period of a campaign without rows passes.
GracePasses(c) ==
  /\ status[c] = "QUEUED" /\ rows[c] = {} /\ ~ aged[c]
  /\ aged' = [aged EXCEPT ![c] = TRUE]
  /\ UNCHANGED <<status, scheduledAt, text, lists, rows, reachable, tx, cycle, request, now, faults>>

Tick ==
  /\ now < MaxTime
  /\ now' = now + 1
  /\ UNCHANGED <<tables, tx, cycle, request, faults>>

-----------------------------------------------------------------------------

CycleStep(w) ==
  \/ FindDue(w) \/ Take(w) \/ Activated(w) \/ FoundEmpty(w) \/ ActivationFails(w)
  \/ CancelEmpty(w) \/ CancelEmptyFails(w) \/ FindStuck(w) \/ TakeStuck(w) \/ Recovered(w) \/ RecoveredEmpty(w)
  \/ RecoveryFails(w) \/ EndCycle(w)

RequestStep(a) ==
  \/ ClaimDraft(a) \/ SendDraft(a) \/ SendFails(a) \/ Preview(a) \/ ScheduleDraft(a)
  \/ Reschedule(a) \/ EditText(a) \/ DropLists(a) \/ AddLists(a) \/ Delete(a)

NewRequest(a, c) ==
  \/ AskToSend(a, c) \/ AskToSchedule(a, c) \/ AskToReschedule(a, c)
  \/ AskToEdit(a, c) \/ AskToDelete(a, c)

Next ==
  \/ \E w \in Cycles : \/ StartCycle(w) \/ ReadLists(w) \/ CycleStep(w)
                       \/ StopActivating(w) \/ CommitUnacknowledged(w) \/ StopRecovering(w)
                       \/ CrashCycle(w)
  \/ \E a \in Admins : \/ ReadLists(a) \/ RequestStep(a) \/ CrashRequest(a)
                       \/ \E c \in Campaigns : NewRequest(a, c)
  \/ \E c \in Campaigns : CancelScheduled(c) \/ CancelStarted(c) \/ Deliver(c) \/ GracePasses(c)
  \/ AudienceChanges
  \/ Tick

Spec == Init /\ [][Next]_vars

\* Ticks come round again and run, a request in progress goes on, time passes.  Nobody has
\* to ask for anything.
FairSpec ==
  /\ Spec
  /\ \A w \in Cycles : WF_vars(StartCycle(w)) /\ WF_vars(ReadLists(w) \/ CycleStep(w))
  /\ \A a \in Admins : WF_vars(ReadLists(a) \/ RequestStep(a))
  /\ \A c \in Campaigns : WF_vars(GracePasses(c))
  /\ WF_vars(Tick)

-----------------------------------------------------------------------------
(* Properties. *)

Lifecycle == INSTANCE CampaignLifecycle

(* Requests and cycles together do to a campaign only what CampaignLifecycle allows: one
   start, with the whole queue in the same step, never before its time, and no way back. *)
ImplementsLifecycle == Lifecycle!Spec

(* "There is no state in which a campaign is QUEUED but has no recipients", except those
   an older version left: no interleaving of requests, cycles and failures produces one. *)
QueuedHasRows ==
  [][\A c \in Campaigns : status'[c] = "QUEUED" /\ rows'[c] = {}
                            => status[c] = "QUEUED" /\ rows[c] = {}]_vars

(* What the scheduler found due it may close: between finding it empty and cancelling it
   nobody can have moved it to a later time. *)
ClosesOnlyDue ==
  \A w \in Cycles : cycle[w].phase = "empty" /\ status[cycle[w].current] = "SCHEDULED"
                      => Due(cycle[w].current)

(* A deletion takes everything of a campaign, however it has changed since it was read:
   no transaction is left at work on it, and neither a queue nor the second half of an
   edit comes after it. *)
DeletedIsWhole ==
  \A c \in Campaigns : status[c] = "ABSENT" => rows[c] = {} /\ lists[c] = {} /\ ~ Locked(c)

(* What was decided on an earlier look fits the campaign it is carried out on. *)
LateStepsFit == ClosesOnlyDue /\ DeletedIsWhole

(* A campaign whose time has come leaves SCHEDULED, even behind older ones whose
   activation keeps failing, and even when it is found empty. *)
DueStarts ==
  \A c \in Campaigns \ Cursed : Due(c) ~> status[c] # "SCHEDULED"

(* A campaign left QUEUED without rows is given its queue or closed. *)
StuckRepaired ==
  \A c \in Campaigns \ Cursed : (status[c] = "QUEUED" /\ rows[c] = {})
                                  ~> (status[c] # "QUEUED" \/ rows[c] # {})

(* "Content is frozen once the queue exists: changing it mid-send would mean different
   recipients receive different emails" (PATCH of a campaign). *)
ContentFrozen ==
  [][\A c \in Campaigns : rows[c] # {} /\ rows'[c] # {} => text'[c] = text[c]]_vars
=============================================================================
