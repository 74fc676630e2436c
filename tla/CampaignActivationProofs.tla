------------------------ MODULE CampaignActivationProofs ------------------------
(***************************************************************************)
(* Theorems about CampaignActivation: for every set of campaigns,          *)
(* addresses, cycles and requests, and any number of faults, the types,    *)
(* the locks, and the implementation of CampaignLifecycle.                 *)
(***************************************************************************)
EXTENDS CampaignActivation, TLAPS

-----------------------------------------------------------------------------
(* The inductive invariant: who holds a campaign, and what its holder may rely on. *)

\* A transaction that has begun holds one campaign, and nobody else holds it.
LockInv ==
  /\ \A a, b \in Actors : tx[a].holds = tx[b].holds /\ tx[a].holds # NoCampaign => a = b
  /\ \A a \in Actors : tx[a].step # "none" <=> tx[a].holds # NoCampaign

\* Once due, a campaign stays due until it leaves SCHEDULED.
Committed(c) == c \in Campaigns /\ status[c] # "DRAFT" /\ (status[c] = "SCHEDULED" => Due(c))

CycleInv(w) ==
  /\ cycle[w].phase \in {"queueing", "repairing"} <=> tx[w].holds # NoCampaign
  /\ cycle[w].phase = "queueing" => cycle[w].current = tx[w].holds /\ Due(tx[w].holds)
  /\ cycle[w].phase = "repairing" => status[tx[w].holds] = "QUEUED" /\ rows[tx[w].holds] = {}
  /\ cycle[w].phase = "empty" => Committed(cycle[w].current)

RequestInv(a) ==
  /\ request[a].step = "queueing" <=> tx[a].holds # NoCampaign
  /\ request[a].step = "queueing" => request[a].on = tx[a].holds /\ status[tx[a].holds] = "DRAFT"
  /\ request[a].step # "none" => request[a].on \in Campaigns
  /\ request[a].step \in {"preview", "schedule", "reschedule"} => request[a].time \in Time

IInv ==
  /\ TypeOK
  /\ LockInv
  /\ \A w \in Cycles : CycleInv(w)
  /\ \A a \in Admins : RequestInv(a)

-----------------------------------------------------------------------------
(* Types. *)

LEMMA PageType ==
  ASSUME NEW P \in SUBSET Campaigns, NEW f \in [P -> Time]
  PROVE  f \in Pages
  BY DEF Pages

LEMMA TxType ==
  ASSUME TypeOK, NEW a \in Actors
  PROVE  /\ Release(a) => tx' \in [Actors -> Tx]
         /\ \A c \in Campaigns : Hold(a, c) => tx' \in [Actors -> Tx]
<1>1. tx \in [Actors -> Tx]
  BY DEF TypeOK
<1>2. ASSUME NEW t \in Tx, tx' = [tx EXCEPT ![a] = t] PROVE tx' \in [Actors -> Tx]
  BY <1>1, <1>2
<1>3. NoTx \in Tx
  BY DEF NoTx, Tx
<1>4. Release(a) => tx' \in [Actors -> Tx]
  BY <1>2, <1>3 DEF Release
<1>5. ASSUME NEW c \in Campaigns, Hold(a, c) PROVE tx' \in [Actors -> Tx]
  <2>1. [holds |-> c, step |-> "lists", lists |-> {}] \in Tx
    BY DEF Tx
  <2> QED
    BY <1>2, <1>5, <2>1 DEF Hold
<1> QED
  BY <1>4, <1>5

LEMMA FaultType ==
  ASSUME TypeOK, NEW kind, Fault(kind)
  PROVE  faults' \in Nat
  BY DEF TypeOK, Fault

LEMMA NoCycleType == NoCycle \in Cycle
<1>1. NoPage \in [{} -> Time]
  BY DEF NoPage
<1>2. NoPage \in Pages
  BY <1>1 DEF Pages
<1> QED
  BY <1>2 DEF NoCycle, Cycle, Phase

LEMMA InitInv == Init => IInv
<1> SUFFICES ASSUME Init PROVE IInv
  OBVIOUS
<1>1. TypeOK
  <2>1. tx \in [Actors -> Tx]
    BY DEF Init, Tx, NoTx
  <2>2. request \in [Admins -> Request]
    BY CampaignActivationAssumption DEF Init, Request, NoRequest, Step
  <2>3. cycle \in [Cycles -> Cycle]
    BY NoCycleType DEF Init
  <2> QED
    BY <2>1, <2>2, <2>3, CampaignActivationAssumption DEF Init, TypeOK, Status, Time
<1>2. LockInv
  BY DEF Init, LockInv, NoTx
<1>3. ASSUME NEW w \in Cycles PROVE CycleInv(w)
  BY DEF Init, CycleInv, NoTx, NoCycle, Actors
<1>4. ASSUME NEW a \in Admins PROVE RequestInv(a)
  BY DEF Init, RequestInv, NoTx, NoRequest, Actors
<1> QED
  BY <1>1, <1>2, <1>3, <1>4 DEF IInv

LEMMA EnterType ==
  ASSUME TypeOK, NEW w \in Cycles, NEW p \in Phase, Enter(w, p)
  PROVE  cycle' \in [Cycles -> Cycle]
  BY ZenonT(60) DEF TypeOK, Enter, Cycle

LEMMA NextCandidateType ==
  ASSUME TypeOK, NEW w \in Cycles, NEW n \in {0, 1}, NextCandidate(w, n)
  PROVE  cycle' \in [Cycles -> Cycle]
<1> DEFINE next == [cycle[w] EXCEPT !.phase = "activate", !.current = NoCampaign,
                                    !.started = cycle[w].started + n]
<1>1. cycle' = [cycle EXCEPT ![w] = next]
  BY DEF NextCandidate, TypeOK
<1>2. cycle[w] \in Cycle
  BY DEF TypeOK
<1>3. cycle[w].started + n \in Nat
  BY <1>2 DEF Cycle
<1>4. next \in Cycle
  BY <1>2, <1>3 DEF Cycle, Phase
<1> QED
  BY <1>1, <1>4 DEF TypeOK

LEMMA RestartType ==
  ASSUME TypeOK, NEW w \in Cycles, NEW p \in Phase,
         cycle' = [cycle EXCEPT ![w] = [NoCycle EXCEPT !.phase = p]]
  PROVE  cycle' \in [Cycles -> Cycle]
  BY NoCycleType DEF TypeOK, Cycle

\* Everything TypeOK says of the tables.
TablesOK ==
  /\ status \in [Campaigns -> Status]
  /\ scheduledAt \in [Campaigns -> 0..MaxTime]
  /\ text \in [Campaigns -> Texts \cup {NoText}]
  /\ lists \in [Campaigns -> SUBSET Addresses]
  /\ aged \in [Campaigns -> BOOLEAN]
  /\ rows \in [Campaigns -> SUBSET Addresses]
  /\ reachable \subseteq Addresses
  /\ \A c \in Campaigns : status[c] = "SCHEDULED" => scheduledAt[c] # 0

LEMMA TablesType == TypeOK => TablesOK
  BY DEF TypeOK, TablesOK

LEMMA SameTables == ASSUME TypeOK, UNCHANGED tables PROVE TablesOK'
  BY DEF TypeOK, TablesOK, tables

LEMMA CommitRowsType ==
  ASSUME IInv, NEW a \in Actors, CommitRows(a)
  PROVE  /\ tx[a].holds \in Campaigns
         /\ rows' \in [Campaigns -> SUBSET Addresses]
         /\ aged' \in [Campaigns -> BOOLEAN]
         /\ tx' \in [Actors -> Tx]
<1>1. tx[a].holds \in Campaigns
  BY DEF IInv, TypeOK, LockInv, CommitRows, Tx
<1>2. Queue(a) \in SUBSET Addresses
  BY <1>1 DEF IInv, TypeOK, Queue, Tx
<1>3. rows' \in [Campaigns -> SUBSET Addresses]
  BY <1>2 DEF IInv, TypeOK, CommitRows
<1>4. aged' \in [Campaigns -> BOOLEAN]
  BY ZenonT(30) DEF IInv, TypeOK, CommitRows
<1> QED
  BY <1>1, <1>3, <1>4, TxType DEF IInv, CommitRows

LEMMA CommitQueueType ==
  ASSUME IInv, NEW a \in Actors, CommitQueue(a)
  PROVE  TablesOK' /\ tx' \in [Actors -> Tx]
<1>1. /\ status' = [status EXCEPT ![tx[a].holds] = "QUEUED"]
      /\ CommitRows(a)
  BY DEF CommitQueue
<1>2. UNCHANGED <<scheduledAt, text, lists, reachable>>
  BY <1>1 DEF CommitRows
<1>3. TypeOK
  BY DEF IInv
<1> QED
  BY <1>1, <1>2, <1>3, CommitRowsType DEF TypeOK, TablesOK, Status

\* The local state of everybody, and the environment.
LocalOK ==
  /\ tx \in [Actors -> Tx]
  /\ cycle \in [Cycles -> Cycle]
  /\ request \in [Admins -> Request]
  /\ now \in Time
  /\ faults \in Nat

LEMMA TypeParts == TablesOK' /\ LocalOK' => TypeOK'
  BY DEF TypeOK, TablesOK, LocalOK

LEMMA SameLocal ==
  ASSUME TypeOK
  PROVE  /\ UNCHANGED tx => tx' \in [Actors -> Tx]
         /\ UNCHANGED cycle => cycle' \in [Cycles -> Cycle]
         /\ UNCHANGED request => request' \in [Admins -> Request]
         /\ UNCHANGED now => now' \in Time
         /\ UNCHANGED faults => faults' \in Nat
  BY DEF TypeOK

LEMMA ReadListsType == ASSUME IInv, NEW a \in Actors, ReadLists(a) PROVE TypeOK'
<1>1. TypeOK
  BY DEF IInv
<1>2. tx[a].holds \in Campaigns
  BY DEF IInv, TypeOK, LockInv, ReadLists, Tx
<1>3. lists[tx[a].holds] \in SUBSET Addresses
  BY <1>1, <1>2 DEF TypeOK
<1>4. tx' = [tx EXCEPT ![a] = [tx[a] EXCEPT !.step = "write", !.lists = lists[tx[a].holds]]]
  BY <1>1 DEF ReadLists, TypeOK
<1>5. tx' \in [Actors -> Tx]
  BY <1>1, <1>2, <1>3, <1>4 DEF TypeOK, Tx
<1> QED
  BY <1>1, <1>5, SameTables, SameLocal, TypeParts DEF ReadLists, LocalOK

LEMMA ActivationType ==
  ASSUME IInv, NEW w \in Cycles,
         \/ StartCycle(w) \/ FindDue(w) \/ Take(w) \/ Activated(w) \/ FoundEmpty(w)
         \/ ActivationFails(w) \/ CancelEmpty(w) \/ CancelEmptyFails(w)
         \/ StopActivating(w) \/ CommitUnacknowledged(w)
  PROVE  TypeOK'
<1> USE TypeParts DEF LocalOK
<1>1. TypeOK /\ w \in Actors
  BY DEF IInv, Actors
<1>2. /\ UNCHANGED tables => TablesOK'
      /\ UNCHANGED tx => tx' \in [Actors -> Tx]
      /\ UNCHANGED request => request' \in [Admins -> Request]
      /\ UNCHANGED now => now' \in Time
      /\ UNCHANGED faults => faults' \in Nat
  BY <1>1, SameTables, SameLocal
<1>3. /\ Release(w) => tx' \in [Actors -> Tx]
      /\ \A c \in Campaigns : Hold(w, c) => tx' \in [Actors -> Tx]
  BY <1>1, TxType
<1>4. \A kind : Fault(kind) => faults' \in Nat
  BY <1>1, FaultType
<1>5. CASE StartCycle(w)
  BY <1>1, <1>2, <1>5, EnterType DEF StartCycle, Phase
<1>6. CASE FindDue(w)
  <2>1. CASE Enter(w, "recover")
    BY <1>1, <1>2, <1>6, <2>1, EnterType DEF FindDue, Phase
  <2>2. ASSUME NEW P \in SUBSET Untried(w),
               \A c \in P, d \in Untried(w) \ P : scheduledAt[c] <= scheduledAt[d],
               cycle' = [cycle EXCEPT ![w].page = [c \in P |-> scheduledAt[c]]]
        PROVE  cycle' \in [Cycles -> Cycle]
    <3>1. [c \in P |-> scheduledAt[c]] \in [P -> Time]
      BY <1>1, CampaignActivationAssumption DEF Untried, Due, TypeOK, Time
    <3>2. [c \in P |-> scheduledAt[c]] \in Pages
      BY <3>1, PageType DEF Untried
    <3> QED
      BY ZenonT(60), <1>1, <2>2, <3>2 DEF TypeOK, Cycle
  <2> QED
    BY <1>2, <1>6, <2>1, <2>2 DEF FindDue
<1>7. CASE Take(w)
  <2> DEFINE page == cycle[w].page
  <2>1. PICK c \in DOMAIN page :
          LET rest == [d \in DOMAIN page \ {c} |-> page[d]]
              looked == [cycle[w] EXCEPT !.page = rest, !.tried = cycle[w].tried \cup {c}]
          IN  IF Claimable(c, "SCHEDULED")
              THEN /\ cycle' = [cycle EXCEPT ![w] =
                        [looked EXCEPT !.phase = "queueing", !.current = c]]
                   /\ Hold(w, c)
              ELSE cycle' = [cycle EXCEPT ![w] = looked] /\ UNCHANGED tx
    BY <1>7 DEF Take
  <2> DEFINE rest == [d \in DOMAIN page \ {c} |-> page[d]]
             looked == [cycle[w] EXCEPT !.page = rest, !.tried = cycle[w].tried \cup {c}]
  <2>2. cycle[w] \in Cycle
    BY <1>1 DEF TypeOK
  <2>3. PICK P \in SUBSET Campaigns : page \in [P -> Time]
    BY <2>2 DEF Cycle, Pages
  <2>4. c \in Campaigns /\ rest \in [P \ {c} -> Time]
    BY <2>3
  <2>5. rest \in Pages
    BY <2>4, PageType
  <2>6. looked \in Cycle
    BY <2>2, <2>4, <2>5 DEF Cycle
  <2>7. [looked EXCEPT !.phase = "queueing", !.current = c] \in Cycle
    BY <2>4, <2>6 DEF Cycle, Phase
  <2>8. cycle' \in [Cycles -> Cycle] /\ tx' \in [Actors -> Tx]
    BY <1>1, <1>2, <1>3, <2>1, <2>4, <2>6, <2>7 DEF TypeOK
  <2> QED
    BY <1>2, <1>7, <2>8 DEF Take
<1>8. CASE Activated(w)
  BY <1>1, <1>2, <1>8, CommitQueueType, NextCandidateType DEF Activated
<1>9. CASE FoundEmpty(w)
  BY <1>1, <1>2, <1>3, <1>9, EnterType DEF FoundEmpty, RollBackEmpty, Phase
<1>10. CASE ActivationFails(w)
  BY <1>1, <1>2, <1>3, <1>4, <1>10, NextCandidateType DEF ActivationFails, FailQueue
<1>11. CASE CancelEmpty(w)
  <2>1. cycle' \in [Cycles -> Cycle]
    BY <1>1, <1>11, NextCandidateType DEF CancelEmpty
  <2>2. TablesOK'
    BY <1>1, <1>11 DEF CancelEmpty, TablesOK, TypeOK, Status
  <2> QED
    BY <1>2, <1>11, <2>1, <2>2 DEF CancelEmpty
<1>12. CASE CancelEmptyFails(w)
  BY <1>1, <1>2, <1>4, <1>12, NextCandidateType DEF CancelEmptyFails
<1>13. CASE StopActivating(w)
  BY <1>1, <1>2, <1>3, <1>4, <1>13, RestartType DEF StopActivating, Phase
<1>14. CASE CommitUnacknowledged(w)
  BY <1>1, <1>2, <1>4, <1>14, CommitQueueType, RestartType DEF CommitUnacknowledged, Phase
<1> QED
  BY <1>5, <1>6, <1>7, <1>8, <1>9, <1>10, <1>11, <1>12, <1>13, <1>14

LEMMA RepairType ==
  ASSUME IInv, NEW w \in Cycles,
         \/ FindStuck(w) \/ TakeStuck(w) \/ Recovered(w) \/ RecoveredEmpty(w)
         \/ RecoveryFails(w) \/ StopRecovering(w) \/ EndCycle(w) \/ CrashCycle(w)
  PROVE  TypeOK'
<1> USE TypeParts DEF LocalOK
<1>1. TypeOK /\ w \in Actors
  BY DEF IInv, Actors
<1>2. /\ UNCHANGED tables => TablesOK'
      /\ UNCHANGED tx => tx' \in [Actors -> Tx]
      /\ UNCHANGED request => request' \in [Admins -> Request]
      /\ UNCHANGED now => now' \in Time
      /\ UNCHANGED faults => faults' \in Nat
  BY <1>1, SameTables, SameLocal
<1>3. /\ Release(w) => tx' \in [Actors -> Tx]
      /\ \A c \in Campaigns : Hold(w, c) => tx' \in [Actors -> Tx]
  BY <1>1, TxType
<1>4. \A kind : Fault(kind) => faults' \in Nat
  BY <1>1, FaultType
<1>5. CASE FindStuck(w)
  <2>1. [NoCycle EXCEPT !.phase = "repair", !.stuck = {c \in Campaigns : Stuck(c)}] \in Cycle
    BY NoCycleType DEF Cycle, Phase
  <2>2. cycle' \in [Cycles -> Cycle]
    BY <1>1, <1>5, <2>1 DEF FindStuck, TypeOK
  <2> QED
    BY <1>2, <1>5, <2>2 DEF FindStuck
<1>6. CASE TakeStuck(w)
  <2>1. PICK c \in cycle[w].stuck :
          IF Claimable(c, "QUEUED") /\ rows[c] = {}
          THEN /\ cycle' = [cycle EXCEPT ![w].stuck = @ \ {c}, ![w].phase = "repairing"]
               /\ Hold(w, c)
          ELSE cycle' = [cycle EXCEPT ![w].stuck = @ \ {c}] /\ UNCHANGED tx
    BY <1>6 DEF TakeStuck
  <2>2. c \in Campaigns
    BY <1>1 DEF TypeOK, Cycle
  <2>3. /\ cycle \in [Cycles -> Cycle]
        /\ [cycle[w] EXCEPT !.stuck = @ \ {c}] \in Cycle
        /\ [cycle[w] EXCEPT !.stuck = @ \ {c}, !.phase = "repairing"] \in Cycle
    <3>1. cycle \in [Cycles -> Cycle] /\ cycle[w] \in Cycle
      BY <1>1 DEF TypeOK
    <3>2. "repairing" \in Phase
      BY DEF Phase
    <3> QED BY <3>1, <3>2 DEF Cycle
  <2>4. \/ cycle' = [cycle EXCEPT ![w] = [cycle[w] EXCEPT !.stuck = @ \ {c}, !.phase = "repairing"]]
        \/ cycle' = [cycle EXCEPT ![w] = [cycle[w] EXCEPT !.stuck = @ \ {c}]]
    BY <2>1, <2>3
  <2>5. cycle' \in [Cycles -> Cycle]
    BY <2>3, <2>4
  <2>6. tx' \in [Actors -> Tx]
    BY <1>2, <1>3, <2>1, <2>2
  <2> QED
    BY <1>2, <1>6, <2>5, <2>6 DEF TakeStuck
<1>7. CASE Recovered(w)
  <2>1. TablesOK' /\ tx' \in [Actors -> Tx]
    BY <1>1, <1>7, CommitRowsType DEF Recovered, CommitRows, TablesOK, TypeOK
  <2> QED
    BY <1>1, <1>2, <1>7, <2>1, EnterType DEF Recovered, Phase
<1>8. CASE RecoveredEmpty(w)
  <2>1. TablesOK'
    BY <1>1, <1>8 DEF RecoveredEmpty, TablesOK, TypeOK, Status
  <2> QED
    BY <1>1, <1>2, <1>3, <1>8, <2>1, EnterType DEF RecoveredEmpty, Phase
<1>9. CASE RecoveryFails(w)
  BY <1>1, <1>2, <1>3, <1>4, <1>9, EnterType DEF RecoveryFails, FailQueue, Phase
<1>10. ASSUME cycle' = [cycle EXCEPT ![w] = NoCycle] PROVE cycle' \in [Cycles -> Cycle]
  BY <1>1, <1>10, NoCycleType DEF TypeOK
<1>11. CASE StopRecovering(w)
  BY <1>1, <1>2, <1>3, <1>4, <1>10, <1>11 DEF StopRecovering
<1>12. CASE EndCycle(w)
  BY <1>1, <1>2, <1>10, <1>12 DEF EndCycle
<1>13. CASE CrashCycle(w)
  BY <1>1, <1>2, <1>3, <1>4, <1>10, <1>13 DEF CrashCycle
<1> QED
  BY <1>5, <1>6, <1>7, <1>8, <1>9, <1>11, <1>12, <1>13

LEMMA RequestTypes ==
  ASSUME TypeOK, NEW a \in Admins
  PROVE  /\ Answer(a) => request' \in [Admins -> Request]
         /\ \A s \in Step : Then(a, s) => request' \in [Admins -> Request]
         /\ \A s \in Step, c \in Campaigns, t \in 0..MaxTime :
              Ask(a, s, c, t) => request' \in [Admins -> Request]
<1>1. 0 \in 0..MaxTime
  BY CampaignActivationAssumption
<1>2. NoRequest \in Request
  BY <1>1 DEF NoRequest, Request, Step
<1>3. Answer(a) => request' \in [Admins -> Request]
  BY <1>2 DEF Answer, TypeOK
<1>4. ASSUME NEW s \in Step, Then(a, s) PROVE request' \in [Admins -> Request]
  BY <1>4 DEF Then, TypeOK, Request
<1>5. ASSUME NEW s \in Step, NEW c \in Campaigns, NEW t \in 0..MaxTime, Ask(a, s, c, t)
      PROVE  request' \in [Admins -> Request]
  BY <1>5 DEF Ask, TypeOK, Request
<1> QED
  BY <1>3, <1>4, <1>5

LEMMA AskType ==
  ASSUME IInv, NEW a \in Admins, NEW c \in Campaigns, NewRequest(a, c)
  PROVE  TypeOK'
<1>1. TypeOK
  BY DEF IInv
<1>2. request' \in [Admins -> Request]
  BY <1>1, RequestTypes, CampaignActivationAssumption
  DEF NewRequest, AskToSend, AskToSchedule, AskToReschedule, AskToEdit, AskToDelete, Step, Time
<1>3. UNCHANGED <<tables, tx, cycle, now, faults>>
  BY DEF NewRequest, AskToSend, AskToSchedule, AskToReschedule, AskToEdit, AskToDelete
<1> QED
  BY <1>1, <1>2, <1>3, SameTables, SameLocal, TypeParts DEF LocalOK

LEMMA RequestStepType ==
  ASSUME IInv, NEW a \in Admins, RequestStep(a) \/ CrashRequest(a)
  PROVE  TypeOK'
<1> USE TypeParts DEF LocalOK
<1>1. TypeOK /\ a \in Actors /\ RequestInv(a)
  BY DEF IInv, Actors
<1>2. /\ UNCHANGED tables => TablesOK'
      /\ UNCHANGED tx => tx' \in [Actors -> Tx]
      /\ UNCHANGED cycle => cycle' \in [Cycles -> Cycle]
      /\ UNCHANGED now => now' \in Time
      /\ UNCHANGED faults => faults' \in Nat
  BY <1>1, SameTables, SameLocal
<1>3. /\ Release(a) => tx' \in [Actors -> Tx]
      /\ \A c \in Campaigns : Hold(a, c) => tx' \in [Actors -> Tx]
  BY <1>1, TxType
<1>4. \A kind : Fault(kind) => faults' \in Nat
  BY <1>1, FaultType
<1>5. /\ Answer(a) => request' \in [Admins -> Request]
      /\ \A s \in Step : Then(a, s) => request' \in [Admins -> Request]
  BY <1>1, RequestTypes
<1>6. CASE ClaimDraft(a)
  <2>1. request[a].on \in Campaigns
    BY <1>1, <1>6 DEF ClaimDraft, RequestInv
  <2>2. tx' \in [Actors -> Tx]
    BY <1>2, <1>3, <1>6, <2>1 DEF ClaimDraft
  <2>3. request' \in [Admins -> Request]
    BY <1>5, <1>6 DEF ClaimDraft, Step
  <2> QED
    BY <1>2, <1>6, <2>2, <2>3 DEF ClaimDraft
<1>7. CASE SendDraft(a)
  <2>1. TablesOK' /\ tx' \in [Actors -> Tx]
    BY <1>1, <1>2, <1>3, <1>7, CommitQueueType DEF SendDraft, RollBackEmpty
  <2> QED
    BY <1>2, <1>5, <1>7, <2>1 DEF SendDraft
<1>8. CASE SendFails(a)
  BY <1>2, <1>3, <1>4, <1>5, <1>8 DEF SendFails, FailQueue
<1>9. CASE Preview(a)
  BY <1>2, <1>5, <1>9 DEF Preview, Step
<1>10. CASE ScheduleDraft(a)
  <2>1. request[a].time \in 0..MaxTime /\ request[a].time # 0
    BY <1>1, <1>10, CampaignActivationAssumption DEF ScheduleDraft, RequestInv, Time
  <2>4. aged' \in [Campaigns -> BOOLEAN]
    BY <1>1, <1>10, ZenonT(30) DEF ScheduleDraft, TypeOK
  <2>3. status' \in [Campaigns -> Status]
    BY <1>1, <1>10 DEF ScheduleDraft, TypeOK, Status
  <2>5. scheduledAt' \in [Campaigns -> 0..MaxTime]
    BY <1>1, <1>10, <2>1 DEF ScheduleDraft, TypeOK
  <2>6. \A c \in Campaigns : status'[c] = "SCHEDULED" => scheduledAt'[c] # 0
    BY <1>1, <1>10, <2>1 DEF ScheduleDraft, TypeOK
  <2>2. TablesOK'
    BY <1>1, <1>10, <2>3, <2>4, <2>5, <2>6 DEF ScheduleDraft, TablesOK, TypeOK
  <2> QED
    BY <1>2, <1>5, <1>10, <2>2 DEF ScheduleDraft
<1>11. CASE Reschedule(a)
  <2>1. request[a].time \in 0..MaxTime /\ request[a].time # 0
    BY <1>1, <1>11, CampaignActivationAssumption DEF Reschedule, RequestInv, Time
  <2>4. aged' \in [Campaigns -> BOOLEAN]
    BY <1>1, <1>11, ZenonT(30) DEF Reschedule, TypeOK
  <2>3. UNCHANGED status
    BY <1>11 DEF Reschedule
  <2>5. scheduledAt' \in [Campaigns -> 0..MaxTime]
    BY <1>1, <1>11, <2>1 DEF Reschedule, TypeOK
  <2>6. \A c \in Campaigns : status'[c] = "SCHEDULED" => scheduledAt'[c] # 0
    BY <1>1, <1>11, <2>1 DEF Reschedule, TypeOK
  <2>2. TablesOK'
    BY <1>1, <1>11, <2>3, <2>4, <2>5, <2>6 DEF Reschedule, TablesOK, TypeOK
  <2> QED
    BY <1>2, <1>5, <1>11, <2>2 DEF Reschedule
<1>12. CASE EditText(a)
  <2>1. text' \in [Campaigns -> Texts \cup {NoText}] /\ aged' \in [Campaigns -> BOOLEAN]
    BY <1>1, <1>12 DEF EditText, TypeOK
  <2>2. TablesOK'
    BY <1>1, <1>12, <2>1 DEF EditText, TablesOK, TypeOK
  <2> QED
    BY <1>2, <1>5, <1>12, <2>2 DEF EditText, Step
<1>13. CASE DropLists(a)
  <2>1. TablesOK'
    BY <1>1, <1>13 DEF DropLists, TablesOK, TypeOK
  <2> QED
    BY <1>2, <1>5, <1>13, <2>1 DEF DropLists, Step
<1>14. CASE AddLists(a)
  <2>1. TablesOK'
    BY <1>1, <1>14 DEF AddLists, TablesOK, TypeOK
  <2> QED
    BY <1>2, <1>5, <1>14, <2>1 DEF AddLists
<1>15. CASE Delete(a)
  <2>1. TablesOK'
    BY <1>1, <1>15 DEF Delete, TablesOK, TypeOK, Status
  <2> QED
    BY <1>2, <1>5, <1>15, <2>1 DEF Delete
<1>16. CASE CrashRequest(a)
  BY <1>2, <1>3, <1>4, <1>5, <1>16 DEF CrashRequest
<1> QED
  BY <1>6, <1>7, <1>8, <1>9, <1>10, <1>11, <1>12, <1>13, <1>14, <1>15, <1>16 DEF RequestStep

\* What happens to the tables and the clock without a cycle or a request in progress.
Elsewhere ==
  \/ \E c \in Campaigns : CancelScheduled(c) \/ CancelStarted(c) \/ Deliver(c) \/ GracePasses(c)
  \/ AudienceChanges
  \/ Tick

LEMMA ElsewhereType ==
  ASSUME TypeOK, Elsewhere
  PROVE  TypeOK'
<1> USE DEF TypeOK
<1>1. ASSUME NEW c \in Campaigns, CancelScheduled(c) \/ CancelStarted(c) PROVE TypeOK'
  BY <1>1 DEF CancelScheduled, CancelStarted, Cancel, Status
<1>2. ASSUME NEW c \in Campaigns, Deliver(c) PROVE TypeOK'
  <2>1. /\ aged' = [aged EXCEPT ![c] = FALSE]
        /\ UNCHANGED <<scheduledAt, text, lists, rows, reachable, tx, cycle, request, now, faults>>
        /\ \E s \in {"SENDING", "COMPLETED", "PAUSED"} : status' = [status EXCEPT ![c] = s]
    BY <1>2 DEF Deliver
  <2> QED
    BY <2>1 DEF Status
<1>3. ASSUME NEW c \in Campaigns, GracePasses(c) PROVE TypeOK'
  BY <1>3 DEF GracePasses
<1>4. CASE AudienceChanges
  BY <1>4 DEF AudienceChanges
<1>5. CASE Tick
  BY <1>5, CampaignActivationAssumption DEF Tick, Time, tables
<1> QED
  BY <1>1, <1>2, <1>3, <1>4, <1>5 DEF Elsewhere

-----------------------------------------------------------------------------
(* Every action is a step of CampaignLifecycle, on a campaign that nobody else holds. *)

Effect(held) ==
  \/ UNCHANGED <<status, scheduledAt, rows, now>>
  \/ Lifecycle!Tick
  \/ \E c \in Campaigns : Lifecycle!CampaignStep(c) /\ (Locked(c) => c = held)

LEMMA EffectSimulates ==
  ASSUME NEW held, Effect(held)
  PROVE  [Lifecycle!Next]_Lifecycle!vars
  BY DEF Effect, Lifecycle!Next, Lifecycle!vars

\* A transaction begins on a free campaign, goes on, or ends.
TxMove(a) ==
  \/ UNCHANGED tx
  \/ Release(a)
  \/ \E c \in Campaigns : ~ Locked(c) /\ Hold(a, c)
  \/ ReadLists(a)

LEMMA OthersTx ==
  ASSUME IInv, NEW a \in Actors, TxMove(a), NEW b \in Actors \ {a}
  PROVE  tx'[b] = tx[b]
  BY DEF IInv, TypeOK, TxMove, Release, Hold, ReadLists

LEMMA LocksKept ==
  ASSUME IInv, NEW a \in Actors, TxMove(a)
  PROVE  LockInv'
<1> USE CampaignActivationAssumption DEF IInv, TypeOK, LockInv
<1>1. CASE UNCHANGED tx
  BY <1>1
<1>2. CASE Release(a)
  BY <1>2 DEF Release, NoTx
<1>3. ASSUME NEW c \in Campaigns, ~ Locked(c), Hold(a, c) PROVE LockInv'
  BY <1>3 DEF Hold, Locked
<1>4. CASE ReadLists(a)
  <2>1. \A b \in Actors : tx'[b].holds = tx[b].holds
    BY <1>4 DEF ReadLists, Tx
  <2>2. tx'[a].step = "write" /\ tx[a].step = "lists"
    BY <1>4 DEF ReadLists, Tx
  <2>3. \A b \in Actors \ {a} : tx'[b] = tx[b]
    BY <1>4 DEF ReadLists
  <2> QED
    BY <2>1, <2>2, <2>3
<1> QED
  BY <1>1, <1>2, <1>3, <1>4 DEF TxMove

LEMMA StepFrame ==
  ASSUME TypeOK, NEW c \in Campaigns, Lifecycle!CampaignStep(c), NEW d \in Campaigns \ {c}
  PROVE  /\ status'[d] = status[d] /\ scheduledAt'[d] = scheduledAt[d] /\ rows'[d] = rows[d]
         /\ now' = now
  BY DEF TypeOK, Lifecycle!CampaignStep, Lifecycle!Schedule, Lifecycle!Reschedule, Lifecycle!Start,
         Lifecycle!Abandon, Lifecycle!Repair, Lifecycle!Deliver, Lifecycle!Withdraw,
         Lifecycle!Remove, Lifecycle!Becomes

\* What the holder of a campaign knows of it stays true whatever others do.
LEMMA HeldUndisturbed ==
  ASSUME IInv, NEW held, Effect(held), NEW c \in Campaigns, Locked(c), c # held
  PROVE  status'[c] = status[c] /\ rows'[c] = rows[c] /\ (Due(c) => Due(c)')
<1>2. now \in Nat
  BY CampaignActivationAssumption DEF IInv, TypeOK, Time
<1>3. scheduledAt[c] \in Int
  BY CampaignActivationAssumption DEF IInv, TypeOK
<1>4. CASE UNCHANGED <<status, scheduledAt, rows, now>>
  BY <1>4 DEF Due
<1>5. CASE Lifecycle!Tick
  BY <1>2, <1>3, <1>5 DEF Due, Lifecycle!Tick
<1>6. ASSUME NEW d \in Campaigns, Lifecycle!CampaignStep(d), Locked(d) => d = held
      PROVE  /\ status'[c] = status[c] /\ scheduledAt'[c] = scheduledAt[c] /\ rows'[c] = rows[c]
             /\ now' = now
  <2>1. d # c
    BY <1>6
  <2> QED
    BY <1>6, <2>1, StepFrame DEF IInv
<1> QED
  BY <1>4, <1>5, <1>6 DEF Effect, Due

\* Nobody makes a draft of a campaign again, and a due campaign is not moved.
LEMMA CommittedForGood ==
  ASSUME IInv, NEW held, Effect(held), NEW c, Committed(c)
  PROVE  Committed(c)'
<1> USE DEF Committed, Due
<1>1. c \in Campaigns /\ TypeOK
  BY DEF IInv
<1>2. now \in Nat /\ scheduledAt[c] \in Int
  BY <1>1, CampaignActivationAssumption DEF TypeOK, Time
<1>3. CASE UNCHANGED <<status, scheduledAt, rows, now>>
  BY <1>3
<1>4. CASE Lifecycle!Tick
  BY <1>2, <1>4 DEF Lifecycle!Tick
<1>5. ASSUME NEW d \in Campaigns, Lifecycle!CampaignStep(d) PROVE Committed(c)'
  <2>1. CASE d # c
    BY <1>1, <1>5, <2>1, StepFrame
  <2>2. CASE d = c
    BY <1>1, <1>2, <1>5, <2>2
    DEF TypeOK, Lifecycle!CampaignStep, Lifecycle!Schedule, Lifecycle!Reschedule, Lifecycle!Start,
        Lifecycle!Abandon, Lifecycle!Repair, Lifecycle!Deliver, Lifecycle!Withdraw,
        Lifecycle!Remove, Lifecycle!Becomes
  <2> QED
    BY <2>1, <2>2
<1> QED
  BY <1>3, <1>4, <1>5 DEF Effect

LEMMA StartSimulates ==
  ASSUME IInv, NEW a \in Actors, CommitQueue(a), UNCHANGED now,
         status[tx[a].holds] = "DRAFT" \/ Due(tx[a].holds)
  PROVE  tx[a].holds \in Campaigns /\ Lifecycle!Start(tx[a].holds)
<1>1. CommitRows(a) /\ tx[a].holds \in Campaigns
  BY CommitRowsType DEF CommitQueue
<1>2. Queue(a) \in Lifecycle!Queues
  BY <1>1 DEF CommitQueue, Queue, Lifecycle!Queues, IInv, TypeOK, Tx
<1> QED
  BY <1>1, <1>2 DEF CommitQueue, CommitRows, Due, Lifecycle!Start, Lifecycle!Becomes

LEMMA RecoverySimulates ==
  ASSUME IInv, NEW w \in Cycles, Recovered(w)
  PROVE  tx[w].holds \in Campaigns /\ Lifecycle!Repair(tx[w].holds)
<1>1. CommitRows(w) /\ w \in Actors /\ tx[w].holds \in Campaigns
  BY CommitRowsType DEF Recovered, Actors
<1>2. Queue(w) \in Lifecycle!Queues
  BY <1>1 DEF Recovered, Queue, Lifecycle!Queues, IInv, TypeOK, Tx
<1>3. status[tx[w].holds] = "QUEUED" /\ rows[tx[w].holds] = {}
  BY DEF IInv, CycleInv, Recovered
<1> QED
  BY <1>1, <1>2, <1>3 DEF Recovered, CommitRows, Lifecycle!Repair

\* What a cycle's own steps establish for it.
LEMMA CycleSetters ==
  ASSUME TypeOK, NEW w \in Cycles
  PROVE  /\ Release(w) => tx'[w].holds = NoCampaign
         /\ \A c : Hold(w, c) => tx'[w].holds = c
         /\ \A p : Enter(w, p) => cycle'[w].phase = p /\ cycle'[w].current = cycle[w].current
         /\ \A n : NextCandidate(w, n) => cycle'[w].phase = "activate"
         /\ \A n : cycle' = [cycle EXCEPT ![w] = n] => cycle'[w] = n
  BY DEF TypeOK, Release, Hold, NoTx, Tx, Actors, Enter, NextCandidate, Cycle

LEMMA RestartPhase ==
  ASSUME TypeOK, NEW w \in Cycles, NEW p \in Phase, NEW S,
         \/ cycle' = [cycle EXCEPT ![w] = [NoCycle EXCEPT !.phase = p]]
         \/ cycle' = [cycle EXCEPT ![w] = [NoCycle EXCEPT !.phase = p, !.stuck = S]]
  PROVE  cycle'[w].phase = p
<1>1. NoCycle \in Cycle
  BY NoCycleType
<1>2. \/ cycle'[w] = [NoCycle EXCEPT !.phase = p]
      \/ cycle'[w] = [NoCycle EXCEPT !.phase = p, !.stuck = S]
  BY DEF TypeOK
<1> QED
  BY <1>1, <1>2 DEF Cycle

LEMMA ActivationMove ==
  ASSUME IInv, NEW w \in Cycles,
         \/ StartCycle(w) \/ FindDue(w) \/ Take(w) \/ Activated(w) \/ FoundEmpty(w)
         \/ ActivationFails(w) \/ CancelEmpty(w) \/ CancelEmptyFails(w)
         \/ StopActivating(w) \/ CommitUnacknowledged(w)
  PROVE  Effect(tx[w].holds) /\ TxMove(w) /\ CycleInv(w)'
<1>1. TypeOK /\ w \in Actors /\ CycleInv(w) /\ cycle[w] \in Cycle /\ NoCampaign \notin Campaigns
  BY CampaignActivationAssumption DEF IInv, TypeOK, Actors
<1>2. UNCHANGED tables /\ UNCHANGED now => Effect(tx[w].holds)
  BY DEF Effect, tables
<1>3. ASSUME CommitQueue(w), UNCHANGED now, cycle[w].phase = "queueing"
      PROVE  Effect(tx[w].holds) /\ TxMove(w) /\ tx'[w].holds = NoCampaign
  <2>1. tx[w].holds \in Campaigns /\ Lifecycle!Start(tx[w].holds)
    BY <1>1, <1>3, StartSimulates DEF CycleInv
  <2>2. Release(w)
    BY <1>3 DEF CommitQueue, CommitRows
  <2> QED
    BY <1>1, <2>1, <2>2, CycleSetters DEF Effect, TxMove, Lifecycle!CampaignStep
<1>4. ASSUME tx'[w].holds = NoCampaign, cycle'[w].phase \in {"idle", "activate", "recover", "repair"}
      PROVE  CycleInv(w)'
  BY <1>4 DEF CycleInv
<1>5. CASE StartCycle(w)
  BY <1>1, <1>2, <1>4, <1>5, CycleSetters DEF StartCycle, TxMove, CycleInv
<1>6. CASE FindDue(w)
  <2>1. cycle[w].phase = "activate" /\ UNCHANGED <<tables, tx, now>>
    BY <1>6 DEF FindDue
  <2>2. cycle'[w].phase \in {"activate", "recover"}
    BY <1>1, <1>6, <2>1 DEF FindDue, Enter, Cycle, TypeOK
  <2> QED
    BY <1>1, <1>2, <1>4, <2>1, <2>2 DEF TxMove, CycleInv
<1>7. CASE Take(w)
  <2> DEFINE page == cycle[w].page
  <2>1. PICK c \in DOMAIN page :
          LET rest == [d \in DOMAIN page \ {c} |-> page[d]]
              looked == [cycle[w] EXCEPT !.page = rest, !.tried = cycle[w].tried \cup {c}]
          IN  IF Claimable(c, "SCHEDULED")
              THEN /\ cycle' = [cycle EXCEPT ![w] =
                        [looked EXCEPT !.phase = "queueing", !.current = c]]
                   /\ Hold(w, c)
              ELSE cycle' = [cycle EXCEPT ![w] = looked] /\ UNCHANGED tx
    BY <1>7 DEF Take
  <2> DEFINE rest == [d \in DOMAIN page \ {c} |-> page[d]]
             looked == [cycle[w] EXCEPT !.page = rest, !.tried = cycle[w].tried \cup {c}]
  <2>2. UNCHANGED tables /\ UNCHANGED now /\ cycle[w].phase = "activate"
    BY <1>7 DEF Take
  <2>3. c \in Campaigns
    BY <1>1 DEF Cycle, Pages
  <2>4. CASE Claimable(c, "SCHEDULED")
    <3>1. Hold(w, c) /\ ~ Locked(c) /\ tx'[w].holds = c
      BY <1>1, <2>1, <2>4, CycleSetters DEF Claimable
    <3>2. cycle'[w].phase = "queueing" /\ cycle'[w].current = c
      <4>1. cycle'[w] = [looked EXCEPT !.phase = "queueing", !.current = c]
        BY <1>1, <2>1, <2>4 DEF TypeOK
      <4> QED
        BY <1>1, <4>1 DEF Cycle
    <3>3. Due(c)'
      BY <2>2, <2>4 DEF Claimable, Due, tables
    <3>4. CycleInv(w)'
      BY <1>1, <2>3, <3>1, <3>2, <3>3 DEF CycleInv, Due
    <3> QED
      BY <1>2, <2>2, <2>3, <3>1, <3>4 DEF TxMove
  <2>5. CASE ~ Claimable(c, "SCHEDULED")
    <3>1. UNCHANGED tx /\ cycle'[w].phase = "activate"
      <4>1. UNCHANGED tx /\ cycle'[w] = looked
        BY <1>1, <2>1, <2>5 DEF TypeOK
      <4> QED
        BY <1>1, <2>2, <4>1 DEF Cycle
    <3> QED
      BY <1>1, <1>2, <1>4, <2>2, <3>1 DEF TxMove, CycleInv
  <2> QED
    BY <2>4, <2>5
<1>8. CASE Activated(w)
  BY <1>1, <1>3, <1>4, <1>8, CycleSetters DEF Activated
<1>9. CASE FoundEmpty(w)
  <2>1. Release(w) /\ UNCHANGED <<tables, now>> /\ cycle'[w].phase = "empty"
        /\ cycle'[w].current = cycle[w].current /\ tx'[w].holds = NoCampaign
    BY <1>1, <1>9, CycleSetters DEF FoundEmpty, RollBackEmpty
  <2>2. cycle[w].current \in Campaigns /\ Due(cycle[w].current)
    BY <1>1, <1>9 DEF FoundEmpty, CycleInv, IInv, TypeOK, Tx
  <2>3. Committed(cycle[w].current)'
    BY <2>1, <2>2 DEF Committed, Due, tables
  <2> QED
    BY <1>2, <2>1, <2>3 DEF TxMove, CycleInv, Committed, Due
<1>10. CASE ActivationFails(w)
  BY <1>1, <1>2, <1>4, <1>10, CycleSetters DEF ActivationFails, FailQueue, TxMove
<1>11. CASE CancelEmpty(w)
  <2> DEFINE c == cycle[w].current
  <2>1. cycle[w].phase = "empty" /\ ~ Locked(c) /\ UNCHANGED <<scheduledAt, rows, now, tx>>
    BY <1>11 DEF CancelEmpty
  <2>2. c \in Campaigns
    BY <1>1, <2>1 DEF CycleInv, Committed
  <2>3. CASE status[c] = "SCHEDULED"
    <3>1. Lifecycle!Abandon(c)
      BY <1>11, <2>1, <2>3 DEF CancelEmpty, Lifecycle!Abandon, Lifecycle!Becomes
    <3> QED
      BY <1>1, <1>4, <1>11, <2>1, <2>2, <3>1, CycleSetters
      DEF CancelEmpty, Effect, TxMove, CycleInv, Lifecycle!CampaignStep
  <2>4. CASE status[c] # "SCHEDULED"
    BY <1>1, <1>4, <1>11, <2>1, <2>4, CycleSetters DEF CancelEmpty, Effect, TxMove, CycleInv
  <2> QED
    BY <2>3, <2>4
<1>12. CASE CancelEmptyFails(w)
  BY <1>1, <1>2, <1>4, <1>12, CycleSetters DEF CancelEmptyFails, TxMove, CycleInv
<1>13. CASE StopActivating(w)
  <2>1. cycle'[w].phase = "recover"
    BY <1>1, <1>13, RestartPhase DEF StopActivating, Phase
  <2> QED
    BY <1>1, <1>2, <1>4, <1>13, <2>1, CycleSetters DEF StopActivating, TxMove
<1>14. CASE CommitUnacknowledged(w)
  <2>1. cycle'[w].phase = "recover"
    BY <1>1, <1>14, RestartPhase DEF CommitUnacknowledged, Phase
  <2> QED
    BY <1>1, <1>3, <1>4, <1>14, <2>1 DEF CommitUnacknowledged
<1> QED
  BY <1>5, <1>6, <1>7, <1>8, <1>9, <1>10, <1>11, <1>12, <1>13, <1>14

LEMMA RepairMove ==
  ASSUME IInv, NEW w \in Cycles,
         \/ FindStuck(w) \/ TakeStuck(w) \/ Recovered(w) \/ RecoveredEmpty(w)
         \/ RecoveryFails(w) \/ StopRecovering(w) \/ EndCycle(w) \/ CrashCycle(w)
  PROVE  Effect(tx[w].holds) /\ TxMove(w) /\ CycleInv(w)'
<1>1. TypeOK /\ w \in Actors /\ CycleInv(w) /\ cycle[w] \in Cycle /\ NoCampaign \notin Campaigns
  BY CampaignActivationAssumption DEF IInv, TypeOK, Actors
<1>2. UNCHANGED tables /\ UNCHANGED now => Effect(tx[w].holds)
  BY DEF Effect, tables
<1>4. ASSUME tx'[w].holds = NoCampaign, cycle'[w].phase \in {"idle", "activate", "recover", "repair"}
      PROVE  CycleInv(w)'
  BY <1>4 DEF CycleInv
<1>5. CASE FindStuck(w)
  <2>1. cycle'[w].phase = "repair"
    BY <1>1, <1>5, RestartPhase DEF FindStuck, Phase
  <2> QED
    BY <1>1, <1>2, <1>4, <1>5, <2>1 DEF FindStuck, TxMove, CycleInv
<1>6. CASE TakeStuck(w)
  <2>1. PICK c \in cycle[w].stuck :
          IF Claimable(c, "QUEUED") /\ rows[c] = {}
          THEN /\ cycle' = [cycle EXCEPT ![w].stuck = @ \ {c}, ![w].phase = "repairing"]
               /\ Hold(w, c)
          ELSE cycle' = [cycle EXCEPT ![w].stuck = @ \ {c}] /\ UNCHANGED tx
    BY <1>6 DEF TakeStuck
  <2>2. c \in Campaigns
    BY <1>1 DEF Cycle
  <2>3. UNCHANGED tables /\ UNCHANGED now /\ cycle[w].phase = "repair"
    BY <1>6 DEF TakeStuck
  <2>4. CASE Claimable(c, "QUEUED") /\ rows[c] = {}
    <3>1. Hold(w, c) /\ ~ Locked(c) /\ tx'[w].holds = c
      BY <1>1, <2>1, <2>4, CycleSetters DEF Claimable
    <3>2. cycle'[w].phase = "repairing"
      BY <1>1, <2>1, <2>4 DEF TypeOK, Cycle
    <3>3. status'[c] = "QUEUED" /\ rows'[c] = {}
      BY <2>3, <2>4 DEF Claimable, tables
    <3>4. CycleInv(w)'
      BY <1>1, <2>2, <3>1, <3>2, <3>3 DEF CycleInv
    <3> QED
      BY <1>2, <2>2, <2>3, <3>1, <3>4 DEF TxMove
  <2>5. CASE ~ (Claimable(c, "QUEUED") /\ rows[c] = {})
    <3>1. UNCHANGED tx /\ cycle'[w].phase = "repair"
      BY <1>1, <2>1, <2>3, <2>5 DEF TypeOK, Cycle
    <3> QED
      BY <1>1, <1>2, <1>4, <2>3, <3>1 DEF TxMove, CycleInv
  <2> QED
    BY <2>4, <2>5
<1>7. CASE Recovered(w)
  <2>1. Effect(tx[w].holds)
    BY <1>7, RecoverySimulates DEF Effect, Lifecycle!CampaignStep
  <2> QED
    BY <1>1, <1>4, <1>7, <2>1, CycleSetters DEF Recovered, CommitRows, TxMove
<1>8. CASE RecoveredEmpty(w)
  <2>1. tx[w].holds \in Campaigns /\ status[tx[w].holds] = "QUEUED" /\ rows[tx[w].holds] = {}
    BY <1>1, <1>8 DEF RecoveredEmpty, CycleInv, TypeOK, Tx
  <2>2. Lifecycle!Repair(tx[w].holds)
    BY <1>8, <2>1 DEF RecoveredEmpty, Lifecycle!Repair, Lifecycle!Becomes
  <2>3. Effect(tx[w].holds)
    BY <2>1, <2>2 DEF Effect, Lifecycle!CampaignStep
  <2> QED
    BY <1>1, <1>4, <1>8, <2>3, CycleSetters DEF RecoveredEmpty, TxMove
<1>9. CASE RecoveryFails(w)
  BY <1>1, <1>2, <1>4, <1>9, CycleSetters DEF RecoveryFails, FailQueue, TxMove
<1>10. ASSUME cycle' = [cycle EXCEPT ![w] = NoCycle] PROVE cycle'[w].phase = "idle"
  <2>1. cycle'[w] = NoCycle
    BY <1>1, <1>10 DEF TypeOK
  <2> QED
    BY <2>1 DEF NoCycle
<1>11. CASE StopRecovering(w)
  BY <1>1, <1>2, <1>4, <1>10, <1>11, CycleSetters DEF StopRecovering, TxMove
<1>12. CASE EndCycle(w)
  BY <1>1, <1>2, <1>4, <1>10, <1>12 DEF EndCycle, TxMove, CycleInv
<1>13. CASE CrashCycle(w)
  BY <1>1, <1>2, <1>4, <1>10, <1>13, CycleSetters DEF CrashCycle, TxMove
<1> QED
  BY <1>5, <1>6, <1>7, <1>8, <1>9, <1>11, <1>12, <1>13

LEMMA RequestSetters ==
  ASSUME TypeOK, NEW a \in Admins
  PROVE  /\ Release(a) => tx'[a].holds = NoCampaign
         /\ \A c : Hold(a, c) => tx'[a].holds = c
         /\ Answer(a) => request'[a].step = "none"
         /\ \A s : Then(a, s) => /\ request'[a].step = s
                                 /\ request'[a].on = request[a].on
                                 /\ request'[a].time = request[a].time
         /\ \A s, c, t : Ask(a, s, c, t) => request'[a] = [step |-> s, on |-> c, time |-> t]
  BY DEF TypeOK, Release, Hold, NoTx, Tx, Actors, Answer, NoRequest, Then, Ask, Request

LEMMA AskMove ==
  ASSUME IInv, NEW a \in Admins, NEW c \in Campaigns, NewRequest(a, c)
  PROVE  Effect(tx[a].holds) /\ TxMove(a) /\ RequestInv(a)'
<1>1. TypeOK /\ a \in Actors /\ RequestInv(a)
  BY DEF IInv, Actors
<1>2. UNCHANGED <<tables, tx, cycle, now, faults>> /\ request[a].step = "none"
  BY DEF NewRequest, AskToSend, AskToSchedule, AskToReschedule, AskToEdit, AskToDelete, Busy
<1>3. tx'[a].holds = NoCampaign
  BY <1>1, <1>2 DEF RequestInv
<1>4. \/ \E s \in {"claim", "text", "delete"} : Ask(a, s, c, 0)
      \/ \E s \in {"preview", "reschedule"}, t \in Time : Ask(a, s, c, t)
  BY DEF NewRequest, AskToSend, AskToSchedule, AskToReschedule, AskToEdit, AskToDelete
<1>5. RequestInv(a)'
  <2>1. PICK s \in {"claim", "text", "delete", "preview", "reschedule"}, t \in Time \cup {0} :
          Ask(a, s, c, t) /\ (s \in {"preview", "reschedule"} => t \in Time)
    BY <1>4
  <2>2. request'[a] = [step |-> s, on |-> c, time |-> t]
    BY <1>1, <2>1, RequestSetters
  <2> QED
    BY <1>1, <1>3, <2>1, <2>2 DEF RequestInv
<1> QED
  BY <1>2, <1>5 DEF Effect, TxMove, tables

LEMMA RequestMove ==
  ASSUME IInv, NEW a \in Admins, RequestStep(a) \/ CrashRequest(a)
  PROVE  Effect(tx[a].holds) /\ TxMove(a) /\ RequestInv(a)'
<1>1. TypeOK /\ a \in Actors /\ RequestInv(a) /\ NoCampaign \notin Campaigns
  BY CampaignActivationAssumption DEF IInv, Actors
<1>2. UNCHANGED <<status, scheduledAt, rows, now>> => Effect(tx[a].holds)
  BY DEF Effect
<1>3. UNCHANGED tables => UNCHANGED <<status, scheduledAt, rows>>
  BY DEF tables
<1>4. ASSUME tx'[a].holds = NoCampaign, Answer(a) PROVE RequestInv(a)'
  BY <1>1, <1>4, RequestSetters DEF RequestInv
<1>5. UNCHANGED tx /\ request[a].step # "queueing" => TxMove(a) /\ tx'[a].holds = NoCampaign
  BY <1>1 DEF TxMove, RequestInv
<1>6. CASE ClaimDraft(a)
  <2> DEFINE c == request[a].on
  <2>1. c \in Campaigns /\ UNCHANGED tables /\ UNCHANGED now
    BY <1>1, <1>6 DEF ClaimDraft, RequestInv
  <2>2. CASE Claimable(c, "DRAFT")
    <3>1. Hold(a, c) /\ Then(a, "queueing") /\ ~ Locked(c) /\ status'[c] = "DRAFT"
      BY <1>6, <2>1, <2>2 DEF ClaimDraft, Claimable, tables
    <3>2. RequestInv(a)'
      BY <1>1, <2>1, <3>1, RequestSetters DEF RequestInv
    <3> QED
      BY <1>2, <1>3, <2>1, <3>1, <3>2 DEF TxMove
  <2>3. CASE ~ Claimable(c, "DRAFT")
    BY <1>2, <1>3, <1>4, <1>5, <1>6, <2>1, <2>3 DEF ClaimDraft
  <2> QED
    BY <2>2, <2>3
<1>7. CASE SendDraft(a)
  <2>1. request[a].step = "queueing" /\ UNCHANGED now /\ Answer(a)
    BY <1>7 DEF SendDraft
  <2>2. CASE CommitQueue(a)
    <3>1. tx[a].holds \in Campaigns /\ Lifecycle!Start(tx[a].holds)
      BY <1>1, <2>1, <2>2, StartSimulates DEF RequestInv
    <3>2. Release(a)
      BY <2>2 DEF CommitQueue, CommitRows
    <3> QED
      BY <1>1, <1>4, <2>1, <3>1, <3>2, RequestSetters DEF Effect, TxMove, Lifecycle!CampaignStep
  <2>3. CASE RollBackEmpty(a)
    BY <1>1, <1>2, <1>3, <1>4, <2>1, <2>3, RequestSetters DEF RollBackEmpty, TxMove
  <2> QED
    BY <1>7, <2>2, <2>3 DEF SendDraft
<1>8. CASE SendFails(a)
  BY <1>1, <1>2, <1>3, <1>4, <1>8, RequestSetters DEF SendFails, FailQueue, TxMove
<1>9. CASE Preview(a)
  <2>1. request[a].step = "preview" /\ UNCHANGED <<tables, tx, now>>
    BY <1>9 DEF Preview
  <2>2. CASE Then(a, "schedule")
    BY <1>1, <1>2, <1>3, <1>5, <2>1, <2>2, RequestSetters DEF RequestInv
  <2> QED
    BY <1>2, <1>3, <1>4, <1>5, <1>9, <2>1, <2>2 DEF Preview
<1>10. CASE ScheduleDraft(a)
  <2> DEFINE c == request[a].on
  <2>1. /\ request[a].step = "schedule" /\ ~ Locked(c) /\ UNCHANGED <<rows, tx, now>>
        /\ Answer(a)
    BY <1>10 DEF ScheduleDraft
  <2>2. c \in Campaigns /\ request[a].time \in 1..MaxTime
    BY <1>1, <2>1 DEF RequestInv, Time
  <2>3. CASE status[c] = "DRAFT"
    <3>1. Lifecycle!Schedule(c)
      BY <1>10, <2>1, <2>2, <2>3 DEF ScheduleDraft, Lifecycle!Schedule, Lifecycle!Becomes
    <3> QED
      BY <1>4, <1>5, <2>1, <2>2, <3>1 DEF Effect, Lifecycle!CampaignStep
  <2>4. CASE status[c] # "DRAFT"
    BY <1>2, <1>4, <1>5, <1>10, <2>1, <2>4 DEF ScheduleDraft
  <2> QED
    BY <2>3, <2>4
<1>11. CASE Reschedule(a)
  <2> DEFINE c == request[a].on
  <2>1. /\ request[a].step = "reschedule" /\ ~ Locked(c) /\ UNCHANGED <<status, rows, tx, now>>
        /\ Answer(a)
    BY <1>11 DEF Reschedule
  <2>2. c \in Campaigns /\ request[a].time \in 1..MaxTime
    BY <1>1, <2>1 DEF RequestInv, Time
  <2>3. CASE Movable(c)
    <3>1. Lifecycle!Reschedule(c)
      BY <1>11, <2>1, <2>2, <2>3 DEF Reschedule, Movable, Lifecycle!Reschedule
    <3> QED
      BY <1>4, <1>5, <2>1, <2>2, <3>1 DEF Effect, Lifecycle!CampaignStep
  <2>4. CASE ~ Movable(c)
    BY <1>2, <1>4, <1>5, <1>11, <2>1, <2>4 DEF Reschedule
  <2> QED
    BY <2>3, <2>4
<1>12. CASE EditText(a)
  <2>1. request[a].step = "text" /\ UNCHANGED <<status, scheduledAt, rows, tx, now>>
    BY <1>12 DEF EditText
  <2>2. CASE Then(a, "drop")
    BY <1>1, <1>2, <1>5, <2>1, <2>2, RequestSetters DEF RequestInv
  <2> QED
    BY <1>2, <1>4, <1>5, <1>12, <2>1, <2>2 DEF EditText
<1>13. CASE DropLists(a)
  <2>1. request[a].step = "drop" /\ UNCHANGED <<status, scheduledAt, rows, tx, now>>
    BY <1>13 DEF DropLists
  <2>2. CASE Then(a, "add")
    BY <1>1, <1>2, <1>5, <2>1, <2>2, RequestSetters DEF RequestInv
  <2> QED
    BY <1>2, <1>4, <1>5, <1>13, <2>1, <2>2 DEF DropLists
<1>14. CASE AddLists(a)
  BY <1>2, <1>4, <1>5, <1>14 DEF AddLists
<1>15. CASE Delete(a)
  <2> DEFINE c == request[a].on
  <2>1. c \in Campaigns
    BY <1>1, <1>15 DEF Delete, RequestInv
  <2>2. Lifecycle!Remove(c)
    BY <1>15 DEF Delete, Lifecycle!Remove, Lifecycle!Becomes
  <2> QED
    BY <1>4, <1>5, <1>15, <2>1, <2>2 DEF Delete, Effect, Lifecycle!CampaignStep
<1>16. CASE CrashRequest(a)
  BY <1>1, <1>2, <1>3, <1>4, <1>16, RequestSetters DEF CrashRequest, TxMove
<1> QED
  BY <1>6, <1>7, <1>8, <1>9, <1>10, <1>11, <1>12, <1>13, <1>14, <1>15, <1>16 DEF RequestStep

LEMMA ElsewhereMove ==
  ASSUME IInv, Elsewhere
  PROVE  Effect(NoCampaign) /\ UNCHANGED <<tx, cycle, request>>
<1>1. ASSUME NEW c \in Campaigns, CancelScheduled(c) PROVE Effect(NoCampaign)
  <2>1. Lifecycle!Abandon(c) /\ ~ Locked(c)
    BY <1>1 DEF CancelScheduled, Cancel, Lifecycle!Abandon, Lifecycle!Becomes
  <2> QED
    BY <2>1 DEF Effect, Lifecycle!CampaignStep
<1>2. ASSUME NEW c \in Campaigns, CancelStarted(c) PROVE Effect(NoCampaign)
  <2>1. Lifecycle!Withdraw(c) /\ ~ Locked(c)
    BY <1>2 DEF CancelStarted, Cancel, Lifecycle!Withdraw, Lifecycle!Becomes
  <2> QED
    BY <2>1 DEF Effect, Lifecycle!CampaignStep
<1>3. ASSUME NEW c \in Campaigns, Deliver(c) PROVE Effect(NoCampaign)
  <2>1. Lifecycle!Deliver(c) /\ ~ Locked(c)
    BY <1>3 DEF Deliver, Lifecycle!Deliver, Lifecycle!Becomes
  <2> QED
    BY <2>1 DEF Effect, Lifecycle!CampaignStep
<1>4. ASSUME NEW c \in Campaigns, GracePasses(c) PROVE Effect(NoCampaign)
  BY <1>4 DEF GracePasses, Effect
<1>5. CASE AudienceChanges
  BY <1>5 DEF AudienceChanges, Effect
<1>6. CASE Tick
  BY <1>6 DEF Tick, Effect, Lifecycle!Tick, tables
<1>7. UNCHANGED <<tx, cycle, request>>
  BY DEF Elsewhere, CancelScheduled, CancelStarted, Cancel, Deliver, GracePasses, AudienceChanges, Tick
<1> QED
  BY <1>1, <1>2, <1>3, <1>4, <1>5, <1>6, <1>7 DEF Elsewhere

-----------------------------------------------------------------------------
(* The invariant is inductive. *)

LEMMA Bystanders ==
  ASSUME IInv, NEW held, Effect(held), NEW b \in Actors, tx'[b] = tx[b],
         tx[b].holds # NoCampaign => tx[b].holds # held
  PROVE  /\ b \in Cycles /\ cycle'[b] = cycle[b] => CycleInv(b)'
         /\ b \in Admins /\ request'[b] = request[b] => RequestInv(b)'
<1> DEFINE c == tx[b].holds
<1>1. /\ b \in Cycles => CycleInv(b)
      /\ b \in Admins => RequestInv(b)
  BY DEF IInv
<1>2. c # NoCampaign => /\ status'[c] = status[c] /\ rows'[c] = rows[c]
                        /\ Due(c) => status'[c] = "SCHEDULED" /\ scheduledAt'[c] <= now'
  <2>1. SUFFICES ASSUME c # NoCampaign
                 PROVE  /\ status'[c] = status[c] /\ rows'[c] = rows[c]
                        /\ Due(c) => status'[c] = "SCHEDULED" /\ scheduledAt'[c] <= now'
    OBVIOUS
  <2>2. PICK d \in Campaigns : d = c
    BY <2>1 DEF IInv, TypeOK, Tx
  <2>3. Locked(d) /\ d # held
    BY <2>1, <2>2 DEF Locked
  <2>4. status'[d] = status[d] /\ rows'[d] = rows[d] /\ (Due(d) => Due(d)')
    BY <2>3, HeldUndisturbed
  <2> QED
    BY <2>2, <2>4 DEF Due
<1>3. ASSUME b \in Cycles, cycle'[b] = cycle[b] PROVE CycleInv(b)'
  <2>1. CASE cycle[b].phase = "empty"
    <3>1. PICK d : d = cycle[b].current /\ Committed(d)
      BY <1>1, <1>3, <2>1 DEF CycleInv
    <3>2. Committed(d)'
      BY <3>1, CommittedForGood
    <3>3. d = cycle'[b].current
      BY <1>3, <3>1
    <3> QED
      BY <1>1, <1>3, <2>1, <3>2, <3>3 DEF CycleInv, Committed, Due
  <2>2. CASE cycle[b].phase = "queueing"
    BY <1>1, <1>2, <1>3, <2>2 DEF CycleInv, Due
  <2>3. CASE cycle[b].phase = "repairing"
    BY <1>1, <1>2, <1>3, <2>3 DEF CycleInv
  <2>4. CASE cycle[b].phase \notin {"queueing", "repairing", "empty"}
    BY <1>1, <1>3, <2>4 DEF CycleInv
  <2> QED
    BY <2>1, <2>2, <2>3, <2>4
<1>4. ASSUME b \in Admins, request'[b] = request[b] PROVE RequestInv(b)'
  BY <1>1, <1>2, <1>4 DEF RequestInv
<1> QED
  BY <1>3, <1>4

\* Whatever a cycle does, the other cycles and the requests are where they were.
LEMMA CycleFrame ==
  ASSUME TypeOK, NEW w \in Cycles,
         \/ StartCycle(w) \/ CycleStep(w) \/ StopActivating(w)
         \/ CommitUnacknowledged(w) \/ StopRecovering(w) \/ CrashCycle(w)
  PROVE  UNCHANGED request /\ \A v \in Cycles \ {w} : cycle'[v] = cycle[v]
<1> USE DEF TypeOK, Enter, NextCandidate
<1>1. CASE StartCycle(w)
  BY <1>1 DEF StartCycle
<1>2. CASE FindDue(w)
  BY <1>2 DEF FindDue
<1>3. CASE Take(w)
  BY <1>3 DEF Take
<1>4. CASE Activated(w) \/ FoundEmpty(w) \/ ActivationFails(w)
  BY <1>4 DEF Activated, FoundEmpty, ActivationFails
<1>5. CASE CancelEmpty(w) \/ CancelEmptyFails(w)
  BY <1>5 DEF CancelEmpty, CancelEmptyFails
<1>6. CASE FindStuck(w) \/ TakeStuck(w)
  BY <1>6 DEF FindStuck, TakeStuck
<1>7. CASE Recovered(w) \/ RecoveredEmpty(w) \/ RecoveryFails(w)
  BY <1>7 DEF Recovered, RecoveredEmpty, RecoveryFails
<1>8. CASE StopActivating(w) \/ CommitUnacknowledged(w)
  BY <1>8 DEF StopActivating, CommitUnacknowledged
<1>9. CASE StopRecovering(w) \/ EndCycle(w) \/ CrashCycle(w)
  BY <1>9 DEF StopRecovering, EndCycle, CrashCycle
<1> QED
  BY <1>1, <1>2, <1>3, <1>4, <1>5, <1>6, <1>7, <1>8, <1>9 DEF CycleStep

LEMMA RequestFrame ==
  ASSUME TypeOK, NEW a \in Admins,
         RequestStep(a) \/ CrashRequest(a) \/ \E c \in Campaigns : NewRequest(a, c)
  PROVE  UNCHANGED cycle /\ \A b \in Admins \ {a} : request'[b] = request[b]
<1> USE DEF TypeOK, Ask, Then, Answer
<1>1. ASSUME NEW c \in Campaigns, NewRequest(a, c)
      PROVE  UNCHANGED cycle /\ \A b \in Admins \ {a} : request'[b] = request[b]
  BY <1>1 DEF NewRequest, AskToSend, AskToSchedule, AskToReschedule, AskToEdit, AskToDelete
<1>2. CASE ClaimDraft(a) \/ SendDraft(a) \/ SendFails(a)
  BY <1>2 DEF ClaimDraft, SendDraft, SendFails
<1>3. CASE Preview(a) \/ ScheduleDraft(a) \/ Reschedule(a)
  BY <1>3 DEF Preview, ScheduleDraft, Reschedule
<1>4. CASE EditText(a) \/ DropLists(a) \/ AddLists(a)
  BY <1>4 DEF EditText, DropLists, AddLists
<1>5. CASE Delete(a) \/ CrashRequest(a)
  BY <1>5 DEF Delete, CrashRequest
<1> QED
  BY <1>1, <1>2, <1>3, <1>4, <1>5 DEF RequestStep

\* A step that an actor x makes keeps the invariant if it keeps x's part of it.
LEMMA ActorStep ==
  ASSUME IInv, TypeOK', NEW x \in Actors, Effect(tx[x].holds), TxMove(x),
         \A v \in Cycles \ {x} : cycle'[v] = cycle[v],
         \A b \in Admins \ {x} : request'[b] = request[b],
         x \in Cycles => CycleInv(x)',
         x \in Admins => RequestInv(x)'
  PROVE  IInv' /\ [Lifecycle!Next]_Lifecycle!vars
<1>1. ASSUME NEW b \in Actors \ {x}
      PROVE  tx'[b] = tx[b] /\ (tx[b].holds # NoCampaign => tx[b].holds # tx[x].holds)
  BY OthersTx DEF IInv, LockInv
<1>2. ASSUME NEW w \in Cycles PROVE CycleInv(w)'
  BY <1>1, Bystanders DEF Actors
<1>3. ASSUME NEW a \in Admins PROVE RequestInv(a)'
  BY <1>1, Bystanders DEF Actors
<1>4. LockInv'
  BY LocksKept
<1>5. [Lifecycle!Next]_Lifecycle!vars
  BY EffectSimulates
<1> QED
  BY <1>2, <1>3, <1>4, <1>5 DEF IInv

LEMMA ReadListsMove ==
  ASSUME IInv, NEW a \in Actors, ReadLists(a)
  PROVE  /\ Effect(tx[a].holds) /\ TxMove(a)
         /\ a \in Cycles => CycleInv(a)'
         /\ a \in Admins => RequestInv(a)'
<1>1. tx'[a].holds = tx[a].holds
  BY DEF IInv, TypeOK, ReadLists, Tx
<1>2. UNCHANGED <<status, scheduledAt, rows, now, cycle, request>>
  BY DEF ReadLists, tables
<1>3. a \in Cycles => CycleInv(a)'
  BY <1>1, <1>2 DEF IInv, CycleInv, Committed, Due
<1>4. a \in Admins => RequestInv(a)'
  BY <1>1, <1>2 DEF IInv, RequestInv
<1> QED
  BY <1>2, <1>3, <1>4 DEF Effect, TxMove

LEMMA StepInv ==
  ASSUME IInv, [Next]_vars
  PROVE  IInv' /\ [Lifecycle!Next]_Lifecycle!vars
<1>1. TypeOK /\ Cycles \cap Admins = {}
  BY CampaignActivationAssumption DEF IInv
<1>2. ASSUME NEW w \in Cycles,
             \/ StartCycle(w) \/ CycleStep(w) \/ StopActivating(w)
             \/ CommitUnacknowledged(w) \/ StopRecovering(w) \/ CrashCycle(w)
      PROVE  IInv' /\ [Lifecycle!Next]_Lifecycle!vars
  <2>1. TypeOK' /\ Effect(tx[w].holds) /\ TxMove(w) /\ CycleInv(w)'
    BY <1>2, ActivationType, RepairType, ActivationMove, RepairMove DEF CycleStep
  <2>2. w \in Actors /\ w \notin Admins
    BY <1>1 DEF Actors
  <2> QED
    BY <1>1, <1>2, <2>1, <2>2, CycleFrame, ActorStep
<1>3. ASSUME NEW a \in Admins,
             RequestStep(a) \/ CrashRequest(a) \/ \E c \in Campaigns : NewRequest(a, c)
      PROVE  IInv' /\ [Lifecycle!Next]_Lifecycle!vars
  <2>1. TypeOK' /\ Effect(tx[a].holds) /\ TxMove(a) /\ RequestInv(a)'
    BY <1>3, AskType, RequestStepType, AskMove, RequestMove
  <2>2. a \in Actors /\ a \notin Cycles
    BY <1>1 DEF Actors
  <2> QED
    BY <1>1, <1>3, <2>1, <2>2, RequestFrame, ActorStep
<1>4. ASSUME NEW x \in Actors, ReadLists(x) PROVE IInv' /\ [Lifecycle!Next]_Lifecycle!vars
  <2>1. TypeOK' /\ UNCHANGED <<cycle, request>>
    BY <1>4, ReadListsType DEF ReadLists
  <2> QED
    BY <1>4, <2>1, ReadListsMove, ActorStep
<1>5. ASSUME Effect(NoCampaign), TypeOK', UNCHANGED <<tx, cycle, request>>
      PROVE  IInv' /\ [Lifecycle!Next]_Lifecycle!vars
  <2>1. ASSUME NEW w \in Cycles PROVE CycleInv(w)'
    BY <1>5, Bystanders DEF Actors
  <2>2. ASSUME NEW a \in Admins PROVE RequestInv(a)'
    BY <1>5, Bystanders DEF Actors
  <2>3. LockInv'
    BY <1>5 DEF IInv, LockInv
  <2> QED
    BY <1>5, <2>1, <2>2, <2>3, EffectSimulates DEF IInv
<1>6. CASE Elsewhere
  BY <1>1, <1>5, <1>6, ElsewhereMove, ElsewhereType
<1>7. CASE UNCHANGED vars
  <2>1. Effect(NoCampaign) /\ UNCHANGED <<tx, cycle, request>>
    BY <1>7 DEF Effect, vars, tables
  <2>2. TypeOK'
    BY <1>1, <1>7 DEF TypeOK, vars, tables
  <2> QED
    BY <1>5, <2>1, <2>2
<1> QED
  BY <1>2, <1>3, <1>4, <1>6, <1>7 DEF Next, Elsewhere, Actors

LEMMA InvAlways == Spec => []IInv
<1>1. IInv /\ [Next]_vars => IInv'
  BY StepInv
<1> QED
  BY <1>1, InitInv, PTL DEF Spec

-----------------------------------------------------------------------------

\* Every column, transaction, cycle and request has its type, and a scheduled campaign has
\* a time (campaigns_scheduled_requires_time).
THEOREM TypeCorrect == Spec => []TypeOK
<1>1. IInv => TypeOK
  BY DEF IInv
<1> QED
  BY <1>1, InvAlways, PTL

\* queueCampaign, the repair, the conditional updates and the unconditional delete, in any
\* number of cycles and requests, implement the lifecycle of a campaign.
THEOREM ActivationImplementsLifecycle == Spec => ImplementsLifecycle
<1>1. Init => Lifecycle!Init
  BY DEF Init, Lifecycle!Init
<1>2. IInv /\ [Next]_vars => [Lifecycle!Next]_Lifecycle!vars
  BY StepInv
<1> QED
  BY <1>1, <1>2, InvAlways, PTL DEF Spec, ImplementsLifecycle, Lifecycle!Spec

\* One abstract step never makes a campaign queued without rows.
LEMMA LifecycleKeepsRows ==
  ASSUME TypeOK, [Lifecycle!Next]_Lifecycle!vars, NEW d \in Campaigns,
         status'[d] = "QUEUED", rows'[d] = {}
  PROVE  status[d] = "QUEUED" /\ rows[d] = {}
<1>1. CASE UNCHANGED <<status, rows>>
  BY <1>1
<1>2. ASSUME NEW c \in Campaigns, Lifecycle!CampaignStep(c)
      PROVE  status[d] = "QUEUED" /\ rows[d] = {}
  <2>1. CASE d # c
    BY <1>2, <2>1, StepFrame
  <2>2. CASE d = c
    BY <1>2, <2>2
    DEF TypeOK, Lifecycle!CampaignStep, Lifecycle!Schedule, Lifecycle!Reschedule, Lifecycle!Start,
        Lifecycle!Abandon, Lifecycle!Repair, Lifecycle!Deliver, Lifecycle!Withdraw,
        Lifecycle!Remove, Lifecycle!Becomes, Lifecycle!Queues
  <2> QED
    BY <2>1, <2>2
<1> QED
  BY <1>1, <1>2 DEF Lifecycle!Next, Lifecycle!Tick, Lifecycle!vars

\* "There is no state in which a campaign is QUEUED but has no recipients": no step of any
\* request or cycle produces one.
THEOREM QueuedAlwaysHasRows == Spec => QueuedHasRows
<1> DEFINE Keeps == \A c \in Campaigns : status'[c] = "QUEUED" /\ rows'[c] = {}
                                           => status[c] = "QUEUED" /\ rows[c] = {}
<1>1. IInv /\ [Next]_vars => [Keeps]_vars
  <2>1. SUFFICES ASSUME IInv, [Next]_vars PROVE Keeps
    OBVIOUS
  <2>2. TypeOK /\ [Lifecycle!Next]_Lifecycle!vars
    BY <2>1, StepInv DEF IInv
  <2> QED
    BY <2>2, LifecycleKeepsRows
<1> QED
  BY <1>1, InvAlways, PTL DEF Spec, QueuedHasRows

-----------------------------------------------------------------------------
(***************************************************************************)
(* Late steps: the cancellation of an empty campaign, the deletion.        *)
(***************************************************************************)

\* A campaign that is held is there.
HeldAreThere == \A c \in Campaigns : Locked(c) => status[c] # "ABSENT"

\* A cycle holds a campaign it found due or queued, a request a draft: it is not deleted.
LEMMA HeldAlwaysThere == IInv => HeldAreThere
<1> SUFFICES ASSUME IInv, NEW c \in Campaigns, Locked(c) PROVE status[c] # "ABSENT"
  BY DEF HeldAreThere
<1>1. PICK a \in Actors : tx[a].holds = c
  BY DEF Locked
<1>2. c # NoCampaign
  BY CampaignActivationAssumption
<1>3. CASE a \in Cycles
  BY <1>1, <1>2, <1>3 DEF IInv, CycleInv, Due
<1>4. CASE a \in Admins
  BY <1>1, <1>2, <1>4 DEF IInv, RequestInv
<1> QED
  BY <1>3, <1>4 DEF Actors

\* A step other than a deletion deletes nothing, and gives lists only to campaigns that are there.
Spares ==
  \A c \in Campaigns : status'[c] = "ABSENT" => status[c] = "ABSENT" /\ (lists'[c] = lists[c] \/ lists'[c] = {})

\* queueCampaign commits a queue for a campaign that is there.
LEMMA CommitSpares == ASSUME IInv, NEW a \in Actors, CommitQueue(a) PROVE Spares
  BY DEF CommitQueue, CommitRows, Spares, IInv, TypeOK

\* A cycle deletes nothing.
LEMMA CycleSpares ==
  ASSUME IInv, NEW w \in Cycles,
         \/ StartCycle(w) \/ CycleStep(w) \/ StopActivating(w) \/ CommitUnacknowledged(w) \/ StopRecovering(w)
         \/ CrashCycle(w)
  PROVE  Spares
<1>0. w \in Actors
  BY DEF Actors
<1>1. CASE Activated(w) \/ CommitUnacknowledged(w)
  BY <1>0, <1>1, CommitSpares DEF Activated, CommitUnacknowledged
<1>2. CASE CancelEmpty(w) \/ RecoveredEmpty(w) \/ Recovered(w)
  BY <1>2 DEF CancelEmpty, RecoveredEmpty, Recovered, CommitRows, Spares, IInv, TypeOK
<1>3. UNCHANGED <<status, lists>> => Spares
  BY DEF Spares
<1>4. CASE \/ FindDue(w) \/ Take(w) \/ FoundEmpty(w) \/ ActivationFails(w) \/ CancelEmptyFails(w) \/ FindStuck(w)
           \/ TakeStuck(w) \/ RecoveryFails(w) \/ EndCycle(w) \/ StartCycle(w) \/ StopActivating(w)
           \/ StopRecovering(w) \/ CrashCycle(w)
  BY <1>3, <1>4 DEF FindDue, Take, FoundEmpty, ActivationFails, CancelEmptyFails, FindStuck, TakeStuck, RecoveryFails,
     EndCycle, StartCycle, StopActivating, StopRecovering, CrashCycle, RollBackEmpty, FailQueue, tables
<1> QED
  BY <1>1, <1>2, <1>4 DEF CycleStep

\* Of the requests only DELETE does.
LEMMA RequestSpares ==
  ASSUME IInv, NEW a \in Admins, RequestStep(a) \/ CrashRequest(a), ~ Delete(a)
  PROVE  Spares
<1>0. a \in Actors
  BY DEF Actors
<1>1. CASE SendDraft(a)
  BY <1>0, <1>1, CommitSpares DEF SendDraft, RollBackEmpty, tables, Spares
<1>2. CASE ScheduleDraft(a)
  BY <1>2 DEF ScheduleDraft, Spares, IInv, TypeOK
<1>3. CASE DropLists(a) \/ AddLists(a)
  BY <1>3 DEF DropLists, AddLists, Spares, IInv, TypeOK
<1>4. CASE \/ ClaimDraft(a) \/ SendFails(a) \/ Preview(a) \/ Reschedule(a) \/ EditText(a) \/ CrashRequest(a)
  BY <1>4 DEF ClaimDraft, SendFails, Preview, Reschedule, EditText, CrashRequest, FailQueue, tables, Spares
<1> QED
  BY <1>1, <1>2, <1>3, <1>4 DEF RequestStep

\* Nor do cancellations, the queue, the audience and the clock.
LEMMA ElsewhereSpares ==
  ASSUME IInv, NEW c \in Campaigns,
         CancelScheduled(c) \/ CancelStarted(c) \/ Deliver(c) \/ GracePasses(c) \/ AudienceChanges \/ Tick
  PROVE  Spares
  BY DEF CancelScheduled, CancelStarted, Cancel, Deliver, GracePasses, AudienceChanges, Tick, tables, Spares, IInv, TypeOK

\* What a request or a transaction first reads changes nothing.
LEMMA NewRequestSpares ==
  ASSUME NEW a, NEW c, NewRequest(a, c) \/ ReadLists(a)
  PROVE  Spares
  BY DEF NewRequest, AskToSend, AskToSchedule, AskToReschedule, AskToEdit, AskToDelete, ReadLists, tables, Spares

\* Only a deletion deletes.
LEMMA StepSpares ==
  ASSUME IInv, [Next]_vars, \A a \in Admins : ~ Delete(a)
  PROVE  Spares
<1>1. CASE UNCHANGED vars
  BY <1>1 DEF vars, tables, Spares
<1>2. CASE AudienceChanges \/ Tick
  BY <1>2 DEF AudienceChanges, Tick, tables, Spares
<1> QED
  BY <1>1, <1>2, CycleSpares, RequestSpares, ElsewhereSpares, NewRequestSpares DEF Next

\* An abstract step gives no rows to a campaign that is deleted and stays so.
LEMMA AbsentForGood ==
  ASSUME TypeOK, [Lifecycle!Next]_Lifecycle!vars, NEW c \in Campaigns,
         status[c] = "ABSENT", rows[c] = {}
  PROVE  rows'[c] = {}
<1>1. CASE UNCHANGED <<status, rows>>
  BY <1>1
<1>2. ASSUME NEW d \in Campaigns, Lifecycle!CampaignStep(d) PROVE rows'[c] = {}
  <2>1. CASE d # c
    BY <1>2, <2>1, StepFrame
  <2>2. CASE d = c
    BY <1>2, <2>2
    DEF TypeOK, Lifecycle!CampaignStep, Lifecycle!Schedule, Lifecycle!Reschedule, Lifecycle!Start,
        Lifecycle!Abandon, Lifecycle!Repair, Lifecycle!Deliver, Lifecycle!Withdraw,
        Lifecycle!Remove, Lifecycle!Becomes
  <2> QED
    BY <2>1, <2>2
<1> QED
  BY <1>1, <1>2 DEF Lifecycle!Next, Lifecycle!Tick, Lifecycle!vars

\* However late it comes, a deletion leaves nothing of the campaign, and nothing is added to it later.
LEMMA DeletedStaysWhole == IInv /\ IInv' /\ DeletedIsWhole /\ [Next]_vars => DeletedIsWhole'
<1>1. IInv' => HeldAreThere'
  BY HeldAlwaysThere, PTL
<1>2. SUFFICES ASSUME IInv, HeldAreThere', DeletedIsWhole, [Next]_vars, NEW c \in Campaigns, status'[c] = "ABSENT"
               PROVE  rows'[c] = {} /\ lists'[c] = {} /\ ~ Locked(c)'
  BY <1>1 DEF DeletedIsWhole
<1>3. ~ Locked(c)'
  BY <1>2 DEF HeldAreThere
<1>4. CASE \A a \in Admins : ~ Delete(a)
  <2>1. status[c] = "ABSENT" /\ (lists'[c] = lists[c] \/ lists'[c] = {})
    BY <1>2, <1>4, StepSpares DEF Spares
  <2>2. rows[c] = {} /\ lists[c] = {}
    BY <2>1, <1>2 DEF DeletedIsWhole
  <2>3. rows'[c] = {}
    BY <1>2, <2>1, <2>2, StepInv, AbsentForGood DEF IInv
  <2> QED
    BY <1>3, <2>1, <2>2, <2>3
<1>5. ASSUME NEW a \in Admins, Delete(a) PROVE rows'[c] = {} /\ lists'[c] = {}
  <2>1. request[a].on \in Campaigns
    BY <1>2, <1>5 DEF IInv, RequestInv, Delete
  <2>2. CASE c = request[a].on
    BY <1>2, <1>5, <2>1, <2>2 DEF Delete, IInv, TypeOK
  <2>3. CASE c # request[a].on
    <3>1. status[c] = "ABSENT" /\ rows'[c] = rows[c] /\ lists'[c] = lists[c]
      BY <1>2, <1>5, <2>1, <2>3 DEF Delete, IInv, TypeOK
    <3> QED
      BY <1>2, <3>1 DEF DeletedIsWhole
  <2> QED
    BY <2>2, <2>3
<1> QED
  BY <1>3, <1>4, <1>5

\* What was decided on an earlier look fits the campaign it is carried out on: no reschedule slips in
\* between finding a due campaign empty and cancelling it, and a deletion, which comes after the
\* status was read, leaves nothing behind and gets nothing added to it.
THEOREM LateStepsAlwaysFit == Spec => []LateStepsFit
<1>1. IInv => ClosesOnlyDue
  BY DEF IInv, ClosesOnlyDue, CycleInv, Committed
<1>2. Init => DeletedIsWhole
  BY DEF Init, DeletedIsWhole
<1>3. IInv /\ [Next]_vars => IInv'
  BY StepInv
<1> QED
  BY <1>1, <1>2, <1>3, InitInv, DeletedStaysWhole, PTL DEF Spec, LateStepsFit
=============================================================================
