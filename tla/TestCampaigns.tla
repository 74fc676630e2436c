------------------------------- MODULE TestCampaigns -------------------------------
(***************************************************************************)
(* The campaigns of the test panel, src/lib/testing/test-campaigns.ts,     *)
(* made and reset beside real ones: over the contacts of ContactImport,    *)
(* whose import they use, and the audience rules of                        *)
(* src/lib/campaign-recipients.ts.                                         *)
(*                                                                         *)
(* Making one and resetting one are rows of statements without a           *)
(* transaction, so they meet each other, the scheduler and the admins      *)
(* anywhere.  The n-th creation makes list n and campaign n; list 0 and    *)
(* campaign 0 are real.  Queueing is one step here (CampaignActivation     *)
(* has its steps).                                                         *)
(***************************************************************************)
EXTENDS ContactImport, SequencesExt

CONSTANTS
  Creations,  \* bound of the model: test campaigns ever made
  Batch,      \* the made-up addresses of each
  NoContact,  \* null
  MaxHappened   \* bound of the model: requests, and failures

VARIABLES
  campaigns,  \* the table: status, whether it is marked, its lists, its recipients
  used,       \* the creations begun
  making,     \* the creation under way
  reset,      \* the reset under way
  happened      \* requests, and failures, so far

testVars == <<contactVars, campaigns, used, making, reset, happened>>

MadeUp == UNION {Batch[n] : n \in Creations}

\* newBatchId is of this creation alone; nobody else imports made-up addresses.
ASSUME TestAssumption ==
  /\ {0, NoList} \cap Creations = {} /\ NoContact \notin Nat /\ Names # {} /\ Addresses \ MadeUp # {}
  /\ \A n \in Creations : Batch[n] \subseteq Addresses /\ IsFiniteSet(Batch[n]) /\ Cardinality(Batch[n]) <= MaxRows
  /\ \A n, m \in Creations : n # m => Batch[n] \cap Batch[m] = {}
  /\ \A input \in Inputs : AddressesOf(input) \cap MadeUp = {}

Nothing == [at |-> "none"]

Real == [status |-> "DRAFT", test |-> FALSE, lists |-> {0}, rows |-> {}]

TestInit ==
  /\ contacts = <<[address |-> CHOOSE address \in Addresses : address \notin MadeUp, name |-> NoName]>>
  /\ born = 1 /\ lists = [l \in {0} |-> FALSE] /\ members = {<<0, 1>>} /\ suppressed = {}
  /\ imports = [s \in Importers |-> NoImport]
  /\ campaigns = [c \in {0} |-> Real]
  /\ used = {} /\ making = Nothing /\ reset = Nothing /\ happened = 0

-----------------------------------------------------------------------------
(* The audience. *)

\* loadCandidates, dedupeCandidates and suppressedAmong: one per address, but for the suppressed.
Audience(ls) ==
  {[address |-> contacts[m[2]].address, contact |-> m[2]] :
     m \in {n \in members : n[1] \in ls /\ contacts[n[2]].address \notin suppressed}}

\* generateRecipients: the rows are a copy of the contacts as they are.
Queued(c) == [campaigns EXCEPT ![c].status = "SENDING", ![c].rows = Audience(campaigns[c].lists)]

DetachedForGood(ids) ==
  [c \in DOMAIN campaigns |-> [campaigns[c] EXCEPT !.rows = {r \in @ : r.contact \notin ids}]]

\* Recipients outlive their contact (ON DELETE SET NULL).
Detached(ids) ==
  [c \in DOMAIN campaigns |->
     [campaigns[c] EXCEPT !.rows = {IF r.contact \in ids THEN [r EXCEPT !.contact = NoContact] ELSE r : r \in @}]]

WithoutLists(ls) == [c \in DOMAIN campaigns |-> [campaigns[c] EXCEPT !.lists = @ \ ls]]

Recipients(c) == {r.address : r \in campaigns[c].rows}

-----------------------------------------------------------------------------
(* createTestCampaign. *)

\* History: somebody else touched what the creation uses.
MakingDisturbed == IF making = Nothing THEN Nothing ELSE [making EXCEPT !.undisturbed = FALSE]

MakeList(n) ==
  /\ making = Nothing /\ n \notin used
  /\ lists' = ListsWith(n, TRUE)
  /\ used' = used \cup {n}
  /\ making' = [at |-> "import", n |-> n, by |-> NoList, undisturbed |-> TRUE]
  /\ UNCHANGED <<contacts, born, members, suppressed, imports, campaigns, reset>>

MakePeople ==
  /\ making.at = "import"
  /\ \E s \in Importers :
       /\ BeginImport(s, SetToSeq({[address |-> a, name |-> CHOOSE name \in Names : TRUE] : a \in Batch[making.n]}), making.n)
       /\ making' = [making EXCEPT !.at = "importing", !.by = s]
  /\ UNCHANGED <<campaigns, used, reset>>

(* The import is over; one that failed ends the creation. *)
MakeDraft ==
  /\ making.at = "importing" /\ imports[making.by].at \in {"done", "failed"}
  /\ imports' = [imports EXCEPT ![making.by] = NoImport]
  /\ \/ /\ imports[making.by].at = "done"
        /\ campaigns' = [c \in DOMAIN campaigns \cup {making.n} |->
                           IF c = making.n THEN [Real EXCEPT !.test = TRUE, !.lists = {}] ELSE campaigns[c]]
        /\ making' = [making EXCEPT !.at = "select", !.by = NoList]
     \/ /\ imports[making.by].at = "failed"
        /\ making' = Nothing
        /\ UNCHANGED campaigns
  /\ UNCHANGED <<contacts, born, lists, members, suppressed, used, reset>>

(* The campaign and its list must both still be there. *)
MakeSelect ==
  /\ making.at = "select" /\ making.n \in DOMAIN lists /\ making.n \in DOMAIN campaigns
  /\ campaigns' = [campaigns EXCEPT ![making.n].lists = {making.n}]
  /\ making' = [making EXCEPT !.at = "send"]
  /\ UNCHANGED <<contactVars, used, reset>>

\* sendDraftCampaign and scheduleDraftCampaign refuse a campaign that has nobody; an overdue one is
\* written without asking.
MakeSend ==
  /\ making.at = "send" /\ making.n \in DOMAIN campaigns /\ campaigns[making.n].status = "DRAFT"
  /\ \/ Audience(campaigns[making.n].lists) # {} /\ campaigns' = Queued(making.n)
     \/ campaigns' = [campaigns EXCEPT ![making.n].status = "SCHEDULED"]
  /\ making' = [making EXCEPT !.at = "made"]
  /\ UNCHANGED <<contactVars, used, reset>>

MakeOver == making' = Nothing /\ UNCHANGED <<contactVars, campaigns, used, reset>>

(* The answer leaves. *)
MakeEnds == making.at = "made" /\ MakeOver

(* Its list or its campaign has been deleted, or sent by somebody else. *)
MakeRefused ==
  /\ \/ making.at = "select" /\ {making.n} \cap DOMAIN lists \cap DOMAIN campaigns = {}
     \/ making.at = "send" /\ (making.n \in DOMAIN campaigns => campaigns[making.n].status # "DRAFT")
  /\ MakeOver

(* A step fails: what was made stays. *)
MakeFails == making.at \in {"import", "select", "send"} /\ MakeOver

-----------------------------------------------------------------------------
(* resetTestCampaign. *)

CheckReset(c) ==
  /\ reset = Nothing /\ c \in DOMAIN campaigns
  /\ campaigns[c].test /\ campaigns[c].status # "SENDING"
  /\ reset' = [at |-> "stray", campaign |-> c, lists |-> {}]
  /\ UNCHANGED <<contactVars, campaigns, used, making>>

ToReset == IF reset.campaign \in DOMAIN campaigns THEN campaigns[reset.campaign].lists ELSE {}

(* No recipient and no member may be anybody real. *)
FindStray ==
  /\ reset.at = "stray"
  /\ LET people == {contacts[m[2]].address : m \in {n \in members : n[1] \in ToReset}}
         rows   == IF reset.campaign \in DOMAIN campaigns THEN Recipients(reset.campaign) ELSE {}
     IN reset' = IF people \cup rows \subseteq MadeUp THEN [reset EXCEPT !.at = "lists"] ELSE Nothing
  /\ UNCHANGED <<contactVars, campaigns, used, making>>

ReadResetLists ==
  /\ reset.at = "lists"
  /\ reset' = [reset EXCEPT !.at = "campaign", !.lists = ToReset]
  /\ UNCHANGED <<contactVars, campaigns, used, making>>

DeleteTestCampaign ==
  /\ reset.at = "campaign"
  /\ campaigns' = [c \in DOMAIN campaigns \ {reset.campaign} |-> campaigns[c]]
  /\ reset' = [reset EXCEPT !.at = "list"]
  /\ UNCHANGED <<contactVars, used, making>>

DeletableAnyway == {l \in reset.lists \cap DOMAIN lists : lists[l]}

\* The lists made for it, unless another campaign has chosen them.
Deletable == {l \in reset.lists \cap DOMAIN lists : lists[l] /\ \A c \in DOMAIN campaigns : l \notin campaigns[c].lists}

DeleteTestLists ==
  /\ reset.at = "list"
  /\ lists' = [l \in DOMAIN lists \ Deletable |-> lists[l]]
  /\ members' = MembersWithout(Deletable, {})
  /\ campaigns' = WithoutLists(Deletable)
  /\ reset' = [reset EXCEPT !.at = "people"]
  /\ imports' = Disturbed /\ making' = MakingDisturbed
  /\ UNCHANGED <<contacts, born, suppressed, used>>

\* The made-up contacts that are in no list: of any test campaign, not only of this one.
Orphans == {id \in With(MadeUp) : \A l \in DOMAIN lists : <<l, id>> \notin members}

SweepContacts ==
  /\ reset.at = "people"
  /\ contacts' = ContactsWithout(Orphans)
  /\ campaigns' = Detached(Orphans)
  /\ reset' = Nothing
  /\ imports' = Disturbed /\ making' = MakingDisturbed
  /\ UNCHANGED <<born, lists, members, suppressed, used>>

ResetFails ==
  /\ reset # Nothing
  /\ reset' = Nothing
  /\ UNCHANGED <<contactVars, campaigns, used, making>>

-----------------------------------------------------------------------------
(* The scheduler, and the admins. *)

CampaignGoesOn(c) ==
  /\ \/ /\ campaigns[c].status = "SCHEDULED"
        /\ campaigns' = IF Audience(campaigns[c].lists) # {} THEN Queued(c)
                        ELSE [campaigns EXCEPT ![c].status = "CANCELLED"]
     \/ campaigns[c].status = "SENDING" /\ campaigns' = [campaigns EXCEPT ![c].status = "COMPLETED"]
  /\ UNCHANGED <<contactVars, used, making, reset>>

(* PATCH of a draft, and its send. *)
ChooseList(c, l) ==
  /\ campaigns[c].status = "DRAFT" /\ l \in DOMAIN lists
  /\ campaigns' = [campaigns EXCEPT ![c].lists = {l}]
  /\ making' = MakingDisturbed
  /\ UNCHANGED <<contactVars, used, reset>>

SendReal ==
  /\ campaigns[0].status = "DRAFT" /\ Audience(campaigns[0].lists) # {}
  /\ campaigns' = Queued(0)
  /\ UNCHANGED <<contactVars, used, making, reset>>

AdminImport(s, input, l) ==
  /\ l \in DOMAIN lists \cup {NoList}
  /\ BeginImport(s, input, l)
  /\ making' = MakingDisturbed
  /\ UNCHANGED <<campaigns, used, reset>>

AdminEdits ==
  \/ \E id \in DOMAIN contacts, a \in Addresses \ MadeUp, name \in Names \cup {NoName} :
       EditContact(id, a, name) /\ UNCHANGED campaigns
  \/ \E id \in DOMAIN contacts : DeleteContacts({id}) /\ campaigns' = Detached({id})
  \/ \E m \in members : RemoveFromList(m[1], {m[2]}) /\ UNCHANGED campaigns
  \/ \E a \in {contacts[id].address : id \in DOMAIN contacts} \cup suppressed : (Suppress(a) \/ Unsuppress(a)) /\ UNCHANGED campaigns

AdminDeletesList(l) ==
  /\ l \in DOMAIN lists
  /\ lists' = [k \in DOMAIN lists \ {l} |-> lists[k]]
  /\ members' = MembersWithout({l}, {})
  /\ campaigns' = WithoutLists({l})
  /\ imports' = Disturbed /\ making' = MakingDisturbed
  /\ UNCHANGED <<contacts, born, suppressed, used, reset>>

Request ==
  \/ \E n \in Creations : MakeList(n)
  \/ \E c \in DOMAIN campaigns : CheckReset(c)
  \/ SendReal
  \/ \E c \in DOMAIN campaigns, l \in DOMAIN lists : ChooseList(c, l)
  \/ \E s \in Importers, input \in Inputs, l \in DOMAIN lists \cup {NoList} : AdminImport(s, input, l)
  \/ AdminEdits /\ making' = MakingDisturbed /\ UNCHANGED <<used, reset>>
  \/ \E l \in DOMAIN lists : AdminDeletesList(l)

Failure ==
  \/ MakeFails \/ ResetFails
  \/ \E s \in Importers : ImportFails(s) /\ UNCHANGED <<campaigns, used, making, reset>>

ImportGoesOn(s) ==
  /\ ImportStep(s) \/ (~(making # Nothing /\ making.by = s) /\ EndImport(s))
  /\ UNCHANGED <<campaigns, used, making, reset>>

Proceed ==
  \/ MakePeople \/ MakeDraft \/ MakeSelect \/ MakeSend \/ MakeEnds \/ MakeRefused
  \/ FindStray \/ ReadResetLists \/ DeleteTestCampaign \/ DeleteTestLists \/ SweepContacts
  \/ \E c \in DOMAIN campaigns : CampaignGoesOn(c)
  \/ \E s \in Importers : ImportGoesOn(s)

TestNext ==
  \/ Proceed /\ UNCHANGED happened
  \/ happened < MaxHappened /\ happened' = happened + 1 /\ (Request \/ Failure)

TestSpec == TestInit /\ [][TestNext]_testVars

-----------------------------------------------------------------------------
(* Properties. *)

\* A test campaign that nobody disturbs is queued for exactly the people asked for, although they
\* were written, read back and attached chunk by chunk while a reset looked for orphans.
MadeAsAsked ==
  making.at = "made" /\ making.undisturbed /\ making.n \in DOMAIN campaigns =>
    CASE campaigns[making.n].status = "SENDING"   -> Recipients(making.n) = Batch[making.n]
      [] campaigns[making.n].status = "SCHEDULED" -> {r.address : r \in Audience(campaigns[making.n].lists)} = Batch[making.n]
      [] OTHER -> TRUE

\* A reset takes nothing from anybody else (test-campaigns.ts:318-323): no other campaign loses a
\* list, a recipient or itself, no real contact goes, and no list that stays loses a member.
ResetSparesOthers ==
  [][reset # Nothing /\ reset' # reset =>
       /\ \A c \in DOMAIN campaigns \ {reset.campaign} :
            c \in DOMAIN campaigns' /\ campaigns'[c].lists = campaigns[c].lists /\ Recipients(c)' = Recipients(c)
       /\ \A id \in DOMAIN contacts : contacts[id].address \notin MadeUp => id \in DOMAIN contacts'
       /\ \A m \in members : m[1] \in DOMAIN lists' => m \in members']_testVars

\* What was sent stays on record: whatever becomes of contacts and lists, a campaign's recipients
\* go only with the campaign.
HistorySurvives ==
  [][\A c \in DOMAIN campaigns \cap DOMAIN campaigns' : Recipients(c) \subseteq Recipients(c)']_testVars

\* An import or a creation that nobody disturbs does what it was asked and reports what it did.
AskedIsDone == SummaryAddsUp /\ CountedByOne /\ MadeAsAsked

\* And none, disturbed or not, takes from others what is theirs: their campaigns, their recipients,
\* their contacts and the names of these.
OthersAreSpared == ResetSparesOthers /\ HistorySurvives /\ NamesAreKept
================================================================================
