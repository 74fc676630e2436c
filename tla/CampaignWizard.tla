----------------------------- MODULE CampaignWizard -----------------------------
(***************************************************************************)
(* The page that writes and sends a campaign, CampaignWizard.tsx, with the *)
(* requests it has under way and the server's answers to them.             *)
(*                                                                         *)
(* A draft is the text typed and the lists ticked.  A request is slow on   *)
(* both ways: the server acts on it at some moment, the page learns of it  *)
(* later, and a network failure may come before or after the server acts.  *)
(* Nothing keeps two requests in order.  What the server does is a step    *)
(* here (CampaignActivation models its PATCH, send and schedule routes).   *)
(***************************************************************************)
EXTENDS Naturals, FiniteSets

CONSTANTS
  Texts,     \* what can be typed
  Blank,     \* a text without a subject
  Lists,     \* the contact lists, each with contacts of its own
  NoAnswer,  \* null
  Slots      \* bound of the model: requests under way at the same time

VARIABLES
  page,     \* the React state of the wizard and of its send step
  net,      \* the requests under way
  stored,   \* the campaign on the server
  careless  \* history: the user did not wait for what was under way

wizardVars == <<page, net, stored, careless>>

Steps == 0..3  \* compose, recipients, preview, send

Draft == [text : Texts, lists : SUBSET Lists]

Idle == [kind |-> "none", at |-> "none", draft |-> NoAnswer, next |-> 0, mounted |-> FALSE]

Wizard0(draft) ==
  [open |-> TRUE, step |-> 0, draft |-> draft, audience |-> NoAnswer, dirty |-> FALSE, saving |-> FALSE,
   dialog |-> FALSE, busy |-> FALSE, mode |-> "now"]

WizardStart(draft) ==
  /\ page = Wizard0(draft)
  /\ stored = [draft |-> draft, status |-> "DRAFT", sent |-> NoAnswer, confirmed |-> NoAnswer]
  /\ net = [s \in Slots |-> Idle]
  /\ careless = FALSE

WizardInit == \E draft \in Draft : WizardStart(draft)

-----------------------------------------------------------------------------
(* Requests. *)

UnderWay(kind) == {s \in Slots : net[s].kind = kind}

Quiet == \A s \in Slots : net[s].kind = "none"

\* fetch(): the request leaves with what it carries.
Ask(kind, draft, next) ==
  \E s \in UnderWay("none") :
    net' = [net EXCEPT ![s] = [kind |-> kind, at |-> "sent", draft |-> draft, next |-> next, mounted |-> TRUE]]

\* The step shown changes; leaving the send step forgets its dialog, its busy flag and its request.
ShowStep(p, step) ==
  IF p.step = 3 /\ step # 3 THEN [p EXCEPT !.step = step, !.dialog = FALSE, !.busy = FALSE]
  ELSE [p EXCEPT !.step = step]

Unmounted(n, step) ==
  IF page.step = 3 /\ step # 3 THEN [s \in Slots |-> [n[s] EXCEPT !.mounted = FALSE]] ELSE n

\* goTo after its save: the step, and loadAudience from the second step on.
Arrive(p, n, step) ==
  /\ page' = ShowStep(p, step)
  /\ \/ step = 0 /\ net' = Unmounted(n, step)
     \/ /\ step >= 1
        /\ \E s \in {t \in Slots : n[t].kind = "none"} :
             net' = [Unmounted(n, step) EXCEPT
                       ![s] = [kind |-> "audience", at |-> "sent", draft |-> NoAnswer,
                               next |-> 0, mounted |-> TRUE]]

Answered(s) == [net EXCEPT ![s] = Idle]

-----------------------------------------------------------------------------
(* The user.  A dialog covers the page, so only its own buttons can be pressed. *)

Free == page.open /\ ~page.dialog

(* set(): the compose step. *)
Type(text) ==
  /\ Free /\ page.step = 0
  /\ page' = [page EXCEPT !.draft.text = text, !.dirty = TRUE]
  /\ careless' = (careless \/ ~Quiet)
  /\ UNCHANGED <<net, stored>>

ToggleListKeepingAudience(list) ==
  /\ Free /\ page.step = 1
  /\ page' = [page EXCEPT !.draft.lists = (@ \ {list}) \cup ({list} \ @), !.dirty = TRUE]
  /\ careless' = (careless \/ ~Quiet)
  /\ UNCHANGED <<net, stored>>

(* toggleList(): the recipients step. *)
ToggleList(list) ==
  /\ Free /\ page.step = 1
  /\ page' = [page EXCEPT !.draft.lists = (@ \ {list}) \cup ({list} \ @), !.dirty = TRUE, !.audience = NoAnswer]
  /\ careless' = (careless \/ ~Quiet)
  /\ UNCHANGED <<net, stored>>

(* save(), from the button (which is disabled while a save is under way or *)
(* nothing has changed) or from goTo, which has no such guard.             *)
Saving == [page EXCEPT !.saving = TRUE]

SaveDraft ==
  /\ Free /\ ~page.saving /\ page.dirty
  /\ page' = Saving
  /\ Ask("save", page.draft, page.step)
  /\ careless' = (careless \/ ~Quiet)
  /\ UNCHANGED stored

GoForwardUnsaved(next) ==
  /\ Free /\ next > page.step
  /\ Arrive(page, net, next)
  /\ UNCHANGED <<careless, stored>>

(* goTo(next) forward: it saves first and moves on when that went well.    *)
GoForward(next) ==
  /\ Free /\ next > page.step
  /\ page' = Saving
  /\ Ask("save-and-go", page.draft, next)
  /\ careless' = (careless \/ UnderWay("save") # {} \/ UnderWay("save-and-go") # {} \/ UnderWay("send") # {}
                           \/ (page.dirty /\ ~Quiet))
  /\ UNCHANGED stored

(* goTo(next) back, or to the step shown: at once, and without a save.     *)
GoBack(next) ==
  /\ Free /\ next <= page.step
  /\ Arrive(page, net, next)
  /\ careless' = (careless \/ (next >= 1 /\ (page.dirty \/ UnderWay("save-and-go") # {})))
  /\ UNCHANGED stored

(* The send step: now or later. *)
ChangeMode(mode) ==
  /\ Free /\ page.step = 3
  /\ page' = [page EXCEPT !.mode = mode]
  /\ UNCHANGED <<net, stored, careless>>

(* requestConfirm(). *)
RequestConfirm ==
  /\ Free /\ page.step = 3 /\ ~page.busy
  /\ page.audience \notin {NoAnswer, {}} /\ page.draft.text # Blank
  /\ page' = [page EXCEPT !.dialog = TRUE]
  /\ UNCHANGED <<net, stored, careless>>

(* The dialog is closed; Escape does so even while a send is under way.    *)
CloseDialog ==
  /\ page.open /\ page.dialog
  /\ page' = [page EXCEPT !.dialog = FALSE]
  /\ UNCHANGED <<net, stored, careless>>

(* send(). *)
Send ==
  /\ page.open /\ page.dialog /\ ~page.busy
  /\ page' = [page EXCEPT !.busy = TRUE]
  /\ Ask(IF page.mode = "now" THEN "send" ELSE "schedule", page.draft, 3)
  /\ careless' = (careless \/ UnderWay("save") \cup UnderWay("save-and-go") # {})
  /\ UNCHANGED stored

(* send() with a time that has passed while the dialog was open.           *)
SendTooLate ==
  /\ page.open /\ page.dialog /\ ~page.busy /\ page.mode = "schedule"
  /\ page' = [page EXCEPT !.dialog = FALSE]
  /\ UNCHANGED <<net, stored, careless>>

-----------------------------------------------------------------------------
(* The server acts on a request. *)

SaveKinds == {"save", "save-and-go"}
SendKinds == {"send", "schedule"}

Deliverable(draft) == draft.text # Blank /\ draft.lists # {}

ServerAnswers(s) ==
  /\ net[s].at = "sent"
  /\ LET r == net[s]
         editable == stored.status = "DRAFT"
     IN \/ /\ r.kind \in SaveKinds
           /\ net' = [net EXCEPT ![s].at = IF editable THEN "ok" ELSE "refused"]
           /\ stored' = IF editable THEN [stored EXCEPT !.draft = r.draft] ELSE stored
        \/ /\ r.kind \in SendKinds
           /\ \/ /\ stored.status = "DRAFT" /\ Deliverable(stored.draft)
                 /\ net' = [net EXCEPT ![s].at = "ok"]
                 /\ stored' = [stored EXCEPT !.status = IF r.kind = "send" THEN "QUEUED" ELSE "SCHEDULED",
                                             !.sent = stored.draft, !.confirmed = r.draft]
              \/ /\ net' = [net EXCEPT ![s].at = "refused"]
                 /\ UNCHANGED stored
        \/ /\ r.kind = "audience"
           /\ net' = [net EXCEPT ![s].at = "ok", ![s].draft = stored.draft.lists]
           /\ UNCHANGED stored
  /\ UNCHANGED <<page, careless>>

-----------------------------------------------------------------------------
(* The page learns of it. *)

SaveSucceeds(s) ==
  /\ net[s].kind \in SaveKinds /\ net[s].at = "ok"
  /\ LET p == [page EXCEPT !.dirty = FALSE, !.saving = FALSE]
     IN \/ net[s].kind = "save" /\ page' = p /\ net' = Answered(s)
        \/ net[s].kind = "save-and-go" /\ Arrive(p, Answered(s), net[s].next)
  /\ UNCHANGED <<stored, careless>>

SaveFailsQuietly(s) ==
  /\ net[s].kind \in SaveKinds
  /\ page' = [page EXCEPT !.saving = FALSE, !.dirty = FALSE]
  /\ net' = Answered(s)
  /\ UNCHANGED <<stored, careless>>

SaveFailsForGood(s) ==
  /\ net[s].kind \in SaveKinds
  /\ net' = Answered(s)
  /\ UNCHANGED <<page, stored, careless>>

(* The server refused, or the network failed, before or after the server acted. *)
SaveFails(s) ==
  /\ net[s].kind \in SaveKinds
  /\ page' = [page EXCEPT !.saving = FALSE]
  /\ net' = Answered(s)
  /\ UNCHANGED <<stored, careless>>

AudienceArrives(s) ==
  /\ net[s].kind = "audience"
  /\ \/ net[s].at = "ok" /\ page' = [page EXCEPT !.audience = net[s].draft]
     \/ UNCHANGED page
  /\ net' = Answered(s)
  /\ UNCHANGED <<stored, careless>>

(* onQueued / onScheduled: the report takes the wizard's place. *)
SendSucceeds(s) ==
  /\ net[s].kind \in SendKinds /\ net[s].at = "ok"
  /\ page' = [page EXCEPT !.open = FALSE, !.dialog = FALSE]
  /\ net' = [t \in Slots |-> Idle]
  /\ UNCHANGED <<stored, careless>>

SendFails(s) ==
  /\ net[s].kind \in SendKinds
  /\ page' = IF net[s].mounted THEN [page EXCEPT !.dialog = FALSE, !.busy = FALSE] ELSE page
  /\ net' = Answered(s)
  /\ UNCHANGED <<stored, careless>>

User ==
  \/ \E text \in Texts : Type(text)
  \/ \E list \in Lists : ToggleList(list)
  \/ SaveDraft
  \/ \E next \in Steps : GoForward(next) \/ GoBack(next)
  \/ \E mode \in {"now", "schedule"} : ChangeMode(mode)
  \/ RequestConfirm \/ CloseDialog \/ Send \/ SendTooLate

Network ==
  \E s \in Slots :
    \/ ServerAnswers(s)
    \/ SaveSucceeds(s) \/ SaveFails(s)
    \/ AudienceArrives(s)
    \/ SendSucceeds(s) \/ SendFails(s)

WizardNext == User \/ (page.open /\ Network)

WizardSpec == WizardInit /\ [][WizardNext]_wizardVars

-----------------------------------------------------------------------------
(* Properties. *)

\* No button stays disabled after what it waited for has come to an end, however requests overlap:
\* "Saving" means a save is under way, and a busy send step has a send of its own under way.
ButtonsComeBack ==
  page.open =>
    /\ page.saving => UnderWay("save") \cup UnderWay("save-and-go") # {}
    /\ page.busy => \E s \in UnderWay("send") \cup UnderWay("schedule") : net[s].mounted

\* The button that reads "Saved" speaks the truth to a user who waits for each request: what is on
\* screen is what the server holds.  (Typing during a save is what breaks it.)
SavedMeansSaved ==
  page.open /\ ~page.dirty /\ ~careless /\ UnderWay("save") \cup UnderWay("save-and-go") = {} =>
    stored.draft = page.draft

\* What is sent is what the confirmation showed, to a user who waits for each request, although the
\* send request itself carries no text and no list.
SentAsConfirmed == stored.sent # NoAnswer /\ ~careless => stored.sent = stored.confirmed

\* When nothing is under way the number of recipients shown belongs to the lists ticked.
AudienceIsOfLists ==
  page.open /\ Quiet /\ ~careless /\ page.audience # NoAnswer => page.audience = page.draft.lists

\* The wizard says what is so: what it sends, what it calls saved and whom it counts are the ones on
\* screen, and none of its buttons waits for nothing.
WizardTruthful == SentAsConfirmed /\ SavedMeansSaved /\ AudienceIsOfLists /\ ButtonsComeBack
================================================================================
