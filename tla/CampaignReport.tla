----------------------------- MODULE CampaignReport -----------------------------
(***************************************************************************)
(* The page of a campaign that has left DRAFT, CampaignReport.tsx, with    *)
(* useLoader of ui.tsx and the dialogs that change the time of a scheduled *)
(* campaign or cancel it.                                                  *)
(*                                                                         *)
(* The campaign moves on by itself and through other people (the modules   *)
(* SendQueue and CampaignActivation).  The page polls it, each poll        *)
(* superseding the load before it, and sends one request for each press;   *)
(* answers arrive late, in any order or never.  Versions count the         *)
(* campaign's changes, so that what is shown can be told to be old.        *)
(***************************************************************************)
EXTENDS Naturals, FiniteSets

CONSTANTS
  LoadSlots,   \* bound of the model: loads under way at the same time
  PressSlots,  \* bound of the model: presses under way at the same time
  MaxVersion   \* bound of the model: changes of the campaign

VARIABLES
  campaignNow,  \* the campaign in the database
  report,       \* the state of the page, and its parent's status badge
  loads,        \* the loads of the summary under way
  presses       \* the requests of buttons and dialogs under way

reportVars == <<campaignNow, report, loads, presses>>

LiveStatus == {"SCHEDULED", "QUEUED", "SENDING"}
ReportStatus == LiveStatus \cup {"PAUSED", "CANCELLED", "COMPLETED"}

\* version: of the campaign; timed: of its scheduled time; badge: the status the page acts on.
ReportStart(open) ==
  /\ campaignNow = [version |-> 1, timed |-> 1, status |-> "SCHEDULED"]
  /\ report = [open |-> open, version |-> 0, timed |-> 0, badge |-> "SCHEDULED", busy |-> FALSE, dialog |-> "none", running |-> FALSE]
  /\ loads = [s \in LoadSlots |-> [at |-> "none"]]
  /\ presses = [s \in PressSlots |-> [kind |-> "none"]]

ReportInit == ReportStart(TRUE)

-----------------------------------------------------------------------------
(* The campaign. *)

Moves == {<<"SCHEDULED", "QUEUED">>, <<"SCHEDULED", "CANCELLED">>, <<"QUEUED", "SENDING">>, <<"SENDING", "COMPLETED">>,
          <<"QUEUED", "PAUSED">>, <<"SENDING", "PAUSED">>, <<"PAUSED", "SENDING">>}

MoveTo(status) == [campaignNow EXCEPT !.version = @ + 1, !.status = status]

Retimed == [campaignNow EXCEPT !.version = @ + 1, !.timed = campaignNow.version + 1]

(* A tick, or somebody else, changes the campaign. *)
CampaignMoves ==
  /\ campaignNow.version < MaxVersion
  /\ \/ \E m \in Moves : m[1] = campaignNow.status /\ campaignNow' = MoveTo(m[2])
     \/ campaignNow.status = "SCHEDULED" /\ campaignNow' = Retimed
  /\ UNCHANGED <<report, loads, presses>>

\* Whether the server does what is asked, and what becomes of the campaign.
Accepts(kind) ==
  CASE kind = "pause"      -> campaignNow.status \in {"QUEUED", "SENDING"}
    [] kind = "resume"     -> campaignNow.status = "PAUSED"
    [] kind = "cancel"     -> campaignNow.status \in {"QUEUED", "SENDING", "PAUSED"}
    [] kind = "call-off"   -> campaignNow.status \in {"SCHEDULED", "CANCELLED"}
    [] kind = "reschedule" -> campaignNow.status = "SCHEDULED"

Done(kind) ==
  CASE kind = "pause"      -> MoveTo("PAUSED")
    [] kind = "resume"     -> MoveTo("SENDING")
    [] kind = "cancel"     -> MoveTo("CANCELLED")
    [] kind = "call-off"   -> IF campaignNow.status = "CANCELLED" THEN campaignNow ELSE MoveTo("CANCELLED")
    [] kind = "reschedule" -> Retimed

(* The server answers a press: it accepts it, or finds the campaign moved on (409). *)
PressAnswered(s) ==
  /\ presses[s].kind # "none" /\ presses[s].at = "sent"
  /\ LET kind == presses[s].kind IN
       \/ /\ Accepts(kind) /\ campaignNow.version < MaxVersion
          /\ campaignNow' = Done(kind)
          /\ presses' = [presses EXCEPT ![s].at = "ok", ![s].timed = campaignNow'.timed]
       \/ /\ ~Accepts(kind)
          /\ presses' = [presses EXCEPT ![s].at = "stale"]
          /\ UNCHANGED campaignNow
  /\ UNCHANGED <<report, loads>>

-----------------------------------------------------------------------------
(* useLoader. *)

StartLoadBeside ==
  \E s \in LoadSlots :
    /\ loads[s].at = "none"
    /\ loads' = [loads EXCEPT ![s] = [at |-> "sent", cancelled |-> FALSE]]

\* The effect runs again: the load under way is cancelled, and a new one leaves.
StartLoad ==
  \E s \in LoadSlots :
    /\ loads[s].at = "none"
    /\ loads' = [u \in LoadSlots |->
                   IF u = s THEN [at |-> "sent", cancelled |-> FALSE]
                   ELSE IF loads[u].at = "none" THEN loads[u] ELSE [loads[u] EXCEPT !.cancelled = TRUE]]

Current(s) == loads[s].at # "none" /\ ~loads[s].cancelled

LoadAnswered(s) ==
  /\ loads[s].at = "sent"
  /\ loads' = [loads EXCEPT ![s] = [at |-> "ok", cancelled |-> loads[s].cancelled, seen |-> campaignNow]]
  /\ UNCHANGED <<campaignNow, report, presses>>

\* What a load that has ended leaves.
LoadOver(s) == loads' = [loads EXCEPT ![s] = [at |-> "none"]]

(* The answer of the current load is shown, and the parent learns the status. *)
LoadArrives(s) ==
  /\ loads[s].at = "ok" /\ Current(s)
  /\ report' = [report EXCEPT !.version = loads[s].seen.version, !.timed = loads[s].seen.timed,
                              !.badge = loads[s].seen.status]
  /\ LoadOver(s)
  /\ UNCHANGED <<campaignNow, presses>>

(* A load fails, or was cancelled and arrives. *)
LoadDropped(s) ==
  /\ loads[s].at # "none"
  /\ LoadOver(s)
  /\ UNCHANGED <<campaignNow, report, presses>>

PollReportOnceStarted ==
  /\ report.badge \in {"QUEUED", "SENDING"}
  /\ StartLoad
  /\ UNCHANGED <<campaignNow, report, presses>>

(* The interval, which a campaign that is not live does not have. *)
PollReport ==
  /\ report.badge \in LiveStatus
  /\ StartLoad
  /\ UNCHANGED <<campaignNow, report, presses>>

-----------------------------------------------------------------------------
(* Buttons and dialogs. *)

Press(kind) ==
  \E s \in PressSlots :
    /\ presses[s].kind = "none"
    /\ presses' = [presses EXCEPT ![s] = [kind |-> kind, at |-> "sent", timed |-> 0]]

PressOver(s) == presses' = [presses EXCEPT ![s] = [kind |-> "none"]]

Offered(kind) ==
  CASE kind = "pause"  -> report.badge \in {"QUEUED", "SENDING"}
    [] kind = "resume" -> report.badge = "PAUSED"
    [] kind = "cancel" -> report.badge \in {"QUEUED", "SENDING", "PAUSED"}

ActKinds    == {"pause", "resume", "cancel"}
DialogKinds == {"reschedule", "call-off"}

(* act(): a button, while no dialog covers it. *)
Act(kind) ==
  /\ Offered(kind) /\ ~report.busy /\ report.dialog = "none"
  /\ report' = [report EXCEPT !.busy = TRUE]
  /\ Press(kind)
  /\ UNCHANGED <<campaignNow, loads>>

(* Its request ends: a success reloads, a failure shows its message. *)
ActEnds(s) ==
  /\ presses[s].kind \in ActKinds
  /\ report' = [report EXCEPT !.busy = FALSE]
  /\ PressOver(s)
  /\ \/ presses[s].at = "ok" /\ StartLoad
     \/ UNCHANGED loads
  /\ UNCHANGED campaignNow

OpenReportDialog(kind) ==
  /\ report.badge = "SCHEDULED" /\ report.version > 0 /\ ~report.busy /\ report.dialog = "none"
  /\ report' = [report EXCEPT !.dialog = kind]
  /\ UNCHANGED <<campaignNow, loads, presses>>

CloseReportDialogAnyway ==
  /\ report.dialog # "none"
  /\ report' = [report EXCEPT !.dialog = "none", !.running = FALSE]
  /\ UNCHANGED <<campaignNow, loads, presses>>

(* close(): not while a request of the dialog is in flight. *)
CloseReportDialog ==
  /\ report.dialog # "none" /\ ~report.running
  /\ report' = [report EXCEPT !.dialog = "none"]
  /\ UNCHANGED <<campaignNow, loads, presses>>

(* submit() and confirm(): a press while the first one runs does nothing. *)
SubmitDialog ==
  /\ report.dialog # "none" /\ ~report.running
  /\ report' = [report EXCEPT !.running = TRUE]
  /\ Press(report.dialog)
  /\ UNCHANGED <<campaignNow, loads>>

DialogSucceedsQuietly(s) ==
  /\ presses[s].kind \in DialogKinds /\ presses[s].at = "ok"
  /\ report' = [report EXCEPT !.dialog = "none", !.running = FALSE,
                              !.timed = IF presses[s].kind = "reschedule" THEN presses[s].timed ELSE @]
  /\ PressOver(s)
  /\ UNCHANGED <<campaignNow, loads>>

(* onRescheduled, which shows the stored time at once, and onCancelled. *)
DialogSucceeds(s) ==
  /\ presses[s].kind \in DialogKinds /\ presses[s].at = "ok"
  /\ report' = [report EXCEPT !.dialog = "none", !.running = FALSE,
                              !.timed = IF presses[s].kind = "reschedule" THEN presses[s].timed ELSE @]
  /\ PressOver(s)
  /\ StartLoad
  /\ UNCHANGED campaignNow

(* A refusal, or a failure of the network before or after the server acted. *)
DialogFails(s) ==
  /\ presses[s].kind \in DialogKinds
  /\ report' = [report EXCEPT !.running = FALSE]
  /\ PressOver(s)
  /\ \/ presses[s].at = "stale" /\ StartLoad
     \/ UNCHANGED loads
  /\ UNCHANGED campaignNow

(* The admin goes elsewhere; nothing that arrives later is shown. *)
LeaveReport ==
  /\ report' = [report EXCEPT !.open = FALSE]
  /\ UNCHANGED <<campaignNow, loads, presses>>

ReportPage ==
  \/ LeaveReport
  \/ PollReport
  \/ \E s \in LoadSlots : LoadArrives(s) \/ LoadDropped(s)
  \/ \E kind \in ActKinds : Act(kind)
  \/ \E kind \in DialogKinds : OpenReportDialog(kind)
  \/ CloseReportDialog \/ SubmitDialog
  \/ \E s \in PressSlots : ActEnds(s) \/ DialogSucceeds(s) \/ DialogFails(s)

ReportNext ==
  /\ report.open
  /\ \/ ReportPage
     \/ CampaignMoves
     \/ \E s \in LoadSlots : LoadAnswered(s)
     \/ \E s \in PressSlots : PressAnswered(s)

ReportSpec == ReportInit /\ [][ReportNext]_reportVars

(* The interval goes on.  A load that is asked for again and again is      *)
(* answered in time and its answer arrives some day: each poll gives up    *)
(* the load before it, so a server that always took longer than the        *)
(* interval would never be shown at all.                                   *)
ReportFairness ==
  /\ WF_reportVars(report.open /\ PollReport)
  /\ SF_reportVars(report.open /\ \E s \in LoadSlots : Current(s) /\ LoadAnswered(s))
  /\ SF_reportVars(report.open /\ \E s \in LoadSlots : LoadArrives(s))

ReportFairSpec == ReportSpec /\ ReportFairness

-----------------------------------------------------------------------------
(* Properties. *)

\* What the page shows never goes back in time, however its polls, reloads and presses overlap (the
\* comment of useLoader, ui.tsx:250-252).  Only the time the admin just saved may be older than the
\* one on screen, somebody else's newer one, and then the load that puts it right has left.
ShownNeverGoesBack ==
  [][/\ report'.version >= report.version
     /\ report'.timed < report.timed => \E s \in LoadSlots : Current(s)' /\ loads'[s].at = "sent"]_reportVars

\* One press, one request: the page never has two requests that change the campaign under way, and
\* a button or a dialog is blocked exactly while its own is.
OneRequestPerPress ==
  /\ Cardinality({s \in PressSlots : presses[s].kind # "none"}) <= 1
  /\ report.busy <=> \E s \in PressSlots : presses[s].kind \in ActKinds
  /\ report.running <=> \E s \in PressSlots : presses[s].kind \in DialogKinds

\* A time just saved is not followed by an older one: no load that can still be shown read the
\* campaign before it was saved.
TimeIsNotOlderThanSaved ==
  \A s \in LoadSlots : Current(s) /\ loads[s].at = "ok" => loads[s].seen.timed >= report.timed

\* The page follows a campaign while it is live: a change by a tick or by somebody else is on the
\* page sooner or later (CampaignReport.tsx:67), unless it is paused, ended or left.
FollowsTheCampaign ==
  \A v \in 1..MaxVersion :
    campaignNow.version >= v ~> report.version >= v \/ report.badge \notin LiveStatus \/ ~report.open

\* The page of a campaign keeps its requests in order: one for each press, and no answer in the place
\* of a newer one.
ReportInOrder ==
  /\ [](OneRequestPerPress /\ TimeIsNotOlderThanSaved)
  /\ ShownNeverGoesBack
================================================================================
