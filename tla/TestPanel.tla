------------------------------- MODULE TestPanel -------------------------------
(***************************************************************************)
(* The developer test panel: the journal of the server                     *)
(* (src/lib/testing/journal.ts) and the page that follows it,              *)
(* TestPanel.tsx with its journal section.                                 *)
(*                                                                         *)
(* The server keeps the last Keep events and is asked for those after the  *)
(* page's cursor.  The page polls on a timer that waits for nothing,       *)
(* refreshes after every action and on a button, so requests overlap and   *)
(* may be answered out of order.  An event is <<life, id>>: ids start      *)
(* again when the server process does.                                     *)
(***************************************************************************)
EXTENDS Integers, Sequences, SequencesExt

CONSTANTS
  Keep,       \* TEST_LIMITS.eventLog.keep
  Show,       \* TEST_LIMITS.eventLog.show
  PanelSlots, \* bound of the model: requests under way at the same time
  MaxEvents,  \* bound of the model: events of one life of the server
  MaxLives    \* bound of the model: lives of the server

ASSUME PanelAssumption == Show \in 1..Keep /\ Keep \in Nat /\ MaxEvents \in Nat

VARIABLES
  journal,  \* the server: its life, and the id its next event gets
  panel,    \* the state of the page
  calls,    \* the requests under way
  crossed   \* history: two requests have been under way at the same time

panelVars == <<journal, panel, calls, crossed>>

\* life: of the server the request went to; awaited: run() waits for it.
Call(kind, since, awaited) ==
  [kind |-> kind, since |-> since, life |-> journal.life, awaited |-> awaited, done |-> FALSE, answer |-> <<>>]

NoCall == [kind |-> "none", since |-> 0, life |-> 0, awaited |-> FALSE, done |-> FALSE, answer |-> <<>>]

\* Number.MAX_SAFE_INTEGER: "nothing newer than this".
Beyond == MaxEvents + 1

PanelInit ==
  /\ journal = [life |-> 1, next |-> 1]
  /\ panel = [open |-> FALSE, auto |-> TRUE, cursor |-> 0, shown |-> <<>>, cleared |-> 0,
              busy |-> FALSE, acted |-> <<1, 0>>]
  /\ calls = [s \in PanelSlots |-> NoCall]
  /\ crossed = FALSE

-----------------------------------------------------------------------------
(* The server. *)

LastOf(events, n) == SubSeq(events, IF Len(events) < n THEN 1 ELSE Len(events) - n + 1, Len(events))

\* What is kept after since: ids are given in turn, and the last Keep events stay.
Oldest == IF journal.next <= Keep THEN 1 ELSE journal.next - Keep

From(first) == [k \in 1..journal.next - first |-> first + k - 1]

ReadJournalWithCursor(since) == LastOf(From(IF since < Oldest THEN Oldest ELSE since), Show)

\* readJournal(since): the last Show of the kept events after since, oldest first.
ReadJournal(since) == LastOf(From(IF since < Oldest THEN Oldest ELSE since + 1), Show)

(* The scheduler, the queue or the rate limiter reports something. *)
Emit ==
  /\ journal.next <= MaxEvents
  /\ journal' = [journal EXCEPT !.next = @ + 1]
  /\ UNCHANGED <<panel, calls, crossed>>

(* The journal is gone when the process restarts; a request to it stays unanswered. *)
RestartServer ==
  /\ journal.life < MaxLives
  /\ journal' = [life |-> journal.life + 1, next |-> 1]
  /\ UNCHANGED <<panel, calls, crossed>>

(* An action of the panel announces itself; a state request reads the journal as it is. *)
ServerReplies(s) ==
  /\ calls[s].life = journal.life /\ ~calls[s].done
  /\ \/ /\ calls[s].kind = "action" /\ journal.next <= MaxEvents
        /\ journal' = [journal EXCEPT !.next = @ + 1]
        /\ calls' = [calls EXCEPT ![s].answer = <<<<journal.life, journal.next>>>>, ![s].done = TRUE]
     \/ /\ calls[s].kind = "state"
        /\ UNCHANGED journal
        /\ LET events == ReadJournal(calls[s].since) IN
             calls' = [calls EXCEPT ![s].answer = [k \in DOMAIN events |-> <<journal.life, events[k]>>],
                                    ![s].done = TRUE]
  /\ UNCHANGED <<panel, crossed>>

-----------------------------------------------------------------------------
(* The page. *)

Pending == {s \in PanelSlots : calls[s].kind # "none"}

Withdrawn(s) == [calls EXCEPT ![s] = NoCall]

\* refreshWith(withEvents): a request leaves, from requests as they are in held.
Refresh(held, withEvents, awaited) ==
  \E s \in PanelSlots :
    /\ held[s].kind = "none"
    /\ calls' = [held EXCEPT ![s] = Call("state", IF withEvents THEN panel.cursor ELSE Beyond, awaited)]
    /\ crossed' = (crossed \/ \E u \in PanelSlots : held[u].kind # "none")

(* The interval's poll. *)
PollPanel ==
  /\ Refresh(calls, panel.open /\ panel.auto, FALSE)
  /\ UNCHANGED <<journal, panel>>

(* The drawer opens or closes, or auto-refresh is ticked: the effect polls at once. *)
ToggleDrawer ==
  /\ panel' = [panel EXCEPT !.open = ~@]
  /\ Refresh(calls, ~panel.open /\ panel.auto, FALSE)
  /\ UNCHANGED journal

ToggleAuto ==
  /\ panel.open
  /\ panel' = [panel EXCEPT !.auto = ~@]
  /\ Refresh(calls, ~panel.auto, FALSE)
  /\ UNCHANGED journal

(* "Refresh" of the journal section. *)
RefreshPressed ==
  /\ panel.open /\ ~panel.busy
  /\ Refresh(calls, TRUE, FALSE)
  /\ UNCHANGED <<journal, panel>>

(* "Clear view". *)
ClearView ==
  /\ panel.open
  /\ \E k \in DOMAIN panel.shown : panel.shown[k][2] > panel.cleared
  /\ panel' = [panel EXCEPT !.cleared = Last(panel.shown)[2]]
  /\ UNCHANGED <<journal, calls, crossed>>

(* run(): an action of one of the sections leaves. *)
RunAction ==
  /\ panel.open /\ ~panel.busy
  /\ panel' = [panel EXCEPT !.busy = TRUE]
  /\ \E s \in PanelSlots \ Pending :
       calls' = [calls EXCEPT ![s] = Call("action", 0, TRUE)]
  /\ crossed' = (crossed \/ Pending # {})
  /\ UNCHANGED journal

ActionSucceedsAtOnce(s) ==
  /\ calls[s].kind = "action" /\ calls[s].done
  /\ panel' = [panel EXCEPT !.acted = Last(calls[s].answer), !.busy = FALSE]
  /\ calls' = Withdrawn(s)
  /\ UNCHANGED <<journal, crossed>>

(* run() after a success: it waits for a refresh of its own. *)
ActionSucceeds(s) ==
  /\ calls[s].kind = "action" /\ calls[s].done
  /\ panel' = [panel EXCEPT !.acted = Last(calls[s].answer)]
  /\ Refresh(Withdrawn(s), TRUE, TRUE)
  /\ UNCHANGED journal

ActionFailsForGood(s) ==
  /\ calls[s].kind = "action"
  /\ calls' = Withdrawn(s)
  /\ UNCHANGED <<journal, panel, crossed>>

(* run() after a failure, of the server or of the network. *)
ActionFails(s) ==
  /\ calls[s].kind = "action"
  /\ panel' = [panel EXCEPT !.busy = FALSE]
  /\ calls' = Withdrawn(s)
  /\ UNCHANGED <<journal, crossed>>

(* refreshWith has its answer. *)
StateArrives(s) ==
  /\ calls[s].kind = "state" /\ calls[s].done
  /\ LET events == calls[s].answer IN
       panel' = [panel EXCEPT !.cursor = IF events = <<>> THEN @ ELSE Last(events)[2],
                              !.shown = LastOf(@ \o events, Show),
                              !.busy = @ /\ ~calls[s].awaited]
  /\ calls' = Withdrawn(s)
  /\ UNCHANGED <<journal, crossed>>

(* refreshWith fails; a run() that waits for it does not notice. *)
StateFails(s) ==
  /\ calls[s].kind = "state"
  /\ panel' = [panel EXCEPT !.busy = @ /\ ~calls[s].awaited,
                            !.acted = IF calls[s].awaited THEN <<1, 0>> ELSE @]
  /\ calls' = Withdrawn(s)
  /\ UNCHANGED <<journal, crossed>>

PanelNext ==
  \/ Emit \/ RestartServer
  \/ PollPanel \/ ToggleDrawer \/ ToggleAuto \/ RefreshPressed \/ ClearView \/ RunAction
  \/ \E s \in PanelSlots :
       \/ ServerReplies(s)
       \/ ActionSucceeds(s) \/ ActionFails(s)
       \/ StateArrives(s) \/ StateFails(s)

PanelSpec == PanelInit /\ [][PanelNext]_panelVars

-----------------------------------------------------------------------------
(* Properties. *)

\* A page whose requests do not overlap shows, in every life of the server, a stretch of the
\* journal without a gap, a repetition or a change of order, and its cursor is the end of it:
\* although a poll only asks for what is newer, and both ends throw old events away.
JournalHasNoHoles ==
  ~crossed =>
    /\ \A k \in 1..Len(panel.shown) - 1 :
         LET this == panel.shown[k]  next == panel.shown[k + 1]
         IN this[1] = next[1] => next[2] = this[2] + 1
    /\ panel.shown # <<>> => panel.cursor = Last(panel.shown)[2]

\* When an action is over its event has been fetched, with all that the server reported before
\* it, unless the refresh failed (panel-context.tsx:11-13): the busy mark goes only then.
ActionIsShown == ~crossed /\ ~panel.busy /\ journal.life = 1 => panel.cursor >= panel.acted[2]

\* The buttons come back: what marks the panel busy is under way, however requests overlap.
BusyIsUnderWay == panel.busy => \E s \in Pending : calls[s].awaited

\* The panel says what is so: its journal has no holes, an action that is over is in it, and it is
\* busy only while something is under way.
PanelTruthful == JournalHasNoHoles /\ ActionIsShown /\ BusyIsUnderWay
================================================================================
