--------------------------------- MODULE ListPage ---------------------------------
(***************************************************************************)
(* The page of a contact list: ListDetailClient.tsx with the table of its  *)
(* contacts (ContactsTable.tsx) and the import wizard (ImportPanel.tsx).   *)
(*                                                                         *)
(* The table loads one page of contacts at a time through useLoader, each  *)
(* load superseding the one before it; deletions, edits and imports end in *)
(* a load of their own.  Requests overlap, answers are late, out of order  *)
(* or lost, and other admins change the list meanwhile.  What an import    *)
(* does on the server is in ContactImport; here it adds a contact.         *)
(***************************************************************************)
EXTENDS Naturals, FiniteSets

CONSTANTS
  MaxContact,  \* bound of the model: contacts the list ever has
  MaxChanges,  \* bound of the model: changes of the list
  PageSize,    \* pageSize
  AskSlots     \* bound of the model: requests under way at the same time

ASSUME ListAssumption == MaxContact \in Nat \ {0} /\ PageSize \in Nat \ {0}

VARIABLES
  listNow,   \* the list in the database; its version counts its changes
  table,     \* the state of ContactsTable
  importer,  \* the state of ImportPanel and of the importer of its tab
  asks,      \* the requests under way
  acked      \* history: the newest version this page was told it made

listVars == <<listNow, table, importer, asks, acked>>

ImportKinds == {"paste", "preview", "file"}

\* The columns of a file that are read as addresses: at most one of two.
EmailColumns == {{}, {1}, {2}}

\* mounted: the importer that sent it is still on screen.
ListAsk(kind, page, ids, email) ==
  [kind |-> kind, at |-> "sent", cancelled |-> FALSE, mounted |-> TRUE, page |-> page, ids |-> ids, email |-> email,
   version |-> 0, rows |-> {}, total |-> 0]

NoAsk == ListAsk("none", 1, {}, {})

Load(page) == ListAsk("load", page, {}, {})

\* What was pasted and the messages shown are left out; email: the columns read as addresses.
ShutImporter == [shown |-> FALSE, tab |-> "paste", preview |-> FALSE, email |-> {}, busy |-> FALSE]

ListInit ==
  /\ listNow = [ids |-> {1}, version |-> 1]
  /\ table = [page |-> 1, rows |-> {}, total |-> 0, version |-> 0,
              failed |-> FALSE, selected |-> {}, dialog |-> FALSE, busy |-> FALSE]
  /\ importer = ShutImporter
  /\ asks = [s \in AskSlots |-> IF s = CHOOSE t \in AskSlots : TRUE THEN Load(1) ELSE NoAsk]
  /\ acked = 0

-----------------------------------------------------------------------------
(* Requests. *)

Unasked == {s \in AskSlots : asks[s].kind = "none"}

Without(s) == [asks EXCEPT ![s] = NoAsk]

\* What an answer tells.
Newest(version) == IF version > acked THEN version ELSE acked

\* A request leaves.
Sent(kind, ids, email) == \E s \in Unasked : asks' = [asks EXCEPT ![s] = ListAsk(kind, 1, ids, email)]

Superseded(held) == [s \in AskSlots |-> IF held[s].kind = "load" THEN [held[s] EXCEPT !.cancelled = TRUE] ELSE held[s]]

\* useLoader's effect: the load under way is cancelled, and a new one leaves.
LoadTable(held, page) ==
  \E s \in AskSlots : held[s].kind = "none" /\ asks' = [Superseded(held) EXCEPT ![s] = Load(page)]

Reload(held) == LoadTable(held, table.page)

-----------------------------------------------------------------------------
(* The server. *)

\* One page of the contacts, the newest first.
PageOf(page) ==
  {id \in listNow.ids :
     LET newer == Cardinality({n \in listNow.ids : n > id}) IN newer >= (page - 1) * PageSize /\ newer < page * PageSize}

Changed(ids) == listNow' = [ids |-> ids, version |-> listNow.version + 1] /\ listNow.version < MaxChanges

OneMore == \E id \in 1..MaxContact : (\A n \in listNow.ids : id > n) /\ Changed(listNow.ids \cup {id})

AnswerLoad(s) ==
  /\ asks[s].kind = "load" /\ asks[s].at = "sent"
  /\ asks' = [asks EXCEPT ![s].at = "ok", ![s].version = listNow.version, ![s].rows = PageOf(asks[s].page),
                          ![s].total = Cardinality(listNow.ids)]
  /\ UNCHANGED <<listNow, table, importer, acked>>

AnswerWrite(s) ==
  /\ asks[s].kind \in {"delete", "save", "paste", "file"} /\ asks[s].at = "sent"
  /\ CASE asks[s].kind = "delete" -> Changed(listNow.ids \ asks[s].ids)
       [] asks[s].kind = "save"   -> OneMore \/ Changed(listNow.ids)
       [] OTHER                   -> OneMore \/ Changed(listNow.ids)
  /\ asks' = [asks EXCEPT ![s].at = "ok", ![s].version = listNow'.version]
  /\ UNCHANGED <<table, importer, acked>>

AnswerPreview(s) ==
  /\ asks[s].kind = "preview" /\ asks[s].at = "sent"
  /\ asks' = [asks EXCEPT ![s].at = "ok"]
  /\ UNCHANGED <<listNow, table, importer, acked>>

(* Somebody else adds a contact or removes one. *)
OthersChange ==
  /\ OneMore \/ \E id \in listNow.ids : Changed(listNow.ids \ {id})
  /\ UNCHANGED <<table, importer, asks, acked>>

-----------------------------------------------------------------------------
(* The table. *)

LoadArrivesKeepingSelection(s) ==
  /\ asks[s].kind = "load" /\ asks[s].at = "ok"
  /\ table' = IF asks[s].cancelled THEN table
              ELSE [table EXCEPT !.rows = asks[s].rows, !.total = asks[s].total, !.version = asks[s].version, !.failed = FALSE]
  /\ asks' = Without(s)
  /\ UNCHANGED <<listNow, importer, acked>>

(* fetchContacts clears the selection even when its load was cancelled meanwhile. *)
TableLoadArrives(s) ==
  /\ asks[s].kind = "load" /\ asks[s].at = "ok"
  /\ table' = IF asks[s].cancelled THEN [table EXCEPT !.selected = {}]
              ELSE [table EXCEPT !.selected = {}, !.rows = asks[s].rows, !.total = asks[s].total,
                                 !.version = asks[s].version, !.failed = FALSE]
  /\ asks' = Without(s)
  /\ UNCHANGED <<listNow, importer, acked>>

TableLoadFails(s) ==
  /\ asks[s].kind = "load"
  /\ table' = [table EXCEPT !.failed = @ \/ ~asks[s].cancelled]
  /\ asks' = Without(s)
  /\ UNCHANGED <<listNow, importer, acked>>

Undialogued == ~table.dialog

SelectRows(ids) ==
  /\ Undialogued /\ ids \subseteq table.rows /\ ids # table.selected
  /\ table' = [table EXCEPT !.selected = ids]
  /\ UNCHANGED <<listNow, importer, asks, acked>>

TurnPage(page) ==
  /\ Undialogued /\ page >= 1 /\ (page - 1) * PageSize < table.total /\ page \in {table.page - 1, table.page + 1}
  /\ table' = [table EXCEPT !.page = page]
  /\ LoadTable(asks, page)
  /\ UNCHANGED <<listNow, importer, acked>>

(* bulkDelete: the browser's confirm() stops everything else. *)
BulkDelete ==
  /\ Undialogued /\ table.selected # {}
  /\ Sent("delete", table.selected, {})
  /\ UNCHANGED <<listNow, table, importer, acked>>

(* To add a contact, or to edit one. *)
OpenContact ==
  /\ Undialogued
  /\ table' = [table EXCEPT !.dialog = TRUE]
  /\ UNCHANGED <<listNow, importer, asks, acked>>

(* Also while its request is under way. *)
CloseContact ==
  /\ ~Undialogued
  /\ table' = [table EXCEPT !.dialog = FALSE]
  /\ UNCHANGED <<listNow, importer, asks, acked>>

(* submit. *)
SaveContact ==
  /\ ~Undialogued /\ ~table.busy
  /\ table' = [table EXCEPT !.busy = TRUE]
  /\ Sent("save", {}, {})
  /\ UNCHANGED <<listNow, importer, acked>>

\* A success closes whatever dialog is open by then.
TableWriteEnds(s) ==
  /\ asks[s].kind \in {"delete", "save"}
  /\ \/ /\ asks[s].at = "ok"
        /\ acked' = Newest(asks[s].version)
        /\ Reload(Without(s))
        /\ table' = IF asks[s].kind = "save" THEN [table EXCEPT !.dialog = FALSE, !.busy = FALSE] ELSE table
     \/ /\ table' = IF asks[s].kind = "save" THEN [table EXCEPT !.busy = FALSE, !.failed = TRUE] ELSE [table EXCEPT !.failed = TRUE]
        /\ asks' = Without(s)
        /\ UNCHANGED acked
  /\ UNCHANGED <<listNow, importer>>

-----------------------------------------------------------------------------
(* The import panel. *)

\* The importer of the tab is gone, with or without the panel; its requests go on.
Unmount == [s \in AskSlots |-> IF asks[s].kind \in ImportKinds THEN [asks[s] EXCEPT !.mounted = FALSE] ELSE asks[s]]

ToggleImporter ==
  /\ Undialogued
  /\ importer' = [shown |-> ~importer.shown, tab |-> "paste", preview |-> FALSE, email |-> {}, busy |-> FALSE]
  /\ asks' = Unmount
  /\ UNCHANGED <<listNow, table, acked>>

SwitchTab(tab) ==
  /\ Undialogued /\ importer.shown
  /\ tab # importer.tab
  /\ importer' = [shown |-> TRUE, tab |-> tab, preview |-> FALSE, email |-> {}, busy |-> FALSE]
  /\ asks' = Unmount
  /\ UNCHANGED <<listNow, table, acked>>

Working == Undialogued /\ importer.shown /\ UNCHANGED <<listNow, table, acked>>

SubmitPaste ==
  /\ Working /\ importer.tab = "paste" /\ ~importer.busy
  /\ importer' = [importer EXCEPT !.busy = TRUE]
  /\ Sent("paste", {}, {})

(* The file input is disabled while anything is under way. *)
Upload ==
  /\ Working /\ importer.tab = "file" /\ ~importer.busy
  /\ importer' = [importer EXCEPT !.busy = TRUE, !.preview = FALSE]
  /\ Sent("preview", {}, {})

(* The columns read as addresses: at most one. *)
SetRole(column, role) ==
  /\ Working /\ importer.preview
  /\ importer' = [importer EXCEPT !.email = IF role = "email" THEN {column} ELSE @ \ {column}]
  /\ UNCHANGED asks

ConfirmFile ==
  /\ Working /\ importer.preview /\ importer.email # {} /\ ~importer.busy
  /\ importer' = [importer EXCEPT !.busy = TRUE]
  /\ Sent("file", {}, importer.email)

DiscardFileAnyway ==
  /\ Working /\ importer.preview
  /\ importer' = [importer EXCEPT !.preview = FALSE]
  /\ UNCHANGED asks

DiscardFile ==
  /\ Working /\ importer.preview /\ ~importer.busy
  /\ importer' = [importer EXCEPT !.preview = FALSE]
  /\ UNCHANGED asks

\* What a request still changes of its importer: one that has gone keeps nothing.
Seen(s, seen) == importer' = IF asks[s].mounted THEN seen ELSE importer

PreviewArrives(s) ==
  /\ asks[s].kind = "preview" /\ asks[s].at = "ok"
  /\ \E email \in EmailColumns : Seen(s, [importer EXCEPT !.preview = TRUE, !.email = email, !.busy = FALSE])
  /\ asks' = Without(s)
  /\ UNCHANGED <<listNow, table, acked>>

ImportDoneIfShown(s) ==
  /\ asks[s].kind \in {"paste", "file"} /\ asks[s].at = "ok"
  /\ Seen(s, [importer EXCEPT !.preview = FALSE, !.busy = FALSE])
  /\ acked' = Newest(asks[s].version)
  /\ IF asks[s].mounted THEN Reload(Without(s)) ELSE asks' = Without(s)
  /\ UNCHANGED <<listNow, table>>

(* onDone and onImported: the table is loaded again even if the panel has been hidden. *)
ImportDone(s) ==
  /\ asks[s].kind \in {"paste", "file"} /\ asks[s].at = "ok"
  /\ Seen(s, [importer EXCEPT !.preview = FALSE, !.busy = FALSE])
  /\ acked' = Newest(asks[s].version)
  /\ Reload(Without(s))
  /\ UNCHANGED <<listNow, table>>

ImportLostForGood(s) ==
  /\ asks[s].kind \in ImportKinds
  /\ asks' = Without(s)
  /\ UNCHANGED <<listNow, table, importer, acked>>

(* A refusal, or the network. *)
ImportLost(s) ==
  /\ asks[s].kind \in ImportKinds
  /\ Seen(s, [importer EXCEPT !.busy = FALSE])
  /\ asks' = Without(s)
  /\ UNCHANGED <<listNow, table, acked>>

ListNext ==
  \/ OthersChange
  \/ \E ids \in SUBSET table.rows : SelectRows(ids)
  \/ \E page \in {table.page - 1, table.page + 1} : TurnPage(page)
  \/ BulkDelete
  \/ OpenContact \/ CloseContact \/ SaveContact
  \/ ToggleImporter
  \/ \E tab \in {"paste", "file"} : SwitchTab(tab)
  \/ SubmitPaste \/ Upload \/ ConfirmFile \/ DiscardFile
  \/ \E column \in {1, 2}, role \in {"email", "ignore"} : SetRole(column, role)
  \/ \E s \in AskSlots :
       \/ AnswerLoad(s) \/ AnswerWrite(s) \/ AnswerPreview(s)
       \/ TableLoadArrives(s) \/ TableLoadFails(s) \/ TableWriteEnds(s)
       \/ PreviewArrives(s) \/ ImportDone(s) \/ ImportLost(s)

ListSpec == ListInit /\ [][ListNext]_listVars

-----------------------------------------------------------------------------
(* Properties. *)

\* Only contacts on screen are selected, so that "delete" takes no contact the admin cannot see:
\* rows change under the selection through pages, imports and other people's changes.
SelectedAreShown == table.selected \subseteq table.rows

\* Once nothing is being loaded and nothing failed, the table shows every change this page was told
\* it made, although loads overtake each other and the panel of an import may have been hidden.
TableIsFresh ==
  ~table.failed /\ (\A s \in AskSlots : asks[s].kind = "load" => asks[s].cancelled) => table.version >= acked

\* The file being imported is the one in the preview, read with exactly one column of addresses.
ImportedAsPreviewed ==
  \A s \in AskSlots : asks[s].kind = "file" =>
    /\ Cardinality(asks[s].email) = 1
    /\ asks[s].mounted => importer.preview

\* An importer that is busy waits for a request of its own: no hiding, switching or failing leaves
\* it disabled.
ImporterComesBack ==
  importer.busy => \E s \in AskSlots : asks[s].kind \in ImportKinds /\ asks[s].mounted

\* The page of a list says what is so: the table is as new as what it was told, "delete" and "import"
\* are about what is on screen, and the importer waits for nothing but its own requests.
TableTruthful == TableIsFresh /\ SelectedAreShown /\ ImportedAsPreviewed /\ ImporterComesBack
================================================================================
