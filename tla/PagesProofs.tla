----------------------------- MODULE PagesProofs -----------------------------
(***************************************************************************)
(* Proofs about the pages of the admin interface and the public one: the   *)
(* contacts of a list (ListPage), the journal of the developer panel       *)
(* (TestPanel), the suppressed addresses (OptOut) and the wizard of a      *)
(* campaign (CampaignWizard), each a specification of its own.             *)
(***************************************************************************)
EXTENDS ListPage, TestPanel, OptOut, CampaignWizard, TLAPS, FiniteSetTheorems, SequenceTheorems

-----------------------------------------------------------------------------
(* The page of a contact list. *)

Contacts    == 1..MaxContact
Writes      == {"delete", "save", "paste", "file"}
AskRecords  == [kind : {"none", "load", "preview"} \cup Writes, at : {"sent", "ok"}, cancelled : BOOLEAN, mounted : BOOLEAN,
                page : Nat, ids : SUBSET Contacts, email : EmailColumns, version : Nat, rows : SUBSET Contacts, total : Nat]
TablePages  == [page : Nat, rows : SUBSET Contacts, total : Nat, version : Nat, failed : BOOLEAN,
                selected : SUBSET Contacts, dialog : BOOLEAN, busy : BOOLEAN]
ImportPages == [shown : BOOLEAN, tab : {"paste", "file"}, preview : BOOLEAN, email : EmailColumns, busy : BOOLEAN]
ListVersions == [ids : SUBSET Contacts, version : Nat]

ListTypes ==
  /\ listNow \in ListVersions
  /\ table \in TablePages
  /\ importer \in ImportPages
  /\ asks \in [AskSlots -> AskRecords]
  /\ acked \in Nat

\* A request of an importer that is still on screen.
OfImporter(r) == r.kind \in ImportKinds /\ r.mounted

\* An importer has one request at a time, is busy while it lasts, and shows the file that is imported.
ImportsFollowed(held, imp) ==
  /\ \A s \in AskSlots : OfImporter(held[s]) => imp.busy /\ (held[s].kind = "file" => imp.preview)
  /\ \A s \in AskSlots : held[s].kind = "file" => held[s].email # {}
  /\ \A s, t \in AskSlots : OfImporter(held[s]) /\ OfImporter(held[t]) => s = t
  /\ imp.busy => \E s \in AskSlots : OfImporter(held[s])

\* No answer tells of a version the list has not had.
AnswersKnown(held, version) == \A s \in AskSlots : held[s].kind \in Writes /\ held[s].at = "ok" => held[s].version <= version

\* A load that has not been superseded is as new as what the page was told.
LoadsAreNew(held, newest) ==
  \A s \in AskSlots : held[s].kind = "load" /\ ~held[s].cancelled /\ held[s].at = "ok" => held[s].version >= newest

\* The inductive invariant of the page of a list.
ListInv ==
  /\ ListTypes
  /\ acked <= listNow.version
  /\ ImportsFollowed(asks, importer)
  /\ AnswersKnown(asks, listNow.version)
  /\ LoadsAreNew(asks, acked)
  /\ SelectedAreShown
  /\ TableIsFresh

\* Requests are typed as they leave and when they are over.
LEMMA AsksTyped ==
  /\ NoAsk \in AskRecords /\ NoAsk.kind = "none"
  /\ \A at \in Nat : Load(at) \in AskRecords /\ Load(at).kind = "load" /\ Load(at).at = "sent" /\ ~Load(at).cancelled
  /\ \A kind \in Writes \cup {"preview"}, ids \in SUBSET Contacts, email \in EmailColumns :
       LET r == ListAsk(kind, 1, ids, email)
       IN r \in AskRecords /\ r.kind = kind /\ r.at = "sent" /\ r.mounted /\ r.email = email
BY DEF NoAsk, Load, ListAsk, AskRecords, EmailColumns, Writes

\* The page opens on its first load.
LEMMA ListStarts == ListInit => ListInv
<1> SUFFICES ASSUME ListInit PROVE ListInv
  OBVIOUS
<1>1. 1 \in Contacts
  BY ListAssumption DEF Contacts
<1>2. listNow \in ListVersions /\ table \in TablePages /\ importer \in ImportPages
  BY <1>1 DEF ListInit, ListVersions, TablePages, ImportPages, ShutImporter, EmailColumns
<1>3. asks \in [AskSlots -> AskRecords] /\ \A s \in AskSlots : asks[s] = NoAsk \/ asks[s] = Load(1)
  BY AsksTyped DEF ListInit
<1>4. \A s \in AskSlots : asks[s].kind \in {"none", "load"} /\ (asks[s].kind = "load" => asks[s].at = "sent")
  BY <1>3, AsksTyped
<1>5. ImportsFollowed(asks, importer) /\ AnswersKnown(asks, listNow.version) /\ LoadsAreNew(asks, acked)
  BY <1>4 DEF ImportsFollowed, AnswersKnown, LoadsAreNew, OfImporter, ImportKinds, Writes, ListInit, ShutImporter
<1> QED BY <1>2, <1>3, <1>5 DEF ListInit, ListInv, ListTypes, SelectedAreShown, TableIsFresh

\* A new load leaves, supersedes those before it and touches nothing else.
LEMMA TableLoadKeeps ==
  ASSUME NEW held \in [AskSlots -> AskRecords], NEW at \in Nat, LoadTable(held, at)
  PROVE  /\ asks' \in [AskSlots -> AskRecords]
         /\ \A imp : ImportsFollowed(held, imp) => ImportsFollowed(asks', imp)
         /\ \A version : AnswersKnown(held, version) => AnswersKnown(asks', version)
         /\ \A newest : LoadsAreNew(asks', newest)
         /\ TableIsFresh'
<1>1. PICK s \in AskSlots : held[s].kind = "none" /\ asks' = [Superseded(held) EXCEPT ![s] = Load(at)]
  BY DEF LoadTable
<1>2. /\ Superseded(held) \in [AskSlots -> AskRecords]
      /\ \A u \in AskSlots :
           \/ held[u].kind # "load" /\ Superseded(held)[u] = held[u]
           \/ held[u].kind = "load" /\ Superseded(held)[u].kind = "load" /\ Superseded(held)[u].cancelled
  <2>1. ASSUME NEW u \in AskSlots
        PROVE  LET c == [held[u] EXCEPT !.cancelled = TRUE] IN c \in AskRecords /\ c.kind = held[u].kind /\ c.cancelled
    <3>1. held[u] \in AskRecords
      OBVIOUS
    <3> QED BY <3>1 DEF AskRecords
  <2> QED BY <2>1 DEF Superseded
<1>3. /\ asks' \in [AskSlots -> AskRecords] /\ asks'[s].kind = "load" /\ asks'[s].at = "sent" /\ ~asks'[s].cancelled
      /\ \A u \in AskSlots \ {s} :
           \/ held[u].kind # "load" /\ asks'[u] = held[u]
           \/ held[u].kind = "load" /\ asks'[u].kind = "load" /\ asks'[u].cancelled
  BY <1>1, <1>2, AsksTyped
<1>4. \A u \in AskSlots : OfImporter(asks'[u]) <=> OfImporter(held[u])
  BY <1>1, <1>3 DEF OfImporter, ImportKinds
<1>5. \A u \in AskSlots : OfImporter(held[u]) \/ held[u].kind \in Writes => asks'[u] = held[u]
  BY <1>1, <1>3 DEF OfImporter, ImportKinds, Writes
<1>6. \A u \in AskSlots : asks'[u].kind \in Writes => asks'[u] = held[u]
  BY <1>3 DEF Writes
<1>7. \A imp : ImportsFollowed(held, imp) => ImportsFollowed(asks', imp)
  BY <1>4, <1>5, <1>6 DEF ImportsFollowed, Writes
<1>8. \A version : AnswersKnown(held, version) => AnswersKnown(asks', version)
  BY <1>6 DEF AnswersKnown
<1>9. \A newest : LoadsAreNew(asks', newest)
  BY <1>3 DEF LoadsAreNew
<1> QED BY <1>3, <1>7, <1>8, <1>9 DEF TableIsFresh

\* A request that is over gives its slot back.
LEMMA WithoutKeeps ==
  ASSUME ListInv, NEW s \in AskSlots
  PROVE  /\ Without(s) \in [AskSlots -> AskRecords]
         /\ Without(s)[s].kind = "none" /\ \A u \in AskSlots \ {s} : Without(s)[u] = asks[u]
         /\ AnswersKnown(Without(s), listNow.version) /\ LoadsAreNew(Without(s), acked)
         /\ ~OfImporter(asks[s]) => ImportsFollowed(Without(s), importer)
         /\ OfImporter(asks[s]) => \A imp : ~imp.busy => ImportsFollowed(Without(s), imp)
<1>1. /\ Without(s) \in [AskSlots -> AskRecords]
      /\ Without(s)[s].kind = "none" /\ \A u \in AskSlots \ {s} : Without(s)[u] = asks[u]
  BY AsksTyped DEF ListInv, ListTypes, Without
<1>2. AnswersKnown(Without(s), listNow.version) /\ LoadsAreNew(Without(s), acked)
  BY <1>1 DEF ListInv, AnswersKnown, LoadsAreNew, Writes
<1>3. ~OfImporter(Without(s)[s]) /\ Without(s)[s].kind # "file"
  BY <1>1 DEF OfImporter, ImportKinds
<1>4. ~OfImporter(asks[s]) => ImportsFollowed(Without(s), importer)
  BY <1>1, <1>3 DEF ListInv, ImportsFollowed
<1>5. ASSUME OfImporter(asks[s]), NEW imp, ~imp.busy PROVE ImportsFollowed(Without(s), imp)
  <2>1. \A u \in AskSlots : ~OfImporter(Without(s)[u])
    BY <1>1, <1>3, <1>5 DEF ListInv, ImportsFollowed
  <2>2. \A u \in AskSlots : Without(s)[u].kind = "file" => Without(s)[u].email # {}
    BY <1>1, <1>3 DEF ListInv, ImportsFollowed
  <2> QED BY <1>5, <2>1, <2>2 DEF ImportsFollowed
<1> QED BY <1>1, <1>2, <1>4, <1>5

\* A request of the table or of an importer leaves.
LEMMA SentKeeps ==
  ASSUME ListInv, NEW kind \in Writes \cup {"preview"}, NEW ids \in SUBSET Contacts, NEW email \in EmailColumns,
         Sent(kind, ids, email), kind = "file" => email # {}
  PROVE  /\ asks' \in [AskSlots -> AskRecords]
         /\ AnswersKnown(asks', listNow.version) /\ LoadsAreNew(asks', acked)
         /\ kind \notin ImportKinds => ImportsFollowed(asks', importer)
         /\ kind \in ImportKinds /\ ~importer.busy =>
              \A imp : imp.busy /\ (kind = "file" => imp.preview) => ImportsFollowed(asks', imp)
         /\ (~table.failed /\ (\A s \in AskSlots : asks'[s].kind = "load" => asks'[s].cancelled)) => table.version >= acked
<1>1. PICK s \in AskSlots : asks[s].kind = "none" /\ asks' = [asks EXCEPT ![s] = ListAsk(kind, 1, ids, email)]
  BY DEF Sent, Unasked
<1>2. /\ asks' \in [AskSlots -> AskRecords] /\ asks'[s].kind = kind /\ asks'[s].at = "sent" /\ asks'[s].mounted
      /\ asks'[s].email = email /\ \A u \in AskSlots \ {s} : asks'[u] = asks[u]
  BY <1>1, AsksTyped DEF ListInv, ListTypes
<1>3. AnswersKnown(asks', listNow.version)
  BY <1>2 DEF ListInv, AnswersKnown
<1>4. LoadsAreNew(asks', acked)
  BY <1>2 DEF ListInv, LoadsAreNew
<1>5. \A u \in AskSlots : asks'[u].kind = "file" => asks'[u].email # {}
  BY <1>2 DEF ListInv, ImportsFollowed
<1>6. ASSUME kind \notin ImportKinds PROVE ImportsFollowed(asks', importer)
  <2>1. ~OfImporter(asks'[s]) /\ ~OfImporter(asks[s])
    BY <1>1, <1>2, <1>6 DEF OfImporter, ImportKinds
  <2> QED BY <1>2, <1>5, <2>1 DEF ListInv, ImportsFollowed
<1>7. ASSUME kind \in ImportKinds, ~importer.busy, NEW imp, imp.busy, kind = "file" => imp.preview
      PROVE  ImportsFollowed(asks', imp)
  <2>1. OfImporter(asks'[s])
    BY <1>2, <1>7 DEF OfImporter
  <2>2. \A u \in AskSlots \ {s} : ~OfImporter(asks'[u])
    BY <1>2, <1>7 DEF ListInv, ImportsFollowed
  <2> QED BY <1>2, <1>5, <1>7, <2>1, <2>2 DEF ImportsFollowed
<1>8. (\A u \in AskSlots : asks'[u].kind = "load" => asks'[u].cancelled)
        => \A u \in AskSlots : asks[u].kind = "load" => asks[u].cancelled
  BY <1>1, <1>2
<1> QED BY <1>2, <1>3, <1>4, <1>6, <1>7, <1>8 DEF ListInv, TableIsFresh

\* An importer that goes leaves its requests to themselves.
LEMMA UnmountKeeps ==
  ASSUME ListInv
  PROVE  /\ Unmount \in [AskSlots -> AskRecords]
         /\ AnswersKnown(Unmount, listNow.version) /\ LoadsAreNew(Unmount, acked)
         /\ \A imp : ~imp.busy => ImportsFollowed(Unmount, imp)
         /\ \A s \in AskSlots : Unmount[s].kind = asks[s].kind /\ Unmount[s].cancelled = asks[s].cancelled
<1>1. ASSUME NEW s \in AskSlots
      PROVE  /\ Unmount[s] \in AskRecords /\ Unmount[s].kind = asks[s].kind /\ Unmount[s].cancelled = asks[s].cancelled
             /\ Unmount[s].at = asks[s].at /\ Unmount[s].version = asks[s].version /\ Unmount[s].email = asks[s].email
             /\ ~OfImporter(Unmount[s])
  <2>1. asks[s] \in AskRecords
    BY DEF ListInv, ListTypes
  <2>2. CASE asks[s].kind \in ImportKinds
    BY <2>1, <2>2 DEF Unmount, AskRecords, OfImporter
  <2>3. CASE asks[s].kind \notin ImportKinds
    BY <2>1, <2>3 DEF Unmount, OfImporter
  <2> QED BY <2>2, <2>3
<1>2. Unmount \in [AskSlots -> AskRecords]
  BY <1>1 DEF Unmount
<1>3. AnswersKnown(Unmount, listNow.version) /\ LoadsAreNew(Unmount, acked)
  BY <1>1 DEF ListInv, AnswersKnown, LoadsAreNew
<1>4. \A imp : ~imp.busy => ImportsFollowed(Unmount, imp)
  BY <1>1 DEF ListInv, ImportsFollowed
<1> QED BY <1>1, <1>2, <1>3, <1>4

\* What a server does with the list is a new version of it.
LEMMA ChangeCounts ==
  ASSUME ListInv, \/ OneMore
                  \/ \E ids \in SUBSET listNow.ids : Changed(ids)
  PROVE  listNow' \in ListVersions /\ listNow'.version = listNow.version + 1 /\ listNow.version \in Nat
<1>1. listNow.ids \in SUBSET Contacts /\ listNow.version \in Nat
  BY DEF ListInv, ListTypes, ListVersions
<1>2. CASE OneMore
  <2>1. PICK id \in Contacts : Changed(listNow.ids \cup {id})
    BY <1>2 DEF OneMore, Contacts
  <2> QED BY <1>1, <2>1 DEF Changed, ListVersions
<1>3. CASE \E ids \in SUBSET listNow.ids : Changed(ids)
  BY <1>1, <1>3 DEF Changed, ListVersions
<1> QED BY <1>2, <1>3

\* What is counted is a number.
LEMMA ContactsCounted == ASSUME ListInv PROVE Cardinality(listNow.ids) \in Nat
<1>1. IsFiniteSet(Contacts)
  BY ListAssumption, FS_Interval DEF Contacts
<1>2. IsFiniteSet(listNow.ids)
  BY <1>1, FS_Subset DEF ListInv, ListTypes, ListVersions
<1> QED BY <1>2, FS_CardinalityType

\* A step of the importers alone.
LEMMA ImporterStep ==
  ASSUME ListInv, UNCHANGED <<listNow, table, acked>>, importer' \in ImportPages, asks' \in [AskSlots -> AskRecords],
         ImportsFollowed(asks', importer'), AnswersKnown(asks', listNow.version), LoadsAreNew(asks', acked),
         (~table.failed /\ (\A s \in AskSlots : asks'[s].kind = "load" => asks'[s].cancelled)) => table.version >= acked
  PROVE  ListInv'
BY DEF ListInv, ListTypes, SelectedAreShown, TableIsFresh
\* Every step of the page, its requests and the other admins keeps the invariant.
LEMMA ListSteps == ListInv /\ [ListNext]_listVars => ListInv'
<1> SUFFICES ASSUME ListInv, [ListNext]_listVars PROVE ListInv'
  OBVIOUS
<1>0. /\ ListTypes /\ acked <= listNow.version /\ ImportsFollowed(asks, importer) /\ AnswersKnown(asks, listNow.version)
      /\ LoadsAreNew(asks, acked) /\ SelectedAreShown /\ TableIsFresh
  BY DEF ListInv
<1>t. /\ table \in TablePages /\ importer \in ImportPages /\ asks \in [AskSlots -> AskRecords] /\ acked \in Nat
      /\ listNow \in ListVersions /\ listNow.version \in Nat /\ listNow.ids \in SUBSET Contacts
      /\ table.page \in Nat /\ table.version \in Nat /\ table.selected \in SUBSET Contacts /\ importer.email \in EmailColumns
  BY <1>0 DEF ListTypes, ListVersions, TablePages, ImportPages
<1>v. \A s \in AskSlots : asks[s] \in AskRecords /\ asks[s].version \in Nat
  BY <1>t DEF AskRecords
<1>1. CASE OthersChange
  <2>1. OneMore \/ \E ids \in SUBSET listNow.ids : Changed(ids)
    BY <1>1 DEF OthersChange
  <2>2. listNow' \in ListVersions /\ listNow'.version = listNow.version + 1
    BY <2>1, ChangeCounts
  <2>3. AnswersKnown(asks, listNow'.version)
    BY <1>0, <1>t, <1>v, <2>2 DEF AnswersKnown
  <2> QED BY <1>0, <1>1, <1>t, <2>2, <2>3 DEF OthersChange, ListInv, ListTypes, SelectedAreShown, TableIsFresh
<1>2. ASSUME NEW ids \in SUBSET table.rows, SelectRows(ids) PROVE ListInv'
  <2>1. table' \in TablePages /\ table'.selected = ids /\ table'.rows = table.rows /\ table'.failed = table.failed
        /\ table'.version = table.version
    BY <1>2, <1>t DEF SelectRows, TablePages
  <2> QED BY <1>0, <1>2, <2>1 DEF SelectRows, ListInv, ListTypes, SelectedAreShown, TableIsFresh
<1>3. ASSUME NEW at \in {table.page - 1, table.page + 1}, TurnPage(at) PROVE ListInv'
  <2>1. at \in Nat /\ LoadTable(asks, at)
    BY <1>3, <1>t DEF TurnPage
  <2>2. table' \in TablePages /\ table'.selected = table.selected /\ table'.rows = table.rows
    BY <1>3, <1>t, <2>1 DEF TurnPage, TablePages
  <2> QED BY <1>0, <1>3, <1>t, <2>1, <2>2, TableLoadKeeps DEF TurnPage, ListInv, ListTypes, SelectedAreShown
<1>4. CASE BulkDelete
  <2>1. Sent("delete", table.selected, {}) /\ {} \in EmailColumns /\ UNCHANGED <<listNow, table, importer, acked>>
    BY <1>4 DEF BulkDelete, EmailColumns
  <2> QED BY <1>t, <2>1, SentKeeps, ImporterStep DEF Writes, ImportKinds
<1>5. CASE OpenContact \/ CloseContact
  <2>1. /\ table' \in TablePages /\ table'.selected = table.selected /\ table'.rows = table.rows /\ table'.failed = table.failed
        /\ table'.version = table.version
    BY <1>5, <1>t DEF OpenContact, CloseContact, TablePages
  <2>2. UNCHANGED <<listNow, importer, asks, acked>>
    BY <1>5 DEF OpenContact, CloseContact
  <2> QED BY <1>0, <2>1, <2>2 DEF ListInv, ListTypes, SelectedAreShown, TableIsFresh
<1>6. CASE SaveContact
  <2>1. Sent("save", {}, {}) /\ {} \in EmailColumns /\ UNCHANGED <<listNow, importer, acked>>
    BY <1>6 DEF SaveContact, EmailColumns
  <2>2. /\ table' \in TablePages /\ table'.selected = table.selected /\ table'.rows = table.rows /\ table'.failed = table.failed
        /\ table'.version = table.version
    BY <1>6, <1>t DEF SaveContact, TablePages
  <2>3. /\ asks' \in [AskSlots -> AskRecords] /\ AnswersKnown(asks', listNow.version) /\ LoadsAreNew(asks', acked)
        /\ ImportsFollowed(asks', importer)
        /\ (~table.failed /\ (\A s \in AskSlots : asks'[s].kind = "load" => asks'[s].cancelled)) => table.version >= acked
    BY <2>1, SentKeeps DEF Writes, ImportKinds
  <2> QED BY <1>0, <2>1, <2>2, <2>3 DEF ListInv, ListTypes, SelectedAreShown, TableIsFresh
<1>7. ASSUME NEW tab \in {"paste", "file"}, ToggleImporter \/ SwitchTab(tab) PROVE ListInv'
  <2>1. importer' \in ImportPages /\ ~importer'.busy /\ asks' = Unmount /\ UNCHANGED <<listNow, table, acked>>
    <3>1. /\ (~importer.shown) \in BOOLEAN /\ tab \in {"paste", "file"}
          /\ \A shown \in BOOLEAN, t \in {"paste", "file"} :
               [shown |-> shown, tab |-> t, preview |-> FALSE, email |-> {}, busy |-> FALSE] \in ImportPages
      BY <1>t DEF ImportPages, EmailColumns
    <3>2. CASE ToggleImporter
      BY <3>1, <3>2 DEF ToggleImporter
    <3>3. CASE SwitchTab(tab)
      BY <3>1, <3>3 DEF SwitchTab
    <3> QED BY <1>7, <3>2, <3>3
  <2>2. (~table.failed /\ (\A s \in AskSlots : asks'[s].kind = "load" => asks'[s].cancelled)) => table.version >= acked
    BY <1>0, <2>1, UnmountKeeps DEF TableIsFresh
  <2> QED BY <2>1, <2>2, UnmountKeeps, ImporterStep
<1>8. CASE SubmitPaste \/ Upload
  <2>1. PICK kind \in {"paste", "preview"} :
          /\ Sent(kind, {}, {}) /\ ~importer.busy
          /\ importer' \in ImportPages /\ importer'.busy /\ UNCHANGED <<listNow, table, acked>>
    BY <1>8, <1>t DEF SubmitPaste, Upload, Working, ImportPages
  <2>2. {} \in EmailColumns /\ kind \in Writes \cup {"preview"} /\ kind \in ImportKinds /\ kind # "file"
    BY DEF EmailColumns, Writes, ImportKinds
  <2>3. /\ asks' \in [AskSlots -> AskRecords] /\ AnswersKnown(asks', listNow.version) /\ LoadsAreNew(asks', acked)
        /\ ImportsFollowed(asks', importer')
        /\ (~table.failed /\ (\A s \in AskSlots : asks'[s].kind = "load" => asks'[s].cancelled)) => table.version >= acked
    BY <2>1, <2>2, SentKeeps
  <2> QED BY <2>1, <2>3, ImporterStep
<1>9. CASE ConfirmFile
  <2>1. /\ Sent("file", {}, importer.email) /\ ~importer.busy /\ importer.email # {}
        /\ importer' \in ImportPages /\ importer'.busy /\ importer'.preview /\ UNCHANGED <<listNow, table, acked>>
    BY <1>9, <1>t DEF ConfirmFile, Working, ImportPages
  <2>2. "file" \in Writes \cup {"preview"} /\ "file" \in ImportKinds
    BY DEF Writes, ImportKinds
  <2>3. /\ asks' \in [AskSlots -> AskRecords] /\ AnswersKnown(asks', listNow.version) /\ LoadsAreNew(asks', acked)
        /\ ImportsFollowed(asks', importer')
        /\ (~table.failed /\ (\A s \in AskSlots : asks'[s].kind = "load" => asks'[s].cancelled)) => table.version >= acked
    BY <1>t, <2>1, <2>2, SentKeeps
  <2> QED BY <2>1, <2>3, ImporterStep
<1>10. CASE DiscardFile
  <2>1. importer' \in ImportPages /\ ~importer.busy /\ ~importer'.busy /\ asks' = asks /\ UNCHANGED <<listNow, table, acked>>
    BY <1>10, <1>t DEF DiscardFile, Working, ImportPages
  <2>2. ImportsFollowed(asks, importer')
    BY <1>0, <2>1 DEF ImportsFollowed
  <2> QED BY <1>0, <1>t, <2>1, <2>2, ImporterStep DEF TableIsFresh
<1>11. ASSUME NEW column \in {1, 2}, NEW role \in {"email", "ignore"}, SetRole(column, role) PROVE ListInv'
  <2>1. (IF role = "email" THEN {column} ELSE importer.email \ {column}) \in EmailColumns
    BY <1>t DEF EmailColumns
  <2>2. /\ importer' = [importer EXCEPT !.email = IF role = "email" THEN {column} ELSE importer.email \ {column}]
        /\ asks' = asks /\ UNCHANGED <<listNow, table, acked>>
    BY <1>11 DEF SetRole, Working
  <2>3. importer' \in ImportPages /\ importer'.busy = importer.busy /\ importer'.preview = importer.preview
    BY <1>t, <2>1, <2>2 DEF ImportPages
  <2>4. ImportsFollowed(asks, importer')
    BY <1>0, <2>3 DEF ImportsFollowed
  <2> QED BY <1>0, <1>t, <2>2, <2>3, <2>4, ImporterStep DEF TableIsFresh
<1>12. ASSUME NEW s \in AskSlots, AnswerLoad(s) PROVE ListInv'
  <2> DEFINE r == [asks[s] EXCEPT !.at = "ok", !.version = listNow.version, !.rows = PageOf(asks[s].page),
                                  !.total = Cardinality(listNow.ids)]
  <2>1. PageOf(asks[s].page) \in SUBSET Contacts /\ Cardinality(listNow.ids) \in Nat
    BY <1>t, ContactsCounted DEF PageOf
  <2>2. /\ r \in AskRecords /\ r.kind = asks[s].kind /\ r.cancelled = asks[s].cancelled /\ r.version = listNow.version
    BY <1>t, <1>v, <2>1 DEF AskRecords
  <2>3. asks' = [asks EXCEPT ![s] = r] /\ asks[s].kind = "load" /\ UNCHANGED <<listNow, table, importer, acked>>
    BY <1>12 DEF AnswerLoad
  <2> HIDE DEF r
  <2>4. asks' \in [AskSlots -> AskRecords] /\ asks'[s] = r /\ \A u \in AskSlots \ {s} : asks'[u] = asks[u]
    BY <1>t, <2>2, <2>3
  <2>5. ImportsFollowed(asks', importer)
    <3>1. asks'[s].kind = "load"
      BY <2>2, <2>3, <2>4
    <3>2. \A u \in AskSlots : (OfImporter(asks'[u]) \/ asks'[u].kind = "file") => u # s
      BY <3>1 DEF OfImporter, ImportKinds
    <3>3. \A u \in AskSlots : OfImporter(asks[u]) => u # s
      BY <2>3 DEF OfImporter, ImportKinds
    <3> QED BY <1>0, <2>4, <3>2, <3>3 DEF ImportsFollowed
  <2>6. AnswersKnown(asks', listNow.version) /\ LoadsAreNew(asks', acked)
    BY <1>0, <2>2, <2>3, <2>4 DEF AnswersKnown, LoadsAreNew, Writes
  <2>7. \A u \in AskSlots : asks'[u].kind = asks[u].kind /\ asks'[u].cancelled = asks[u].cancelled
    BY <2>2, <2>4
  <2> QED BY <1>0, <1>t, <2>3, <2>4, <2>5, <2>6, <2>7, ImporterStep DEF TableIsFresh
<1>13. ASSUME NEW s \in AskSlots, AnswerWrite(s) PROVE ListInv'
  <2>1. OneMore \/ \E ids \in SUBSET listNow.ids : Changed(ids)
    BY <1>13 DEF AnswerWrite
  <2>2. listNow' \in ListVersions /\ listNow'.version = listNow.version + 1 /\ listNow'.version \in Nat
    BY <1>t, <2>1, ChangeCounts
  <2> DEFINE r == [asks[s] EXCEPT !.at = "ok", !.version = listNow'.version]
  <2>3. /\ r \in AskRecords /\ r.kind = asks[s].kind /\ r.cancelled = asks[s].cancelled /\ r.version = listNow'.version
        /\ r.email = asks[s].email /\ r.mounted = asks[s].mounted
    BY <1>v, <2>2 DEF AskRecords
  <2>4. asks' = [asks EXCEPT ![s] = r] /\ asks[s].kind \in Writes /\ UNCHANGED <<table, importer, acked>>
    BY <1>13 DEF AnswerWrite, Writes
  <2> HIDE DEF r
  <2>5. asks' \in [AskSlots -> AskRecords] /\ asks'[s] = r /\ \A u \in AskSlots \ {s} : asks'[u] = asks[u]
    BY <1>t, <2>3, <2>4
  <2>6. /\ \A u \in AskSlots : asks'[u].kind = asks[u].kind /\ asks'[u].cancelled = asks[u].cancelled
        /\ \A u \in AskSlots : asks'[u].email = asks[u].email /\ asks'[u].mounted = asks[u].mounted
    BY <2>3, <2>5
  <2>7. ImportsFollowed(asks', importer')
    BY <1>0, <2>4, <2>6 DEF ImportsFollowed, OfImporter
  <2>8. AnswersKnown(asks', listNow'.version) /\ LoadsAreNew(asks', acked')
    BY <1>0, <1>t, <1>v, <2>2, <2>3, <2>4, <2>5 DEF AnswersKnown, LoadsAreNew, Writes
  <2> QED BY <1>0, <1>t, <2>2, <2>4, <2>5, <2>6, <2>7, <2>8 DEF ListInv, ListTypes, SelectedAreShown, TableIsFresh
<1>14. ASSUME NEW s \in AskSlots, AnswerPreview(s) PROVE ListInv'
  <2> DEFINE r == [asks[s] EXCEPT !.at = "ok"]
  <2>1. /\ r \in AskRecords /\ r.kind = asks[s].kind /\ r.cancelled = asks[s].cancelled
        /\ r.email = asks[s].email /\ r.mounted = asks[s].mounted
    BY <1>v DEF AskRecords
  <2>2. asks' = [asks EXCEPT ![s] = r] /\ asks[s].kind = "preview" /\ UNCHANGED <<listNow, table, importer, acked>>
    BY <1>14 DEF AnswerPreview
  <2> HIDE DEF r
  <2>3. asks' \in [AskSlots -> AskRecords] /\ asks'[s] = r /\ \A u \in AskSlots \ {s} : asks'[u] = asks[u]
    BY <1>t, <2>1, <2>2
  <2>4. /\ \A u \in AskSlots : asks'[u].kind = asks[u].kind /\ asks'[u].cancelled = asks[u].cancelled
        /\ \A u \in AskSlots : asks'[u].email = asks[u].email /\ asks'[u].mounted = asks[u].mounted
    BY <2>1, <2>3
  <2>5. ImportsFollowed(asks', importer)
    BY <1>0, <2>4 DEF ImportsFollowed, OfImporter
  <2>6. AnswersKnown(asks', listNow.version) /\ LoadsAreNew(asks', acked)
    BY <1>0, <2>1, <2>2, <2>3 DEF AnswersKnown, LoadsAreNew, Writes
  <2> QED BY <1>0, <1>t, <2>2, <2>3, <2>4, <2>5, <2>6, ImporterStep DEF TableIsFresh
<1>15. ASSUME NEW s \in AskSlots, TableLoadArrives(s) PROVE ListInv'
  <2>1. asks[s].kind = "load" /\ asks[s].at = "ok" /\ asks' = Without(s) /\ UNCHANGED <<listNow, importer, acked>>
    BY <1>15 DEF TableLoadArrives
  <2>2. ~OfImporter(asks[s])
    BY <2>1 DEF OfImporter, ImportKinds
  <2>3. CASE asks[s].cancelled
    <3>1. /\ table' \in TablePages /\ table'.selected = {} /\ table'.failed = table.failed /\ table'.version = table.version
      BY <1>15, <1>t, <2>3 DEF TableLoadArrives, TablePages
    <3>2. TableIsFresh'
      BY <1>0, <2>1, <2>3, <3>1, WithoutKeeps DEF TableIsFresh
    <3> QED BY <1>0, <2>1, <2>2, <3>1, <3>2, WithoutKeeps DEF ListInv, ListTypes, SelectedAreShown
  <2>4. CASE ~asks[s].cancelled
    <3>1. asks[s].rows \in SUBSET Contacts /\ asks[s].total \in Nat
      BY <1>v DEF AskRecords
    <3>2. table' = [table EXCEPT !.selected = {}, !.rows = asks[s].rows, !.total = asks[s].total,
                                 !.version = asks[s].version, !.failed = FALSE]
      BY <1>15, <2>4 DEF TableLoadArrives
    <3>3. table' \in TablePages /\ table'.selected = {} /\ table'.version = asks[s].version
      BY <1>t, <1>v, <3>1, <3>2 DEF TablePages
    <3>4. table'.version >= acked
      BY <1>0, <2>1, <2>4, <3>3 DEF LoadsAreNew
    <3> QED BY <1>0, <2>1, <2>2, <3>3, <3>4, WithoutKeeps DEF ListInv, ListTypes, SelectedAreShown, TableIsFresh
  <2> QED BY <2>3, <2>4
<1>16. ASSUME NEW s \in AskSlots, TableLoadFails(s) PROVE ListInv'
  <2>1. asks[s].kind = "load" /\ asks' = Without(s) /\ UNCHANGED <<listNow, importer, acked>>
    BY <1>16 DEF TableLoadFails
  <2>2. ~OfImporter(asks[s])
    BY <2>1 DEF OfImporter, ImportKinds
  <2>3. /\ table' \in TablePages /\ table'.selected = table.selected /\ table'.rows = table.rows
        /\ table'.version = table.version /\ (table'.failed <=> table.failed \/ ~asks[s].cancelled)
    BY <1>16, <1>t DEF TableLoadFails, TablePages
  <2>4. TableIsFresh'
    BY <1>0, <2>1, <2>3, WithoutKeeps DEF TableIsFresh
  <2> QED BY <1>0, <2>1, <2>2, <2>3, <2>4, WithoutKeeps DEF ListInv, ListTypes, SelectedAreShown
<1>17. ASSUME NEW s \in AskSlots, TableWriteEnds(s) PROVE ListInv'
  <2>1. asks[s].kind \in {"delete", "save"} /\ UNCHANGED <<listNow, importer>>
    BY <1>17 DEF TableWriteEnds
  <2>2. ~OfImporter(asks[s])
    BY <2>1 DEF OfImporter, ImportKinds
  <2>3. /\ table' \in TablePages /\ table'.selected = table.selected /\ table'.rows = table.rows
        /\ table'.version = table.version
    BY <1>17, <1>t, ZenonT(60) DEF TableWriteEnds, TablePages
  <2>4. CASE asks[s].at = "ok" /\ acked' = Newest(asks[s].version) /\ Reload(Without(s))
    <3>1. acked' \in Nat /\ acked' <= listNow.version
      BY <1>0, <1>t, <1>v, <2>1, <2>4 DEF Newest, AnswersKnown, Writes
    <3>2. LoadTable(Without(s), table.page)
      BY <2>4 DEF Reload
    <3>3. /\ Without(s) \in [AskSlots -> AskRecords] /\ ImportsFollowed(Without(s), importer)
          /\ AnswersKnown(Without(s), listNow.version)
      BY <2>2, WithoutKeeps
    <3>4. /\ asks' \in [AskSlots -> AskRecords] /\ ImportsFollowed(asks', importer) /\ AnswersKnown(asks', listNow.version)
          /\ LoadsAreNew(asks', acked') /\ TableIsFresh'
      BY <1>t, <3>2, <3>3, TableLoadKeeps
    <3> QED BY <1>0, <2>1, <2>3, <3>1, <3>4 DEF ListInv, ListTypes, SelectedAreShown
  <2>5. CASE table'.failed /\ asks' = Without(s) /\ UNCHANGED acked
    BY <1>0, <2>1, <2>2, <2>3, <2>5, WithoutKeeps DEF ListInv, ListTypes, SelectedAreShown, TableIsFresh
  <2> QED
    <3>1. \/ asks[s].at = "ok" /\ acked' = Newest(asks[s].version) /\ Reload(Without(s))
          \/ /\ table' = IF asks[s].kind = "save" THEN [table EXCEPT !.busy = FALSE, !.failed = TRUE]
                         ELSE [table EXCEPT !.failed = TRUE]
             /\ asks' = Without(s) /\ UNCHANGED acked
      BY <1>17 DEF TableWriteEnds
    <3>2. [table EXCEPT !.busy = FALSE, !.failed = TRUE].failed /\ [table EXCEPT !.failed = TRUE].failed
      BY <1>t DEF TablePages
    <3> QED BY <2>4, <2>5, <3>1, <3>2
<1>18. ASSUME NEW s \in AskSlots, PreviewArrives(s) PROVE ListInv'
  <2>1. asks[s].kind = "preview" /\ asks' = Without(s) /\ UNCHANGED <<listNow, table, acked>>
    BY <1>18 DEF PreviewArrives
  <2>2. PICK email \in EmailColumns : Seen(s, [importer EXCEPT !.preview = TRUE, !.email = email, !.busy = FALSE])
    BY <1>18 DEF PreviewArrives
  <2>3. IF asks[s].mounted THEN importer' \in ImportPages /\ ~importer'.busy ELSE importer' = importer
    BY <1>t, <2>2 DEF Seen, ImportPages
  <2>4. ImportsFollowed(asks', importer') /\ importer' \in ImportPages
    BY <1>t, <2>1, <2>3, WithoutKeeps DEF OfImporter, ImportKinds
  <2>5. (~table.failed /\ (\A u \in AskSlots : asks'[u].kind = "load" => asks'[u].cancelled)) => table.version >= acked
    BY <1>0, <2>1, WithoutKeeps DEF TableIsFresh
  <2> QED BY <2>1, <2>4, <2>5, WithoutKeeps, ImporterStep
<1>19. ASSUME NEW s \in AskSlots, ImportDone(s) PROVE ListInv'
  <2>1. /\ asks[s].kind \in {"paste", "file"} /\ asks[s].at = "ok" /\ acked' = Newest(asks[s].version)
        /\ LoadTable(Without(s), table.page) /\ UNCHANGED <<listNow, table>>
    BY <1>19 DEF ImportDone, Reload
  <2>2. IF asks[s].mounted THEN importer' \in ImportPages /\ ~importer'.busy ELSE importer' = importer
    BY <1>19, <1>t DEF ImportDone, Seen, ImportPages
  <2>3. /\ Without(s) \in [AskSlots -> AskRecords] /\ ImportsFollowed(Without(s), importer') /\ importer' \in ImportPages
        /\ AnswersKnown(Without(s), listNow.version)
    BY <1>t, <2>1, <2>2, WithoutKeeps DEF OfImporter, ImportKinds
  <2>4. acked' \in Nat /\ acked' <= listNow.version
    BY <1>0, <1>t, <1>v, <2>1 DEF Newest, AnswersKnown, Writes
  <2>5. /\ asks' \in [AskSlots -> AskRecords] /\ ImportsFollowed(asks', importer') /\ AnswersKnown(asks', listNow.version)
        /\ LoadsAreNew(asks', acked') /\ TableIsFresh'
    BY <1>t, <2>1, <2>3, TableLoadKeeps
  <2> QED BY <1>0, <2>1, <2>3, <2>4, <2>5 DEF ListInv, ListTypes, SelectedAreShown
<1>20. ASSUME NEW s \in AskSlots, ImportLost(s) PROVE ListInv'
  <2>1. asks[s].kind \in ImportKinds /\ asks' = Without(s) /\ UNCHANGED <<listNow, table, acked>>
    BY <1>20 DEF ImportLost
  <2>2. IF asks[s].mounted THEN importer' \in ImportPages /\ ~importer'.busy ELSE importer' = importer
    BY <1>20, <1>t DEF ImportLost, Seen, ImportPages
  <2>3. ImportsFollowed(asks', importer') /\ importer' \in ImportPages
    BY <1>t, <2>1, <2>2, WithoutKeeps DEF OfImporter
  <2>4. (~table.failed /\ (\A u \in AskSlots : asks'[u].kind = "load" => asks'[u].cancelled)) => table.version >= acked
    <3>1. asks[s].kind # "load"
      BY <2>1 DEF ImportKinds
    <3> QED BY <1>0, <2>1, <3>1, WithoutKeeps DEF TableIsFresh
  <2> QED BY <2>1, <2>3, <2>4, WithoutKeeps, ImporterStep
<1>21. CASE UNCHANGED listVars
  BY <1>0, <1>21 DEF listVars, ListInv, ListTypes, SelectedAreShown, TableIsFresh
<1> QED
  BY <1>1, <1>2, <1>3, <1>4, <1>5, <1>6, <1>7, <1>8, <1>9, <1>10, <1>11, <1>12, <1>13, <1>14, <1>15, <1>16, <1>17, <1>18,
     <1>19, <1>20, <1>21 DEF ListNext

\* The invariant says what the runs check.
LEMMA ListImplies == ListInv => TableTruthful
<1> SUFFICES ASSUME ListInv PROVE TableTruthful
  OBVIOUS
<1>1. ImportedAsPreviewed
  <2> SUFFICES ASSUME NEW s \in AskSlots, asks[s].kind = "file"
               PROVE  Cardinality(asks[s].email) = 1 /\ (asks[s].mounted => importer.preview)
    BY DEF ImportedAsPreviewed
  <2>1. asks[s].email \in EmailColumns \ {{}}
    BY DEF ListInv, ListTypes, AskRecords, ImportsFollowed
  <2>2. Cardinality({1}) = 1 /\ Cardinality({2}) = 1
    BY FS_Singleton
  <2>3. asks[s].mounted => importer.preview
    BY DEF ListInv, ImportsFollowed, OfImporter, ImportKinds
  <2> QED BY <2>1, <2>2, <2>3 DEF EmailColumns
<1>2. ImporterComesBack
  BY DEF ListInv, ImportsFollowed, OfImporter, ImporterComesBack
<1> QED BY <1>1, <1>2 DEF ListInv, TableTruthful

\* For any number of contacts, changes and requests and any page size: once nothing is being loaded the
\* table shows every change it was told of, only contacts on screen are deleted, the file imported is the
\* one previewed, and the importer waits only for requests of its own (ContactsTable, ImportPanel).
THEOREM TableIsTruthful == ListSpec => []TableTruthful
<1>1. ListSpec => []ListInv
  BY ListStarts, ListSteps, PTL DEF ListSpec
<1> QED BY <1>1, ListImplies, PTL

-----------------------------------------------------------------------------
(* The developer panel and its journal. *)

Events     == Nat \X Nat
CallRecords == [kind : {"none", "action", "state"}, since : Nat, life : Nat, awaited : BOOLEAN, done : BOOLEAN,
               answer : Seq(Events)]
PanelPages == [open : BOOLEAN, auto : BOOLEAN, cursor : Nat, shown : Seq(Events), cleared : Nat, busy : BOOLEAN,
               acted : Events]

\* Neighbours of one life follow each other.
Stretched(q) == \A k \in 1..Len(q) - 1 : q[k][1] = q[k + 1][1] => q[k + 1][2] = q[k][2] + 1

\* What is cut off a sequence is its front.
LEMMA LastOfIs ==
  ASSUME NEW S, NEW q \in Seq(S), NEW n \in Nat \ {0}
  PROVE  /\ LastOf(q, n) \in Seq(S)
         /\ Len(LastOf(q, n)) = IF Len(q) < n THEN Len(q) ELSE n
         /\ \A k \in 1..Len(LastOf(q, n)) : LastOf(q, n)[k] = q[Len(q) - Len(LastOf(q, n)) + k]
<1> DEFINE m == IF Len(q) < n THEN 1 ELSE Len(q) - n + 1
<1>1. Len(q) \in Nat /\ m \in 1..Len(q) + 1 /\ m \in Int /\ Len(q) \in Int
  BY LenProperties
<1>2. \A i \in m..Len(q) : q[i] \in S
  BY <1>1, ElementOfSeq
<1> HIDE DEF m
<1>3. /\ SubSeq(q, m, Len(q)) \in Seq(S)
      /\ Len(SubSeq(q, m, Len(q))) = IF m <= Len(q) THEN Len(q) - m + 1 ELSE 0
      /\ \A i \in 1..Len(q) - m + 1 : SubSeq(q, m, Len(q))[i] = q[m + i - 1]
  BY <1>1, <1>2, SubSeqProperties
<1>4. LastOf(q, n) = SubSeq(q, m, Len(q))
  BY DEF LastOf, m
<1>5. Len(q) - m + 1 = IF Len(q) < n THEN Len(q) ELSE n
  BY <1>1 DEF m
<1>6. Len(SubSeq(q, m, Len(q))) = Len(q) - m + 1
  BY <1>1, <1>3
<1>7. \A i \in 1..Len(q) - m + 1 : m + i - 1 = Len(q) - (Len(q) - m + 1) + i
  BY <1>1
<1> QED BY <1>3, <1>4, <1>5, <1>6, <1>7

\* The end of a stretch is a stretch with the same end.
LEMMA StretchCut ==
  ASSUME NEW q \in Seq(Events), Stretched(q), NEW n \in Nat \ {0}
  PROVE  /\ Stretched(LastOf(q, n))
         /\ LastOf(q, n) # <<>> <=> q # <<>>
         /\ q # <<>> => Len(LastOf(q, n)) \in Nat \ {0} /\ LastOf(q, n)[Len(LastOf(q, n))] = q[Len(q)]
<1> DEFINE r == LastOf(q, n)
<1>1. /\ r \in Seq(Events) /\ Len(r) = (IF Len(q) < n THEN Len(q) ELSE n)
      /\ \A k \in 1..Len(r) : r[k] = q[Len(q) - Len(r) + k]
  BY LastOfIs
<1>2. Len(r) \in Nat /\ Len(q) \in Nat /\ Len(r) <= Len(q)
  BY <1>1, LenProperties
<1> HIDE DEF r
<1>3. Stretched(r)
  <2> SUFFICES ASSUME NEW k \in 1..Len(r) - 1 PROVE r[k][1] = r[k + 1][1] => r[k + 1][2] = r[k][2] + 1
    BY DEF Stretched
  <2>1. Len(q) - Len(r) + k \in 1..Len(q) - 1
    BY <1>2
  <2>2. r[k] = q[Len(q) - Len(r) + k] /\ r[k + 1] = q[(Len(q) - Len(r) + k) + 1]
    <3>1. k \in 1..Len(r) /\ k + 1 \in 1..Len(r)
      BY <1>2
    <3>2. r[k] = q[Len(q) - Len(r) + k] /\ r[k + 1] = q[Len(q) - Len(r) + (k + 1)]
      BY <1>1, <3>1
    <3>3. Len(q) - Len(r) + (k + 1) = (Len(q) - Len(r) + k) + 1
      BY <1>2
    <3> QED BY <3>2, <3>3
  <2> QED BY <2>1, <2>2 DEF Stretched
<1>4. r # <<>> <=> q # <<>>
  BY <1>1, <1>2, EmptySeq
<1>5. q # <<>> => Len(r) \in Nat \ {0} /\ r[Len(r)] = q[Len(q)]
  <2> SUFFICES ASSUME q # <<>> PROVE Len(r) \in Nat \ {0} /\ r[Len(r)] = q[Len(q)]
    OBVIOUS
  <2>1. Len(r) \in Nat \ {0}
    BY <1>1, <1>4, EmptySeq
  <2>2. r[Len(r)] = q[Len(q) - Len(r) + Len(r)]
    <3>1. Len(r) \in 1..Len(r)
      BY <2>1
    <3> QED BY <1>1, <3>1
  <2> QED BY <1>2, <2>1, <2>2
<1> QED BY <1>3, <1>4, <1>5 DEF r

\* Two stretches that meet are one.
LEMMA StretchJoin ==
  ASSUME NEW p \in Seq(Events), NEW q \in Seq(Events), Stretched(p), Stretched(q),
         p # <<>> /\ q # <<>> => q[1][2] = p[Len(p)][2] + 1
  PROVE  /\ p \o q \in Seq(Events) /\ Stretched(p \o q)
         /\ q # <<>> => p \o q # <<>> /\ (p \o q)[Len(p \o q)] = q[Len(q)]
         /\ q = <<>> => p \o q = p
<1> DEFINE r == p \o q
<1>1. /\ r \in Seq(Events) /\ Len(r) = Len(p) + Len(q)
      /\ \A i \in 1..Len(p) + Len(q) : r[i] = IF i <= Len(p) THEN p[i] ELSE q[i - Len(p)]
  BY ConcatProperties
<1>2. Len(p) \in Nat /\ Len(q) \in Nat /\ (p # <<>> => Len(p) # 0) /\ (q # <<>> => Len(q) # 0) /\ Len(<<>>) = 0
  BY LenProperties, EmptySeq
<1>3. q = <<>> => r = p
  BY ConcatEmptySeq
<1> HIDE DEF r
<1>4. Stretched(r)
  <2> SUFFICES ASSUME NEW k \in 1..Len(r) - 1 PROVE r[k][1] = r[k + 1][1] => r[k + 1][2] = r[k][2] + 1
    BY DEF Stretched
  <2>1. CASE k + 1 <= Len(p)
    <3>1. r[k] = p[k] /\ r[k + 1] = p[k + 1] /\ k \in 1..Len(p) - 1
      BY <1>1, <1>2, <2>1
    <3> QED BY <3>1 DEF Stretched
  <2>2. CASE k = Len(p)
    <3>1. r[k] = p[Len(p)] /\ r[k + 1] = q[1] /\ p # <<>> /\ q # <<>>
      <4>1. k \in 1..Len(p) + Len(q) /\ k + 1 \in 1..Len(p) + Len(q) /\ (k + 1) - Len(p) = 1 /\ ~(k + 1 <= Len(p))
        BY <1>1, <1>2, <2>2
      <4>2. Len(p) # 0 /\ Len(q) # 0
        BY <1>1, <1>2, <2>2
      <4>3. p # <<>> /\ q # <<>>
        BY <1>2, <4>2
      <4> QED BY <1>1, <2>2, <4>1, <4>3
    <3> QED BY <3>1
  <2>3. CASE k > Len(p)
    <3>1. r[k] = q[k - Len(p)] /\ r[k + 1] = q[(k - Len(p)) + 1] /\ k - Len(p) \in 1..Len(q) - 1
      <4>1. k + 1 \in 1..Len(p) + Len(q) /\ k \in 1..Len(p) + Len(q) /\ (k + 1) - Len(p) = (k - Len(p)) + 1
        BY SMTT(30), <1>1, <1>2
      <4>2. r[k] = q[k - Len(p)] /\ r[k + 1] = q[(k + 1) - Len(p)]
        BY <1>1, <1>2, <2>3, <4>1
      <4>3. k - Len(p) \in 1..Len(q) - 1
        BY <1>1, <1>2, <2>3
      <4> QED BY <4>1, <4>2, <4>3
    <3> QED BY <3>1 DEF Stretched
  <2> QED BY <1>2, <2>1, <2>2, <2>3
<1>5. q # <<>> => r # <<>> /\ r[Len(r)] = q[Len(q)]
  <2> SUFFICES ASSUME q # <<>> PROVE r # <<>> /\ r[Len(r)] = q[Len(q)]
    OBVIOUS
  <2>1. Len(r) \in 1..Len(p) + Len(q) /\ Len(r) > Len(p) /\ Len(r) - Len(p) = Len(q)
    BY <1>1, <1>2
  <2> QED BY <1>1, <1>2, <2>1
<1> QED BY <1>1, <1>3, <1>4, <1>5 DEF r

\* The journal from an entry on.
LEMMA FromIs ==
  ASSUME journal.next \in Nat \ {0}, NEW first \in Nat \ {0}
  PROVE  /\ From(first) \in Seq(Nat)
         /\ Len(From(first)) = IF first < journal.next THEN journal.next - first ELSE 0
         /\ \A k \in 1..Len(From(first)) : From(first)[k] = first + k - 1
<1> DEFINE n == IF first < journal.next THEN journal.next - first ELSE 0
<1>1. n \in Nat /\ 1..journal.next - first = 1..n
  OBVIOUS
<1>2. From(first) = [k \in 1..n |-> first + k - 1]
  BY <1>1 DEF From
<1> HIDE DEF n
<1>3. \A k \in 1..n : first + k - 1 \in Nat
  BY <1>1
<1>4. From(first) \in [1..n -> Nat]
  BY <1>2, <1>3
<1>5. From(first) \in Seq(Nat)
  BY <1>1, <1>4, SeqDef
<1>6. DOMAIN From(first) = 1..n
  BY <1>4
<1>7. Len(From(first)) = n
  BY <1>1, <1>5, <1>6, LenProperties
<1> QED BY <1>2, <1>5, <1>7 DEF n

\* What the journal answers: newer entries in a row, up to its end, all of them unless it fills the page.
LEMMA JournalRead ==
  ASSUME journal.next \in Nat \ {0}, journal.next <= Beyond, NEW since \in Nat
  PROVE  LET e == ReadJournal(since)
         IN /\ e \in Seq(Nat) /\ Len(e) <= Show
            /\ \A k \in 1..Len(e) - 1 : e[k + 1] = e[k] + 1
            /\ e # <<>> => /\ e[Len(e)] = journal.next - 1 /\ journal.next - 1 > since
                           /\ e[1] = since + 1 \/ Len(e) = Show
            /\ e = <<>> => since >= journal.next - 1
            /\ since = Beyond => e = <<>>
<1> DEFINE first == IF since < Oldest THEN Oldest ELSE since + 1
           f == From(first)
           e == ReadJournal(since)
<1>1. Oldest \in Nat \ {0} /\ Keep \in Nat \ {0} /\ Show \in Nat \ {0} /\ Show <= Keep
  BY PanelAssumption DEF Oldest
<1>2. first \in Nat \ {0} /\ first > since
  BY <1>1
<1>3. /\ f \in Seq(Nat) /\ Len(f) = (IF first < journal.next THEN journal.next - first ELSE 0)
      /\ \A k \in 1..Len(f) : f[k] = first + k - 1
  BY <1>2, FromIs
<1>4. e = LastOf(f, Show)
  BY DEF ReadJournal
<1>5. first # since + 1 => Oldest = 1 \/ journal.next - first = Keep
  BY <1>1 DEF Oldest
<1>6. first # since + 1 => first = Oldest /\ since < Oldest
  BY <1>1
<1>7. since = Beyond => first >= journal.next
  BY <1>2
<1> HIDE DEF first, f, e
<1>8. /\ e \in Seq(Nat) /\ Len(e) = (IF Len(f) < Show THEN Len(f) ELSE Show)
      /\ \A k \in 1..Len(e) : e[k] = f[Len(f) - Len(e) + k]
  <2>1. f \in Seq(Nat) /\ Show \in Nat \ {0}
    BY <1>1, <1>3
  <2>2. /\ LastOf(f, Show) \in Seq(Nat)
        /\ Len(LastOf(f, Show)) = (IF Len(f) < Show THEN Len(f) ELSE Show)
        /\ \A k \in 1..Len(LastOf(f, Show)) : LastOf(f, Show)[k] = f[Len(f) - Len(LastOf(f, Show)) + k]
    BY <2>1, LastOfIs
  <2> QED BY <1>4, <2>2
<1>9. Len(f) \in Nat /\ Len(e) \in Nat /\ Len(e) <= Len(f) /\ Len(e) <= Show
  BY <1>1, <1>3, <1>8, LenProperties
<1>10. \A k \in 1..Len(e) : e[k] = first + (Len(f) - Len(e)) + k - 1
  <2> SUFFICES ASSUME NEW k \in 1..Len(e) PROVE e[k] = first + (Len(f) - Len(e)) + k - 1
    OBVIOUS
  <2>1. Len(f) - Len(e) + k \in 1..Len(f)
    BY <1>9
  <2>2. e[k] = f[Len(f) - Len(e) + k]
    BY <1>8
  <2>3. f[Len(f) - Len(e) + k] = first + (Len(f) - Len(e) + k) - 1
    BY <1>3, <2>1
  <2> QED BY <1>2, <1>9, <2>2, <2>3
<1>11. \A k \in 1..Len(e) - 1 : e[k + 1] = e[k] + 1
  <2> SUFFICES ASSUME NEW k \in 1..Len(e) - 1 PROVE e[k + 1] = e[k] + 1
    OBVIOUS
  <2>1. k \in 1..Len(e) /\ k + 1 \in 1..Len(e)
    BY <1>9
  <2>2. e[k] = first + (Len(f) - Len(e)) + k - 1 /\ e[k + 1] = first + (Len(f) - Len(e)) + (k + 1) - 1
    BY <1>10, <2>1
  <2> QED BY <1>2, <1>9, <2>2
<1>12. (e # <<>> <=> Len(e) # 0) /\ (Len(e) # 0 <=> Len(f) # 0)
  BY <1>1, <1>8, <1>9, EmptySeq
<1>13. ASSUME e # <<>>
       PROVE  /\ e[Len(e)] = journal.next - 1 /\ journal.next - 1 > since
              /\ e[1] = since + 1 \/ Len(e) = Show
  <2>1. Len(e) \in 1..Len(e) /\ 1 \in 1..Len(e) /\ Len(f) = journal.next - first
    BY <1>3, <1>9, <1>12, <1>13
  <2>2. e[Len(e)] = first + (Len(f) - Len(e)) + Len(e) - 1 /\ e[1] = first + (Len(f) - Len(e)) + 1 - 1
    BY <1>10, <2>1
  <2>3. e[Len(e)] = journal.next - 1
    BY <1>2, <1>9, <2>1, <2>2
  <2>4. journal.next - 1 > since
    BY <1>2, <1>3, <1>12, <1>13
  <2>5. CASE Len(f) < Show
    <3>1. Len(e) = Len(f) /\ e[1] = first
      BY <1>2, <1>8, <1>9, <2>2, <2>5
    <3>2. first = since + 1
      <4>1. journal.next - first # Keep
        BY <1>1, <2>1, <2>5
      <4>2. Oldest = 1 => first = since + 1
        BY <1>6
      <4> QED BY <1>5, <4>1, <4>2
    <3> QED BY <2>3, <2>4, <3>1, <3>2
  <2>6. CASE ~(Len(f) < Show)
    BY <1>8, <2>3, <2>4, <2>6
  <2> QED BY <2>5, <2>6
<1>14. e = <<>> => since >= journal.next - 1
  <2> SUFFICES ASSUME e = <<>> PROVE since >= journal.next - 1
    OBVIOUS
  <2>1. first >= journal.next
    BY <1>2, <1>3, <1>12
  <2>2. Oldest < journal.next \/ journal.next = 1
    BY <1>1 DEF Oldest
  <2>3. first = since + 1 \/ journal.next = 1
    BY <1>1, <1>6, <2>1, <2>2
  <2> QED BY <2>1, <2>3
<1>15. since = Beyond => e = <<>>
  BY <1>2, <1>3, <1>7, <1>12
<1> QED BY <1>8, <1>9, <1>11, <1>13, <1>14, <1>15 DEF e
\* Of a sequence at least as long as the number kept, exactly that many entries are kept.
LEMMA LastOfFull ==
  ASSUME NEW S, NEW r \in Seq(S), NEW n \in Nat \ {0}, Len(r) >= n
  PROVE  /\ LastOf(r, n) \in Seq(S) /\ Len(LastOf(r, n)) = n
         /\ \A k \in 1..n : LastOf(r, n)[k] = r[Len(r) - n + k]
<1>1. /\ LastOf(r, n) \in Seq(S)
      /\ Len(LastOf(r, n)) = (IF Len(r) < n THEN Len(r) ELSE n)
      /\ \A k \in 1..Len(LastOf(r, n)) : LastOf(r, n)[k] = r[Len(r) - Len(LastOf(r, n)) + k]
  BY LastOfIs
<1>2. Len(r) \in Nat
  BY LenProperties
<1>3. Len(LastOf(r, n)) = n
  BY <1>1, <1>2
<1> QED BY <1>1, <1>3

\* A second sequence as long as what is kept is what is kept.
LEMMA LastOfJoined ==
  ASSUME NEW S, NEW p \in Seq(S), NEW q \in Seq(S), NEW n \in Nat \ {0}, Len(q) = n
  PROVE  LastOf(p \o q, n) = q
<1>1. /\ p \o q \in Seq(S) /\ Len(p \o q) = Len(p) + Len(q)
      /\ \A i \in 1..Len(p) + Len(q) : (p \o q)[i] = IF i <= Len(p) THEN p[i] ELSE q[i - Len(p)]
  BY ConcatProperties
<1>2. Len(p) \in Nat /\ Len(q) \in Nat
  BY LenProperties
<1> DEFINE l == LastOf(p \o q, n)
<1>3. l \in Seq(S) /\ Len(l) = n /\ \A k \in 1..n : l[k] = (p \o q)[Len(p) + Len(q) - n + k]
  <2>1. PICK r : r = p \o q
    OBVIOUS
  <2>2. r \in Seq(S) /\ Len(r) = Len(p) + Len(q)
    BY <1>1, <2>1
  <2>3. Len(r) >= n
    BY <1>2, <2>2
  <2>4. LastOf(r, n) \in Seq(S) /\ Len(LastOf(r, n)) = n /\ \A k \in 1..n : LastOf(r, n)[k] = r[Len(r) - n + k]
    BY <2>2, <2>3, LastOfFull
  <2> QED BY <2>1, <2>2, <2>4
<1> HIDE DEF l
<1>4. \A k \in 1..Len(l) : l[k] = q[k]
  <2> SUFFICES ASSUME NEW k \in 1..Len(l) PROVE l[k] = q[k]
    OBVIOUS
  <2>1. l[k] = (p \o q)[Len(p) + k] /\ Len(p) + k \in 1..Len(p) + Len(q) /\ ~(Len(p) + k <= Len(p)) /\ (Len(p) + k) - Len(p) = k
    BY <1>1, <1>2, <1>3
  <2> QED BY <1>1, <2>1
<1>5. l = q
  BY <1>3, <1>4, SeqEqual
<1> QED BY <1>5 DEF l

PanelTypes ==
  /\ journal \in [life : Nat \ {0}, next : Nat \ {0}] /\ journal.next <= Beyond
  /\ panel \in PanelPages
  /\ calls \in [PanelSlots -> CallRecords]
  /\ crossed \in BOOLEAN

\* What a request of a page without overlapping requests asked for, and what it is told.
Followed(c) ==
  /\ c.kind = "action" => panel.busy
  /\ c.kind = "state" => c.since = panel.cursor \/ c.since = Beyond
  /\ c.kind = "state" /\ c.awaited => c.since = panel.cursor
  /\ c.kind = "state" /\ c.done =>
       /\ Stretched(c.answer)
       /\ c.answer # <<>> => /\ c.answer[1][2] = panel.cursor + 1 \/ Len(c.answer) = Show
                             /\ c.answer[Len(c.answer)][2] > panel.cursor

\* In the first life of the server ids rise, so that the cursor can be compared with an action's.
InFirstLife(c) ==
  /\ c.kind = "action" => panel.cursor >= panel.acted[2]
  /\ c.kind # "none" /\ c.done /\ c.answer # <<>> => c.answer[Len(c.answer)][2] < journal.next
  /\ c.kind = "state" /\ c.done /\ c.awaited =>
       IF c.answer = <<>> THEN panel.cursor >= panel.acted[2] ELSE c.answer[Len(c.answer)][2] >= panel.acted[2]

FirstLife ==
  /\ panel.acted[2] < journal.next /\ panel.cursor < journal.next
  /\ ~panel.busy => panel.cursor >= panel.acted[2]
  /\ \A s \in PanelSlots : InFirstLife(calls[s])

Uncrossed ==
  /\ \A s, t \in PanelSlots : calls[s].kind # "none" /\ calls[t].kind # "none" => s = t
  /\ Stretched(panel.shown)
  /\ panel.shown # <<>> => panel.cursor = panel.shown[Len(panel.shown)][2]
  /\ \A s \in PanelSlots : Followed(calls[s])
  /\ journal.life = 1 => FirstLife

\* The inductive invariant of the panel.
PanelInv ==
  /\ PanelTypes
  /\ BusyIsUnderWay
  /\ \A s \in PanelSlots : calls[s].kind = "action" /\ calls[s].done => calls[s].answer # <<>>
  /\ ~crossed => Uncrossed

\* An empty call is no call.
LEMMA NoCallTyped == NoCall \in CallRecords /\ NoCall.kind = "none" /\ <<>> \in Seq(Events) /\ <<1, 0>> \in Events
BY EmptySeq DEF NoCall, CallRecords, Events

\* The page opens with an empty view of an empty journal.
LEMMA PanelStarts == PanelInit => PanelInv
<1> SUFFICES ASSUME PanelInit PROVE PanelInv
  OBVIOUS
<1>1. panel \in PanelPages /\ panel.shown = <<>> /\ panel.busy = FALSE /\ panel.cursor = 0 /\ panel.acted = <<1, 0>>
  BY NoCallTyped DEF PanelInit, PanelPages
<1>2. calls \in [PanelSlots -> CallRecords] /\ \A s \in PanelSlots : calls[s].kind = "none"
  BY NoCallTyped DEF PanelInit
<1>3. journal \in [life : Nat \ {0}, next : Nat \ {0}] /\ journal.next = 1 /\ journal.next <= Beyond
  BY PanelAssumption DEF PanelInit, Beyond
<1>4. Len(<<>>) = 0 /\ <<1, 0>>[2] = 0
  OBVIOUS
<1>5. Uncrossed
  BY <1>1, <1>2, <1>3, <1>4 DEF Uncrossed, Stretched, Followed, FirstLife, InFirstLife
<1> QED BY <1>1, <1>2, <1>3, <1>5 DEF PanelInv, PanelTypes, BusyIsUnderWay, PanelInit

\* A refresh leaves: for what is after the cursor, or for no events.
LEMMA RefreshSends ==
  ASSUME PanelTypes, NEW held \in [PanelSlots -> CallRecords], NEW withEvents, NEW awaited \in BOOLEAN,
         Refresh(held, withEvents, awaited)
  PROVE  /\ calls' \in [PanelSlots -> CallRecords] /\ crossed' \in BOOLEAN
         /\ \E s \in PanelSlots :
              /\ held[s].kind = "none" /\ calls'[s].kind = "state" /\ ~calls'[s].done /\ calls'[s].awaited = awaited
              /\ calls'[s].since = panel.cursor \/ calls'[s].since = Beyond
              /\ withEvents => calls'[s].since = panel.cursor
              /\ \A u \in PanelSlots \ {s} : calls'[u] = held[u]
              /\ ~crossed' => ~crossed /\ \A u \in PanelSlots \ {s} : calls'[u].kind = "none"
<1> DEFINE since == IF withEvents THEN panel.cursor ELSE Beyond
<1>1. since \in Nat /\ (since = panel.cursor \/ since = Beyond) /\ (withEvents => since = panel.cursor)
  BY PanelAssumption DEF PanelTypes, PanelPages, Beyond
<1>2. PICK s \in PanelSlots : /\ held[s].kind = "none" /\ calls' = [held EXCEPT ![s] = Call("state", since, awaited)]
                              /\ crossed' = (crossed \/ \E u \in PanelSlots : held[u].kind # "none")
  BY DEF Refresh
<1> HIDE DEF since
<1>3. LET c == Call("state", since, awaited)
      IN c \in CallRecords /\ c.kind = "state" /\ ~c.done /\ c.awaited = awaited /\ c.since = since
  BY <1>1, NoCallTyped DEF Call, CallRecords, PanelTypes
<1>4. /\ calls' \in [PanelSlots -> CallRecords] /\ calls'[s] = Call("state", since, awaited)
      /\ \A u \in PanelSlots \ {s} : calls'[u] = held[u]
  BY <1>2, <1>3
<1>5. crossed' \in BOOLEAN /\ (~crossed' => ~crossed /\ \A u \in PanelSlots : held[u].kind = "none")
  BY <1>2 DEF PanelTypes
<1> QED BY <1>1, <1>2, <1>3, <1>4, <1>5

\* A request that is over gives its slot back.
LEMMA WithdrawnKeeps ==
  ASSUME PanelTypes, NEW s \in PanelSlots
  PROVE  /\ Withdrawn(s) \in [PanelSlots -> CallRecords] /\ Withdrawn(s)[s].kind = "none"
         /\ \A u \in PanelSlots \ {s} : Withdrawn(s)[u] = calls[u]
BY NoCallTyped DEF PanelTypes, Withdrawn

\* A refresh that nobody waits for changes nothing but the requests under way.
LEMMA PollSent ==
  ASSUME PanelInv, UNCHANGED journal, panel' \in PanelPages, panel'.cursor = panel.cursor, panel'.shown = panel.shown,
         panel'.busy = panel.busy, panel'.acted = panel.acted, NEW withEvents, Refresh(calls, withEvents, FALSE)
  PROVE  PanelInv'
<1>1. PanelTypes /\ calls \in [PanelSlots -> CallRecords]
  BY DEF PanelInv, PanelTypes
<1>2. calls' \in [PanelSlots -> CallRecords] /\ crossed' \in BOOLEAN
  BY <1>1, RefreshSends
<1>3. PICK s \in PanelSlots :
        /\ calls[s].kind = "none" /\ calls'[s].kind = "state" /\ ~calls'[s].done /\ calls'[s].awaited = FALSE
        /\ calls'[s].since = panel.cursor \/ calls'[s].since = Beyond
        /\ \A u \in PanelSlots \ {s} : calls'[u] = calls[u]
        /\ ~crossed' => ~crossed /\ \A u \in PanelSlots \ {s} : calls'[u].kind = "none"
  BY <1>1, RefreshSends
<1>4. PanelTypes'
  BY <1>1, <1>2 DEF PanelTypes, Beyond
<1>5. BusyIsUnderWay'
  BY <1>3 DEF PanelInv, BusyIsUnderWay, Pending
<1>6. \A u \in PanelSlots : calls'[u].kind = "action" /\ calls'[u].done => calls'[u].answer # <<>>
  BY <1>3 DEF PanelInv
<1>7. ASSUME ~crossed' PROVE Uncrossed'
  <2>1. Uncrossed
    BY <1>3, <1>7 DEF PanelInv
  <2>2. \A u \in PanelSlots : Followed(calls[u])'
    BY <1>3, <1>7 DEF Followed, Beyond
  <2>3. journal'.life = 1 => FirstLife'
    BY <1>3, <1>7, <2>1 DEF Uncrossed, FirstLife, InFirstLife
  <2> QED BY <1>3, <1>7, <2>1, <2>2, <2>3 DEF Uncrossed
<1> QED BY <1>4, <1>5, <1>6, <1>7 DEF PanelInv
\* The last of the shown is the end, also after more has been shown.
LEMMA ShownGrows ==
  ASSUME NEW p \in Seq(Events), NEW q \in Seq(Events), Stretched(p), Stretched(q),
         p # <<>> /\ q # <<>> => q[1][2] = p[Len(p)][2] + 1 \/ Len(q) = Show
  PROVE  /\ LastOf(p \o q, Show) \in Seq(Events) /\ Stretched(LastOf(p \o q, Show))
         /\ q # <<>> => LastOf(p \o q, Show)[Len(LastOf(p \o q, Show))] = q[Len(q)]
         /\ q = <<>> => (LastOf(p \o q, Show) # <<>> <=> p # <<>>)
         /\ q = <<>> /\ p # <<>> => LastOf(p \o q, Show)[Len(LastOf(p \o q, Show))] = p[Len(p)]
<1>1. Show \in Nat \ {0}
  BY PanelAssumption
<1>2. CASE Len(q) = Show
  <2>1. LastOf(p \o q, Show) = q
    BY <1>1, <1>2, LastOfJoined
  <2>2. q # <<>>
    BY <1>1, <1>2, EmptySeq
  <2> QED BY <2>1, <2>2
<1>3. CASE Len(q) # Show
  <2>1. /\ p \o q \in Seq(Events) /\ Stretched(p \o q)
        /\ q # <<>> => p \o q # <<>> /\ (p \o q)[Len(p \o q)] = q[Len(q)]
        /\ q = <<>> => p \o q = p
    BY <1>3, StretchJoin
  <2>2. /\ Stretched(LastOf(p \o q, Show)) /\ (LastOf(p \o q, Show) # <<>> <=> p \o q # <<>>)
        /\ p \o q # <<>> => LastOf(p \o q, Show)[Len(LastOf(p \o q, Show))] = (p \o q)[Len(p \o q)]
    BY <1>1, <2>1, StretchCut
  <2>3. LastOf(p \o q, Show) \in Seq(Events)
    BY <1>1, <2>1, LastOfIs
  <2> QED BY <2>1, <2>2, <2>3
<1> QED BY <1>2, <1>3

\* A reply of the server, marked with the server's life.
LEMMA ReplyTyped ==
  ASSUME NEW e \in Seq(Nat), NEW life \in Nat, \A k \in 1..Len(e) - 1 : e[k + 1] = e[k] + 1
  PROVE  LET a == [k \in DOMAIN e |-> <<life, e[k]>>]
         IN /\ a \in Seq(Events) /\ Len(a) = Len(e) /\ (a = <<>> <=> e = <<>>)
            /\ \A k \in 1..Len(e) : a[k] = <<life, e[k]>>
            /\ Stretched(a)
<1> DEFINE a == [k \in DOMAIN e |-> <<life, e[k]>>]
<1>1. Len(e) \in Nat /\ DOMAIN e = 1..Len(e)
  BY LenProperties
<1>2. a = [k \in 1..Len(e) |-> <<life, e[k]>>]
  BY <1>1
<1>3. \A k \in 1..Len(e) : <<life, e[k]>> \in Events
  BY <1>1, ElementOfSeq DEF Events
<1> HIDE DEF a
<1>4. a \in [1..Len(e) -> Events]
  BY <1>2, <1>3
<1>5. a \in Seq(Events)
  <2> DEFINE n == Len(e)
  <2>1. n \in Nat
    BY <1>1
  <2>2. a \in [1..n -> Events]
    BY <1>4
  <2> HIDE DEF n
  <2> QED BY <2>1, <2>2, SeqDef
<1>6. Len(a) = Len(e)
  <2>1. DOMAIN a = 1..Len(e)
    BY <1>4
  <2> QED BY <1>1, <1>5, <2>1, LenProperties
<1>7. \A k \in 1..Len(e) : a[k] = <<life, e[k]>>
  BY <1>2
<1>8. a = <<>> <=> e = <<>>
  BY <1>5, <1>6, EmptySeq
<1>9. Stretched(a)
  <2> SUFFICES ASSUME NEW k \in 1..Len(a) - 1 PROVE a[k][1] = a[k + 1][1] => a[k + 1][2] = a[k][2] + 1
    BY DEF Stretched
  <2>1. k \in 1..Len(e) /\ k + 1 \in 1..Len(e) /\ k \in 1..Len(e) - 1
    BY <1>1, <1>6
  <2>2. a[k] = <<life, e[k]>> /\ a[k + 1] = <<life, e[k + 1]>> /\ e[k + 1] = e[k] + 1
    BY <1>7, <2>1
  <2> QED BY <2>2
<1> QED BY <1>5, <1>6, <1>7, <1>8, <1>9 DEF a

\* Every step of the panel, its requests and the server keeps the invariant.
LEMMA PanelSteps == PanelInv /\ [PanelNext]_panelVars => PanelInv'
<1> SUFFICES ASSUME PanelInv, [PanelNext]_panelVars PROVE PanelInv'
  OBVIOUS
<1>0. /\ PanelTypes /\ BusyIsUnderWay /\ (~crossed => Uncrossed)
      /\ \A s \in PanelSlots : calls[s].kind = "action" /\ calls[s].done => calls[s].answer # <<>>
  BY DEF PanelInv
<1>t. /\ journal \in [life : Nat \ {0}, next : Nat \ {0}] /\ journal.next <= Beyond /\ journal.next \in Nat \ {0}
      /\ journal.life \in Nat \ {0}
      /\ panel \in PanelPages /\ panel.shown \in Seq(Events) /\ panel.cursor \in Nat /\ panel.acted[2] \in Nat
      /\ calls \in [PanelSlots -> CallRecords] /\ crossed \in BOOLEAN
  BY <1>0 DEF PanelTypes, PanelPages, Events
<1>b. Beyond = MaxEvents + 1 /\ MaxEvents \in Nat
  BY PanelAssumption DEF Beyond
<1>1. CASE Emit
  <2>1. journal' \in [life : Nat \ {0}, next : Nat \ {0}] /\ journal'.next = journal.next + 1 /\ journal'.life = journal.life
    BY <1>1, <1>t DEF Emit
  <2>2. journal'.next <= Beyond'
    BY <1>1, <1>b, <1>t, <2>1 DEF Emit, Beyond
  <2>3. UNCHANGED <<panel, calls, crossed>>
    BY <1>1 DEF Emit
  <2>4. PanelTypes' /\ BusyIsUnderWay'
    BY <1>0, <2>1, <2>2, <2>3 DEF PanelTypes, BusyIsUnderWay, Pending
  <2>5. FirstLife => FirstLife'
    <3>1. \A s \in PanelSlots : calls[s].answer \in Seq(Events)
      BY <1>t DEF CallRecords
    <3>2. \A s \in PanelSlots : calls[s].answer # <<>> => calls[s].answer[Len(calls[s].answer)][2] \in Nat
      <4> SUFFICES ASSUME NEW s \in PanelSlots, calls[s].answer # <<>>
                   PROVE  calls[s].answer[Len(calls[s].answer)][2] \in Nat
        OBVIOUS
      <4>1. Len(calls[s].answer) \in 1..Len(calls[s].answer)
        BY <3>1, EmptySeq
      <4>2. calls[s].answer[Len(calls[s].answer)] \in Events
        BY <3>1, <4>1, ElementOfSeq
      <4> QED BY <4>2 DEF Events
    <3> QED BY <1>t, <2>1, <2>3, <3>2 DEF FirstLife, InFirstLife
  <2>6. ~crossed' => Uncrossed'
    BY <1>0, <2>1, <2>3, <2>5 DEF Uncrossed, Followed, Beyond
  <2> QED BY <1>0, <2>3, <2>4, <2>6 DEF PanelInv
<1>2. CASE RestartServer
  <2>1. journal' \in [life : Nat \ {0}, next : Nat \ {0}] /\ journal'.next = 1 /\ journal'.life # 1
    BY <1>2, <1>t DEF RestartServer
  <2>2. journal'.next <= Beyond'
    BY <1>b, <2>1 DEF Beyond
  <2>3. UNCHANGED <<panel, calls, crossed>>
    BY <1>2 DEF RestartServer
  <2>4. PanelTypes' /\ BusyIsUnderWay'
    BY <1>0, <2>1, <2>2, <2>3 DEF PanelTypes, BusyIsUnderWay, Pending
  <2>5. ~crossed' => Uncrossed'
    BY <1>0, <2>1, <2>3 DEF Uncrossed, Followed, Beyond
  <2> QED BY <1>0, <2>3, <2>4, <2>5 DEF PanelInv
<1>3. CASE PollPanel
  <2>1. Refresh(calls, panel.open /\ panel.auto, FALSE) /\ UNCHANGED <<journal, panel>>
    BY <1>3 DEF PollPanel
  <2> QED BY <1>t, <2>1, PollSent
<1>4. CASE ToggleDrawer
  <2>1. Refresh(calls, ~panel.open /\ panel.auto, FALSE) /\ UNCHANGED journal
    BY <1>4 DEF ToggleDrawer
  <2>2. /\ panel' \in PanelPages /\ panel'.cursor = panel.cursor /\ panel'.shown = panel.shown
        /\ panel'.busy = panel.busy /\ panel'.acted = panel.acted
    BY <1>4, <1>t DEF ToggleDrawer, PanelPages
  <2> QED BY <2>1, <2>2, PollSent
<1>5. CASE ToggleAuto
  <2>1. Refresh(calls, ~panel.auto, FALSE) /\ UNCHANGED journal
    BY <1>5 DEF ToggleAuto
  <2>2. /\ panel' \in PanelPages /\ panel'.cursor = panel.cursor /\ panel'.shown = panel.shown
        /\ panel'.busy = panel.busy /\ panel'.acted = panel.acted
    BY <1>5, <1>t DEF ToggleAuto, PanelPages
  <2> QED BY <2>1, <2>2, PollSent
<1>6. CASE RefreshPressed
  <2>1. Refresh(calls, TRUE, FALSE) /\ UNCHANGED <<journal, panel>>
    BY <1>6 DEF RefreshPressed
  <2> QED BY <1>t, <2>1, PollSent
<1>7. CASE ClearView
  <2>1. UNCHANGED <<journal, calls, crossed>>
    BY <1>7 DEF ClearView
  <2>2. Last(panel.shown)[2] \in Nat
    <3>1. PICK k \in DOMAIN panel.shown : TRUE
      BY <1>7 DEF ClearView
    <3>2. Len(panel.shown) \in Nat /\ DOMAIN panel.shown = 1..Len(panel.shown)
      BY <1>t, LenProperties
    <3>3. Len(panel.shown) \in 1..Len(panel.shown)
      BY <3>1, <3>2
    <3>4. panel.shown[Len(panel.shown)] \in Events
      BY <1>t, <3>3, ElementOfSeq
    <3> QED BY <3>4 DEF Last, Events
  <2>3. /\ panel' \in PanelPages /\ panel'.cursor = panel.cursor /\ panel'.shown = panel.shown
        /\ panel'.busy = panel.busy /\ panel'.acted = panel.acted
    <3>1. panel' = [panel EXCEPT !.cleared = Last(panel.shown)[2]]
      BY <1>7 DEF ClearView
    <3> QED BY <1>t, <2>2, <3>1 DEF PanelPages
  <2>4. ~crossed' => Uncrossed'
    BY <1>0, <2>1, <2>3 DEF Uncrossed, Followed, FirstLife, InFirstLife, Beyond
  <2> QED BY <1>0, <2>1, <2>3, <2>4 DEF PanelInv, PanelTypes, BusyIsUnderWay, Pending, Beyond
<1>8. CASE RunAction
  <2>1. PICK s \in PanelSlots \ Pending : calls' = [calls EXCEPT ![s] = Call("action", 0, TRUE)]
    BY <1>8 DEF RunAction
  <2>2. LET c == Call("action", 0, TRUE) IN c \in CallRecords /\ c.kind = "action" /\ ~c.done /\ c.awaited
    BY <1>t, NoCallTyped DEF Call, CallRecords
  <2>3. /\ calls' \in [PanelSlots -> CallRecords] /\ calls'[s].kind = "action" /\ ~calls'[s].done /\ calls'[s].awaited
        /\ \A u \in PanelSlots \ {s} : calls'[u] = calls[u]
    BY <1>t, <2>1, <2>2
  <2>4. /\ panel' \in PanelPages /\ panel'.cursor = panel.cursor /\ panel'.shown = panel.shown
        /\ panel'.busy = TRUE /\ panel'.acted = panel.acted /\ ~panel.busy
    BY <1>8, <1>t DEF RunAction, PanelPages
  <2>5. journal' = journal /\ crossed' \in BOOLEAN /\ (~crossed' => ~crossed /\ \A u \in PanelSlots : calls[u].kind = "none")
    BY <1>8, <1>t DEF RunAction, Pending
  <2>6. ASSUME ~crossed' PROVE Uncrossed'
    <3>1. Uncrossed /\ \A u \in PanelSlots \ {s} : calls'[u].kind = "none"
      BY <1>0, <2>3, <2>5, <2>6
    <3>2. \A u \in PanelSlots : Followed(calls[u])'
      BY <2>3, <2>4, <3>1 DEF Followed
    <3>3. journal'.life = 1 => FirstLife'
      BY <2>3, <2>4, <2>5, <3>1 DEF Uncrossed, FirstLife, InFirstLife
    <3> QED BY <2>3, <2>4, <3>1, <3>2, <3>3 DEF Uncrossed
  <2>7. BusyIsUnderWay'
    BY <2>3 DEF BusyIsUnderWay, Pending
  <2> QED BY <1>0, <2>3, <2>4, <2>5, <2>6, <2>7 DEF PanelInv, PanelTypes, Beyond
<1>9. ASSUME NEW s \in PanelSlots, ServerReplies(s), calls[s].kind = "action" PROVE PanelInv'
  <2> DEFINE r == [calls[s] EXCEPT !.answer = <<<<journal.life, journal.next>>>>, !.done = TRUE]
  <2>1. /\ journal.next <= MaxEvents /\ journal' = [journal EXCEPT !.next = @ + 1] /\ UNCHANGED <<panel, crossed>>
        /\ calls' = [calls EXCEPT ![s].answer = <<<<journal.life, journal.next>>>>, ![s].done = TRUE]
    BY <1>9 DEF ServerReplies
  <2>2. <<<<journal.life, journal.next>>>> \in Seq(Events)
    BY <1>t DEF Events
  <2>3. calls[s] \in CallRecords
    BY <1>t
  <2>4. /\ r \in CallRecords /\ r.kind = "action" /\ r.done /\ r.answer = <<<<journal.life, journal.next>>>>
        /\ r.awaited = calls[s].awaited
    BY <1>9, <2>2, <2>3 DEF CallRecords
  <2>5. calls' = [calls EXCEPT ![s] = r]
    BY <2>1
  <2> HIDE DEF r
  <2>6. calls' \in [PanelSlots -> CallRecords] /\ calls'[s] = r /\ \A u \in PanelSlots \ {s} : calls'[u] = calls[u]
    BY <1>t, <2>4, <2>5
  <2>7. journal' \in [life : Nat \ {0}, next : Nat \ {0}] /\ journal'.next = journal.next + 1 /\ journal'.life = journal.life
    BY <1>t, <2>1
  <2>8. journal'.next <= Beyond'
    BY <1>b, <1>t, <2>1, <2>7 DEF Beyond
  <2>9. BusyIsUnderWay'
    BY <1>0, <1>9, <2>1, <2>4, <2>6 DEF BusyIsUnderWay, Pending
  <2>10. r.answer # <<>> /\ r.answer[Len(r.answer)][2] = journal.next
    BY <2>4
  <2>11. ASSUME ~crossed' PROVE Uncrossed'
    <3>1. Uncrossed /\ \A u \in PanelSlots \ {s} : calls'[u].kind = "none"
      BY <1>0, <1>9, <2>1, <2>6, <2>11 DEF Uncrossed
    <3>2. \A u \in PanelSlots : Followed(calls[u])'
      BY <1>9, <2>1, <2>4, <2>6, <3>1 DEF Uncrossed, Followed
    <3>3. journal'.life = 1 => FirstLife'
      <4> SUFFICES ASSUME journal'.life = 1 PROVE FirstLife'
        OBVIOUS
      <4>1. FirstLife
        BY <2>7, <3>1 DEF Uncrossed
      <4>2. \A u \in PanelSlots : InFirstLife(calls[u])'
        BY <1>9, <1>t, <2>1, <2>4, <2>6, <2>7, <2>10, <3>1, <4>1 DEF FirstLife, InFirstLife
      <4> QED BY <1>t, <2>1, <2>7, <4>1, <4>2 DEF FirstLife
    <3> QED BY <2>1, <2>6, <3>1, <3>2, <3>3 DEF Uncrossed
  <2> QED BY <1>0, <1>t, <2>1, <2>6, <2>7, <2>8, <2>9, <2>10, <2>11 DEF PanelInv, PanelTypes
<1>10. ASSUME NEW s \in PanelSlots, ServerReplies(s), calls[s].kind = "state" PROVE PanelInv'
  <2> DEFINE e == ReadJournal(calls[s].since)
             a == [k \in DOMAIN e |-> <<journal.life, e[k]>>]
             r == [calls[s] EXCEPT !.answer = a, !.done = TRUE]
  <2>1. /\ UNCHANGED <<journal, panel, crossed>>
        /\ calls' = [calls EXCEPT ![s].answer = a, ![s].done = TRUE]
    BY <1>10 DEF ServerReplies
  <2>2. calls[s] \in CallRecords /\ calls[s].since \in Nat
    BY <1>t DEF CallRecords
  <2>3. /\ e \in Seq(Nat) /\ Len(e) <= Show
        /\ \A k \in 1..Len(e) - 1 : e[k + 1] = e[k] + 1
        /\ e # <<>> => /\ e[Len(e)] = journal.next - 1 /\ journal.next - 1 > calls[s].since
                       /\ e[1] = calls[s].since + 1 \/ Len(e) = Show
        /\ e = <<>> => calls[s].since >= journal.next - 1
        /\ calls[s].since = Beyond => e = <<>>
    BY <1>t, <2>2, JournalRead
  <2> HIDE DEF e
  <2>4. /\ a \in Seq(Events) /\ Len(a) = Len(e) /\ (a = <<>> <=> e = <<>>)
        /\ \A k \in 1..Len(e) : a[k] = <<journal.life, e[k]>>
        /\ Stretched(a)
    BY <1>t, <2>3, ReplyTyped
  <2> HIDE DEF a
  <2>5. /\ r \in CallRecords /\ r.kind = "state" /\ r.done /\ r.answer = a /\ r.awaited = calls[s].awaited
        /\ r.since = calls[s].since
    BY <1>10, <2>2, <2>4 DEF CallRecords
  <2>6. calls' = [calls EXCEPT ![s] = r]
    BY <2>1
  <2> HIDE DEF r
  <2>7. calls' \in [PanelSlots -> CallRecords] /\ calls'[s] = r /\ \A u \in PanelSlots \ {s} : calls'[u] = calls[u]
    BY <1>t, <2>5, <2>6
  <2>8. BusyIsUnderWay'
    BY <1>0, <1>10, <2>1, <2>5, <2>7 DEF BusyIsUnderWay, Pending
  <2>9. a # <<>> => /\ a[Len(a)][2] = journal.next - 1 /\ journal.next - 1 > calls[s].since
                    /\ a[1][2] = calls[s].since + 1 \/ Len(a) = Show
    <3> SUFFICES ASSUME a # <<>> PROVE a[Len(a)][2] = e[Len(e)] /\ a[1][2] = e[1]
      BY <2>3, <2>4
    <3>1. Len(e) \in 1..Len(e) /\ 1 \in 1..Len(e)
      BY <2>3, <2>4, EmptySeq
    <3> QED BY <2>4, <3>1
  <2>10. ASSUME ~crossed' PROVE Uncrossed'
    <3>1. Uncrossed /\ \A u \in PanelSlots \ {s} : calls'[u].kind = "none"
      BY <1>0, <1>10, <2>1, <2>7, <2>10 DEF Uncrossed
    <3>2. Followed(calls[s])'
      <4>1. a # <<>> => calls[s].since = panel.cursor
        BY <1>10, <2>3, <2>4, <3>1 DEF Uncrossed, Followed
      <4>2. a # <<>> => (a[1][2] = panel.cursor + 1 \/ Len(a) = Show) /\ a[Len(a)][2] > panel.cursor
        BY <2>9, <4>1
      <4> QED BY <1>10, <2>1, <2>4, <2>5, <2>7, <3>1, <4>2 DEF Uncrossed, Followed, Beyond
    <3>3. \A u \in PanelSlots : Followed(calls[u])'
      BY <2>7, <3>1, <3>2 DEF Followed
    <3>4. journal'.life = 1 => FirstLife'
      <4> SUFFICES ASSUME journal'.life = 1 PROVE FirstLife'
        OBVIOUS
      <4>1. FirstLife /\ (calls[s].awaited => calls[s].since = panel.cursor)
        BY <1>10, <2>1, <3>1 DEF Uncrossed, Followed
      <4>2. a # <<>> => a[Len(a)][2] < journal.next /\ a[Len(a)][2] >= panel.acted[2]
        BY <1>t, <2>9, <4>1 DEF FirstLife
      <4>3. a = <<>> /\ calls[s].awaited => panel.cursor >= panel.acted[2]
        BY <1>t, <2>3, <2>4, <4>1 DEF FirstLife
      <4>4. InFirstLife(calls[s])'
        BY <1>10, <2>1, <2>5, <2>7, <4>2, <4>3 DEF InFirstLife
      <4>5. \A u \in PanelSlots : InFirstLife(calls[u])'
        BY <2>7, <3>1, <4>4 DEF InFirstLife
      <4> QED BY <2>1, <4>1, <4>5 DEF FirstLife
    <3> QED BY <2>1, <2>7, <3>1, <3>3, <3>4 DEF Uncrossed
  <2>11. \A u \in PanelSlots : calls'[u].kind = "action" /\ calls'[u].done => calls'[u].answer # <<>>
    BY <1>0, <2>5, <2>7
  <2> QED BY <1>0, <1>t, <2>1, <2>7, <2>8, <2>10, <2>11 DEF PanelInv, PanelTypes, Beyond
<1>11. ASSUME NEW s \in PanelSlots, ActionSucceeds(s) PROVE PanelInv'
  <2>1. /\ calls[s].kind = "action" /\ calls[s].done /\ UNCHANGED journal
        /\ panel' = [panel EXCEPT !.acted = Last(calls[s].answer)]
        /\ Refresh(Withdrawn(s), TRUE, TRUE)
    BY <1>11 DEF ActionSucceeds
  <2>2. Last(calls[s].answer) \in Events /\ Last(calls[s].answer) = calls[s].answer[Len(calls[s].answer)] /\ calls[s].answer # <<>>
    <3>1. calls[s].answer \in Seq(Events) /\ calls[s].answer # <<>>
      BY <1>0, <1>t, <2>1 DEF CallRecords
    <3>2. Len(calls[s].answer) \in 1..Len(calls[s].answer)
      BY <3>1, EmptySeq
    <3> QED BY <3>1, <3>2, ElementOfSeq DEF Last
  <2>3. /\ panel' \in PanelPages /\ panel'.cursor = panel.cursor /\ panel'.shown = panel.shown
        /\ panel'.busy = panel.busy /\ panel'.acted = calls[s].answer[Len(calls[s].answer)]
    BY <1>t, <2>1, <2>2 DEF PanelPages
  <2>4. /\ Withdrawn(s) \in [PanelSlots -> CallRecords] /\ Withdrawn(s)[s].kind = "none"
        /\ \A u \in PanelSlots \ {s} : Withdrawn(s)[u] = calls[u]
    BY <1>0, WithdrawnKeeps
  <2>5. calls' \in [PanelSlots -> CallRecords] /\ crossed' \in BOOLEAN
    BY <1>0, <2>1, <2>4, RefreshSends
  <2>6. PICK v \in PanelSlots :
          /\ Withdrawn(s)[v].kind = "none" /\ calls'[v].kind = "state" /\ ~calls'[v].done /\ calls'[v].awaited = TRUE
          /\ calls'[v].since = panel.cursor
          /\ \A u \in PanelSlots \ {v} : calls'[u] = Withdrawn(s)[u]
          /\ ~crossed' => ~crossed /\ \A u \in PanelSlots \ {v} : calls'[u].kind = "none"
    BY <1>0, <2>1, <2>4, RefreshSends
  <2>7. BusyIsUnderWay'
    BY <2>6 DEF BusyIsUnderWay, Pending
  <2>8. \A u \in PanelSlots : calls'[u].kind = "action" /\ calls'[u].done => calls'[u].answer # <<>>
    BY <1>0, <2>4, <2>6
  <2>9. ASSUME ~crossed' PROVE Uncrossed'
    <3>1. Uncrossed /\ panel.busy
      BY <1>0, <2>1, <2>6, <2>9 DEF Uncrossed, Followed
    <3>2. \A u \in PanelSlots : Followed(calls[u])'
      BY <2>3, <2>6, <2>9 DEF Followed
    <3>3. journal'.life = 1 => FirstLife'
      <4> SUFFICES ASSUME journal'.life = 1 PROVE FirstLife'
        OBVIOUS
      <4>1. FirstLife
        BY <2>1, <3>1 DEF Uncrossed
      <4>2. panel'.acted[2] < journal.next
        BY <2>1, <2>2, <2>3, <4>1 DEF FirstLife, InFirstLife
      <4>3. \A u \in PanelSlots : InFirstLife(calls[u])'
        BY <2>6, <2>9 DEF InFirstLife
      <4> QED BY <2>1, <2>3, <3>1, <4>1, <4>2, <4>3 DEF FirstLife
    <3> QED BY <2>3, <2>6, <2>9, <3>1, <3>2, <3>3 DEF Uncrossed
  <2> QED BY <1>0, <2>1, <2>3, <2>5, <2>7, <2>8, <2>9 DEF PanelInv, PanelTypes, Beyond
<1>12. ASSUME NEW s \in PanelSlots, ActionFails(s) PROVE PanelInv'
  <2>1. calls[s].kind = "action" /\ calls' = Withdrawn(s) /\ UNCHANGED <<journal, crossed>>
    BY <1>12 DEF ActionFails
  <2>2. /\ panel' \in PanelPages /\ panel'.cursor = panel.cursor /\ panel'.shown = panel.shown
        /\ panel'.busy = FALSE /\ panel'.acted = panel.acted
    BY <1>12, <1>t DEF ActionFails, PanelPages
  <2>3. /\ calls' \in [PanelSlots -> CallRecords] /\ calls'[s].kind = "none"
        /\ \A u \in PanelSlots \ {s} : calls'[u] = calls[u]
    BY <1>0, <2>1, WithdrawnKeeps
  <2>4. ASSUME ~crossed' PROVE Uncrossed'
    <3>1. Uncrossed /\ \A u \in PanelSlots : calls'[u].kind = "none"
      BY <1>0, <2>1, <2>3, <2>4 DEF Uncrossed
    <3>2. journal'.life = 1 => FirstLife'
      BY <2>1, <2>2, <3>1 DEF Uncrossed, FirstLife, InFirstLife
    <3> QED BY <2>2, <3>1, <3>2 DEF Uncrossed, Followed
  <2> QED BY <1>0, <2>1, <2>2, <2>3, <2>4 DEF PanelInv, PanelTypes, BusyIsUnderWay, Beyond
<1>13. ASSUME NEW s \in PanelSlots, StateArrives(s) PROVE PanelInv'
  <2> DEFINE q == calls[s].answer
             shown == LastOf(panel.shown \o q, Show)
             cursor == IF q = <<>> THEN panel.cursor ELSE Last(q)[2]
  <2>1. calls[s].kind = "state" /\ calls[s].done /\ calls' = Withdrawn(s) /\ UNCHANGED <<journal, crossed>>
    BY <1>13 DEF StateArrives
  <2>2. calls[s] \in CallRecords /\ q \in Seq(Events) /\ calls[s].awaited \in BOOLEAN
    BY <1>t DEF CallRecords
  <2>3. cursor \in Nat /\ (q # <<>> => cursor = q[Len(q)][2])
    <3>1. q # <<>> => Len(q) \in 1..Len(q)
      BY <2>2, EmptySeq
    <3>2. q # <<>> => q[Len(q)] \in Events
      BY <2>2, <3>1, ElementOfSeq
    <3> QED BY <1>t, <3>2 DEF Last, Events
  <2>4. shown \in Seq(Events)
    <3>1. panel.shown \o q \in Seq(Events) /\ Show \in Nat \ {0}
      BY <1>t, <2>2, ConcatProperties, PanelAssumption
    <3> QED BY <3>1, LastOfIs
  <2>5. panel' = [panel EXCEPT !.cursor = cursor, !.shown = shown, !.busy = panel.busy /\ ~calls[s].awaited]
    BY <1>13 DEF StateArrives
  <2> HIDE DEF q, shown, cursor
  <2>6. /\ panel' \in PanelPages /\ panel'.cursor = cursor /\ panel'.shown = shown
        /\ (panel'.busy <=> panel.busy /\ ~calls[s].awaited) /\ panel'.acted = panel.acted
    BY <1>t, <2>2, <2>3, <2>4, <2>5 DEF PanelPages
  <2>7. /\ calls' \in [PanelSlots -> CallRecords] /\ calls'[s].kind = "none"
        /\ \A u \in PanelSlots \ {s} : calls'[u] = calls[u]
    BY <1>0, <2>1, WithdrawnKeeps
  <2>8. BusyIsUnderWay'
    BY <1>0, <2>6, <2>7 DEF BusyIsUnderWay, Pending
  <2>9. ASSUME ~crossed' PROVE Uncrossed'
    <3>1. Uncrossed /\ \A u \in PanelSlots : calls'[u].kind = "none"
      BY <1>0, <2>1, <2>7, <2>9 DEF Uncrossed
    <3>2. /\ Stretched(q) /\ Stretched(panel.shown)
          /\ q # <<>> => (q[1][2] = panel.cursor + 1 \/ Len(q) = Show) /\ q[Len(q)][2] > panel.cursor
          /\ panel.shown # <<>> => panel.cursor = panel.shown[Len(panel.shown)][2]
      BY <2>1, <3>1 DEF Uncrossed, Followed, q
    <3>3. /\ Stretched(shown)
          /\ q # <<>> => shown[Len(shown)] = q[Len(q)]
          /\ q = <<>> => (shown # <<>> <=> panel.shown # <<>>)
          /\ q = <<>> /\ panel.shown # <<>> => shown[Len(shown)] = panel.shown[Len(panel.shown)]
      BY <1>t, <2>2, <3>2, ShownGrows DEF shown
    <3>4. shown # <<>> => cursor = shown[Len(shown)][2]
      BY <2>3, <3>2, <3>3 DEF cursor
    <3>5. journal'.life = 1 => FirstLife'
      <4> SUFFICES ASSUME journal'.life = 1 PROVE FirstLife'
        OBVIOUS
      <4>1. FirstLife
        BY <2>1, <3>1 DEF Uncrossed
      <4>2. cursor < journal.next /\ cursor >= panel.cursor
        BY <1>t, <2>1, <2>3, <3>2, <4>1 DEF FirstLife, InFirstLife, q, cursor
      <4>3. calls[s].awaited => cursor >= panel.acted[2]
        BY <2>1, <2>3, <4>1 DEF FirstLife, InFirstLife, q, cursor
      <4>4. ~panel.busy => cursor >= panel.acted[2]
        BY <1>t, <2>3, <4>1, <4>2 DEF FirstLife
      <4> QED BY <2>1, <2>6, <3>1, <4>1, <4>2, <4>3, <4>4 DEF FirstLife, InFirstLife
    <3> QED BY <2>6, <3>1, <3>3, <3>4, <3>5 DEF Uncrossed, Followed
  <2> QED BY <1>0, <2>1, <2>6, <2>7, <2>8, <2>9 DEF PanelInv, PanelTypes, Beyond
<1>14. ASSUME NEW s \in PanelSlots, StateFails(s) PROVE PanelInv'
  <2>1. calls[s].kind = "state" /\ calls' = Withdrawn(s) /\ UNCHANGED <<journal, crossed>>
    BY <1>14 DEF StateFails
  <2>2. calls[s] \in CallRecords /\ calls[s].awaited \in BOOLEAN /\ <<1, 0>> \in Events /\ <<1, 0>>[2] = 0
    BY <1>t DEF CallRecords, Events
  <2>3. panel' = [panel EXCEPT !.busy = panel.busy /\ ~calls[s].awaited, !.acted = IF calls[s].awaited THEN <<1, 0>> ELSE panel.acted]
    BY <1>14 DEF StateFails
  <2>4. /\ panel' \in PanelPages /\ panel'.cursor = panel.cursor /\ panel'.shown = panel.shown
        /\ (panel'.busy <=> panel.busy /\ ~calls[s].awaited)
        /\ panel'.acted = IF calls[s].awaited THEN <<1, 0>> ELSE panel.acted
    BY <1>t, <2>2, <2>3 DEF PanelPages
  <2>5. /\ calls' \in [PanelSlots -> CallRecords] /\ calls'[s].kind = "none"
        /\ \A u \in PanelSlots \ {s} : calls'[u] = calls[u]
    BY <1>0, <2>1, WithdrawnKeeps
  <2>6. BusyIsUnderWay'
    BY <1>0, <2>4, <2>5 DEF BusyIsUnderWay, Pending
  <2>7. ASSUME ~crossed' PROVE Uncrossed'
    <3>1. Uncrossed /\ \A u \in PanelSlots : calls'[u].kind = "none"
      BY <1>0, <2>1, <2>5, <2>7 DEF Uncrossed
    <3>2. journal'.life = 1 => FirstLife'
      BY <1>t, <2>1, <2>2, <2>4, <3>1 DEF Uncrossed, FirstLife, InFirstLife
    <3> QED BY <2>4, <3>1, <3>2 DEF Uncrossed, Followed
  <2> QED BY <1>0, <2>1, <2>4, <2>5, <2>6, <2>7 DEF PanelInv, PanelTypes, Beyond
<1>15. CASE UNCHANGED panelVars
  BY <1>0, <1>15 DEF panelVars, PanelInv, PanelTypes, BusyIsUnderWay, Pending, Uncrossed, Followed, FirstLife, InFirstLife, Beyond
<1>16. ASSUME NEW s \in PanelSlots, ServerReplies(s) PROVE calls[s].kind = "action" \/ calls[s].kind = "state"
  BY <1>16 DEF ServerReplies
<1> QED
  BY <1>1, <1>2, <1>3, <1>4, <1>5, <1>6, <1>7, <1>8, <1>9, <1>10, <1>11, <1>12, <1>13, <1>14, <1>15, <1>16 DEF PanelNext

\* The invariant says what the runs check.
LEMMA PanelImplies == PanelInv => PanelTruthful
BY DEF PanelInv, Uncrossed, Stretched, FirstLife, PanelTruthful, JournalHasNoHoles, ActionIsShown, Last

\* For any length of the journal and of its view, and any number of events, lives and requests: a page whose
\* requests do not overlap shows the journal without holes, an action that is over is in it, and the panel is
\* busy only while something is under way (journal.ts, TestPanel.tsx).
THEOREM PanelIsTruthful == PanelSpec => []PanelTruthful
<1>1. PanelSpec => []PanelInv
  BY PanelStarts, PanelSteps, PTL DEF PanelSpec
<1> QED BY <1>1, PanelImplies, PTL

-----------------------------------------------------------------------------
(* The suppression list. *)

ListRequests == [kind : {"none", "load", "add", "remove"}, at : {"sent", "counting", "ok"}, cancelled : BOOLEAN, page : Nat,
                 search : SUBSET Emails, address : SUBSET Emails, revision : Nat, rows : SUBSET Emails, total : Nat]
ListPages    == [shown : BOOLEAN, page : Nat, typed : SUBSET Emails, search : SUBSET Emails, rows : SUBSET Emails,
                 total : Nat, of : Nat \X (SUBSET Emails), revision : Nat, failed : BOOLEAN, busy : BOOLEAN]

OptOutTypes ==
  /\ optOuts \in [since : [Emails -> Nat], known : SUBSET Visitors, revision : Nat]
  /\ visits \in [Visitors -> [page : {"away", "looking", "form", "invalid", "done"}, busy : BOOLEAN, failed : BOOLEAN]]
  /\ posts \in [Posts -> {"none", "sent", "found", "ok", "unknown"}]
  /\ admin \in ListPages
  /\ reads \in [ReadSlots -> ListRequests]
  /\ lifted \subseteq Visitors
  /\ heard \in Nat

\* What "done" stands for.
Out(a) == Suppressed(a) \/ a \in lifted \/ a \notin optOuts.known

\* Whoever is told that it is done is out, and so is whoever is about to be told.
VisitorsOut ==
  /\ \A a \in Visitors : visits[a].page = "done" => Out(a)
  /\ \A p \in Posts : posts[p] \in {"ok", "unknown"} => Out(p[1])

\* A load that has not been superseded is of the page and the search that are set, and as new as what
\* the page was told; an answer tells of no change the list has not seen.
GoodRead(r) ==
  /\ r.cancelled => r.kind = "load"
  /\ r.kind = "load" /\ ~r.cancelled =>
       r.page = admin.page /\ r.search = admin.search /\ (r.at # "sent" => r.revision >= heard)
  /\ r.kind \in {"add", "remove"} /\ r.at = "ok" => r.revision <= optOuts.revision

\* The inductive invariant of the suppression list and its pages.
OptOutInv ==
  /\ OptOutTypes
  /\ VisitorsOut
  /\ FormComesBack
  /\ heard <= optOuts.revision
  /\ \A s \in ReadSlots : GoodRead(reads[s])
  /\ ListIsAsAsked
  /\ AddComesBack

\* Requests are typed as they leave and when they are over.
LEMMA ReadsTyped ==
  /\ NoRead \in ListRequests
  /\ \A at \in Nat, search \in SUBSET Emails :
       /\ LoadOf(at, search) \in ListRequests /\ LoadOf(at, search).kind = "load" /\ LoadOf(at, search).at = "sent"
       /\ ~LoadOf(at, search).cancelled /\ LoadOf(at, search).page = at /\ LoadOf(at, search).search = search
BY DEF NoRead, LoadOf, Request, ListRequests

\* A link leads to one visitor, and a page and a mail client are not the same.
LEMMA Pairs == \A a \in Visitors : <<a, "page">> \in Posts /\ <<a, "client">> \in Posts /\ <<a, "page">>[1] = a /\ <<a, "client">>[1] = a
BY DEF Posts

\* The pages open with nothing suppressed and the first load under way.
LEMMA OptOutStarts == OptOutInit => OptOutInv
<1> SUFFICES ASSUME OptOutInit PROVE OptOutInv
  OBVIOUS
<1>1. OptOutTypes
  <2>1. admin \in ListPages
    BY DEF OptOutInit, OptOutStart, ListPages
  <2>2. reads \in [ReadSlots -> ListRequests]
    BY ReadsTyped DEF OptOutInit, OptOutStart
  <2> QED BY <2>1, <2>2, OptOutAssumption DEF OptOutInit, OptOutStart, OptOutTypes, Posts
<1>2. VisitorsOut /\ FormComesBack /\ heard <= optOuts.revision
  <2>1. \A p \in Posts : posts[p] = "none"
    BY DEF OptOutInit, OptOutStart
  <2>2. \A a \in Visitors : visits[a].page = "away" /\ visits[a].busy = FALSE /\ posts[<<a, "page">>] = "none"
    BY <2>1, Pairs DEF OptOutInit, OptOutStart
  <2>3. VisitorsOut
    BY <2>1, <2>2 DEF VisitorsOut
  <2>4. FormComesBack
    BY <2>2 DEF FormComesBack
  <2> QED BY <2>3, <2>4 DEF OptOutInit, OptOutStart
<1>3. \A s \in ReadSlots : GoodRead(reads[s])
  BY DEF OptOutInit, OptOutStart, GoodRead, NoRead, LoadOf, Request
<1>4. admin.of = <<admin.page, admin.search>> /\ admin.revision >= heard /\ ~admin.busy
  BY DEF OptOutInit, OptOutStart
<1> QED BY <1>1, <1>2, <1>3, <1>4 DEF OptOutInv, ListIsAsAsked, AddComesBack

\* A change of the list keeps everybody out who was, and is one change more.
LEMMA ListChangeKeeps ==
  ASSUME OptOutTypes, NEW b \in Emails, PutOnList(b) \/ TakeOffList(b)
  PROVE  /\ optOuts' \in [since : [Emails -> Nat], known : SUBSET Visitors, revision : Nat]
         /\ optOuts'.known = optOuts.known /\ optOuts'.revision >= optOuts.revision
         /\ lifted' \subseteq Visitors
         /\ \A a \in Visitors : Out(a) => Out(a)'
<1>1. CASE PutOnList(b)
  <2>1. CASE Suppressed(b)
    BY <1>1, <2>1 DEF PutOnList, OptOutTypes, Out, Suppressed
  <2>2. CASE ~Suppressed(b)
    <3>1. optOuts' = ListWith(b, optOuts.revision + 1) /\ lifted' = lifted \ {b}
      BY <1>1, <2>2 DEF PutOnList
    <3>2. /\ optOuts' \in [since : [Emails -> Nat], known : SUBSET Visitors, revision : Nat]
          /\ optOuts'.known = optOuts.known /\ optOuts'.revision >= optOuts.revision
          /\ optOuts'.since = [optOuts.since EXCEPT ![b] = optOuts.revision + 1]
      BY <3>1 DEF OptOutTypes, ListWith
    <3>3. optOuts'.since[b] # 0 /\ \A a \in Emails \ {b} : optOuts'.since[a] = optOuts.since[a]
      BY <3>2 DEF OptOutTypes
    <3> QED BY <3>1, <3>2, <3>3, OptOutAssumption DEF OptOutTypes, Out, Suppressed
  <2> QED BY <2>1, <2>2
<1>2. CASE TakeOffList(b)
  <2>1. CASE ~Suppressed(b)
    BY <1>2, <2>1 DEF TakeOffList, OptOutTypes, Out, Suppressed
  <2>2. CASE Suppressed(b)
    <3>1. optOuts' = ListWith(b, 0) /\ lifted' = lifted \cup ({b} \cap Visitors)
      BY <1>2, <2>2 DEF TakeOffList
    <3>2. /\ optOuts' \in [since : [Emails -> Nat], known : SUBSET Visitors, revision : Nat]
          /\ optOuts'.known = optOuts.known /\ optOuts'.revision >= optOuts.revision
          /\ optOuts'.since = [optOuts.since EXCEPT ![b] = 0]
      BY <3>1 DEF OptOutTypes, ListWith
    <3>3. \A a \in Emails \ {b} : optOuts'.since[a] = optOuts.since[a]
      BY <3>2 DEF OptOutTypes
    <3> QED BY <2>2, <3>1, <3>2, <3>3, OptOutAssumption DEF OptOutTypes, Out, Suppressed
  <2> QED BY <2>1, <2>2
<1> QED BY <1>1, <1>2

\* What has been put on the list is on it.
LEMMA PutIsSuppressed == ASSUME OptOutTypes, NEW b \in Emails, PutOnList(b) PROVE Suppressed(b)'
BY DEF OptOutTypes, PutOnList, Suppressed, ListWith

\* A new load leaves and supersedes those before it.
LEMMA LoadListKeeps ==
  ASSUME NEW held \in [ReadSlots -> ListRequests], NEW at \in Nat, NEW search \in SUBSET Emails, LoadList(held, at, search)
  PROVE  /\ reads' \in [ReadSlots -> ListRequests]
         /\ \E s \in ReadSlots :
              /\ held[s].kind = "none" /\ reads'[s] = LoadOf(at, search)
              /\ \A u \in ReadSlots \ {s} :
                   \/ held[u].kind # "load" /\ reads'[u] = held[u]
                   \/ held[u].kind = "load" /\ reads'[u].kind = "load" /\ reads'[u].cancelled
<1>1. PICK s \in ReadSlots : held[s].kind = "none" /\ reads' = [Cancelled(held) EXCEPT ![s] = LoadOf(at, search)]
  BY DEF LoadList
<1>2. /\ Cancelled(held) \in [ReadSlots -> ListRequests]
      /\ \A u \in ReadSlots :
           \/ held[u].kind # "load" /\ Cancelled(held)[u] = held[u]
           \/ held[u].kind = "load" /\ Cancelled(held)[u].kind = "load" /\ Cancelled(held)[u].cancelled
  <2>1. ASSUME NEW u \in ReadSlots
        PROVE  LET c == [held[u] EXCEPT !.cancelled = TRUE] IN c \in ListRequests /\ c.kind = held[u].kind /\ c.cancelled
    <3>1. held[u] \in ListRequests
      OBVIOUS
    <3> QED BY <3>1 DEF ListRequests
  <2> QED BY <2>1 DEF Cancelled
<1>3. LoadOf(at, search) \in ListRequests
  BY ReadsTyped
<1> QED BY <1>1, <1>2, <1>3

\* A request that is over gives its slot back.
LEMMA ReadOverKeeps ==
  ASSUME OptOutTypes, NEW s \in ReadSlots
  PROVE  /\ ReadOver(s) \in [ReadSlots -> ListRequests]
         /\ ReadOver(s)[s] = NoRead /\ NoRead.kind = "none" /\ ~NoRead.cancelled
         /\ \A u \in ReadSlots \ {s} : ReadOver(s)[u] = reads[u]
BY ReadsTyped DEF OptOutTypes, ReadOver, NoRead, Request

\* A step that loads the table again leaves the page unsettled, and every other request what it was.
LEMMA Reloaded ==
  ASSUME OptOutInv, OptOutTypes', UNCHANGED <<optOuts, visits, posts, lifted>>, heard' <= optOuts.revision,
         NEW held \in [ReadSlots -> ListRequests], NEW at \in Nat, NEW search \in SUBSET Emails, LoadList(held, at, search),
         \A u \in ReadSlots : GoodRead(held[u]),
         admin'.page = at, admin'.search = search,
         admin'.shown = admin.shown, admin'.busy => \E s \in ReadSlots : held[s].kind = "add"
  PROVE  OptOutInv'
<1>1. PICK s \in ReadSlots :
        /\ held[s].kind = "none" /\ reads'[s] = LoadOf(at, search)
        /\ \A u \in ReadSlots \ {s} :
             \/ held[u].kind # "load" /\ reads'[u] = held[u]
             \/ held[u].kind = "load" /\ reads'[u].kind = "load" /\ reads'[u].cancelled
  BY LoadListKeeps
<1>2. /\ reads'[s].kind = "load" /\ reads'[s].at = "sent" /\ ~reads'[s].cancelled /\ reads'[s].page = at
      /\ reads'[s].search = search
  BY <1>1, ReadsTyped
<1>3. VisitorsOut' /\ FormComesBack' /\ heard' <= optOuts'.revision
  BY DEF OptOutInv, VisitorsOut, Out, Suppressed, FormComesBack
<1>4. \A u \in ReadSlots : GoodRead(reads[u])'
  BY <1>1, <1>2 DEF GoodRead
<1>5. ListIsAsAsked'
  BY <1>2 DEF ListIsAsAsked, Settled
<1>6. AddComesBack'
  BY <1>1, <1>2 DEF AddComesBack
<1> QED BY <1>3, <1>4, <1>5, <1>6 DEF OptOutInv

\* A step that only changes what visitors see, or what they have sent, leaves the admin's page alone.
LEMMA VisitStep ==
  ASSUME OptOutInv, OptOutTypes', UNCHANGED <<admin, reads, heard>>, optOuts'.revision >= optOuts.revision,
         VisitorsOut', FormComesBack'
  PROVE  OptOutInv'
<1>1. \A s \in ReadSlots : GoodRead(reads[s])'
  <2>1. \A s \in ReadSlots : reads[s].revision \in Nat
    BY DEF OptOutInv, OptOutTypes, ListRequests
  <2>2. optOuts.revision \in Nat /\ optOuts'.revision \in Nat
    BY DEF OptOutInv, OptOutTypes
  <2> QED BY <2>1, <2>2 DEF OptOutInv, GoodRead
<1>2. heard' <= optOuts'.revision
  BY DEF OptOutInv, OptOutTypes
<1> QED BY <1>1, <1>2 DEF OptOutInv, ListIsAsAsked, Settled, AddComesBack

\* A step of the admin's page leaves visitors alone.
LEMMA AdminStep ==
  ASSUME OptOutInv, OptOutTypes', UNCHANGED <<optOuts, visits, posts, lifted>>, heard' <= optOuts.revision,
         \A s \in ReadSlots : GoodRead(reads[s])', ListIsAsAsked', AddComesBack'
  PROVE  OptOutInv'
BY DEF OptOutInv, VisitorsOut, Out, Suppressed, FormComesBack

\* What a search finds, and the page of it that is listed, are addresses; there are finitely many.
LEMMA FoundTyped ==
  ASSUME OptOutTypes, NEW search \in SUBSET Emails
  PROVE  /\ Found(search) \in SUBSET Emails /\ Cardinality(Found(search)) \in Nat
         /\ \A at \in Nat : Listed(search, at) \in SUBSET Emails
<1>1. Found(search) \in SUBSET Emails
  BY DEF Found
<1>2. IsFiniteSet(Found(search))
  BY <1>1, FS_Subset, OptOutAssumption
<1> QED BY <1>1, <1>2, FS_CardinalityType DEF Listed

\* A request that goes one step further on the server: nothing else changes.
LEMMA ReadServed ==
  ASSUME OptOutInv, NEW s \in ReadSlots, reads' \in [ReadSlots -> ListRequests],
         \A u \in ReadSlots \ {s} : reads'[u] = reads[u],
         reads'[s].kind = reads[s].kind, reads'[s].cancelled = reads[s].cancelled,
         reads'[s].page = reads[s].page, reads'[s].search = reads[s].search,
         reads'[s].kind = "load" /\ ~reads'[s].cancelled /\ reads'[s].at # "sent" => reads'[s].revision >= heard,
         reads'[s].kind \in {"add", "remove"} /\ reads'[s].at = "ok" => reads'[s].revision <= optOuts'.revision,
         UNCHANGED <<admin, heard>>, optOuts'.revision \in Nat, optOuts'.revision >= optOuts.revision
  PROVE  /\ \A u \in ReadSlots : GoodRead(reads[u])'
         /\ ListIsAsAsked' /\ AddComesBack' /\ heard' <= optOuts'.revision
<1>1. \A u \in ReadSlots : reads[u].revision \in Nat
  BY DEF OptOutInv, OptOutTypes, ListRequests
<1>2. optOuts.revision \in Nat /\ heard \in Nat
  BY DEF OptOutInv, OptOutTypes
<1>3. \A u \in ReadSlots : GoodRead(reads[u])'
  BY <1>1, <1>2 DEF OptOutInv, GoodRead
<1>4. \A u \in ReadSlots : reads'[u].kind = reads[u].kind /\ reads'[u].cancelled = reads[u].cancelled
  OBVIOUS
<1> QED BY <1>2, <1>3, <1>4 DEF OptOutInv, ListIsAsAsked, Settled, AddComesBack

\* Every step of the visitors, the admins and the server keeps the invariant.
LEMMA OptOutSteps == OptOutInv /\ [OptOutNext]_optOutVars => OptOutInv'
<1> SUFFICES ASSUME OptOutInv, [OptOutNext]_optOutVars PROVE OptOutInv'
  OBVIOUS
<1>0. OptOutTypes /\ VisitorsOut /\ FormComesBack /\ ListIsAsAsked /\ AddComesBack
  BY DEF OptOutInv
<1>t. admin \in ListPages /\ reads \in [ReadSlots -> ListRequests] /\ heard \in Nat /\ optOuts.revision \in Nat
  BY <1>0 DEF OptOutTypes
<1>1. CASE OthersChangeList
  <2>1. PICK b \in Emails : PutOnList(b) \/ TakeOffList(b)
    BY <1>1 DEF OthersChangeList
  <2>2. OptOutTypes' /\ VisitorsOut' /\ FormComesBack' /\ optOuts'.revision >= optOuts.revision
    BY <1>0, <1>1, <2>1, ListChangeKeeps DEF OthersChangeList, OptOutTypes, VisitorsOut, FormComesBack, Posts
  <2> QED BY <1>1, <2>2, VisitStep DEF OthersChangeList
<1>2. ASSUME NEW a \in Visitors, ForgetRecipient(a) PROVE OptOutInv'
  <2>1. /\ optOuts' \in [since : [Emails -> Nat], known : SUBSET Visitors, revision : Nat]
        /\ optOuts'.since = optOuts.since /\ optOuts'.revision = optOuts.revision /\ optOuts'.known = optOuts.known \ {a}
    BY <1>0, <1>2 DEF ForgetRecipient, OptOutTypes
  <2>2. OptOutTypes' /\ VisitorsOut' /\ FormComesBack'
    BY <1>0, <1>2, <2>1 DEF ForgetRecipient, OptOutTypes, VisitorsOut, Out, Suppressed, FormComesBack, Posts
  <2> QED BY <1>2, <1>t, <2>1, <2>2, VisitStep DEF ForgetRecipient
<1>3. ASSUME NEW a \in Visitors, OpenLink(a) PROVE OptOutInv'
  <2>1. /\ visits' \in [Visitors -> [page : {"away", "looking", "form", "invalid", "done"}, busy : BOOLEAN, failed : BOOLEAN]]
        /\ visits'[a].page # "done" /\ ~visits'[a].busy
        /\ \A b \in Visitors \ {a} : visits'[b] = visits[b]
    BY <1>0, <1>3 DEF OpenLink, OptOutTypes
  <2>2. OptOutTypes' /\ VisitorsOut' /\ FormComesBack'
    BY <1>0, <1>3, <2>1 DEF OpenLink, OptOutTypes, VisitorsOut, Out, Suppressed, FormComesBack
  <2> QED BY <1>3, <1>t, <2>2, VisitStep DEF OpenLink
<1>4. ASSUME NEW a \in Visitors, ShowLink(a) PROVE OptOutInv'
  <2>1. /\ visits' \in [Visitors -> [page : {"away", "looking", "form", "invalid", "done"}, busy : BOOLEAN, failed : BOOLEAN]]
        /\ visits'[a].page = "done" => Suppressed(a)
        /\ visits'[a].busy = visits[a].busy
        /\ \A b \in Visitors \ {a} : visits'[b] = visits[b]
    BY <1>0, <1>4 DEF ShowLink, OptOutTypes
  <2>2. OptOutTypes' /\ VisitorsOut' /\ FormComesBack'
    BY <1>0, <1>4, <2>1 DEF ShowLink, OptOutTypes, VisitorsOut, Out, Suppressed, FormComesBack
  <2> QED BY <1>4, <1>t, <2>2, VisitStep DEF ShowLink
<1>5. ASSUME NEW a \in Visitors, PressUnsubscribe(a) PROVE OptOutInv'
  <2>1. /\ visits' \in [Visitors -> [page : {"away", "looking", "form", "invalid", "done"}, busy : BOOLEAN, failed : BOOLEAN]]
        /\ visits'[a].page = "form" /\ visits'[a].busy
        /\ \A b \in Visitors \ {a} : visits'[b] = visits[b]
    BY <1>0, <1>5 DEF PressUnsubscribe, OptOutTypes
  <2>2. /\ posts' \in [Posts -> {"none", "sent", "found", "ok", "unknown"}]
        /\ posts'[<<a, "page">>] = "sent"
        /\ \A p \in Posts \ {<<a, "page">>} : posts'[p] = posts[p]
    BY <1>0, <1>5, Pairs DEF PressUnsubscribe, OptOutTypes
  <2>3. \A b \in Visitors \ {a} : <<b, "page">> \in Posts \ {<<a, "page">>}
    BY Pairs
  <2>4. OptOutTypes' /\ VisitorsOut' /\ FormComesBack'
    <3>1. OptOutTypes'
      BY <1>0, <1>5, <2>1, <2>2 DEF PressUnsubscribe, OptOutTypes
    <3>2. VisitorsOut'
      BY <1>0, <1>5, <2>1, <2>2 DEF PressUnsubscribe, VisitorsOut, Out, Suppressed
    <3>3. visits'[a].busy = (posts'[<<a, "page">>] # "none")
      BY <2>1, <2>2
    <3>4. \A b \in Visitors \ {a} : posts'[<<b, "page">>] = posts[<<b, "page">>]
      BY <2>2, <2>3
    <3>5. FormComesBack'
      BY <1>0, <2>1, <3>3, <3>4, ZenonT(60) DEF FormComesBack
    <3> QED BY <3>1, <3>2, <3>5
  <2> QED BY <1>5, <1>t, <2>4, VisitStep DEF PressUnsubscribe
<1>6. ASSUME NEW a \in Visitors, OneClick(a) PROVE OptOutInv'
  <2>1. /\ posts' \in [Posts -> {"none", "sent", "found", "ok", "unknown"}]
        /\ posts'[<<a, "client">>] = "sent"
        /\ \A p \in Posts \ {<<a, "client">>} : posts'[p] = posts[p]
    BY <1>0, <1>6, Pairs DEF OneClick, OptOutTypes
  <2>2. \A b \in Visitors : <<b, "page">> \in Posts \ {<<a, "client">>}
    BY Pairs
  <2>3. OptOutTypes' /\ VisitorsOut' /\ FormComesBack'
    BY <1>0, <1>6, <2>1, <2>2 DEF OneClick, OptOutTypes, VisitorsOut, Out, Suppressed, FormComesBack
  <2> QED BY <1>6, <1>t, <2>3, VisitStep DEF OneClick
<1>7. ASSUME NEW p \in Posts, FindRecipient(p) PROVE OptOutInv'
  <2>1. /\ posts' \in [Posts -> {"none", "sent", "found", "ok", "unknown"}]
        /\ posts'[p] = "found" \/ (posts'[p] = "unknown" /\ p[1] \notin optOuts.known)
        /\ \A q \in Posts \ {p} : posts'[q] = posts[q]
    <3>1. PICK found \in {"found", "unknown"} : posts' = [posts EXCEPT ![p] = found] /\ (found = "unknown" => p[1] \notin optOuts.known)
      BY <1>7 DEF FindRecipient
    <3>2. posts' \in [Posts -> {"none", "sent", "found", "ok", "unknown"}] /\ posts'[p] = found
      BY <1>0, <3>1 DEF OptOutTypes
    <3>3. \A q \in Posts \ {p} : posts'[q] = posts[q]
      BY <1>0, <3>1 DEF OptOutTypes
    <3> QED BY <3>1, <3>2, <3>3
  <2>2. OptOutTypes' /\ VisitorsOut'
    BY <1>0, <1>7, <2>1 DEF FindRecipient, OptOutTypes, VisitorsOut, Out, Suppressed
  <2>3. FormComesBack'
    BY <1>0, <1>7, <2>1, Pairs DEF FindRecipient, FormComesBack
  <2> QED BY <1>7, <1>t, <2>2, <2>3, VisitStep DEF FindRecipient
<1>8. ASSUME NEW p \in Posts, InsertSuppression(p) PROVE OptOutInv'
  <2>0. p[1] \in Visitors /\ p[1] \in Emails
    BY OptOutAssumption DEF Posts
  <2>1. /\ posts' \in [Posts -> {"none", "sent", "found", "ok", "unknown"}]
        /\ posts'[p] = "ok"
        /\ \A q \in Posts \ {p} : posts'[q] = posts[q]
    BY <1>0, <1>8 DEF InsertSuppression, OptOutTypes
  <2>2. /\ optOuts' \in [since : [Emails -> Nat], known : SUBSET Visitors, revision : Nat]
        /\ optOuts'.revision >= optOuts.revision /\ lifted' \subseteq Visitors
        /\ \A a \in Visitors : Out(a) => Out(a)'
        /\ Suppressed(p[1])'
    BY <1>0, <1>8, <2>0, ListChangeKeeps, PutIsSuppressed DEF InsertSuppression
  <2>3. OptOutTypes'
    BY <1>0, <1>8, <2>1, <2>2 DEF InsertSuppression, OptOutTypes
  <2>4. VisitorsOut'
    <3>1. \A q \in Posts : q[1] \in Visitors
      BY DEF Posts
    <3>2. Out(p[1])'
      BY <2>2 DEF Out
    <3> QED BY <1>0, <1>8, <2>1, <2>2, <3>1, <3>2 DEF InsertSuppression, VisitorsOut
  <2>5. FormComesBack'
    BY <1>0, <1>8, <2>1, Pairs DEF InsertSuppression, FormComesBack
  <2> QED BY <1>8, <2>2, <2>3, <2>4, <2>5, VisitStep DEF InsertSuppression
<1>9. ASSUME NEW p \in Posts, PostAnswered(p) \/ PostFails(p) PROVE OptOutInv'
  <2>0. p[1] \in Visitors /\ p = <<p[1], p[2]>> /\ p[2] \in {"page", "client"}
    BY DEF Posts
  <2>1. /\ posts' \in [Posts -> {"none", "sent", "found", "ok", "unknown"}]
        /\ posts'[p] = "none"
        /\ \A q \in Posts \ {p} : posts'[q] = posts[q]
    BY <1>0, <1>9 DEF PostAnswered, PostFails, OptOutTypes
  <2>2. PICK at \in {"done", "form"}, failed \in BOOLEAN : VisitEnds(p, at, failed) /\ (at = "done" => Out(p[1]))
    BY <1>0, <1>9 DEF PostAnswered, PostFails, VisitorsOut
  <2>u. UNCHANGED <<optOuts, admin, reads, lifted, heard>>
    BY <1>9 DEF PostAnswered, PostFails
  <2>3. CASE p[2] = "page"
    <3>1. visits' = [visits EXCEPT ![p[1]] = [page |-> at, busy |-> FALSE, failed |-> failed]]
      BY <2>2, <2>3 DEF VisitEnds
    <3>2. /\ visits' \in [Visitors -> [page : {"away", "looking", "form", "invalid", "done"}, busy : BOOLEAN, failed : BOOLEAN]]
          /\ visits'[p[1]].page = at /\ ~visits'[p[1]].busy
          /\ \A b \in Visitors \ {p[1]} : visits'[b] = visits[b]
      BY <1>0, <2>0, <3>1 DEF OptOutTypes
    <3>3. \A b \in Visitors \ {p[1]} : <<b, "page">> \in Posts \ {p}
      BY <2>0, Pairs
    <3>4. OptOutTypes'
      BY <1>0, <2>1, <2>u, <3>2 DEF OptOutTypes
    <3>5. VisitorsOut'
      BY <1>0, <2>1, <2>2, <2>u, <3>2 DEF VisitorsOut, Out, Suppressed
    <3>6. FormComesBack'
      <4>1. p = <<p[1], "page">>
        BY <2>0, <2>3
      <4>2. visits'[p[1]].busy = FALSE /\ posts'[<<p[1], "page">>] = "none"
        <5>1. visits'[p[1]] = [page |-> at, busy |-> FALSE, failed |-> failed]
          BY <1>0, <2>0, <3>1 DEF OptOutTypes
        <5> QED BY <2>1, <4>1, <5>1
      <4>3. \A b \in Visitors \ {p[1]} : posts'[<<b, "page">>] = posts[<<b, "page">>] /\ visits'[b] = visits[b]
        BY <2>1, <3>2, <3>3
      <4> QED BY <1>0, <4>2, <4>3 DEF FormComesBack
    <3> QED BY <1>t, <2>u, <3>4, <3>5, <3>6, VisitStep
  <2>4. CASE p[2] = "client"
    <3>1. visits' = visits
      BY <2>2, <2>4 DEF VisitEnds
    <3>2. \A b \in Visitors : <<b, "page">> \in Posts \ {p}
      <4>1. \A b \in Visitors : <<b, "page">>[2] = "page"
        OBVIOUS
      <4> QED BY <2>4, <4>1, Pairs
    <3>3. OptOutTypes'
      BY <1>0, <2>1, <2>u, <3>1 DEF OptOutTypes
    <3>4. FormComesBack'
      BY <1>0, <2>1, <3>1, <3>2 DEF FormComesBack
    <3>5. VisitorsOut'
      BY <1>0, <2>1, <2>u, <3>1 DEF VisitorsOut, Out, Suppressed
    <3> QED BY <1>t, <2>u, <3>3, <3>4, <3>5, VisitStep
  <2> QED BY <2>0, <2>3, <2>4
<1>10. ASSUME NEW s \in ReadSlots, ReadListRows(s) PROVE OptOutInv'
  <2> DEFINE r == [reads[s] EXCEPT !.at = "counting", !.rows = Listed(reads[s].search, reads[s].page),
                                   !.revision = optOuts.revision]
  <2>1. reads[s] \in ListRequests /\ Listed(reads[s].search, reads[s].page) \in SUBSET Emails
    BY <1>0, <1>t, FoundTyped DEF ListRequests
  <2>2. /\ r \in ListRequests /\ r.kind = reads[s].kind /\ r.cancelled = reads[s].cancelled /\ r.at = "counting"
        /\ r.page = reads[s].page /\ r.search = reads[s].search /\ r.revision = optOuts.revision
    BY <1>t, <2>1 DEF ListRequests
  <2>3. reads' = [reads EXCEPT ![s] = r] /\ UNCHANGED <<optOuts, admin, heard>> /\ r.kind = "load"
    BY <1>10, <2>2 DEF ReadListRows
  <2> HIDE DEF r
  <2>r. reads' \in [ReadSlots -> ListRequests] /\ reads'[s] = r /\ \A u \in ReadSlots \ {s} : reads'[u] = reads[u]
    BY <1>t, <2>2, <2>3
  <2>4. heard <= optOuts.revision
    BY DEF OptOutInv
  <2>5. /\ reads' \in [ReadSlots -> ListRequests] /\ (\A u \in ReadSlots : GoodRead(reads[u])')
        /\ ListIsAsAsked' /\ AddComesBack' /\ heard' <= optOuts'.revision
    <3>1. /\ reads'[s].kind = "load" /\ reads[s].kind = "load" /\ reads'[s].cancelled = reads[s].cancelled
          /\ reads'[s].page = reads[s].page /\ reads'[s].search = reads[s].search
          /\ ~reads'[s].cancelled => reads'[s].revision >= heard
      BY <2>2, <2>3, <2>4, <2>r
    <3>2. UNCHANGED <<admin, heard>> /\ optOuts'.revision \in Nat /\ optOuts'.revision >= optOuts.revision
      BY <1>t, <2>3
    <3>3. reads'[s].kind \notin {"add", "remove"}
      BY <3>1
    <3> QED BY <2>r, <3>1, <3>2, <3>3, ReadServed
  <2> QED BY <1>0, <1>10, <2>5, AdminStep DEF ReadListRows, OptOutTypes
<1>11. ASSUME NEW s \in ReadSlots, CountListRows(s) PROVE OptOutInv'
  <2> DEFINE r == [reads[s] EXCEPT !.at = "ok", !.total = Cardinality(Found(reads[s].search))]
  <2>1. reads[s] \in ListRequests /\ Cardinality(Found(reads[s].search)) \in Nat
    BY <1>0, <1>t, FoundTyped DEF ListRequests
  <2>2. /\ r \in ListRequests /\ r.kind = reads[s].kind /\ r.cancelled = reads[s].cancelled /\ r.at = "ok"
        /\ r.page = reads[s].page /\ r.search = reads[s].search /\ r.revision = reads[s].revision
    BY <2>1 DEF ListRequests
  <2>3. reads' = [reads EXCEPT ![s] = r] /\ UNCHANGED <<optOuts, admin, heard>> /\ r.kind = "load" /\ reads[s].at = "counting"
    BY <1>11, <2>2 DEF CountListRows
  <2> HIDE DEF r
  <2>r. reads' \in [ReadSlots -> ListRequests] /\ reads'[s] = r /\ \A u \in ReadSlots \ {s} : reads'[u] = reads[u]
    BY <1>t, <2>2, <2>3
  <2>4. ~r.cancelled => r.revision >= heard
    BY <2>2, <2>3 DEF OptOutInv, GoodRead
  <2>5. /\ reads' \in [ReadSlots -> ListRequests] /\ (\A u \in ReadSlots : GoodRead(reads[u])')
        /\ ListIsAsAsked' /\ AddComesBack' /\ heard' <= optOuts'.revision
    <3>1. /\ reads'[s].kind = "load" /\ reads[s].kind = "load" /\ reads'[s].cancelled = reads[s].cancelled
          /\ reads'[s].page = reads[s].page /\ reads'[s].search = reads[s].search
          /\ ~reads'[s].cancelled => reads'[s].revision >= heard
      BY <2>2, <2>3, <2>4, <2>r
    <3>2. UNCHANGED <<admin, heard>> /\ optOuts'.revision \in Nat /\ optOuts'.revision >= optOuts.revision
      BY <1>t, <2>3
    <3>3. reads'[s].kind \notin {"add", "remove"}
      BY <3>1
    <3> QED BY <2>r, <3>1, <3>2, <3>3, ReadServed
  <2> QED BY <1>0, <1>11, <2>5, AdminStep DEF CountListRows, OptOutTypes
<1>12. ASSUME NEW s \in ReadSlots, ChangeList(s) PROVE OptOutInv'
  <2>1. reads[s] \in ListRequests
    BY <1>t
  <2>2. PICK b \in reads[s].address : PutOnList(b) \/ TakeOffList(b)
    BY <1>12 DEF ChangeList
  <2>3. b \in Emails
    BY <2>1, <2>2 DEF ListRequests
  <2>4. /\ optOuts' \in [since : [Emails -> Nat], known : SUBSET Visitors, revision : Nat]
        /\ optOuts'.known = optOuts.known /\ optOuts'.revision >= optOuts.revision
        /\ lifted' \subseteq Visitors
        /\ \A a \in Visitors : Out(a) => Out(a)'
    BY <1>0, <2>2, <2>3, ListChangeKeeps
  <2> DEFINE r == [reads[s] EXCEPT !.at = "ok", !.revision = optOuts'.revision]
  <2>5. optOuts'.revision \in Nat
    BY <2>4
  <2>6. /\ r \in ListRequests /\ r.kind = reads[s].kind /\ r.cancelled = reads[s].cancelled
        /\ r.page = reads[s].page /\ r.search = reads[s].search /\ r.revision = optOuts'.revision
    BY <2>1, <2>5 DEF ListRequests
  <2>7. reads' = [reads EXCEPT ![s] = r] /\ UNCHANGED <<visits, posts, admin, heard>> /\ r.kind \in {"add", "remove"}
    BY <1>12, <2>6 DEF ChangeList
  <2> HIDE DEF r
  <2>r. reads' \in [ReadSlots -> ListRequests] /\ reads'[s] = r /\ \A u \in ReadSlots \ {s} : reads'[u] = reads[u]
    BY <1>t, <2>6, <2>7
  <2>8. /\ reads' \in [ReadSlots -> ListRequests] /\ (\A u \in ReadSlots : GoodRead(reads[u])')
        /\ ListIsAsAsked' /\ AddComesBack' /\ heard' <= optOuts'.revision
    BY <2>4, <2>5, <2>6, <2>7, <2>r, ReadServed
  <2>9. VisitorsOut'
    <3>1. \A p \in Posts : p[1] \in Visitors
      BY DEF Posts
    <3> QED BY <1>0, <2>4, <2>7, <3>1 DEF VisitorsOut
  <2> QED BY <1>0, <2>4, <2>7, <2>8, <2>9 DEF OptOutTypes, OptOutInv, FormComesBack
<1>13. ASSUME NEW s \in ReadSlots, ListLoadArrives(s) PROVE OptOutInv'
  <2>0. reads[s] \in ListRequests /\ GoodRead(reads[s])
    BY <1>t DEF OptOutInv
  <2>1. reads' = ReadOver(s)
    BY <1>13 DEF ListLoadArrives
  <2>2. /\ reads' \in [ReadSlots -> ListRequests] /\ reads'[s].kind = "none" /\ ~reads'[s].cancelled
        /\ \A u \in ReadSlots \ {s} : reads'[u] = reads[u]
    BY <1>0, <2>1, ReadOverKeeps
  <2>3. CASE reads[s].cancelled
    <3>1. admin' = admin
      BY <1>13, <2>3 DEF ListLoadArrives
    <3>2. \A u \in ReadSlots : GoodRead(reads[u])'
      BY <1>13, <2>2, <3>1 DEF ListLoadArrives, GoodRead, OptOutInv
    <3>3. ListIsAsAsked' /\ AddComesBack'
      BY <1>0, <1>13, <2>2, <2>3, <3>1 DEF ListLoadArrives, ListIsAsAsked, Settled, AddComesBack
    <3> QED BY <1>0, <1>13, <2>2, <3>1, <3>2, <3>3, AdminStep DEF ListLoadArrives, OptOutTypes, OptOutInv
  <2>4. CASE ~reads[s].cancelled
    <3>1. admin' = [admin EXCEPT !.rows = reads[s].rows, !.total = reads[s].total, !.revision = reads[s].revision,
                                 !.of = <<reads[s].page, reads[s].search>>, !.failed = FALSE]
      BY <1>13, <2>4 DEF ListLoadArrives
    <3>2. /\ admin' \in ListPages
          /\ admin'.shown = admin.shown /\ admin'.page = admin.page /\ admin'.search = admin.search
          /\ admin'.busy = admin.busy
          /\ admin'.of = <<reads[s].page, reads[s].search>> /\ admin'.revision = reads[s].revision
      BY <1>t, <2>0, <3>1 DEF ListPages, ListRequests
    <3>3. admin'.of = <<admin'.page, admin'.search>> /\ admin'.revision >= heard
      BY <1>13, <2>0, <2>4, <3>2 DEF ListLoadArrives, GoodRead
    <3>4. \A u \in ReadSlots : GoodRead(reads[u])'
      BY <1>13, <2>2, <3>2 DEF ListLoadArrives, GoodRead, OptOutInv
    <3>5. ListIsAsAsked' /\ AddComesBack'
      BY <1>0, <1>13, <2>2, <3>2, <3>3 DEF ListLoadArrives, ListIsAsAsked, Settled, AddComesBack
    <3> QED BY <1>0, <1>13, <2>2, <3>2, <3>4, <3>5, AdminStep DEF ListLoadArrives, OptOutTypes, OptOutInv
  <2> QED BY <2>3, <2>4
<1>14. ASSUME NEW search \in Searches, TypeSearch(search) PROVE OptOutInv'
  <2>0. search \in SUBSET Emails
    BY OptOutAssumption
  <2>1. admin' = [admin EXCEPT !.typed = search, !.page = 1]
    BY <1>14 DEF TypeSearch
  <2>2. /\ admin' \in ListPages /\ admin'.page = 1 /\ admin'.search = admin.search /\ admin'.shown = admin.shown
        /\ admin'.busy = admin.busy /\ admin'.of = admin.of /\ admin'.revision = admin.revision
        /\ admin'.failed = admin.failed /\ admin.search \in SUBSET Emails
    BY <1>t, <2>0, <2>1 DEF ListPages
  <2>3. CASE admin.page = 1
    <3>1. UNCHANGED reads
      BY <1>14, <2>3 DEF TypeSearch
    <3>2. (\A u \in ReadSlots : GoodRead(reads[u])') /\ ListIsAsAsked' /\ AddComesBack'
      BY <1>0, <1>14, <2>2, <2>3, <3>1 DEF TypeSearch, GoodRead, OptOutInv, ListIsAsAsked, Settled, AddComesBack
    <3> QED BY <1>0, <1>14, <2>2, <3>1, <3>2, AdminStep DEF TypeSearch, OptOutTypes, OptOutInv
  <2>4. CASE admin.page # 1
    <3>1. LoadList(reads, 1, admin.search)
      BY <1>14, <2>4 DEF TypeSearch
    <3>2. OptOutTypes' /\ heard' <= optOuts.revision
      BY <1>0, <1>14, <1>t, <2>2, <3>1, LoadListKeeps DEF TypeSearch, OptOutTypes, OptOutInv
    <3>3. admin'.busy => \E u \in ReadSlots : reads[u].kind = "add"
      BY <1>0, <1>14, <2>2 DEF TypeSearch, AddComesBack
    <3>4. \A u \in ReadSlots : GoodRead(reads[u])
      BY DEF OptOutInv
    <3> QED BY <1>14, <1>t, <2>2, <3>1, <3>2, <3>3, <3>4, Reloaded DEF TypeSearch
  <2> QED BY <2>3, <2>4
<1>15. CASE SearchRests
  <2>1. admin' = [admin EXCEPT !.search = admin.typed] /\ LoadList(reads, admin.page, admin.typed)
    BY <1>15 DEF SearchRests
  <2>2. /\ admin' \in ListPages /\ admin'.page = admin.page /\ admin'.search = admin.typed /\ admin'.shown = admin.shown
        /\ admin'.busy = admin.busy /\ admin.typed \in SUBSET Emails /\ admin.page \in Nat
    BY <1>t, <2>1 DEF ListPages
  <2>3. OptOutTypes' /\ heard' <= optOuts.revision
    BY <1>0, <1>15, <1>t, <2>1, <2>2, LoadListKeeps DEF SearchRests, OptOutTypes, OptOutInv
  <2>4. admin'.busy => \E u \in ReadSlots : reads[u].kind = "add"
    BY <1>0, <1>15, <2>2 DEF SearchRests, AddComesBack
  <2>5. \A u \in ReadSlots : GoodRead(reads[u])
    BY DEF OptOutInv
  <2> QED BY <1>15, <1>t, <2>1, <2>2, <2>3, <2>4, <2>5, Reloaded DEF SearchRests
<1>16. ASSUME NEW at \in {admin.page - 1, admin.page + 1}, TurnListPage(at) PROVE OptOutInv'
  <2>1. admin' = [admin EXCEPT !.page = at] /\ LoadList(reads, at, admin.search)
    BY <1>16 DEF TurnListPage
  <2>2. at \in Nat
    BY <1>16, <1>t DEF TurnListPage, ListPages
  <2>3. /\ admin' \in ListPages /\ admin'.page = at /\ admin'.search = admin.search /\ admin'.shown = admin.shown
        /\ admin'.busy = admin.busy /\ admin.search \in SUBSET Emails
    BY <1>t, <2>1, <2>2 DEF ListPages
  <2>4. OptOutTypes' /\ heard' <= optOuts.revision
    BY <1>0, <1>16, <1>t, <2>1, <2>2, <2>3, LoadListKeeps DEF TurnListPage, OptOutTypes, OptOutInv
  <2>5. admin'.busy => \E u \in ReadSlots : reads[u].kind = "add"
    BY <1>0, <1>16, <2>3 DEF TurnListPage, AddComesBack
  <2>6. \A u \in ReadSlots : GoodRead(reads[u])
    BY DEF OptOutInv
  <2> QED BY <1>16, <1>t, <2>1, <2>2, <2>3, <2>4, <2>5, <2>6, Reloaded DEF TurnListPage
<1>17. ASSUME NEW a \in Emails, AddSuppression(a) PROVE OptOutInv'
  <2>1. PICK s \in ReadSlots : reads[s].kind = "none" /\ reads' = [reads EXCEPT ![s] = Request("add", 1, Emails, {a})]
    BY <1>17 DEF AddSuppression, AskFor
  <2>2. /\ reads' \in [ReadSlots -> ListRequests] /\ reads'[s].kind = "add" /\ reads'[s].at = "sent" /\ ~reads'[s].cancelled
        /\ \A u \in ReadSlots \ {s} : reads'[u] = reads[u]
    BY <1>t, <2>1 DEF ListRequests, Request
  <2>3. /\ admin' \in ListPages /\ admin'.page = admin.page /\ admin'.search = admin.search /\ admin'.busy
    BY <1>17, <1>t DEF AddSuppression, ListPages
  <2>4. (\A u \in ReadSlots : GoodRead(reads[u])') /\ ListIsAsAsked' /\ AddComesBack'
    BY <1>17, <2>2, <2>3 DEF AddSuppression, GoodRead, OptOutInv, ListIsAsAsked, Settled, AddComesBack
  <2> QED BY <1>0, <1>17, <2>2, <2>3, <2>4, AdminStep DEF AddSuppression, OptOutTypes, OptOutInv
<1>18. ASSUME NEW a \in Emails, RemoveSuppression(a) PROVE OptOutInv'
  <2>1. PICK s \in ReadSlots : reads[s].kind = "none" /\ reads' = [reads EXCEPT ![s] = Request("remove", 1, Emails, {a})]
    BY <1>18 DEF RemoveSuppression, AskFor
  <2>2. /\ reads' \in [ReadSlots -> ListRequests] /\ reads'[s].kind = "remove" /\ reads'[s].at = "sent" /\ ~reads'[s].cancelled
        /\ \A u \in ReadSlots \ {s} : reads'[u] = reads[u]
    BY <1>t, <2>1 DEF ListRequests, Request
  <2>3. (\A u \in ReadSlots : GoodRead(reads[u])') /\ ListIsAsAsked' /\ AddComesBack'
    BY <1>0, <1>18, <2>1, <2>2 DEF RemoveSuppression, GoodRead, OptOutInv, ListIsAsAsked, Settled, AddComesBack
  <2> QED BY <1>0, <1>18, <2>2, <2>3, AdminStep DEF RemoveSuppression, OptOutTypes, OptOutInv
<1>19. ASSUME NEW s \in ReadSlots, ListChanged(s) PROVE OptOutInv'
  <2>0. reads[s] \in ListRequests /\ GoodRead(reads[s]) /\ heard <= optOuts.revision
    BY <1>t DEF OptOutInv
  <2>1. heard' \in Nat /\ heard' <= optOuts.revision
    BY <1>19, <1>t, <2>0 DEF ListChanged, GoodRead, ListRequests
  <2>2. admin' = [admin EXCEPT !.busy = @ /\ reads[s].kind # "add"] /\ LoadList(ReadOver(s), admin.page, admin.search)
    BY <1>19 DEF ListChanged
  <2>3. /\ admin' \in ListPages /\ admin'.page = admin.page /\ admin'.search = admin.search /\ admin'.shown = admin.shown
        /\ (admin'.busy => admin.busy /\ reads[s].kind # "add") /\ admin.search \in SUBSET Emails /\ admin.page \in Nat
    BY <1>t, <2>2 DEF ListPages
  <2>4. /\ ReadOver(s) \in [ReadSlots -> ListRequests]
        /\ ReadOver(s)[s].kind = "none" /\ ~ReadOver(s)[s].cancelled
        /\ \A u \in ReadSlots \ {s} : ReadOver(s)[u] = reads[u]
    BY <1>0, ReadOverKeeps
  <2>5. OptOutTypes'
    BY <1>0, <1>19, <2>1, <2>2, <2>3, <2>4, LoadListKeeps DEF ListChanged, OptOutTypes
  <2>6. admin'.busy => \E u \in ReadSlots : ReadOver(s)[u].kind = "add"
    BY <1>0, <1>19, <2>3, <2>4 DEF ListChanged, AddComesBack
  <2>7. \A u \in ReadSlots : GoodRead(ReadOver(s)[u])
    BY <2>4 DEF OptOutInv, GoodRead
  <2> QED BY <1>19, <2>1, <2>2, <2>3, <2>4, <2>5, <2>6, <2>7, Reloaded DEF ListChanged
<1>20. ASSUME NEW s \in ReadSlots, ListRequestFails(s) PROVE OptOutInv'
  <2>0. reads[s] \in ListRequests /\ GoodRead(reads[s])
    BY <1>t DEF OptOutInv
  <2>1. reads' = ReadOver(s)
    BY <1>20 DEF ListRequestFails
  <2>2. /\ reads' \in [ReadSlots -> ListRequests] /\ reads'[s].kind = "none" /\ ~reads'[s].cancelled
        /\ \A u \in ReadSlots \ {s} : reads'[u] = reads[u]
    BY <1>0, <2>1, ReadOverKeeps
  <2>3. admin' = [admin EXCEPT !.failed = @ \/ ~reads[s].cancelled, !.busy = @ /\ reads[s].kind # "add"]
    BY <1>20 DEF ListRequestFails
  <2>4. /\ admin' \in ListPages /\ admin'.page = admin.page /\ admin'.search = admin.search /\ admin'.shown = admin.shown
        /\ admin'.of = admin.of /\ admin'.revision = admin.revision
        /\ (admin'.failed <=> admin.failed \/ ~reads[s].cancelled)
        /\ (admin'.busy <=> admin.busy /\ reads[s].kind # "add")
    BY <1>t, <2>3 DEF ListPages
  <2>5. \A u \in ReadSlots : GoodRead(reads[u])'
    BY <1>20, <2>2, <2>4 DEF ListRequestFails, GoodRead, OptOutInv
  <2>6. ListIsAsAsked'
    <3>1. CASE reads[s].cancelled
      <4>1. reads[s].kind = "load"
        BY <2>0, <3>1 DEF GoodRead
      <4> QED BY <1>0, <1>20, <2>2, <2>4, <3>1, <4>1 DEF ListRequestFails, ListIsAsAsked, Settled
    <3>2. CASE ~reads[s].cancelled
      BY <2>4, <3>2 DEF ListIsAsAsked, Settled
    <3> QED BY <3>1, <3>2
  <2>7. AddComesBack'
    BY <1>0, <1>20, <2>2, <2>4 DEF ListRequestFails, AddComesBack
  <2> QED BY <1>0, <1>20, <2>2, <2>4, <2>5, <2>6, <2>7, AdminStep DEF ListRequestFails, OptOutTypes, OptOutInv
<1>21. ASSUME NEW s \in ReadSlots, SessionIsOver(s) PROVE OptOutInv'
  <2>1. admin' \in ListPages /\ ~admin'.shown
    BY <1>21, <1>t DEF SessionIsOver, ListPages
  <2>2. reads' \in [ReadSlots -> ListRequests] /\ \A u \in ReadSlots : reads'[u].kind = "none" /\ ~reads'[u].cancelled
    BY <1>21, ReadsTyped DEF SessionIsOver, NoRead, Request
  <2>3. (\A u \in ReadSlots : GoodRead(reads[u])') /\ ListIsAsAsked' /\ AddComesBack'
    BY <2>1, <2>2 DEF GoodRead, ListIsAsAsked, Settled, AddComesBack
  <2> QED BY <1>0, <1>21, <2>1, <2>2, <2>3, AdminStep DEF SessionIsOver, OptOutTypes, OptOutInv
<1>22. CASE UNCHANGED optOutVars
  BY <1>0, <1>22 DEF optOutVars, OptOutInv, OptOutTypes, VisitorsOut, Out, Suppressed, FormComesBack, GoodRead,
                     ListIsAsAsked, Settled, AddComesBack
<1> QED
  BY <1>1, <1>2, <1>3, <1>4, <1>5, <1>6, <1>7, <1>8, <1>9, <1>10, <1>11, <1>12, <1>13, <1>14, <1>15, <1>16, <1>17, <1>18,
     <1>19, <1>20, <1>21, <1>22 DEF OptOutNext, LinkNext, SuppressionsNext

\* The invariant says what the runs check.
LEMMA OptOutImplies == OptOutInv => OptOutsKept
BY DEF OptOutInv, VisitorsOut, Out, OptOutsKept, DoneIsSuppressed

\* For any addresses, visitors and searches, any page size and any number of requests: whoever is told
\* that it is done is suppressed unless an admin lifts it, and the admin's table, once settled, is the one
\* asked for and as new as what the admin was told (worker.ts:301-317, UnsubscribeForm, SuppressionsClient).
THEOREM OptOutsAreKept == OptOutSpec => []OptOutsKept
<1>1. OptOutSpec => []OptOutInv
  BY OptOutStarts, OptOutSteps, PTL DEF OptOutSpec
<1> QED BY <1>1, OptOutImplies, PTL

-----------------------------------------------------------------------------
(* The wizard. *)

Kinds   == {"none", "audience"} \cup SaveKinds \cup SendKinds
Carried == Draft \cup (SUBSET Lists) \cup {NoAnswer}

WizardPages == [open : BOOLEAN, step : Steps, draft : Draft, audience : Carried, dirty : BOOLEAN,
                saving : BOOLEAN, dialog : BOOLEAN, busy : BOOLEAN, mode : {"now", "schedule"}]
Requests    == [kind : Kinds, at : {"none", "sent", "ok", "refused"}, draft : Carried, next : Steps, mounted : BOOLEAN]
Stored      == [draft : Draft, status : {"DRAFT", "QUEUED", "SCHEDULED"}, sent : Carried, confirmed : Carried]

WizardTypes ==
  /\ page \in WizardPages
  /\ net \in [Slots -> Requests]
  /\ stored \in Stored
  /\ careless \in BOOLEAN
  /\ \A s \in Slots : net[s].kind \in SaveKinds \cup SendKinds => net[s].draft \in Draft

\* What was sent, loaded or asked for by a user who waits is about the draft on screen.
AboutTheDraft(r) ==
  /\ r.kind \in SaveKinds \cup SendKinds => r.draft = page.draft
  /\ r.kind \in SaveKinds /\ r.at = "ok" => stored.draft = page.draft
  /\ r.kind \in SendKinds => stored.draft = page.draft
  /\ r.kind = "audience" => ~page.dirty
  /\ r.kind = "audience" /\ r.at = "ok" => r.draft = page.draft.lists

\* The draft on screen is the stored one unless it was changed since, and then nothing but a save
\* leads to the later steps.
Waited ==
  /\ page.step >= 2 => ~page.dirty
  /\ ~page.dirty => stored.draft = page.draft
  /\ \A s \in Slots : AboutTheDraft(net[s])
  /\ page.audience # NoAnswer => page.audience = page.draft.lists
  /\ stored.sent # NoAnswer => stored.sent = stored.confirmed

\* Somebody waits for the end of each request, and a button for one of them.
ButtonsWait ==
  /\ page.saving => \E s \in Slots : net[s].kind \in SaveKinds
  /\ page.busy => \E s \in Slots : net[s].kind \in SendKinds /\ net[s].mounted

\* The inductive invariant of the wizard.
WizardInv ==
  /\ WizardTypes
  /\ page.dialog => page.step = 3
  /\ page.open => ButtonsWait
  /\ ~careless => Waited

\* The page opens on the stored draft, with nothing under way.
LEMMA WizardStarts == WizardInit => WizardInv
<1> SUFFICES ASSUME NEW draft \in Draft, WizardStart(draft) PROVE WizardInv
  BY DEF WizardInit
<1>1. Idle \in Requests
  BY DEF Idle, Requests, Kinds, Carried, Steps
<1>2. page \in WizardPages /\ page.step = 0 /\ ~page.saving /\ ~page.busy /\ ~page.dialog /\ page.draft = draft /\ page.audience = NoAnswer
  BY DEF WizardStart, Wizard0, WizardPages, Carried, Steps
<1>3. stored \in Stored /\ stored.draft = draft /\ stored.sent = NoAnswer
  BY DEF WizardStart, Stored, Carried
<1>4. net \in [Slots -> Requests] /\ careless = FALSE /\ \A s \in Slots : net[s].kind = "none"
  BY <1>1 DEF WizardStart, Idle
<1>5. WizardTypes
  BY <1>2, <1>3, <1>4 DEF WizardTypes, SaveKinds, SendKinds
<1>6. Waited
  BY <1>2, <1>3, <1>4 DEF Waited, AboutTheDraft, SaveKinds, SendKinds
<1> QED BY <1>2, <1>5, <1>6 DEF WizardInv, ButtonsWait

\* A request that leaves takes a slot of its own.
LEMMA AskKeeps ==
  ASSUME WizardTypes, NEW kind \in Kinds \ {"none"}, NEW draft \in Carried, NEW next \in Steps, Ask(kind, draft, next)
  PROVE  /\ net' \in [Slots -> Requests]
         /\ \E s \in Slots :
              /\ net[s].kind = "none"
              /\ net'[s].kind = kind /\ net'[s].at = "sent" /\ net'[s].draft = draft /\ net'[s].mounted
              /\ \A u \in Slots \ {s} : net'[u] = net[u]
<1>1. PICK s \in Slots :
        /\ net[s].kind = "none"
        /\ net' = [net EXCEPT ![s] = [kind |-> kind, at |-> "sent", draft |-> draft, next |-> next, mounted |-> TRUE]]
  BY DEF Ask, UnderWay
<1>2. [kind |-> kind, at |-> "sent", draft |-> draft, next |-> next, mounted |-> TRUE] \in Requests
  BY DEF Requests
<1> QED BY <1>1, <1>2 DEF WizardTypes

\* A request that has ended gives its slot back.
LEMMA AnsweredKeeps ==
  ASSUME WizardTypes, NEW s \in Slots
  PROVE  /\ Answered(s) \in [Slots -> Requests]
         /\ Answered(s)[s].kind = "none"
         /\ \A u \in Slots \ {s} : Answered(s)[u] = net[u]
<1>1. Idle \in Requests /\ Idle.kind = "none"
  BY DEF Idle, Requests, Kinds, Carried, Steps
<1> QED BY <1>1 DEF WizardTypes, Answered

\* Another step is shown: p and n are the page and the requests as they are then.
LEMMA ArriveKeeps ==
  ASSUME NEW p \in WizardPages, NEW n \in [Slots -> Requests], NEW step \in Steps, p.step = page.step, Arrive(p, n, step)
  PROVE  /\ page' \in WizardPages
         /\ page'.open = p.open /\ page'.step = step /\ page'.draft = p.draft /\ page'.audience = p.audience
         /\ page'.dirty = p.dirty /\ page'.saving = p.saving
         /\ page'.dialog => p.dialog /\ (page.step = 3 => step = 3)
         /\ page'.busy => p.busy /\ (page.step = 3 => step = 3)
         /\ net' \in [Slots -> Requests]
         /\ \A s \in Slots :
              \/ /\ net'[s].kind = n[s].kind /\ net'[s].at = n[s].at /\ net'[s].draft = n[s].draft
                 /\ (page.step = 3 => step = 3) => net'[s].mounted = n[s].mounted
              \/ n[s].kind = "none" /\ net'[s].kind = "audience" /\ net'[s].at = "sent" /\ step >= 1
<1> DEFINE asked == [kind |-> "audience", at |-> "sent", draft |-> NoAnswer, next |-> 0, mounted |-> TRUE]
<1>1. /\ page' \in WizardPages
      /\ page'.open = p.open /\ page'.step = step /\ page'.draft = p.draft /\ page'.audience = p.audience
      /\ page'.dirty = p.dirty /\ page'.saving = p.saving
      /\ page'.dialog => p.dialog /\ (page.step = 3 => step = 3)
      /\ page'.busy => p.busy /\ (page.step = 3 => step = 3)
  <2>1. page' = ShowStep(p, step)
    BY DEF Arrive
  <2>2. CASE p.step = 3 /\ step # 3
    BY <2>1, <2>2 DEF ShowStep, WizardPages
  <2>3. CASE ~(p.step = 3 /\ step # 3)
    BY <2>1, <2>3 DEF ShowStep, WizardPages
  <2> QED BY <2>2, <2>3
<1>2. /\ Unmounted(n, step) \in [Slots -> Requests]
      /\ \A s \in Slots : LET m == Unmounted(n, step)[s]
                          IN /\ m.kind = n[s].kind /\ m.at = n[s].at /\ m.draft = n[s].draft
                             /\ (page.step = 3 => step = 3) => m = n[s]
  <2>1. CASE page.step = 3 /\ step # 3
    <3>1. Unmounted(n, step) = [s \in Slots |-> [n[s] EXCEPT !.mounted = FALSE]]
      BY <2>1 DEF Unmounted
    <3>2. ASSUME NEW s \in Slots
          PROVE  LET m == [n[s] EXCEPT !.mounted = FALSE]
                 IN m \in Requests /\ m.kind = n[s].kind /\ m.at = n[s].at /\ m.draft = n[s].draft
      <4>1. n[s] \in Requests
        OBVIOUS
      <4> QED BY <4>1 DEF Requests
    <3> QED BY <2>1, <3>1, <3>2
  <2>2. CASE ~(page.step = 3 /\ step # 3)
    BY <2>2 DEF Unmounted
  <2> QED BY <2>1, <2>2
<1>3. CASE step = 0 /\ net' = Unmounted(n, step)
  BY <1>1, <1>2, <1>3
<1>4. CASE step >= 1 /\ \E s \in Slots : n[s].kind = "none" /\ net' = [Unmounted(n, step) EXCEPT ![s] = asked]
  <2>1. asked \in Requests /\ asked.kind = "audience" /\ asked.at = "sent"
    BY DEF Requests, Kinds, Carried, Steps
  <2>2. PICK s \in Slots :
          /\ n[s].kind = "none"
          /\ net' = [Unmounted(n, step) EXCEPT ![s] = asked]
    BY <1>4
  <2>3. net' \in [Slots -> Requests] /\ net'[s].kind = "audience" /\ net'[s].at = "sent"
    BY <1>2, <2>1, <2>2
  <2>4. \A u \in Slots \ {s} : net'[u] = Unmounted(n, step)[u]
    BY <1>2, <2>2
  <2> QED BY <1>1, <1>2, <1>4, <2>2, <2>3, <2>4
<1> QED BY <1>3, <1>4 DEF Arrive

\* A change of the page that leaves the requests and the stored campaign alone.
LEMMA OnScreen ==
  ASSUME WizardInv, UNCHANGED <<net, stored, careless>>, page' \in WizardPages,
         page'.draft = page.draft, page'.step = page.step, page'.audience = page.audience, page'.dirty = page.dirty,
         page'.saving = page.saving, page'.busy = page.busy, page'.open = page.open, page'.dialog => page'.step = 3
  PROVE  WizardInv'
  BY DEF WizardInv, WizardTypes, Waited, AboutTheDraft, ButtonsWait

\* Every step of the user, the server and the network keeps the invariant.
LEMMA WizardSteps == WizardInv /\ [WizardNext]_wizardVars => WizardInv'
<1> SUFFICES ASSUME WizardInv, [WizardNext]_wizardVars PROVE WizardInv'
  OBVIOUS
<1>0. WizardTypes /\ page \in WizardPages /\ net \in [Slots -> Requests] /\ stored \in Stored /\ careless \in BOOLEAN
  BY DEF WizardInv, WizardTypes
<1>1. ASSUME NEW text \in Texts, Type(text) PROVE WizardInv'
  <2>1. page.draft \in Draft /\ page.step = 0
    BY <1>0, <1>1 DEF WizardPages, Type
  <2>2. [page.draft EXCEPT !.text = text] \in Draft /\ [page.draft EXCEPT !.text = text].lists = page.draft.lists
    BY <2>1 DEF Draft
  <2>3. page' = [page EXCEPT !.draft = [page.draft EXCEPT !.text = text], !.dirty = TRUE]
    BY <1>1 DEF Type
  <2>4. /\ page' \in WizardPages /\ page'.step = 0 /\ page'.dirty /\ page'.draft.lists = page.draft.lists
        /\ page'.audience = page.audience /\ page'.saving = page.saving /\ page'.busy = page.busy /\ page'.dialog = page.dialog
        /\ page'.open = page.open
    BY <1>0, <2>1, <2>2, <2>3 DEF WizardPages
  <2>5. UNCHANGED <<net, stored>> /\ careless' \in BOOLEAN /\ (~careless' => ~careless /\ Quiet)
    BY <1>0, <1>1 DEF Type
  <2>6. ~careless' => Waited'
    BY <2>4, <2>5 DEF WizardInv, Waited, AboutTheDraft, Quiet, SaveKinds, SendKinds
  <2> QED BY <2>1, <2>4, <2>5, <2>6 DEF WizardInv, WizardTypes, ButtonsWait
<1>2. ASSUME NEW list \in Lists, ToggleList(list) PROVE WizardInv'
  <2> DEFINE lists == (page.draft.lists \ {list}) \cup ({list} \ page.draft.lists)
  <2>1. page.draft \in Draft /\ page.step = 1
    BY <1>0, <1>2 DEF WizardPages, ToggleList
  <2>2. [page.draft EXCEPT !.lists = lists] \in Draft
    BY <2>1 DEF Draft
  <2>3. page' = [page EXCEPT !.draft = [page.draft EXCEPT !.lists = lists], !.dirty = TRUE, !.audience = NoAnswer]
    BY <1>2 DEF ToggleList
  <2> HIDE DEF lists
  <2>4. /\ page' \in WizardPages /\ page'.step = 1 /\ page'.dirty
        /\ page'.audience = NoAnswer /\ page'.saving = page.saving /\ page'.busy = page.busy /\ page'.dialog = page.dialog
        /\ page'.open = page.open
    BY <1>0, <2>1, <2>2, <2>3 DEF WizardPages, Carried
  <2>5. UNCHANGED <<net, stored>> /\ careless' \in BOOLEAN /\ (~careless' => ~careless /\ Quiet)
    BY <1>0, <1>2 DEF ToggleList
  <2>6. ~careless' => Waited'
    BY <2>4, <2>5 DEF WizardInv, Waited, AboutTheDraft, Quiet, SaveKinds, SendKinds
  <2> QED BY <2>1, <2>4, <2>5, <2>6 DEF WizardInv, WizardTypes, ButtonsWait
<1>3. ASSUME NEW kind \in SaveKinds, NEW next \in Steps, Ask(kind, page.draft, next), page' = Saving,
             UNCHANGED stored, careless' \in BOOLEAN, ~careless' => ~careless
      PROVE  WizardInv'
  <2>1. kind \in Kinds \ {"none"} /\ page.draft \in Carried /\ page.draft \in Draft
    BY <1>0 DEF WizardPages, Carried, Kinds, SaveKinds
  <2>2. PICK s \in Slots :
          /\ net' \in [Slots -> Requests] /\ net[s].kind = "none"
          /\ net'[s].kind = kind /\ net'[s].at = "sent" /\ net'[s].draft = page.draft
          /\ \A u \in Slots \ {s} : net'[u] = net[u]
    BY <1>0, <1>3, <2>1, AskKeeps
  <2>3. /\ page' \in WizardPages /\ page'.draft = page.draft /\ page'.step = page.step /\ page'.dirty = page.dirty
        /\ page'.audience = page.audience /\ page'.busy = page.busy /\ page'.dialog = page.dialog /\ page'.open = page.open
    BY <1>0, <1>3 DEF Saving, WizardPages
  <2>4. WizardTypes'
    BY <1>0, <1>3, <2>1, <2>2, <2>3 DEF WizardTypes
  <2>5. page.open => ButtonsWait'
    BY <1>3, <2>2, <2>3 DEF WizardInv, ButtonsWait, SendKinds
  <2>6. ~careless => Waited'
    BY <1>3, <2>2, <2>3 DEF WizardInv, Waited, AboutTheDraft, SaveKinds, SendKinds
  <2> QED BY <1>3, <2>3, <2>4, <2>5, <2>6 DEF WizardInv
<1>4. CASE SaveDraft
  BY <1>0, <1>3, <1>4 DEF SaveDraft, SaveKinds, WizardPages
<1>5. ASSUME NEW next \in Steps, GoForward(next) PROVE WizardInv'
  BY <1>0, <1>3, <1>5 DEF GoForward, SaveKinds
<1>6. ASSUME NEW next \in Steps, GoBack(next) PROVE WizardInv'
  <2>1. /\ page.open /\ ~page.dialog /\ Arrive(page, net, next) /\ UNCHANGED stored /\ careless' \in BOOLEAN /\ next <= page.step
        /\ ~careless' => ~careless /\ (next >= 1 => ~page.dirty)
    BY <1>0, <1>6 DEF GoBack, Free
  <2>2. WizardTypes'
    BY <1>0, <2>1, ArriveKeeps DEF WizardTypes, SaveKinds, SendKinds
  <2>3. ButtonsWait'
    BY <1>0, <2>1, ArriveKeeps DEF WizardInv, ButtonsWait, SaveKinds, SendKinds
  <2>4. ~careless' => Waited'
    BY <1>0, <2>1, ArriveKeeps DEF WizardInv, Waited, AboutTheDraft, SaveKinds, SendKinds, Steps
  <2>5. ~page'.dialog
    BY <1>0, <2>1, ArriveKeeps
  <2> QED BY <2>2, <2>3, <2>4, <2>5 DEF WizardInv
<1>7. ASSUME NEW mode \in {"now", "schedule"}, ChangeMode(mode) PROVE WizardInv'
  BY <1>0, <1>7, OnScreen DEF ChangeMode, WizardPages, Free
<1>8. CASE RequestConfirm
  BY <1>0, <1>8, OnScreen DEF RequestConfirm, WizardPages
<1>9. CASE CloseDialog \/ SendTooLate
  BY <1>0, <1>9, OnScreen DEF CloseDialog, SendTooLate, WizardPages
<1>10. CASE Send
  <2> DEFINE kind == IF page.mode = "now" THEN "send" ELSE "schedule"
  <2>1. /\ kind \in Kinds \ {"none"} /\ kind \in SendKinds /\ page.draft \in Carried /\ page.draft \in Draft /\ 3 \in Steps
        /\ page.open /\ page.dialog /\ page.step = 3 /\ Ask(kind, page.draft, 3) /\ UNCHANGED stored
        /\ careless' \in BOOLEAN /\ (~careless' => ~careless)
    BY <1>0, <1>10 DEF Send, WizardInv, WizardPages, Carried, Kinds, SendKinds, Steps
  <2> HIDE DEF kind
  <2>2. PICK s \in Slots :
          /\ net' \in [Slots -> Requests] /\ net[s].kind = "none"
          /\ net'[s].kind = kind /\ net'[s].at = "sent" /\ net'[s].draft = page.draft /\ net'[s].mounted
          /\ \A u \in Slots \ {s} : net'[u] = net[u]
    BY <1>0, <2>1, AskKeeps
  <2>3. /\ page' \in WizardPages /\ page'.draft = page.draft /\ page'.step = page.step /\ page'.dirty = page.dirty
        /\ page'.audience = page.audience /\ page'.saving = page.saving /\ page'.dialog = page.dialog
    BY <1>0, <1>10 DEF Send, WizardPages
  <2>4. WizardTypes'
    BY <1>0, <2>1, <2>2, <2>3 DEF WizardTypes
  <2>5. ButtonsWait'
    BY <2>1, <2>2, <2>3 DEF WizardInv, ButtonsWait, SaveKinds
  <2>6. ~careless' => Waited'
    BY <2>1, <2>2, <2>3 DEF WizardInv, Waited, AboutTheDraft, SaveKinds, SendKinds
  <2> QED BY <2>1, <2>3, <2>4, <2>5, <2>6 DEF WizardInv
<1>11. ASSUME NEW s \in Slots, ServerAnswers(s) PROVE WizardInv'
  <2> DEFINE r == net[s]
  <2>0. r \in Requests /\ UNCHANGED <<page, careless>>
    BY <1>0, <1>11 DEF ServerAnswers
  <2>1. ASSUME NEW at \in {"ok", "refused"}, r.kind \in SaveKinds, net' = [net EXCEPT ![s].at = at],
               stored' = IF at = "ok" THEN [stored EXCEPT !.draft = r.draft] ELSE stored
        PROVE  WizardInv'
    <3>1. /\ net' \in [Slots -> Requests] /\ net'[s].kind = r.kind /\ net'[s].draft = r.draft /\ net'[s].mounted = r.mounted
          /\ \A u \in Slots \ {s} : net'[u] = net[u]
      BY <1>0, <2>0, <2>1 DEF Requests
    <3>2. stored' \in Stored /\ stored'.sent = stored.sent /\ stored'.confirmed = stored.confirmed
          /\ stored'.draft \in {stored.draft, r.draft} /\ (at = "ok" => stored'.draft = r.draft)
      BY <1>0, <2>1 DEF WizardTypes, Stored
    <3>3. net'[s].at = at
      BY <1>0, <2>0, <2>1 DEF Requests
    <3>4. WizardTypes'
      BY <1>0, <2>0, <3>1, <3>2 DEF WizardTypes
    <3>5. page.open => ButtonsWait'
      BY <2>0, <3>1 DEF WizardInv, ButtonsWait
    <3>6. ~careless => Waited'
      BY <2>0, <2>1, <3>1, <3>2, <3>3 DEF WizardInv, Waited, AboutTheDraft, SaveKinds, SendKinds
    <3> QED BY <2>0, <3>4, <3>5, <3>6 DEF WizardInv
  <2>2. ASSUME NEW at \in {"ok", "refused"}, NEW status \in {"QUEUED", "SCHEDULED"}, r.kind \in SendKinds, net' = [net EXCEPT ![s].at = at],
               stored' = IF at = "ok" THEN [stored EXCEPT !.status = status, !.sent = stored.draft, !.confirmed = r.draft] ELSE stored
        PROVE  WizardInv'
    <3>1. /\ net' \in [Slots -> Requests] /\ net'[s].kind = r.kind /\ net'[s].draft = r.draft /\ net'[s].mounted = r.mounted
          /\ \A u \in Slots \ {s} : net'[u] = net[u]
      BY <1>0, <2>0, <2>2 DEF Requests
    <3>2. /\ stored' \in Stored /\ stored'.draft = stored.draft
          /\ \/ stored'.sent = stored.sent /\ stored'.confirmed = stored.confirmed
             \/ stored'.sent = stored.draft /\ stored'.confirmed = r.draft
      <4>1. r.draft \in Carried /\ stored.draft \in Carried
        BY <1>0, <2>0 DEF Requests, Stored, Carried
      <4> QED BY <1>0, <2>2, <4>1 DEF Stored
    <3>4. WizardTypes'
      BY <1>0, <2>0, <3>1, <3>2 DEF WizardTypes
    <3>5. page.open => ButtonsWait'
      BY <2>0, <3>1 DEF WizardInv, ButtonsWait
    <3>6. ~careless => Waited'
      BY <2>0, <2>2, <3>1, <3>2 DEF WizardInv, Waited, AboutTheDraft, SaveKinds, SendKinds
    <3> QED BY <2>0, <3>4, <3>5, <3>6 DEF WizardInv
  <2>3. ASSUME r.kind = "audience", net' = [net EXCEPT ![s].at = "ok", ![s].draft = stored.draft.lists], UNCHANGED stored PROVE WizardInv'
    <3>1. stored.draft.lists \in Carried
      BY <1>0 DEF Stored, Draft, Carried
    <3>2. /\ net' \in [Slots -> Requests] /\ net'[s].kind = "audience" /\ net'[s].draft = stored.draft.lists
          /\ \A u \in Slots \ {s} : net'[u] = net[u]
      BY <1>0, <2>0, <2>3, <3>1 DEF Requests
    <3>3. WizardTypes'
      BY <1>0, <2>0, <2>3, <3>2 DEF WizardTypes, SaveKinds, SendKinds
    <3>4. page.open => ButtonsWait'
      BY <2>0, <2>3, <3>2 DEF WizardInv, ButtonsWait, SaveKinds, SendKinds
    <3>5. ~careless => Waited'
      BY <2>0, <2>3, <3>2 DEF WizardInv, Waited, AboutTheDraft, SaveKinds, SendKinds
    <3> QED BY <2>0, <3>3, <3>4, <3>5 DEF WizardInv
  <2>4. \/ r.kind = "audience" /\ net' = [net EXCEPT ![s].at = "ok", ![s].draft = stored.draft.lists] /\ UNCHANGED stored
        \/ /\ r.kind \in SaveKinds
           /\ \E at \in {"ok", "refused"} :
                net' = [net EXCEPT ![s].at = at] /\ stored' = IF at = "ok" THEN [stored EXCEPT !.draft = r.draft] ELSE stored
        \/ /\ r.kind \in SendKinds
           /\ \E at \in {"ok", "refused"}, status \in {"QUEUED", "SCHEDULED"} :
                /\ net' = [net EXCEPT ![s].at = at]
                /\ stored' = IF at = "ok" THEN [stored EXCEPT !.status = status, !.sent = stored.draft, !.confirmed = r.draft] ELSE stored
    <3>1. CASE r.kind \in SaveKinds
      BY <1>11, <3>1 DEF ServerAnswers, SaveKinds, SendKinds
    <3>2. CASE r.kind = "audience"
      BY <1>11, <3>2 DEF ServerAnswers, SaveKinds, SendKinds
    <3>3. CASE r.kind \in SendKinds
      BY <1>11, <3>3 DEF ServerAnswers, SaveKinds, SendKinds
    <3> QED BY <1>11, <3>1, <3>2, <3>3 DEF ServerAnswers
  <2> QED BY <2>1, <2>2, <2>3, <2>4
<1>12. ASSUME NEW s \in Slots, SaveSucceeds(s), page.open PROVE WizardInv'
  <2> DEFINE p == [page EXCEPT !.dirty = FALSE, !.saving = FALSE]
             n == Answered(s)
  <2>1. /\ p \in WizardPages /\ p.step = page.step /\ p.draft = page.draft /\ p.audience = page.audience /\ ~p.dirty /\ ~p.saving
        /\ p.dialog = page.dialog /\ p.busy = page.busy /\ p.open = page.open
    BY <1>0 DEF WizardPages
  <2>2. n \in [Slots -> Requests] /\ n[s].kind = "none" /\ \A u \in Slots \ {s} : n[u] = net[u]
    BY <1>0, AnsweredKeeps
  <2>3. /\ net[s].kind \in SaveKinds /\ net[s].at = "ok" /\ net[s].next \in Steps /\ UNCHANGED <<stored, careless>>
        /\ (page' = p /\ net' = n) \/ Arrive(p, n, net[s].next)
    BY <1>0, <1>12 DEF SaveSucceeds, Requests
  <2>4. ~careless => stored.draft = page.draft
    BY <2>3 DEF WizardInv, Waited, AboutTheDraft
  <2> HIDE DEF p, n
  <2>5. CASE page' = p /\ net' = n
    <3>1. WizardTypes'
      BY <1>0, <2>1, <2>2, <2>3, <2>5 DEF WizardTypes, SaveKinds, SendKinds
    <3>2. ButtonsWait'
      BY <1>12, <2>1, <2>2, <2>3, <2>5 DEF WizardInv, ButtonsWait, SaveKinds, SendKinds
    <3>3. ~careless => Waited'
      BY <2>1, <2>2, <2>3, <2>4, <2>5 DEF WizardInv, Waited, AboutTheDraft, SaveKinds, SendKinds
    <3> QED BY <2>1, <2>3, <2>5, <3>1, <3>2, <3>3 DEF WizardInv
  <2>6. CASE Arrive(p, n, net[s].next)
    <3>1. WizardTypes'
      BY <1>0, <2>1, <2>2, <2>3, <2>6, ArriveKeeps DEF WizardTypes, SaveKinds, SendKinds
    <3>2. ButtonsWait'
      BY <1>12, <2>1, <2>2, <2>3, <2>6, ArriveKeeps DEF WizardInv, ButtonsWait, SaveKinds, SendKinds
    <3>3. ~careless => Waited'
      BY <2>1, <2>2, <2>3, <2>4, <2>6, ArriveKeeps DEF WizardInv, Waited, AboutTheDraft, SaveKinds, SendKinds
    <3>4. page'.dialog => page'.step = 3
      BY <2>1, <2>2, <2>3, <2>6, ArriveKeeps DEF WizardInv
    <3> QED BY <2>3, <3>1, <3>2, <3>3, <3>4 DEF WizardInv
  <2> QED BY <2>3, <2>5, <2>6
<1>13. ASSUME NEW s \in Slots, NEW p \in WizardPages, page' = p, net' = Answered(s), UNCHANGED <<stored, careless>>,
              p.step = page.step, p.draft = page.draft, p.dirty = page.dirty, p.open = page.open,
              p.audience = page.audience \/ (~careless => p.audience = page.draft.lists),
              p.dialog => page.dialog,
              p.saving => page.saving /\ net[s].kind \notin SaveKinds,
              p.busy => page.busy /\ ~(net[s].kind \in SendKinds /\ net[s].mounted)
       PROVE  WizardInv'
  <2>1. net' \in [Slots -> Requests] /\ net'[s].kind = "none" /\ \A u \in Slots \ {s} : net'[u] = net[u]
    BY <1>0, <1>13, AnsweredKeeps
  <2>2. WizardTypes'
    BY <1>0, <1>13, <2>1 DEF WizardTypes, SaveKinds, SendKinds
  <2>3. page.open => ButtonsWait'
    BY <1>13, <2>1 DEF WizardInv, ButtonsWait
  <2>4. ~careless => Waited'
    BY <1>13, <2>1 DEF WizardInv, Waited, AboutTheDraft, SaveKinds, SendKinds
  <2> QED BY <1>13, <2>2, <2>3, <2>4 DEF WizardInv
<1>14. ASSUME NEW s \in Slots, SaveFails(s) PROVE WizardInv'
  <2> DEFINE p == [page EXCEPT !.saving = FALSE]
  <2>1. /\ p \in WizardPages /\ p.step = page.step /\ p.draft = page.draft /\ p.audience = page.audience /\ p.dirty = page.dirty
        /\ ~p.saving /\ p.dialog = page.dialog /\ p.busy = page.busy /\ p.open = page.open
    BY <1>0 DEF WizardPages
  <2>2. page' = p /\ net' = Answered(s) /\ UNCHANGED <<stored, careless>> /\ net[s].kind \notin SendKinds
    BY <1>14 DEF SaveFails, SaveKinds, SendKinds
  <2> HIDE DEF p
  <2> QED BY <1>13, <2>1, <2>2
<1>15. ASSUME NEW s \in Slots, AudienceArrives(s) PROVE WizardInv'
  <2>1. /\ net' = Answered(s) /\ UNCHANGED <<stored, careless>> /\ net[s].kind \notin SendKinds /\ net[s].kind \notin SaveKinds
    BY <1>15 DEF AudienceArrives, SaveKinds, SendKinds
  <2>2. CASE UNCHANGED page
    BY <1>0, <1>13, <2>1, <2>2
  <2>3. CASE net[s].at = "ok" /\ page' = [page EXCEPT !.audience = net[s].draft]
    <3> DEFINE p == [page EXCEPT !.audience = net[s].draft]
    <3>1. net[s].draft \in Carried
      BY <1>0 DEF Requests
    <3>2. ~careless => net[s].draft = page.draft.lists
      BY <1>15, <2>3 DEF AudienceArrives, WizardInv, Waited, AboutTheDraft
    <3>3. /\ p \in WizardPages /\ p.step = page.step /\ p.draft = page.draft /\ p.audience = net[s].draft /\ p.dirty = page.dirty
          /\ p.saving = page.saving /\ p.dialog = page.dialog /\ p.busy = page.busy /\ p.open = page.open
      BY <1>0, <3>1 DEF WizardPages
    <3>4. page' = p
      BY <2>3
    <3> HIDE DEF p
    <3> QED BY <1>13, <2>1, <3>2, <3>3, <3>4
  <2> QED BY <1>15, <2>2, <2>3 DEF AudienceArrives
<1>16. ASSUME NEW s \in Slots, SendSucceeds(s) PROVE WizardInv'
  <2>1. Idle \in Requests /\ Idle.kind = "none"
    BY DEF Idle, Requests, Kinds, Carried, Steps
  <2>2. /\ page' \in WizardPages /\ page'.draft = page.draft /\ page'.step = page.step /\ page'.dirty = page.dirty
        /\ page'.audience = page.audience /\ ~page'.open /\ ~page'.dialog
    BY <1>0, <1>16 DEF SendSucceeds, WizardPages
  <2>3. net' \in [Slots -> Requests] /\ (\A u \in Slots : net'[u].kind = "none") /\ UNCHANGED <<stored, careless>>
    BY <1>16, <2>1 DEF SendSucceeds
  <2> QED BY <1>0, <2>2, <2>3 DEF WizardInv, WizardTypes, Waited, AboutTheDraft, SaveKinds, SendKinds
<1>17. ASSUME NEW s \in Slots, SendFails(s) PROVE WizardInv'
  <2>1. /\ net' = Answered(s) /\ UNCHANGED <<stored, careless>> /\ net[s].kind \notin SaveKinds
        /\ page' = IF net[s].mounted THEN [page EXCEPT !.dialog = FALSE, !.busy = FALSE] ELSE page
    BY <1>17 DEF SendFails, SaveKinds, SendKinds
  <2>2. CASE net[s].mounted
    <3> DEFINE p == [page EXCEPT !.dialog = FALSE, !.busy = FALSE]
    <3>1. /\ p \in WizardPages /\ p.step = page.step /\ p.draft = page.draft /\ p.audience = page.audience /\ p.dirty = page.dirty
          /\ p.saving = page.saving /\ ~p.dialog /\ ~p.busy /\ p.open = page.open
      BY <1>0 DEF WizardPages
    <3>2. page' = p
      BY <2>1, <2>2
    <3> HIDE DEF p
    <3> QED BY <1>13, <2>1, <3>1, <3>2
  <2>3. CASE ~net[s].mounted
    BY <1>0, <1>13, <2>1, <2>3
  <2> QED BY <2>2, <2>3
<1>18. CASE UNCHANGED wizardVars
  BY <1>18 DEF wizardVars, WizardInv, WizardTypes, Waited, AboutTheDraft, ButtonsWait
<1> QED
  BY <1>1, <1>2, <1>4, <1>5, <1>6, <1>7, <1>8, <1>9, <1>10, <1>11, <1>12, <1>14, <1>15, <1>16, <1>17, <1>18
  DEF WizardNext, User, Network

\* The invariant is what the wizard promises, and more.
LEMMA WizardHolds == WizardInv => WizardTruthful
  BY DEF WizardInv, Waited, ButtonsWait, WizardTruthful, SentAsConfirmed, SavedMeansSaved, AudienceIsOfLists, ButtonsComeBack,
         UnderWay, SaveKinds, SendKinds

\* What the wizard sends, calls saved and counts is what is on screen, for a user who waits for each
\* request, and none of its buttons waits for nothing, however saves, counts and sends overlap and fail
\* (CampaignWizard.tsx); for any texts, lists and number of requests under way.
THEOREM WizardStaysTruthful == WizardSpec => []WizardTruthful
  BY WizardStarts, WizardSteps, WizardHolds, PTL DEF WizardSpec
================================================================================
