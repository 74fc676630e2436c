------------------------------ MODULE ContactImport ------------------------------
(***************************************************************************)
(* Contacts, contact lists, the suppression list, and the import that      *)
(* fills them: src/lib/import.ts and the contact, list and suppression     *)
(* routes.                                                                 *)
(*                                                                         *)
(* A contact is global, unique by its normalized address, and a member of  *)
(* any number of lists.  An import is a row of statements that nothing     *)
(* holds together: imports overlap with each other and with admins who     *)
(* edit, delete and suppress, and one that fails leaves what it did.       *)
(* An address stands for all its spellings (normalizeEmail).               *)
(***************************************************************************)
EXTENDS Naturals, Sequences, FiniteSets

CONSTANTS
  Addresses,   \* normalized addresses
  Garbage,     \* a text that is not an address
  Absent,      \* no text
  Names,       \* what a contact can be called
  NoName,      \* null
  NoList,      \* an import into no list
  Inputs,      \* what can be imported: sequences of [address, name]
  Chunk,       \* CHUNK
  MaxRows,     \* MAX_IMPORT_ROWS
  Importers,   \* bound of the model: imports under way at the same time
  MaxContacts  \* bound of the model: contacts ever created

InputRows == [address : Addresses \cup {Garbage, Absent}, name : Names \cup {NoName}]

ASSUME ImportAssumption ==
  /\ Chunk \in Nat \ {0} /\ MaxRows \in Nat
  /\ {Garbage, Absent} \cap Addresses = {} /\ NoName \notin Names
  /\ Inputs \subseteq Seq(InputRows)

VARIABLES
  contacts,    \* the table: from the ids that exist to their rows
  born,        \* contacts created so far; ids are never used again
  lists,       \* the table: from the ids that exist to whether the test panel made them
  members,     \* the table: pairs of a list and a contact
  suppressed,  \* the addresses of the suppressions table
  imports      \* the imports under way, and those whose summary is to be answered; received: the rows
               \* read that hold something

contactVars == <<contacts, born, lists, members, suppressed, imports>>

NoImport == [at |-> "none"]

-----------------------------------------------------------------------------
(* Rows. *)

With(addresses) == {id \in DOMAIN contacts : contacts[id].address \in addresses}

AddressesOf(rows) == {rows[k].address : k \in DOMAIN rows}

\* What prepareRows makes of rows: one without any text is passed over, what is no address is
\* counted, and so is a repetition, of which the first one wins.
Present(rows)  == {k \in DOMAIN rows : rows[k].address # Absent}
Valid(rows)    == {k \in DOMAIN rows : rows[k].address \in Addresses}
Repeated(rows) == {k \in Valid(rows) : \E j \in 1..(k - 1) : rows[j].address = rows[k].address}

-----------------------------------------------------------------------------
(* importContacts. *)

(* Up to the lookup in the suppression list, the only one the import does.  The rows *)
(* that are left to be written keep their places in the input.                       *)
BeginImport(s, input, list) ==
  /\ imports[s].at = "none"
  /\ LET read     == SubSeq(input, 1, IF Len(input) < MaxRows THEN Len(input) ELSE MaxRows)
         firsts   == Valid(read) \ Repeated(read)
         sendable == {k \in firsts : read[k].address \notin suppressed}
     IN imports' = [imports EXCEPT ![s] =
          [at |-> IF sendable = {} THEN "done" ELSE "write", list |-> list,
           rows |-> [k \in sendable |-> read[k]], ids |-> {}, received |-> Cardinality(Present(read)), imported |-> 0,
           duplicates |-> Cardinality(Repeated(read)), invalid |-> Cardinality(Present(read) \ Valid(read)),
           skipped |-> Cardinality(firsts \ sendable), counted |-> {}, undisturbed |-> TRUE]]
  /\ UNCHANGED <<contacts, born, lists, members, suppressed>>

\* The places of the next CHUNK rows, and these rows.
Places(rows) == {k \in DOMAIN rows : Cardinality({j \in DOMAIN rows : j < k}) < Chunk}
NextChunk(s) == [k \in Places(imports[s].rows) |-> imports[s].rows[k]]

\* The rows whose address no contact has, and the ids they get.
New(chunk)        == {k \in DOMAIN chunk : With({chunk[k].address}) = {}}
NewId(chunk, k)   == born + Cardinality({j \in New(chunk) : j <= k})
Created(chunk, id) == chunk[CHOOSE k \in New(chunk) : NewId(chunk, k) = id]

UpsertedBlank(chunk) ==
  [id \in DOMAIN contacts \cup {NewId(chunk, k) : k \in New(chunk)} |->
     IF id \in DOMAIN contacts
     THEN LET same == {k \in DOMAIN chunk : chunk[k].address = contacts[id].address}
          IN IF same = {} THEN contacts[id] ELSE chunk[CHOOSE k \in same : TRUE]
     ELSE Created(chunk, id)]

\* The insert of a chunk: an address that is there keeps its row, and its name if none is given.
Upserted(chunk) ==
  [id \in DOMAIN contacts \cup {NewId(chunk, k) : k \in New(chunk)} |->
     IF id \in DOMAIN contacts
     THEN LET given == {chunk[k].name : k \in {j \in DOMAIN chunk : chunk[j].address = contacts[id].address}} \ {NoName}
          IN IF given = {} THEN contacts[id] ELSE [contacts[id] EXCEPT !.name = CHOOSE name \in given : TRUE]
     ELSE Created(chunk, id)]

WriteChunk(s) ==
  /\ imports[s].at = "write"
  /\ contacts' = Upserted(NextChunk(s))
  /\ born' = born + Cardinality(New(NextChunk(s)))
  /\ born' <= MaxContacts
  /\ imports' = [imports EXCEPT ![s].at = "select"]
  /\ UNCHANGED <<lists, members, suppressed>>

(* The ids of the chunk are read back by address. *)
SelectIds(s) ==
  /\ imports[s].at = "select"
  /\ imports' = [imports EXCEPT ![s].at = "attach", ![s].ids = With(AddressesOf(NextChunk(s)))]
  /\ UNCHANGED <<contacts, born, lists, members, suppressed>>

\* The summary after a chunk of which the contacts in added are counted as new; rest is left.
Summed(i, rest, added) ==
  [i EXCEPT !.at = IF rest = {} THEN "done" ELSE "write", !.rows = [k \in rest |-> i.rows[k]], !.ids = {},
            !.imported = @ + Cardinality(added), !.counted = @ \cup added, !.duplicates = @ + Cardinality(i.ids \ added)]

ChunkDoneCountingAll(s, added) ==
  LET i == imports[s]
  IN [imports EXCEPT ![s] = [Summed(i, DOMAIN i.rows \ Places(i.rows), added) EXCEPT !.imported = i.imported + Cardinality(i.ids)]]

ChunkDoneSkippingOne(s, added) ==
  LET i == imports[s]
  IN [imports EXCEPT ![s] = Summed(i, {k \in DOMAIN i.rows : Cardinality({j \in DOMAIN i.rows : j < k}) > Chunk}, added)]

\* The contacts in added are new to the list.
ChunkDone(s, added) ==
  LET i == imports[s]
  IN [imports EXCEPT ![s] = Summed(i, DOMAIN i.rows \ Places(i.rows), added)]

\* The insert of members has rows, and each refers to a list and to a contact that exist.
Attachable(i) == i.ids # {} /\ i.ids \subseteq DOMAIN contacts /\ i.list \in DOMAIN lists

AttachMembersCountingAll(s) ==
  /\ imports[s].at = "attach" /\ imports[s].list # NoList /\ Attachable(imports[s])
  /\ members' = members \cup {<<imports[s].list, id>> : id \in imports[s].ids}
  /\ imports' = ChunkDone(s, imports[s].ids)
  /\ UNCHANGED <<contacts, born, lists, suppressed>>

(* ON CONFLICT DO NOTHING .. RETURNING: what is returned is what this import added. *)
AttachMembers(s) ==
  /\ imports[s].at = "attach" /\ imports[s].list # NoList /\ Attachable(imports[s])
  /\ LET added == {id \in imports[s].ids : <<imports[s].list, id>> \notin members}
     IN /\ members' = members \cup {<<imports[s].list, id>> : id \in added}
        /\ imports' = ChunkDone(s, added)
  /\ UNCHANGED <<contacts, born, lists, suppressed>>

AttachToNothing(s) ==
  /\ imports[s].at = "attach" /\ imports[s].list = NoList
  /\ imports' = ChunkDone(s, imports[s].ids)
  /\ UNCHANGED <<contacts, born, lists, members, suppressed>>

Failed(s) ==
  /\ imports' = [imports EXCEPT ![s].at = "failed"]
  /\ UNCHANGED <<contacts, born, lists, members, suppressed>>

(* The insert of members is refused.  The chunks before it stay. *)
ImportRefused(s) == imports[s].at = "attach" /\ imports[s].list # NoList /\ ~Attachable(imports[s]) /\ Failed(s)

(* A statement fails. *)
ImportFails(s) == imports[s].at \in {"write", "select", "attach"} /\ Failed(s)

(* The answer leaves. *)
EndImport(s) ==
  /\ imports[s].at \in {"done", "failed"}
  /\ imports' = [imports EXCEPT ![s] = NoImport]
  /\ UNCHANGED <<contacts, born, lists, members, suppressed>>

ImportStep(s) ==
  WriteChunk(s) \/ SelectIds(s) \/ AttachMembers(s) \/ AttachToNothing(s) \/ ImportRefused(s)

-----------------------------------------------------------------------------
(* The other requests, one statement each. *)

\* History: something an import has written or is about to write was taken away.
Disturbed == [s \in Importers |->
  IF imports[s].at = "none" THEN NoImport ELSE [imports[s] EXCEPT !.undisturbed = FALSE]]

(* PATCH /contacts/:id; a second contact of the address is refused (409). *)
EditContact(id, address, name) ==
  /\ id \in DOMAIN contacts /\ With({address}) \subseteq {id}
  /\ contacts' = [contacts EXCEPT ![id] = [address |-> address, name |-> name]]
  /\ imports' = Disturbed
  /\ UNCHANGED <<born, lists, members, suppressed>>

\* DELETE: the members go with their contact or their list.
ContactsWithout(ids) == [id \in DOMAIN contacts \ ids |-> contacts[id]]
MembersWithout(ls, ids) == {m \in members : m[1] \notin ls /\ m[2] \notin ids}

DeleteContacts(ids) ==
  /\ ids \cap DOMAIN contacts # {}
  /\ contacts' = ContactsWithout(ids)
  /\ members' = MembersWithout({}, ids)
  /\ imports' = Disturbed
  /\ UNCHANGED <<born, lists, suppressed>>

(* DELETE /contacts with a list: from this list only. *)
RemoveFromList(list, ids) ==
  /\ \E id \in ids : <<list, id>> \in members
  /\ members' = {m \in members : ~(m[1] = list /\ m[2] \in ids)}
  /\ imports' = Disturbed
  /\ UNCHANGED <<contacts, born, lists, suppressed>>

\* POST /lists, and the test panel's.
ListsWith(list, test) == [l \in DOMAIN lists \cup {list} |-> IF l = list THEN test ELSE lists[l]]

(* POST /suppressions, or an unsubscribe link. *)
Suppress(address) ==
  /\ address \notin suppressed
  /\ suppressed' = suppressed \cup {address}
  /\ UNCHANGED <<contacts, born, lists, members, imports>>

(* DELETE /suppressions. *)
Unsuppress(address) ==
  /\ address \in suppressed
  /\ suppressed' = suppressed \ {address}
  /\ UNCHANGED <<contacts, born, lists, members, imports>>

-----------------------------------------------------------------------------
(* Properties. *)

\* The summary of an import that nobody disturbs accounts for every row that holds something, up to
\* the most that are read, once, although it is put together chunk by chunk and another import may
\* add the same people meanwhile.
SummaryAddsUp ==
  \A s \in Importers : imports[s].at = "done" /\ imports[s].undisturbed =>
    LET i == imports[s] IN i.imported + i.duplicates + i.invalid + i.skipped = i.received

\* Two imports into one list never both report the same person as newly added.
CountedByOne ==
  \A s, u \in Importers :
    /\ s # u /\ imports[s].at # "none" /\ imports[u].at # "none" /\ imports[s].list = imports[u].list
    /\ imports[s].list # NoList /\ imports[s].undisturbed /\ imports[u].undisturbed
    => imports[s].counted \cap imports[u].counted = {}

\* An import fills names in and never blanks one (import.ts:75), although the row it writes over may
\* have been edited, deleted or made anew since its file was read.
NamesAreKept ==
  [][imports' # imports =>
       \A id \in DOMAIN contacts \cap DOMAIN contacts' :
         contacts'[id].name = NoName => contacts[id].name = NoName \/ imports' = Disturbed]_contactVars
================================================================================
