--------------------------- MODULE TestCampaignsProofs ---------------------------
(***************************************************************************)
(* Proofs about imports and test campaigns (ContactImport, TestCampaigns), *)
(* for every chunk size, every number of imports under way and every set   *)
(* of creations: what nobody disturbs is done as asked, and nothing takes  *)
(* from others what is theirs.                                             *)
(***************************************************************************)
EXTENDS TestCampaigns, TLAPS, FiniteSetTheorems

-----------------------------------------------------------------------------
(* Types, and the inductive invariant. *)

Row       == [address : Addresses, name : Names \cup {NoName}]
RowSets   == UNION {[D -> Row] : D \in SUBSET (1..MaxRows)}
ListIds   == {0} \cup Creations
IdSets    == {ids \in SUBSET Nat : IsFiniteSet(ids)}
Imports   == [at : {"write", "select", "attach", "done", "failed"}, list : ListIds \cup {NoList}, rows : RowSets, ids : IdSets,
              received : Nat, imported : Nat, duplicates : Nat, invalid : Nat, skipped : Nat, counted : SUBSET Nat,
              undisturbed : BOOLEAN]
Copies    == [address : Addresses, contact : Nat \cup {NoContact}]
Campaigns == [status : {"DRAFT", "SCHEDULED", "SENDING", "COMPLETED", "CANCELLED"}, test : BOOLEAN,
              lists : SUBSET ListIds, rows : SUBSET Copies]
Makings   == [at : {"import", "importing", "select", "send", "made"}, n : Creations, by : Importers \cup {NoList},
              undisturbed : BOOLEAN]
Resets    == [at : {"stray", "lists", "campaign", "list", "people"}, campaign : ListIds, lists : SUBSET ListIds]

\* A table of contacts: an address has one.
Table(c, b) ==
  /\ b \in Nat /\ DOMAIN c \subseteq 1..b /\ c \in [DOMAIN c -> Row]
  /\ \A i, j \in DOMAIN c : c[i].address = c[j].address => i = j

\* The types of what ContactImport keeps, and of what TestCampaigns adds.
ContactTypes ==
  /\ Table(contacts, born)
  /\ lists \in [DOMAIN lists -> BOOLEAN]
  /\ members \subseteq (DOMAIN lists) \X (DOMAIN contacts)
  /\ suppressed \subseteq Addresses
  /\ imports \in [Importers -> {NoImport} \cup Imports]

CampaignTypes ==
  /\ campaigns \in [DOMAIN campaigns -> Campaigns] /\ DOMAIN campaigns \subseteq {0} \cup used
  /\ used \subseteq Creations /\ DOMAIN lists \subseteq {0} \cup used
  /\ making \in {Nothing} \cup Makings
  /\ reset \in {Nothing} \cup Resets

\* No two rows have one address.
Apart(rows) == \A j, k \in DOMAIN rows : rows[j].address = rows[k].address => j = k

\* The ids of some addresses, and the addresses of an import's next chunk.
IdsOf(c, addresses) == {id \in DOMAIN c : c[id].address \in addresses}
Coming(i) == {i.rows[k].address : k \in Places(i.rows)}

\* What an import knows, among contacts and members, as long as nobody disturbs it.
ImportIs(i, c, m) ==
  /\ Apart(i.rows)
  /\ i.at = "done" => DOMAIN i.rows = {}
  /\ i.undisturbed =>
       /\ i.at # "failed" =>
            i.imported + i.duplicates + i.invalid + i.skipped + Cardinality(DOMAIN i.rows) = i.received
       /\ i.at \in {"select", "attach"} => \A a \in Coming(i) : IdsOf(c, {a}) # {}
       /\ i.at = "attach" => i.ids = IdsOf(c, Coming(i))
       /\ i.list # NoList => \A id \in i.counted : <<i.list, id>> \in m

\* Every import is as described, and no two count the same person.
ImportsAre ==
  /\ \A s \in Importers : imports[s].at # "none" => ImportIs(imports[s], contacts, members)
  /\ CountedByOne

\* Nobody has heard of the lists and the addresses of a creation before it begins.
Unheard ==
  /\ \A s \in Importers : imports[s].at # "none" =>
       /\ imports[s].list \in {0, NoList} \cup used
       /\ \A n \in Creations \ used : AddressesOf(imports[s].rows) \cap Batch[n] = {}
  /\ \A n \in Creations \ used : With(Batch[n]) = {} /\ suppressed \cap Batch[n] = {}

\* What is not queued has no recipients.
Unqueued == \A c \in DOMAIN campaigns : campaigns[c].status \in {"DRAFT", "SCHEDULED"} => campaigns[c].rows = {}

\* The addresses that are members of a list.
OnList(l) == {contacts[x[2]].address : x \in {y \in members : y[1] = l}}

\* Nobody but s imports into the list.
OnlyInto(l, s) == \A u \in Importers \ {s} : imports[u].at # "none" => imports[u].list # l

\* The import of a creation: whom it has not written yet it will.
ImportOf(i, n) ==
  /\ i.at # "none" /\ i.list = n /\ AddressesOf(i.rows) \subseteq Batch[n]
  /\ i.at # "failed" => i.undisturbed /\ Batch[n] \subseteq AddressesOf(i.rows) \cup OnList(n)

\* The people of a creation that nobody disturbs: all of them on its list, or still to come.
Gathered(m) ==
  /\ Batch[m.n] \cap suppressed = {} /\ m.n \in DOMAIN lists
  /\ OnList(m.n) \subseteq Batch[m.n]
  /\ m.at = "import" => \A u \in Importers : imports[u].at # "none" => imports[u].list # m.n
  /\ m.at = "importing" => OnlyInto(m.n, m.by) /\ ImportOf(imports[m.by], m.n)
  /\ m.at \in {"select", "send", "made"} =>
       Batch[m.n] \subseteq OnList(m.n) /\ \A u \in Importers : imports[u].at # "none" => imports[u].list # m.n

\* And its campaign is for them.
Chosen(m) ==
  m.n \in DOMAIN campaigns =>
    /\ m.at \in {"send", "made"} => campaigns[m.n].lists = {m.n}
    /\ m.at = "made" /\ campaigns[m.n].status = "SENDING" => Recipients(m.n) = Batch[m.n]

\* The creation under way.
MakingIs ==
  making # Nothing =>
    /\ making.n \in used
    /\ making.at \in {"import", "importing"} => making.n \notin DOMAIN campaigns
    /\ making.at = "importing" => making.by \in Importers
    /\ making.undisturbed => Gathered(making) /\ Chosen(making)

\* The inductive invariant.
TestInv == ContactTypes /\ CampaignTypes /\ ImportsAre /\ Unheard /\ Unqueued /\ MakingIs

-----------------------------------------------------------------------------
(* Rows and contacts. *)

\* A table has finitely many ids, and so have the addresses looked up in it.
LEMMA IdsAreFew ==
  ASSUME NEW c, NEW b, Table(c, b), NEW addresses
  PROVE  /\ IsFiniteSet(DOMAIN c) /\ DOMAIN c \subseteq Nat /\ b \in Nat
         /\ IdsOf(c, addresses) \in IdSets
         /\ \A id \in DOMAIN c : c[id] \in Row /\ id <= b /\ id >= 1
<1>1. IsFiniteSet(1..b)
  BY FS_Interval DEF Table
<1>2. IsFiniteSet(DOMAIN c) /\ IsFiniteSet(IdsOf(c, addresses))
  BY <1>1, FS_Subset DEF Table, IdsOf
<1> QED BY <1>2 DEF Table, IdsOf, IdSets

\* Of a set of rows, their places are finite, and some of them are a set of rows.
LEMMA RowsAre ==
  ASSUME NEW rows \in RowSets
  PROVE  /\ IsFiniteSet(DOMAIN rows) /\ DOMAIN rows \subseteq Nat
         /\ \A k \in DOMAIN rows : rows[k] \in Row
         /\ \A D \in SUBSET DOMAIN rows : [k \in D |-> rows[k]] \in RowSets
         /\ AddressesOf(rows) \subseteq Addresses
<1>1. PICK D \in SUBSET (1..MaxRows) : rows \in [D -> Row]
  BY DEF RowSets
<1>2. IsFiniteSet(1..MaxRows)
  BY FS_Interval, ImportAssumption
<1>3. IsFiniteSet(D) /\ D \subseteq Nat /\ DOMAIN rows = D
  BY <1>1, <1>2, FS_Subset, ImportAssumption
<1>4. \A k \in D : rows[k] \in Row
  BY <1>1
<1>5. ASSUME NEW E \in SUBSET D PROVE [k \in E |-> rows[k]] \in RowSets
  <2>1. [k \in E |-> rows[k]] \in [E -> Row] /\ E \in SUBSET (1..MaxRows)
    BY <1>4
  <2> QED BY <2>1 DEF RowSets
<1>6. AddressesOf(rows) \subseteq Addresses
  BY <1>3, <1>4 DEF AddressesOf, Row
<1> QED BY <1>3, <1>4, <1>5, <1>6

\* What is chosen is of what is there.
LEMMA PlacesAre ==
  ASSUME NEW rows
  PROVE  Places(rows) \subseteq DOMAIN rows
  BY DEF Places

\* New rows get ids of their own, beyond those there were.
LEMMA NewIdsAre ==
  ASSUME NEW chunk \in RowSets, born \in Nat
  PROVE  /\ Cardinality(New(chunk)) \in Nat
         /\ \A k \in New(chunk) : NewId(chunk, k) \in (born + 1)..(born + Cardinality(New(chunk)))
         /\ \A j, k \in New(chunk) : NewId(chunk, j) = NewId(chunk, k) => j = k
<1> DEFINE N == New(chunk)
           upTo(k) == {j \in N : j <= k}
<1>1. N \subseteq DOMAIN chunk /\ IsFiniteSet(N) /\ N \subseteq Nat
  <2>1. N \subseteq DOMAIN chunk
    BY DEF New
  <2> QED BY <2>1, RowsAre, FS_Subset
<1>2. Cardinality(N) \in Nat
  BY <1>1, FS_CardinalityType
<1>3. ASSUME NEW k \in N
      PROVE  /\ IsFiniteSet(upTo(k)) /\ Cardinality(upTo(k)) \in Nat
             /\ Cardinality(upTo(k)) <= Cardinality(N) /\ Cardinality(upTo(k)) > 0
  <2>1. upTo(k) \subseteq N /\ k \in upTo(k)
    BY <1>1, <1>3
  <2>2. IsFiniteSet(upTo(k)) /\ Cardinality(upTo(k)) <= Cardinality(N)
    BY <1>1, <2>1, FS_Subset
  <2>3. Cardinality(upTo(k)) \in Nat /\ Cardinality(upTo(k)) # 0
    BY <2>1, <2>2, FS_CardinalityType, FS_EmptySet
  <2> QED BY <2>2, <2>3
<1>4. \A k \in N : NewId(chunk, k) = born + Cardinality(upTo(k))
  BY DEF NewId
<1>5. ASSUME NEW j \in N, NEW k \in N, j < k PROVE Cardinality(upTo(j)) < Cardinality(upTo(k))
  <2>1. upTo(j) \subseteq upTo(k) /\ k \in upTo(k) /\ k \notin upTo(j)
    BY <1>1, <1>5
  <2>2. upTo(j) # upTo(k)
    BY <2>1
  <2>3. Cardinality(upTo(j)) <= Cardinality(upTo(k)) /\ Cardinality(upTo(j)) # Cardinality(upTo(k))
    BY <1>3, <2>1, <2>2, FS_Subset
  <2> QED BY <1>3, <2>3
<1>6. ASSUME NEW j \in N, NEW k \in N, NewId(chunk, j) = NewId(chunk, k) PROVE j = k
  <2>0. PICK x, y \in Nat : x = Cardinality(upTo(j)) /\ y = Cardinality(upTo(k))
    BY <1>3
  <2>1. Cardinality(upTo(j)) = Cardinality(upTo(k))
    <3>1. born + x = born + y
      BY <1>4, <1>6, <2>0
    <3> QED BY <2>0, <3>1
  <2>2. ~(j < k) /\ ~(k < j)
    BY <1>3, <1>5, <2>1
  <2> QED BY <1>1, <2>2
<1>7. ASSUME NEW k \in N PROVE NewId(chunk, k) \in (born + 1)..(born + Cardinality(N))
  <2>1. PICK x, y \in Nat : x = Cardinality(upTo(k)) /\ y = Cardinality(N)
    BY <1>2, <1>3
  <2>2. x <= y /\ x > 0 /\ NewId(chunk, k) = born + x
    BY <1>3, <1>4, <2>1
  <2>3. born + x \in (born + 1)..(born + y)
    BY <2>2
  <2> QED BY <2>1, <2>2, <2>3
<1> QED BY <1>2, <1>6, <1>7

\* What the insert of a chunk leaves: those who were there, with their address and a name if they had
\* one, and the rows of the chunk that were new.
LEMMA UpsertIs ==
  ASSUME Table(contacts, born), NEW chunk \in RowSets, Apart(chunk),
         contacts' = Upserted(chunk), born' = born + Cardinality(New(chunk))
  PROVE  /\ Table(contacts', born')
         /\ DOMAIN contacts \subseteq DOMAIN contacts'
         /\ \A id \in DOMAIN contacts : /\ contacts'[id].address = contacts[id].address
                                        /\ contacts'[id].name = NoName => contacts[id].name = NoName
         /\ \A id \in DOMAIN contacts' \ DOMAIN contacts :
              contacts'[id].address \in AddressesOf(chunk) /\ IdsOf(contacts, {contacts'[id].address}) = {}
         /\ \A a \in AddressesOf(chunk) : IdsOf(contacts', {a}) # {}
<1> DEFINE N   == New(chunk)
           ids == {NewId(chunk, k) : k \in N}
<1>1. born \in Nat /\ DOMAIN contacts \subseteq 1..born /\ \A id \in DOMAIN contacts : contacts[id] \in Row
  BY DEF Table
<1>2. /\ Cardinality(N) \in Nat
      /\ \A k \in N : NewId(chunk, k) \in (born + 1)..(born + Cardinality(N))
      /\ \A j, k \in N : NewId(chunk, j) = NewId(chunk, k) => j = k
  BY <1>1, NewIdsAre
<1>3. N \subseteq DOMAIN chunk /\ \A k \in DOMAIN chunk : chunk[k] \in Row
  BY RowsAre DEF New
<1>4. DOMAIN contacts' = DOMAIN contacts \cup ids
  BY DEF Upserted
<1>5. \A id \in ids : id \in Nat /\ id > born /\ id <= born + Cardinality(N) /\ id \notin DOMAIN contacts
  BY <1>1, <1>2
<1>6. ASSUME NEW k \in N PROVE NewId(chunk, k) \in DOMAIN contacts' /\ contacts'[NewId(chunk, k)] = chunk[k]
  <2>1. NewId(chunk, k) \in ids
    OBVIOUS
  <2>2. contacts'[NewId(chunk, k)] = Created(chunk, NewId(chunk, k))
    BY <1>4, <1>5, <2>1 DEF Upserted
  <2>3. (CHOOSE j \in New(chunk) : NewId(chunk, j) = NewId(chunk, k)) = k
    BY <1>2
  <2> QED BY <1>4, <2>1, <2>2, <2>3 DEF Created
<1>7. ASSUME NEW id \in DOMAIN contacts
      PROVE  /\ contacts'[id] \in Row /\ contacts'[id].address = contacts[id].address
             /\ contacts'[id].name = NoName => contacts[id].name = NoName
  <2> DEFINE given == {chunk[k].name : k \in {j \in DOMAIN chunk : chunk[j].address = contacts[id].address}} \ {NoName}
  <2>1. contacts'[id] = IF given = {} THEN contacts[id] ELSE [contacts[id] EXCEPT !.name = CHOOSE name \in given : TRUE]
    BY <1>4 DEF Upserted
  <2>2. CASE given = {}
    BY <1>1, <2>1, <2>2
  <2>3. CASE given # {}
    <3>1. PICK name : name = (CHOOSE x \in given : TRUE)
      OBVIOUS
    <3>2. name \in given
      BY <2>3, <3>1
    <3>3. name \in Names \cup {NoName} /\ name # NoName
      BY <1>3, <3>2 DEF Row
    <3>4. contacts'[id] = [contacts[id] EXCEPT !.name = name]
      BY <2>1, <2>3, <3>1
    <3>5. contacts'[id] = [address |-> contacts[id].address, name |-> name] /\ contacts[id].address \in Addresses
      BY <1>1, <3>4 DEF Row
    <3> QED BY <3>3, <3>5 DEF Row
  <2> QED BY <2>2, <2>3
<1>8. \A k \in N : \A id \in DOMAIN contacts : contacts[id].address # chunk[k].address
  BY DEF New, With
<1>9. \A id \in DOMAIN contacts' : contacts'[id] \in Row
  BY <1>3, <1>4, <1>6, <1>7
<1>10. ASSUME NEW i \in DOMAIN contacts', NEW j \in DOMAIN contacts', contacts'[i].address = contacts'[j].address
       PROVE  i = j
  <2>1. CASE i \in DOMAIN contacts /\ j \in DOMAIN contacts
    BY <1>7, <1>10, <2>1 DEF Table
  <2>2. CASE i \in DOMAIN contacts /\ j \in ids
    <3>1. PICK k \in N : j = NewId(chunk, k)
      BY <2>2
    <3> QED BY <1>6, <1>7, <1>8, <1>10, <2>2, <3>1
  <2>3. CASE i \in ids /\ j \in DOMAIN contacts
    <3>1. PICK k \in N : i = NewId(chunk, k)
      BY <2>3
    <3> QED BY <1>6, <1>7, <1>8, <1>10, <2>3, <3>1
  <2>4. CASE i \in ids /\ j \in ids
    <3>1. PICK k, l \in N : i = NewId(chunk, k) /\ j = NewId(chunk, l)
      BY <2>4
    <3>2. chunk[k].address = chunk[l].address
      BY <1>6, <1>10, <3>1
    <3> QED BY <1>3, <3>1, <3>2 DEF Apart
  <2> QED BY <1>4, <2>1, <2>2, <2>3, <2>4
<1>11. Table(contacts', born')
  <2>1. born' \in Nat /\ DOMAIN contacts' \subseteq 1..born'
    BY <1>1, <1>2, <1>4, <1>5
  <2>2. contacts' \in [DOMAIN contacts' -> Row]
    BY <1>9 DEF Upserted
  <2> QED BY <1>10, <2>1, <2>2 DEF Table
<1>12. ASSUME NEW id \in DOMAIN contacts' \ DOMAIN contacts
       PROVE  contacts'[id].address \in AddressesOf(chunk) /\ IdsOf(contacts, {contacts'[id].address}) = {}
  <2>1. PICK k \in N : id = NewId(chunk, k)
    BY <1>4, <1>12
  <2> QED BY <1>3, <1>6, <1>8, <2>1 DEF AddressesOf, IdsOf
<1>13. ASSUME NEW a \in AddressesOf(chunk) PROVE IdsOf(contacts', {a}) # {}
  <2>1. PICK k \in DOMAIN chunk : a = chunk[k].address
    BY <1>13 DEF AddressesOf
  <2>2. CASE k \in N
    BY <1>6, <2>1, <2>2 DEF IdsOf
  <2>3. CASE k \notin N
    <3>1. PICK id \in DOMAIN contacts : contacts[id].address = a
      BY <2>1, <2>3 DEF New, With
    <3> QED BY <1>4, <1>7, <3>1 DEF IdsOf
  <2> QED BY <2>2, <2>3
<1> QED BY <1>4, <1>7, <1>11, <1>12, <1>13

\* A finite set has as many elements as a part of it and the rest together.
LEMMA PartsAddUp ==
  ASSUME NEW S, IsFiniteSet(S), NEW T \in SUBSET S
  PROVE  /\ Cardinality(S) \in Nat /\ Cardinality(T) \in Nat /\ Cardinality(S \ T) \in Nat
         /\ Cardinality(S) = Cardinality(T) + Cardinality(S \ T)
<1>1. IsFiniteSet(T) /\ IsFiniteSet(S \ T)
  BY FS_Subset
<1>2. Cardinality(S) \in Nat /\ Cardinality(T) \in Nat /\ Cardinality(S \ T) \in Nat
  BY <1>1, FS_CardinalityType
<1>3. T \cap (S \ T) = {} /\ T \cup (S \ T) = S
  OBVIOUS
<1>4. Cardinality(T \cup (S \ T)) = Cardinality(T) + Cardinality(S \ T) - Cardinality(T \cap (S \ T))
  BY <1>1, FS_Union
<1>5. Cardinality(T \cap (S \ T)) = 0
  BY <1>3, FS_EmptySet
<1>6. PICK x \in Nat, y \in Nat, z \in Nat : x = Cardinality(S) /\ y = Cardinality(T) /\ z = Cardinality(S \ T)
  BY <1>2
<1>7. x = y + z - 0
  BY <1>3, <1>4, <1>5, <1>6
<1>8. x = y + z
  BY <1>6, <1>7
<1> QED BY <1>2, <1>6, <1>8

\* Rows of different addresses, each of which has its contact, have as many contacts.
LEMMA AsManyIds ==
  ASSUME NEW c, NEW b, Table(c, b), NEW rows \in RowSets, Apart(rows), NEW D \in SUBSET DOMAIN rows,
         \A a \in {rows[k].address : k \in D} : IdsOf(c, {a}) # {}
  PROVE  Cardinality(IdsOf(c, {rows[k].address : k \in D})) = Cardinality(D)
<1> DEFINE ids == IdsOf(c, {rows[k].address : k \in D})
           place(id) == CHOOSE k \in D : rows[k].address = c[id].address
<1>1. IsFiniteSet(ids) /\ IsFiniteSet(D)
  BY IdsAreFew, RowsAre, FS_Subset DEF IdSets
<1>2. \A id \in ids : place(id) \in D /\ rows[place(id)].address = c[id].address
  BY DEF IdsOf
<1>3. PICK f : f = [id \in ids |-> place(id)]
  OBVIOUS
<1>4. f \in [ids -> D] /\ \A id \in ids : f[id] \in D /\ rows[f[id]].address = c[id].address
  BY <1>2, <1>3
<1>5. \A i, j \in ids : f[i] = f[j] => i = j
  BY <1>4 DEF Table, IdsOf
<1>6. \A k \in D : \E id \in ids : f[id] = k
  <2> TAKE k \in D
  <2>1. PICK id \in DOMAIN c : c[id].address = rows[k].address
    BY DEF IdsOf
  <2>2. id \in ids
    BY <2>1 DEF IdsOf
  <2>3. f[id] = k
    BY <1>4, <2>1, <2>2 DEF Apart
  <2> QED BY <2>2, <2>3
<1>7. f \in Bijection(ids, D)
  BY <1>4, <1>5, <1>6 DEF Bijection, Injection, Surjection, IsInjective
<1>8. ExistsBijection(ids, D)
  BY <1>7 DEF ExistsBijection
<1> QED BY <1>1, <1>8, FS_Bijection

\* SetToSeq puts the elements of a finite set in a row, each once.
LEMMA SetInARow ==
  ASSUME NEW S, IsFiniteSet(S)
  PROVE  /\ SetToSeq(S) \in [1..Cardinality(S) -> S] /\ SetToSeq(S) \in Seq(S) /\ Len(SetToSeq(S)) = Cardinality(S)
         /\ \A e \in S : \E k \in 1..Cardinality(S) : SetToSeq(S)[k] = e
         /\ \A j, k \in 1..Cardinality(S) : SetToSeq(S)[j] = SetToSeq(S)[k] => j = k
<1>1. Cardinality(S) \in Nat /\ ExistsBijection(1..Cardinality(S), S)
  BY FS_CardinalityType
<1>2. PICK f : f \in Bijection(1..Cardinality(S), S)
  BY <1>1 DEF ExistsBijection
<1>3. f \in [1..Cardinality(S) -> S] /\ IsInjective(f)
  BY <1>2 DEF Bijection, Injection
<1>4. PICK g : g = SetToSeq(S)
  OBVIOUS
<1>5. g \in [1..Cardinality(S) -> S] /\ IsInjective(g)
  BY <1>3, <1>4 DEF SetToSeq
<1>6. g \in Injection(1..Cardinality(S), S)
  BY <1>5 DEF Injection
<1>7. IsFiniteSet(1..Cardinality(S)) /\ Cardinality(1..Cardinality(S)) = Cardinality(S)
  <2>1. PICK n \in Nat : n = Cardinality(S)
    BY <1>1
  <2>2. IsFiniteSet(1..n) /\ Cardinality(1..n) = IF 1 > n THEN 0 ELSE n - 1 + 1
    BY FS_Interval
  <2>3. IsFiniteSet(1..n) /\ Cardinality(1..n) = n
    BY <2>2
  <2> QED BY <2>1, <2>3
<1>8. g \in Surjection(1..Cardinality(S), S)
  BY <1>6, <1>7, FS_Injection
<1>9. \A e \in S : \E k \in 1..Cardinality(S) : g[k] = e
  BY <1>8 DEF Surjection
<1>10. g \in Seq(S) /\ Len(g) = Cardinality(S)
  <2>1. PICK n \in Nat : n = Cardinality(S)
    BY <1>1
  <2> QED BY <1>5, <2>1
<1>11. \A j, k \in 1..Cardinality(S) : g[j] = g[k] => j = k
  BY <1>5 DEF IsInjective
<1> QED BY <1>4, <1>5, <1>9, <1>10, <1>11

\* What an import is when its rows have been prepared.
LEMMA StartedIs ==
  ASSUME NEW s \in Importers, NEW input \in Seq(InputRows), NEW list \in ListIds \cup {NoList},
         BeginImport(s, input, list)
  PROVE  \E i \in Imports :
           /\ imports' = [imports EXCEPT ![s] = i]
           /\ i.at # "failed" /\ i.list = list /\ i.undisturbed /\ i.counted = {}
           /\ ImportIs(i, contacts, members)
           /\ AddressesOf(i.rows) \subseteq AddressesOf(input)
           /\ Len(input) <= MaxRows /\ Apart(input) /\ AddressesOf(input) \subseteq Addresses \ suppressed
                => AddressesOf(input) \subseteq AddressesOf(i.rows)
<1>1. PICK read : read = SubSeq(input, 1, IF Len(input) < MaxRows THEN Len(input) ELSE MaxRows)
  OBVIOUS
<1> DEFINE firsts   == Valid(read) \ Repeated(read)
           sendable == {k \in firsts : read[k].address \notin suppressed}
           rows     == [k \in sendable |-> read[k]]
           i        == [at |-> IF sendable = {} THEN "done" ELSE "write", list |-> list,
                        rows |-> rows, ids |-> {}, received |-> Cardinality(Present(read)), imported |-> 0,
                        duplicates |-> Cardinality(Repeated(read)), invalid |-> Cardinality(Present(read) \ Valid(read)),
                        skipped |-> Cardinality(firsts \ sendable), counted |-> {}, undisturbed |-> TRUE]
<1>2. imports' = [imports EXCEPT ![s] = i]
  BY <1>1 DEF BeginImport
<1>3. /\ DOMAIN read \subseteq 1..MaxRows /\ DOMAIN read \subseteq DOMAIN input
      /\ \A k \in DOMAIN read : read[k] = input[k] /\ read[k] \in InputRows
      /\ Len(input) <= MaxRows => DOMAIN read = DOMAIN input
  <2>1. PICK n \in Nat : n = IF Len(input) < MaxRows THEN Len(input) ELSE MaxRows
    BY ImportAssumption
  <2>2. n <= MaxRows /\ n <= Len(input) /\ (Len(input) <= MaxRows => n = Len(input)) /\ Len(input) \in Nat
    BY <2>1, ImportAssumption
  <2>3. read = SubSeq(input, 1, n)
    BY <1>1, <2>1
  <2>4. Len(read) = n /\ DOMAIN read = 1..n /\ \A k \in 1..n : read[k] = input[k]
    BY <2>2, <2>3
  <2>5. DOMAIN input = 1..Len(input) /\ \A k \in 1..Len(input) : input[k] \in InputRows
    OBVIOUS
  <2>6. 1..n \subseteq 1..MaxRows /\ 1..n \subseteq 1..Len(input)
    BY <2>2, ImportAssumption
  <2>7. \A k \in 1..n : input[k] \in InputRows
    BY <2>5, <2>6
  <2> QED BY <2>2, <2>4, <2>5, <2>6, <2>7
<1>4. IsFiniteSet(Present(read)) /\ Present(read) \subseteq DOMAIN read
  <2>1. IsFiniteSet(1..MaxRows)
    BY FS_Interval, ImportAssumption
  <2>2. Present(read) \subseteq DOMAIN read
    BY DEF Present
  <2> QED BY <1>3, <2>1, <2>2, FS_Subset
<1>5. /\ Valid(read) \subseteq Present(read) /\ Repeated(read) \subseteq Valid(read)
      /\ firsts \subseteq Valid(read) /\ sendable \subseteq firsts
  BY ImportAssumption DEF Valid, Present, Repeated
<1>6. IsFiniteSet(Valid(read)) /\ IsFiniteSet(firsts) /\ IsFiniteSet(sendable)
  BY <1>4, <1>5, FS_Subset
<1>7. /\ Cardinality(Present(read)) \in Nat /\ Cardinality(Repeated(read)) \in Nat
      /\ Cardinality(Present(read) \ Valid(read)) \in Nat
      /\ Cardinality(firsts \ sendable) \in Nat /\ Cardinality(sendable) \in Nat
      /\ 0 + Cardinality(Repeated(read)) + Cardinality(Present(read) \ Valid(read)) + Cardinality(firsts \ sendable)
           + Cardinality(sendable) = Cardinality(Present(read))
  <2>1. /\ Cardinality(Present(read)) \in Nat /\ Cardinality(Valid(read)) \in Nat
        /\ Cardinality(Present(read) \ Valid(read)) \in Nat
        /\ Cardinality(Present(read)) = Cardinality(Valid(read)) + Cardinality(Present(read) \ Valid(read))
    BY <1>4, <1>5, PartsAddUp
  <2>2. /\ Cardinality(Repeated(read)) \in Nat /\ Cardinality(firsts) \in Nat
        /\ Cardinality(Valid(read)) = Cardinality(Repeated(read)) + Cardinality(firsts)
    BY <1>5, <1>6, PartsAddUp
  <2>3. /\ Cardinality(sendable) \in Nat /\ Cardinality(firsts \ sendable) \in Nat
        /\ Cardinality(firsts) = Cardinality(sendable) + Cardinality(firsts \ sendable)
    BY <1>5, <1>6, PartsAddUp
  <2>4. PICK p \in Nat, v \in Nat, pv \in Nat, r \in Nat, f \in Nat, d \in Nat, fd \in Nat :
          /\ p = Cardinality(Present(read)) /\ v = Cardinality(Valid(read)) /\ pv = Cardinality(Present(read) \ Valid(read))
          /\ r = Cardinality(Repeated(read)) /\ f = Cardinality(firsts)
          /\ d = Cardinality(sendable) /\ fd = Cardinality(firsts \ sendable)
    BY <2>1, <2>2, <2>3
  <2>5. p \in Nat /\ v \in Nat /\ pv \in Nat /\ r \in Nat /\ f \in Nat /\ d \in Nat /\ fd \in Nat
    OBVIOUS
  <2>6. p = v + pv /\ v = r + f /\ f = d + fd
    BY <2>1, <2>2, <2>3, <2>4
  <2>7. \A a, b, c, e, g, h, j \in Nat : a = b + c /\ b = e + g /\ g = h + j => 0 + e + c + j + h = a
    OBVIOUS
  <2>8. 0 + r + pv + fd + d = p
    BY <2>5, <2>6, <2>7
  <2> QED BY <2>4, <2>8
<1>8. \A k \in sendable : read[k] \in Row /\ read[k].address \in Addresses
  BY <1>3, <1>4, <1>5 DEF Valid, InputRows, Row
<1>9. rows \in RowSets
  <2>1. sendable \in SUBSET (1..MaxRows)
    BY <1>3, <1>4, <1>5
  <2>2. rows \in [sendable -> Row]
    BY <1>8
  <2> QED BY <2>1, <2>2 DEF RowSets
<1>10. i \in Imports
  <2>1. {} \in IdSets
    BY FS_EmptySet DEF IdSets
  <2> QED BY <1>7, <1>9, <2>1 DEF Imports
<1>11. Apart(rows)
  <2> SUFFICES ASSUME NEW j \in sendable, NEW k \in sendable, read[j].address = read[k].address, j # k
               PROVE  FALSE
    BY DEF Apart
  <2>1. j \in Nat /\ k \in Nat /\ j >= 1 /\ k >= 1
    BY <1>3, <1>4, <1>5
  <2>2. CASE j < k
    <3>1. j \in 1..(k - 1) /\ k \in Repeated(read)
      BY <1>5, <2>1, <2>2 DEF Repeated
    <3> QED BY <3>1
  <2>3. CASE k < j
    <3>1. k \in 1..(j - 1) /\ j \in Repeated(read)
      BY <1>5, <2>1, <2>3 DEF Repeated
    <3> QED BY <3>1
  <2> QED BY <2>1, <2>2, <2>3
<1>12. ImportIs(i, contacts, members)
  BY <1>7, <1>11 DEF ImportIs
<1>13. AddressesOf(rows) \subseteq AddressesOf(input)
  BY <1>3, <1>4, <1>5 DEF AddressesOf
<1>14. ASSUME Len(input) <= MaxRows, Apart(input), AddressesOf(input) \subseteq Addresses \ suppressed
       PROVE  AddressesOf(input) \subseteq AddressesOf(rows)
  <2>1. DOMAIN read = DOMAIN input /\ \A k \in DOMAIN input : read[k] = input[k]
    BY <1>3, <1>14
  <2>2. Repeated(read) = {}
    <3> SUFFICES ASSUME NEW k \in Valid(read), NEW j \in 1..(k - 1), read[j].address = read[k].address PROVE FALSE
      BY DEF Repeated
    <3>1. k \in DOMAIN input /\ DOMAIN input = 1..Len(input) /\ Len(input) \in Nat
      BY <1>3 DEF Valid
    <3>2. j \in DOMAIN input /\ j # k
      BY <3>1
    <3> QED BY <1>14, <2>1, <3>1, <3>2 DEF Apart
  <2>3. \A k \in DOMAIN input : k \in sendable
    BY <1>14, <2>1, <2>2 DEF AddressesOf, Valid
  <2> QED BY <2>1, <2>3 DEF AddressesOf
<1>15. i.at # "failed" /\ i.list = list /\ i.undisturbed /\ i.counted = {} /\ i.rows = rows
  OBVIOUS
<1> HIDE DEF i, rows
<1> QED BY <1>2, <1>10, <1>12, <1>13, <1>14, <1>15

\* Contacts were created, and none was edited or deleted.
Grown(c, d) ==
  /\ DOMAIN c \subseteq DOMAIN d
  /\ \A id \in DOMAIN c : d[id].address = c[id].address
  /\ \A id \in DOMAIN d \ DOMAIN c : IdsOf(c, {d[id].address}) = {}

\* An import that nobody disturbs keeps what it knows while contacts are created and members added.
LEMMA ImportKept ==
  ASSUME NEW c, NEW d, Grown(c, d), NEW m, NEW n, m \subseteq n, NEW i, ImportIs(i, c, m)
  PROVE  ImportIs(i, d, n)
<1>1. \A a : IdsOf(c, {a}) # {} => IdsOf(d, {a}) # {}
  BY DEF Grown, IdsOf
<1>2. ASSUME \A a \in Coming(i) : IdsOf(c, {a}) # {} PROVE IdsOf(d, Coming(i)) = IdsOf(c, Coming(i))
  <2>1. IdsOf(c, Coming(i)) \subseteq IdsOf(d, Coming(i))
    BY DEF Grown, IdsOf
  <2>2. ASSUME NEW id \in IdsOf(d, Coming(i)) PROVE id \in IdsOf(c, Coming(i))
    <3>1. id \in DOMAIN d /\ d[id].address \in Coming(i)
      BY DEF IdsOf
    <3>2. id \in DOMAIN c
      BY <1>2, <3>1 DEF Grown
    <3> QED BY <3>1, <3>2 DEF Grown, IdsOf
  <2> QED BY <2>1, <2>2
<1>3. i.undisturbed /\ i.at = "attach" => i.ids = IdsOf(d, Coming(i))
  BY <1>2 DEF ImportIs
<1> QED BY <1>1, <1>3 DEF ImportIs

\* What an import is when one more chunk of it is done.
LEMMA SummedIs ==
  ASSUME NEW c, NEW b, Table(c, b), NEW m, NEW n, m \subseteq n,
         NEW i \in Imports, ImportIs(i, c, m), i.at = "attach", NEW added \in SUBSET i.ids,
         i.list # NoList => \A id \in added : <<i.list, id>> \in n
  PROVE  LET j == Summed(i, DOMAIN i.rows \ Places(i.rows), added)
         IN /\ j \in Imports /\ ImportIs(j, c, n)
            /\ j.at # "failed" /\ j.list = i.list /\ j.undisturbed = i.undisturbed /\ j.counted = i.counted \cup added
            /\ AddressesOf(j.rows) \subseteq AddressesOf(i.rows)
            /\ AddressesOf(i.rows) \subseteq AddressesOf(j.rows) \cup Coming(i)
<1> DEFINE rest == DOMAIN i.rows \ Places(i.rows)
           rows == [k \in rest |-> i.rows[k]]
           j    == Summed(i, rest, added)
<1>1. i.rows \in RowSets /\ i.ids \subseteq Nat /\ IsFiniteSet(i.ids) /\ i.imported \in Nat /\ i.duplicates \in Nat
  BY DEF Imports, IdSets
<1>2. IsFiniteSet(DOMAIN i.rows) /\ Places(i.rows) \subseteq DOMAIN i.rows /\ rows \in RowSets
  BY <1>1, RowsAre, PlacesAre
<1>3. /\ Cardinality(added) \in Nat /\ Cardinality(i.ids \ added) \in Nat
      /\ Cardinality(i.ids) = Cardinality(added) + Cardinality(i.ids \ added)
  BY <1>1, PartsAddUp
<1>4. /\ Cardinality(Places(i.rows)) \in Nat /\ Cardinality(rest) \in Nat
      /\ Cardinality(DOMAIN i.rows) = Cardinality(Places(i.rows)) + Cardinality(rest)
  BY <1>2, PartsAddUp
<1>5. PICK x \in Nat, y \in Nat : x = Cardinality(added) /\ y = Cardinality(i.ids \ added)
  BY <1>3
<1>6. j = [at |-> IF rest = {} THEN "done" ELSE "write", list |-> i.list, rows |-> rows, ids |-> {},
           received |-> i.received, imported |-> i.imported + x, duplicates |-> i.duplicates + y, invalid |-> i.invalid,
           skipped |-> i.skipped, counted |-> i.counted \cup added, undisturbed |-> i.undisturbed]
  <2>1. i = [at |-> i.at, list |-> i.list, rows |-> i.rows, ids |-> i.ids, received |-> i.received, imported |-> i.imported,
             duplicates |-> i.duplicates, invalid |-> i.invalid, skipped |-> i.skipped, counted |-> i.counted,
             undisturbed |-> i.undisturbed]
    BY DEF Imports
  <2>2. j = [i EXCEPT !.at = IF rest = {} THEN "done" ELSE "write", !.rows = rows, !.ids = {}, !.imported = @ + x,
                      !.counted = @ \cup added, !.duplicates = @ + y]
    BY <1>5 DEF Summed
  <2> QED BY <2>1, <2>2
<1>7. j \in Imports
  <2>1. {} \in IdSets
    BY FS_EmptySet DEF IdSets
  <2>2. i.imported + x \in Nat /\ i.duplicates + y \in Nat
    BY <1>1
  <2>3. i.counted \cup added \in SUBSET Nat
    BY <1>1 DEF Imports
  <2>4. /\ i.list \in ListIds \cup {NoList} /\ i.received \in Nat /\ i.invalid \in Nat /\ i.skipped \in Nat
        /\ i.undisturbed \in BOOLEAN /\ (IF rest = {} THEN "done" ELSE "write") \in {"write", "select", "attach", "done", "failed"}
    BY DEF Imports
  <2> HIDE DEF j, rows, rest
  <2> QED BY <1>2, <1>6, <2>1, <2>2, <2>3, <2>4 DEF Imports
<1>8. Apart(rows) /\ DOMAIN rows = rest
  BY <1>2 DEF ImportIs, Apart
<1>9. ASSUME i.undisturbed
      PROVE  /\ i.imported + x + (i.duplicates + y) + i.invalid + i.skipped + Cardinality(rest) = i.received
             /\ i.list # NoList => \A id \in i.counted \cup added : <<i.list, id>> \in n
  <2>1. i.ids = IdsOf(c, Coming(i)) /\ \A a \in Coming(i) : IdsOf(c, {a}) # {}
    BY <1>9 DEF ImportIs
  <2>2. Cardinality(i.ids) = Cardinality(Places(i.rows))
    <3>1. Apart(i.rows) /\ Places(i.rows) \in SUBSET DOMAIN i.rows
      BY <1>2 DEF ImportIs
    <3>2. Coming(i) = {i.rows[k].address : k \in Places(i.rows)}
      BY DEF Coming
    <3>3. \A a \in {i.rows[k].address : k \in Places(i.rows)} : IdsOf(c, {a}) # {}
      BY <2>1, <3>2
    <3>4. Cardinality(IdsOf(c, {i.rows[k].address : k \in Places(i.rows)})) = Cardinality(Places(i.rows))
      BY <1>1, <3>1, <3>3, AsManyIds
    <3> QED BY <2>1, <3>2, <3>4
  <2>3. i.imported + i.duplicates + i.invalid + i.skipped + Cardinality(DOMAIN i.rows) = i.received
    BY <1>9 DEF ImportIs
  <2>4. PICK p \in Nat, r \in Nat : p = Cardinality(Places(i.rows)) /\ r = Cardinality(rest)
    BY <1>4
  <2>5. PICK im \in Nat, du \in Nat, iv \in Nat, sk \in Nat, re \in Nat :
          im = i.imported /\ du = i.duplicates /\ iv = i.invalid /\ sk = i.skipped /\ re = i.received
    BY DEF Imports
  <2>6. p = x + y /\ im + du + iv + sk + (p + r) = re
    BY <1>3, <1>4, <1>5, <2>2, <2>3, <2>4, <2>5
  <2>7. p \in Nat /\ r \in Nat /\ x \in Nat /\ y \in Nat /\ im \in Nat /\ du \in Nat /\ iv \in Nat /\ sk \in Nat /\ re \in Nat
    OBVIOUS
  <2>8. im + x + (du + y) + iv + sk + r = re
    BY <2>6, <2>7
  <2> QED BY <1>9, <2>4, <2>5, <2>8 DEF ImportIs
<1>10. ImportIs(j, c, n)
  <2>1. rest = {} <=> j.at = "done"
    BY <1>6
  <2> QED BY <1>6, <1>8, <1>9, <2>1 DEF ImportIs
<1>11. AddressesOf(rows) \subseteq AddressesOf(i.rows)
  BY <1>2 DEF AddressesOf
<1>12. AddressesOf(i.rows) \subseteq AddressesOf(rows) \cup Coming(i)
  BY <1>2 DEF AddressesOf, Coming
<1>13. j.at # "failed" /\ j.list = i.list /\ j.undisturbed = i.undisturbed /\ j.counted = i.counted \cup added /\ j.rows = rows
  BY <1>6
<1> HIDE DEF j, rows
<1> QED BY <1>7, <1>10, <1>11, <1>12, <1>13 DEF j, rest

-----------------------------------------------------------------------------
(* Steps that leave contacts, lists and imports alone. *)

\* What is not about campaigns stays as it is.
LEMMA SameContacts ==
  ASSUME TestInv, UNCHANGED <<contactVars, used>>
  PROVE  /\ ContactTypes' /\ ImportsAre' /\ Unheard' /\ DOMAIN lists' \subseteq {0} \cup used' /\ used' \subseteq Creations
         /\ \A m : Gathered(m)' <=> Gathered(m)
<1> USE DEF contactVars
<1>1. ContactTypes' /\ DOMAIN lists' \subseteq {0} \cup used' /\ used' \subseteq Creations
  BY DEF TestInv, ContactTypes, CampaignTypes
<1>2. ImportsAre'
  BY DEF TestInv, ImportsAre, CountedByOne
<1>3. Unheard'
  BY DEF TestInv, Unheard, With
<1>4. \A m : Gathered(m)' <=> Gathered(m)
  BY DEF Gathered, OnList, OnlyInto, ImportOf
<1> QED BY <1>1, <1>2, <1>3, <1>4

\* The fields of a campaign, one of which is changed.
LEMMA CampaignIs ==
  ASSUME NEW p \in Campaigns
  PROVE  /\ \A x \in {"DRAFT", "SCHEDULED", "SENDING", "COMPLETED", "CANCELLED"} :
              /\ [p EXCEPT !.status = x] = [status |-> x, test |-> p.test, lists |-> p.lists, rows |-> p.rows]
              /\ [p EXCEPT !.status = x] \in Campaigns
         /\ \A x \in SUBSET ListIds :
              /\ [p EXCEPT !.lists = x] = [status |-> p.status, test |-> p.test, lists |-> x, rows |-> p.rows]
              /\ [p EXCEPT !.lists = x] \in Campaigns
         /\ \A x \in SUBSET Copies :
              /\ [p EXCEPT !.rows = x] = [status |-> p.status, test |-> p.test, lists |-> p.lists, rows |-> x]
              /\ [p EXCEPT !.rows = x] \in Campaigns
         /\ p.status \in {"DRAFT", "SCHEDULED", "SENDING", "COMPLETED", "CANCELLED"} /\ p.test \in BOOLEAN
         /\ p.lists \subseteq ListIds /\ p.rows \subseteq Copies
  BY DEF Campaigns

\* An audience consists of copies of contacts; that of one list, of its members who want mail.
LEMMA AudienceIs ==
  ASSUME ContactTypes, NEW ls
  PROVE  /\ Audience(ls) \subseteq Copies
         /\ \A l : ls = {l} => {r.address : r \in Audience(ls)} = OnList(l) \ suppressed
<1>1. \A m \in members : /\ m[2] \in DOMAIN contacts /\ m[2] \in Nat /\ contacts[m[2]].address \in Addresses
                         /\ m = <<m[1], m[2]>>
  BY DEF ContactTypes, Table, Row
<1>2. Audience(ls) \subseteq Copies
  BY <1>1 DEF Audience, Copies
<1>3. ASSUME NEW l, ls = {l} PROVE {r.address : r \in Audience(ls)} = OnList(l) \ suppressed
  <2>1. ASSUME NEW m \in members, m[1] = l, contacts[m[2]].address \notin suppressed
        PROVE  contacts[m[2]].address \in {r.address : r \in Audience(ls)}
    <3>1. [address |-> contacts[m[2]].address, contact |-> m[2]] \in Audience(ls)
      BY <1>3, <2>1 DEF Audience
    <3> QED BY <3>1
  <2>2. ASSUME NEW r \in Audience(ls) PROVE r.address \in OnList(l) \ suppressed
    <3>1. PICK m \in members : /\ m[1] = l /\ contacts[m[2]].address \notin suppressed
                               /\ r = [address |-> contacts[m[2]].address, contact |-> m[2]]
      BY <1>3 DEF Audience
    <3> QED BY <3>1 DEF OnList
  <2>3. \A a \in OnList(l) \ suppressed : a \in {r.address : r \in Audience(ls)}
    BY <2>1 DEF OnList
  <2> QED BY <2>2, <2>3
<1> QED BY <1>2, <1>3

\* A campaign that is queued has the audience of its lists, and the others stay.
LEMMA QueuedIs ==
  ASSUME ContactTypes, CampaignTypes, NEW c \in DOMAIN campaigns
  PROVE  /\ Queued(c) \in [DOMAIN campaigns -> Campaigns]
         /\ DOMAIN Queued(c) = DOMAIN campaigns
         /\ Queued(c)[c].status = "SENDING" /\ Queued(c)[c].lists = campaigns[c].lists /\ Queued(c)[c].test = campaigns[c].test
         /\ Queued(c)[c].rows = Audience(campaigns[c].lists)
         /\ \A d \in DOMAIN campaigns \ {c} : Queued(c)[d] = campaigns[d]
<1>1. PICK a : a = Audience(campaigns[c].lists)
  OBVIOUS
<1>2. a \in SUBSET Copies /\ campaigns[c] \in Campaigns /\ DOMAIN Queued(c) = DOMAIN campaigns
  BY <1>1, AudienceIs DEF CampaignTypes, Queued
<1>3. Queued(c)[c] = [[campaigns[c] EXCEPT !.status = "SENDING"] EXCEPT !.rows = a]
  BY <1>1 DEF Queued
<1>4. Queued(c)[c] = [status |-> "SENDING", test |-> campaigns[c].test, lists |-> campaigns[c].lists, rows |-> a]
  <2>1. [campaigns[c] EXCEPT !.status = "SENDING"]
           = [status |-> "SENDING", test |-> campaigns[c].test, lists |-> campaigns[c].lists, rows |-> campaigns[c].rows]
    BY <1>2, CampaignIs
  <2> QED BY <1>3, <2>1
<1>5. Queued(c)[c] \in Campaigns
  <2>1. PICK p : p = [campaigns[c] EXCEPT !.status = "SENDING"]
    OBVIOUS
  <2>2. p \in Campaigns
    BY <1>2, <2>1, CampaignIs
  <2>3. [p EXCEPT !.rows = a] \in Campaigns
    BY <1>2, <2>2, CampaignIs
  <2> QED BY <1>3, <2>1, <2>3
<1>6. \A d \in DOMAIN campaigns \ {c} : Queued(c)[d] = campaigns[d] /\ Queued(c)[d] \in Campaigns
  BY DEF Queued, CampaignTypes
<1>7. Queued(c) = [d \in DOMAIN campaigns |-> Queued(c)[d]]
  BY DEF Queued
<1>8. Queued(c) \in [DOMAIN campaigns -> Campaigns]
  BY <1>5, <1>6, <1>7
<1>9. /\ Queued(c)[c].status = "SENDING" /\ Queued(c)[c].lists = campaigns[c].lists /\ Queued(c)[c].test = campaigns[c].test
      /\ Queued(c)[c].rows = a
  BY <1>4
<1> QED BY <1>1, <1>2, <1>6, <1>8, <1>9

\* The creation is over, or only the reset goes on.
LEMMA OnlyRequests ==
  ASSUME TestInv, UNCHANGED <<contactVars, campaigns, used>>,
         making' \in {making, Nothing}, reset' \in {Nothing} \cup Resets
  PROVE  TestInv'
<1>1. CampaignTypes'
  BY SameContacts DEF TestInv, CampaignTypes
<1>2. Unqueued'
  BY DEF TestInv, Unqueued
<1>3. MakingIs'
  <2>1. CASE making' = Nothing
    BY <2>1 DEF MakingIs
  <2>2. CASE making' = making
    <3>1. \A m : Chosen(m)' <=> Chosen(m)
      BY DEF Chosen, Recipients
    <3> QED BY <2>2, <3>1, SameContacts DEF TestInv, MakingIs
  <2> QED BY <2>1, <2>2
<1> QED BY <1>1, <1>2, <1>3, SameContacts DEF TestInv

\* The steps of a reset that only read, and the ways a creation ends.
LEMMA ResetReads ==
  ASSUME TestInv,
         \/ \E c \in DOMAIN campaigns : CheckReset(c)
         \/ FindStray \/ ReadResetLists \/ ResetFails \/ MakeEnds \/ MakeRefused \/ MakeFails
  PROVE  TestInv'
<1>1. reset \in {Nothing} \cup Resets /\ DOMAIN campaigns \subseteq ListIds /\ ToReset \subseteq ListIds
  BY DEF TestInv, CampaignTypes, ListIds, ToReset, Campaigns
<1>2. \A r \in Resets : /\ \A a \in {"stray", "lists", "campaign", "list", "people"} : [r EXCEPT !.at = a] \in Resets
                        /\ [r EXCEPT !.at = "campaign", !.lists = ToReset] \in Resets
  BY <1>1 DEF Resets
<1>3. \A c \in DOMAIN campaigns : [at |-> "stray", campaign |-> c, lists |-> {}] \in Resets
  BY <1>1 DEF Resets
<1>4. reset.at # "none" => reset \in Resets
  BY <1>1 DEF Nothing
<1>5. UNCHANGED <<contactVars, campaigns, used>>
  BY DEF CheckReset, FindStray, ReadResetLists, ResetFails, MakeEnds, MakeRefused, MakeFails, MakeOver
<1>6. making' \in {making, Nothing}
  BY DEF CheckReset, FindStray, ReadResetLists, ResetFails, MakeEnds, MakeRefused, MakeFails, MakeOver
<1>7. reset' \in {Nothing} \cup Resets
  BY <1>1, <1>2, <1>3, <1>4 DEF CheckReset, FindStray, ReadResetLists, ResetFails, MakeEnds, MakeRefused, MakeFails, MakeOver
<1> QED BY <1>5, <1>6, <1>7, OnlyRequests

\* Campaigns go on: nobody else hears of it, and a creation nobody disturbs finds its own as it needs it.
LEMMA OnlyCampaigns ==
  ASSUME TestInv, UNCHANGED <<contactVars, used>>,
         campaigns' \in [DOMAIN campaigns' -> Campaigns], DOMAIN campaigns' \subseteq DOMAIN campaigns, Unqueued',
         making' \in {Nothing} \cup Makings, reset' \in {Nothing} \cup Resets,
         making' # Nothing =>
           /\ making # Nothing /\ making'.n = making.n /\ making'.by = making.by
           /\ making'.at = making.at \/ (making.at \in {"select", "send", "made"} /\ making'.at \in {"select", "send", "made"})
           /\ making'.undisturbed => making.undisturbed /\ Chosen(making)'
  PROVE  TestInv'
<1>1. CampaignTypes'
  BY SameContacts DEF TestInv, CampaignTypes
<1>2. MakingIs'
  <2> SUFFICES ASSUME making' # Nothing
               PROVE  /\ making'.n \in used' /\ (making'.at \in {"import", "importing"} => making'.n \notin DOMAIN campaigns')
                      /\ making'.at = "importing" => making'.by \in Importers
                      /\ making'.undisturbed => Gathered(making)' /\ Chosen(making)'
    BY DEF MakingIs
  <2>1. PICK m : m = making
    OBVIOUS
  <2>2. /\ m.n \in used /\ (m.at \in {"import", "importing"} => m.n \notin DOMAIN campaigns)
        /\ (m.at = "importing" => m.by \in Importers) /\ (m.undisturbed => Gathered(m))
    BY <2>1 DEF TestInv, MakingIs
  <2>3. ASSUME making'.undisturbed PROVE Gathered(making)'
    <3>1. Gathered(m)'
      BY <2>1, <2>2, <2>3, SameContacts
    <3> QED BY <2>1, <3>1 DEF Gathered
  <2> QED BY <2>1, <2>2, <2>3
<1> QED BY <1>1, <1>2, SameContacts DEF TestInv

\* A creation chooses its list for its campaign.
LEMMA MakeSelectStep ==
  ASSUME TestInv, MakeSelect
  PROVE  TestInv'
<1>1. PICK m \in Makings : m = making
  BY DEF TestInv, CampaignTypes, MakeSelect, Nothing
<1>2. /\ m.at = "select" /\ m.n \in DOMAIN campaigns /\ UNCHANGED <<contactVars, used, reset>>
      /\ campaigns' = [campaigns EXCEPT ![m.n].lists = {m.n}] /\ making' = [m EXCEPT !.at = "send"]
  BY <1>1 DEF MakeSelect
<1>3. {m.n} \in SUBSET ListIds /\ \A c \in DOMAIN campaigns : campaigns[c] \in Campaigns
  BY <1>1 DEF Makings, ListIds, TestInv, CampaignTypes
<1>4. /\ campaigns'[m.n] \in Campaigns
      /\ campaigns'[m.n] = [status |-> campaigns[m.n].status, test |-> campaigns[m.n].test, lists |-> {m.n},
                            rows |-> campaigns[m.n].rows]
  <2>1. campaigns'[m.n] = [campaigns[m.n] EXCEPT !.lists = {m.n}]
    BY <1>2
  <2> QED BY <1>2, <1>3, <2>1, CampaignIs
<1>5. DOMAIN campaigns' = DOMAIN campaigns /\ \A c \in DOMAIN campaigns \ {m.n} : campaigns'[c] = campaigns[c]
  BY <1>2
<1>6. making' \in Makings /\ making'.at = "send" /\ making'.n = m.n /\ making'.by = m.by /\ making'.undisturbed = m.undisturbed
  BY <1>1, <1>2 DEF Makings
<1>7. campaigns' \in [DOMAIN campaigns' -> Campaigns]
  BY <1>2, <1>3, <1>4, <1>5
<1>8. Unqueued'
  BY <1>2, <1>4, <1>5 DEF TestInv, Unqueued
<1>9. Chosen(making)' /\ making # Nothing
  BY <1>1, <1>2, <1>4, <1>6 DEF Chosen, Nothing
<1>10. reset' \in {Nothing} \cup Resets
  BY <1>2 DEF TestInv, CampaignTypes
<1> QED BY <1>1, <1>2, <1>5, <1>6, <1>7, <1>8, <1>9, <1>10, OnlyCampaigns

\* A campaign queued or refused: with its list chosen, it is for whom the list is for.
LEMMA GoesOnIs ==
  ASSUME TestInv, NEW c \in DOMAIN campaigns, campaigns' = Queued(c), NEW m, m.n \in DOMAIN campaigns,
         Gathered(m), m.at \in {"send", "made"}, campaigns[m.n].lists = {m.n},
         m.at = "made" /\ campaigns[m.n].status = "SENDING" => Recipients(m.n) = Batch[m.n]
  PROVE  /\ campaigns'[m.n].lists = {m.n}
         /\ (c = m.n \/ m.at = "made") /\ campaigns'[m.n].status = "SENDING" => Recipients(m.n)' = Batch[m.n]
<1>1. /\ \A d \in DOMAIN campaigns \ {c} : campaigns'[d] = campaigns[d]
      /\ campaigns'[c].lists = campaigns[c].lists /\ campaigns'[c].rows = Audience(campaigns[c].lists)
  <2>1. ContactTypes /\ CampaignTypes
    BY DEF TestInv
  <2> QED BY <2>1, QueuedIs
<1>2. OnList(m.n) \ suppressed = Batch[m.n]
  BY DEF Gathered
<1>3. ASSUME c = m.n PROVE Recipients(m.n)' = Batch[m.n]
  BY <1>1, <1>2, <1>3, AudienceIs DEF Recipients, TestInv
<1> QED BY <1>1, <1>3 DEF Recipients

\* A creation sends its campaign: with nobody suppressed and everybody on the list, to all of them.
LEMMA MakeSendStep ==
  ASSUME TestInv, MakeSend
  PROVE  TestInv'
<1>1. PICK m \in Makings : m = making
  BY DEF TestInv, CampaignTypes, MakeSend, Nothing
<1>2. /\ m.at = "send" /\ m.n \in DOMAIN campaigns /\ campaigns[m.n].status = "DRAFT" /\ UNCHANGED <<contactVars, used, reset>>
      /\ making' = [m EXCEPT !.at = "made"]
      /\ campaigns' = Queued(m.n) \/ campaigns' = [campaigns EXCEPT ![m.n].status = "SCHEDULED"]
  BY <1>1 DEF MakeSend
<1>3. making' \in Makings /\ making'.at = "made" /\ making'.n = m.n /\ making'.by = m.by /\ making'.undisturbed = m.undisturbed
  BY <1>1, <1>2 DEF Makings
<1>4. (m.undisturbed => Gathered(m) /\ campaigns[m.n].lists = {m.n}) /\ making # Nothing
  BY <1>1, <1>2 DEF TestInv, MakingIs, Chosen, Nothing
<1>5. \A c \in DOMAIN campaigns : campaigns[c] \in Campaigns
  BY DEF TestInv, CampaignTypes
<1>6. reset' \in {Nothing} \cup Resets
  BY <1>2 DEF TestInv, CampaignTypes
<1>7. CASE campaigns' = Queued(m.n)
  <2>1. DOMAIN campaigns' = DOMAIN campaigns /\ campaigns' \in [DOMAIN campaigns -> Campaigns] /\ campaigns'[m.n].status = "SENDING"
        /\ \A d \in DOMAIN campaigns \ {m.n} : campaigns'[d] = campaigns[d]
    <3>1. ContactTypes /\ CampaignTypes
      BY DEF TestInv
    <3> QED BY <1>2, <1>7, <3>1, QueuedIs
  <2>2. Unqueued'
    BY <2>1 DEF TestInv, Unqueued
  <2>3. m.undisturbed => Chosen(making)'
    BY <1>2, <1>3, <1>4, <1>7, GoesOnIs DEF Chosen
  <2> QED BY <1>1, <1>2, <1>3, <1>4, <1>6, <2>1, <2>2, <2>3, OnlyCampaigns
<1>8. CASE campaigns' = [campaigns EXCEPT ![m.n].status = "SCHEDULED"]
  <2>1. /\ campaigns'[m.n] \in Campaigns
        /\ campaigns'[m.n] = [status |-> "SCHEDULED", test |-> campaigns[m.n].test, lists |-> campaigns[m.n].lists,
                              rows |-> campaigns[m.n].rows]
    <3>1. campaigns'[m.n] = [campaigns[m.n] EXCEPT !.status = "SCHEDULED"]
      BY <1>2, <1>8
    <3> QED BY ZenonT(60), <1>2, <1>5, <3>1, CampaignIs
  <2>2. DOMAIN campaigns' = DOMAIN campaigns /\ \A d \in DOMAIN campaigns \ {m.n} : campaigns'[d] = campaigns[d]
    BY <1>8
  <2>3. campaigns' \in [DOMAIN campaigns' -> Campaigns]
    BY <1>5, <1>8, <2>1, <2>2
  <2>4. Unqueued'
    BY <1>2, <2>1, <2>2 DEF TestInv, Unqueued
  <2>5. m.undisturbed => Chosen(making)'
    BY <1>2, <1>3, <1>4, <2>1 DEF Chosen
  <2> QED BY <1>1, <1>2, <1>3, <1>4, <1>6, <2>2, <2>3, <2>4, <2>5, OnlyCampaigns
<1> QED BY <1>2, <1>7, <1>8

\* The scheduler queues a campaign, or an admin does.
LEMMA CampaignGoesOnStep ==
  ASSUME TestInv, (\E c \in DOMAIN campaigns : CampaignGoesOn(c)) \/ (0 \in DOMAIN campaigns /\ SendReal)
  PROVE  TestInv'
<1>1. /\ UNCHANGED <<contactVars, used, making, reset>>
      /\ \E c \in DOMAIN campaigns :
           \/ campaigns' = Queued(c)
           \/ \E x \in {"CANCELLED", "COMPLETED"} : campaigns' = [campaigns EXCEPT ![c].status = x]
  BY DEF CampaignGoesOn, SendReal
<1>2. PICK m : m = making
  OBVIOUS
<1>3. m # Nothing => m \in Makings /\ m.n \in used /\ (m.undisturbed => Gathered(m) /\ Chosen(m))
  BY <1>2 DEF TestInv, CampaignTypes, MakingIs
<1>4. \A c \in DOMAIN campaigns : campaigns[c] \in Campaigns
  BY DEF TestInv, CampaignTypes
<1>5. reset' \in {Nothing} \cup Resets /\ making' \in {Nothing} \cup Makings
  BY <1>1 DEF TestInv, CampaignTypes
<1>6. ASSUME NEW c \in DOMAIN campaigns, campaigns' = Queued(c) PROVE TestInv'
  <2>1. /\ DOMAIN campaigns' = DOMAIN campaigns /\ campaigns' \in [DOMAIN campaigns -> Campaigns]
        /\ campaigns'[c].status = "SENDING" /\ \A d \in DOMAIN campaigns \ {c} : campaigns'[d] = campaigns[d]
    <3>1. ContactTypes /\ CampaignTypes
      BY DEF TestInv
    <3> QED BY <1>6, <3>1, QueuedIs
  <2>2. Unqueued'
    BY <2>1 DEF TestInv, Unqueued
  <2>3. ASSUME m # Nothing, m.undisturbed PROVE Chosen(m)'
    <3> SUFFICES ASSUME m.n \in DOMAIN campaigns, m.at \in {"send", "made"}
                 PROVE  /\ campaigns'[m.n].lists = {m.n}
                        /\ m.at = "made" /\ campaigns'[m.n].status = "SENDING" => Recipients(m.n)' = Batch[m.n]
      BY <2>1 DEF Chosen
    <3>1. Gathered(m) /\ campaigns[m.n].lists = {m.n}
      BY <1>3, <2>3 DEF Chosen
    <3>2. m.at = "made" /\ campaigns[m.n].status = "SENDING" => Recipients(m.n) = Batch[m.n]
      BY <1>3, <2>3 DEF Chosen
    <3> QED BY <1>6, <3>1, <3>2, GoesOnIs
  <2>4. making'.undisturbed /\ making # Nothing => Chosen(making)'
    BY <1>1, <1>2, <2>3 DEF Chosen, Recipients
  <2> QED BY <1>1, <1>5, <2>1, <2>2, <2>4, OnlyCampaigns
<1>7. ASSUME NEW c \in DOMAIN campaigns, NEW x \in {"CANCELLED", "COMPLETED"}, campaigns' = [campaigns EXCEPT ![c].status = x]
      PROVE  TestInv'
  <2>1. /\ campaigns'[c] \in Campaigns
        /\ campaigns'[c] = [status |-> x, test |-> campaigns[c].test, lists |-> campaigns[c].lists, rows |-> campaigns[c].rows]
    <3>1. campaigns'[c] = [campaigns[c] EXCEPT !.status = x]
      BY <1>7
    <3>2. x \in {"DRAFT", "SCHEDULED", "SENDING", "COMPLETED", "CANCELLED"} /\ campaigns[c] \in Campaigns
      BY <1>4
    <3>3. /\ [campaigns[c] EXCEPT !.status = x] \in Campaigns
          /\ [campaigns[c] EXCEPT !.status = x]
               = [status |-> x, test |-> campaigns[c].test, lists |-> campaigns[c].lists, rows |-> campaigns[c].rows]
      BY <3>2, CampaignIs
    <3> QED BY <3>1, <3>3
  <2>2. DOMAIN campaigns' = DOMAIN campaigns /\ \A d \in DOMAIN campaigns \ {c} : campaigns'[d] = campaigns[d]
    BY <1>7
  <2>3. campaigns' \in [DOMAIN campaigns' -> Campaigns]
    BY <1>4, <1>7, <2>1, <2>2
  <2>4. Unqueued'
    BY <2>1, <2>2 DEF TestInv, Unqueued
  <2>5. \A d \in DOMAIN campaigns : /\ campaigns'[d].lists = campaigns[d].lists /\ Recipients(d)' = Recipients(d)
                                    /\ campaigns'[d].status = "SENDING" => campaigns[d].status = "SENDING"
    BY <2>1, <2>2 DEF Recipients
  <2>6. making'.undisturbed /\ making # Nothing => Chosen(making)'
    BY <1>1, <1>2, <1>3, <2>2, <2>5 DEF Chosen
  <2> QED BY <1>1, <1>5, <2>2, <2>3, <2>4, <2>6, OnlyCampaigns
<1> QED BY <1>1, <1>6, <1>7

\* A reset deletes its campaign.
LEMMA DeleteTestCampaignStep ==
  ASSUME TestInv, DeleteTestCampaign
  PROVE  TestInv'
<1>1. /\ UNCHANGED <<contactVars, used, making>> /\ reset.at = "campaign" /\ reset' = [reset EXCEPT !.at = "list"]
      /\ campaigns' = [c \in DOMAIN campaigns \ {reset.campaign} |-> campaigns[c]]
  BY DEF DeleteTestCampaign
<1>2. reset' \in {Nothing} \cup Resets /\ making' \in {Nothing} \cup Makings
  BY <1>1 DEF TestInv, CampaignTypes, Resets, Nothing
<1>3. /\ campaigns' \in [DOMAIN campaigns' -> Campaigns] /\ DOMAIN campaigns' \subseteq DOMAIN campaigns
      /\ \A c \in DOMAIN campaigns' : campaigns'[c] = campaigns[c]
  BY <1>1 DEF TestInv, CampaignTypes
<1>4. Unqueued'
  BY <1>3 DEF TestInv, Unqueued
<1>5. making # Nothing /\ making'.undisturbed => Chosen(making)'
  BY <1>1, <1>3 DEF TestInv, MakingIs, Chosen, Recipients
<1> QED BY <1>1, <1>2, <1>3, <1>4, <1>5, OnlyCampaigns

\* Somebody else has touched what a creation uses.
LEMMA MakingDisturbedIs ==
  ASSUME making \in {Nothing} \cup Makings, making' = MakingDisturbed
  PROVE  /\ making' \in {Nothing} \cup Makings
         /\ making' # Nothing => /\ making # Nothing /\ making'.n = making.n /\ making'.by = making.by
                                 /\ making'.at = making.at /\ ~making'.undisturbed
  BY DEF MakingDisturbed, Makings, Nothing

\* An admin chooses a list, perhaps for the campaign of a creation.
LEMMA ChooseListStep ==
  ASSUME TestInv, \E c \in DOMAIN campaigns, l \in DOMAIN lists : ChooseList(c, l)
  PROVE  TestInv'
<1>1. PICK c \in DOMAIN campaigns, l \in DOMAIN lists :
        /\ campaigns[c].status = "DRAFT" /\ campaigns' = [campaigns EXCEPT ![c].lists = {l}]
        /\ making' = MakingDisturbed /\ UNCHANGED <<contactVars, used, reset>>
  BY DEF ChooseList
<1>2. \A d \in DOMAIN campaigns : campaigns[d] \in Campaigns
  BY DEF TestInv, CampaignTypes
<1>3. /\ campaigns'[c] \in Campaigns
      /\ campaigns'[c] = [status |-> campaigns[c].status, test |-> campaigns[c].test, lists |-> {l}, rows |-> campaigns[c].rows]
  <2>1. campaigns'[c] = [campaigns[c] EXCEPT !.lists = {l}]
    BY <1>1
  <2>2. {l} \in SUBSET ListIds /\ campaigns[c] \in Campaigns
    BY <1>2 DEF TestInv, CampaignTypes, ListIds
  <2>3. /\ [campaigns[c] EXCEPT !.lists = {l}] \in Campaigns
        /\ [campaigns[c] EXCEPT !.lists = {l}]
             = [status |-> campaigns[c].status, test |-> campaigns[c].test, lists |-> {l}, rows |-> campaigns[c].rows]
    BY <2>2, CampaignIs
  <2> QED BY <2>1, <2>3
<1>4. DOMAIN campaigns' = DOMAIN campaigns /\ \A d \in DOMAIN campaigns \ {c} : campaigns'[d] = campaigns[d]
  BY <1>1
<1>5. campaigns' \in [DOMAIN campaigns' -> Campaigns]
  BY <1>1, <1>2, <1>3, <1>4
<1>6. Unqueued'
  BY <1>3, <1>4 DEF TestInv, Unqueued
<1>7. reset' \in {Nothing} \cup Resets /\ making \in {Nothing} \cup Makings
  BY <1>1 DEF TestInv, CampaignTypes
<1>8. /\ making' \in {Nothing} \cup Makings
      /\ making' # Nothing => /\ making # Nothing /\ making'.n = making.n /\ making'.by = making.by
                              /\ making'.at = making.at /\ ~making'.undisturbed
  BY <1>1, <1>7, MakingDisturbedIs
<1> QED BY <1>1, <1>4, <1>5, <1>6, <1>7, <1>8, OnlyCampaigns

-----------------------------------------------------------------------------
(* Steps of an import. *)

\* What is on a list stays on it, and what comes is what its new members are called.
LEMMA OnListIs ==
  ASSUME ContactTypes, Grown(contacts, contacts'), members \subseteq members', NEW l
  PROVE  /\ OnList(l) \subseteq OnList(l)'
         /\ \A a \in OnList(l)' \ OnList(l) : \E x \in members' \ members : x[1] = l /\ contacts'[x[2]].address = a
<1>1. \A x \in members : x[2] \in DOMAIN contacts /\ contacts'[x[2]].address = contacts[x[2]].address
  BY DEF ContactTypes, Grown
<1>2. OnList(l)' = {contacts'[x[2]].address : x \in {y \in members' : y[1] = l}}
  BY DEF OnList
<1>3. OnList(l) \subseteq OnList(l)'
  BY <1>1, <1>2 DEF OnList
<1>4. ASSUME NEW a \in OnList(l)' \ OnList(l)
      PROVE  \E x \in members' \ members : x[1] = l /\ contacts'[x[2]].address = a
  <2>1. PICK x \in members' : x[1] = l /\ contacts'[x[2]].address = a
    BY <1>2, <1>4
  <2>2. x \notin members
    BY <1>1, <1>4, <2>1 DEF OnList
  <2> QED BY <2>1, <2>2
<1> QED BY <1>3, <1>4

\* What a creation has gathered stays, as long as only its own import adds to its list.
LEMMA GatheredKept ==
  ASSUME NEW m, Gathered(m), imports \in [Importers -> {NoImport} \cup Imports], NEW s \in Importers, NEW j,
         imports' = [imports EXCEPT ![s] = j], UNCHANGED <<lists, suppressed>>,
         m.at = "importing" => m.by \in Importers,
         OnList(m.n) \subseteq OnList(m.n)', OnList(m.n)' \subseteq Batch[m.n],
         j.at # "none" => j.list # m.n \/ (m.at = "importing" /\ m.by = s),
         m.at = "importing" /\ m.by = s => ImportOf(j, m.n)'
  PROVE  Gathered(m)'
<1>1. imports'[s] = j /\ \A u \in Importers \ {s} : imports'[u] = imports[u]
  OBVIOUS
<1>2. ASSUME m.at = "importing" PROVE OnlyInto(m.n, m.by)' /\ ImportOf(imports[m.by], m.n)'
  <2>1. OnlyInto(m.n, m.by)'
    BY <1>1, <1>2 DEF Gathered, OnlyInto
  <2>2. CASE m.by = s
    BY <1>1, <1>2, <2>1, <2>2 DEF ImportOf
  <2>3. CASE m.by # s
    <3>1. imports'[m.by] = imports[m.by] /\ ImportOf(imports[m.by], m.n)
      BY <1>1, <1>2, <2>3 DEF Gathered
    <3> QED BY <2>1, <3>1 DEF ImportOf
  <2> QED BY <2>2, <2>3
<1>3. ASSUME m.at # "importing", NEW u \in Importers, imports'[u].at # "none"
      PROVE  imports'[u].list # m.n \/ (imports[u].list = m.n /\ imports[u].at # "none")
  <2>1. CASE u = s
    BY <1>1, <1>3, <2>1
  <2>2. CASE u # s
    BY <1>1, <1>3, <2>2
  <2> QED BY <2>1, <2>2
<1>4. m.at = "import" => \A u \in Importers : imports'[u].at # "none" => imports'[u].list # m.n
  BY <1>1, <1>3 DEF Gathered
<1>5. m.at \in {"select", "send", "made"} => \A u \in Importers : imports'[u].at # "none" => imports'[u].list # m.n
  BY <1>1, <1>3 DEF Gathered
<1>6. m.at \in {"select", "send", "made"} => Batch[m.n] \subseteq OnList(m.n)'
  BY DEF Gathered
<1> QED BY <1>2, <1>4, <1>5, <1>6 DEF Gathered

\* One import changes, and adds contacts and members.
LEMMA OneImport ==
  ASSUME TestInv, NEW s \in Importers, NEW j \in {NoImport} \cup Imports, imports' = [imports EXCEPT ![s] = j],
         UNCHANGED <<lists, suppressed, used>>,
         Table(contacts', born'), Grown(contacts, contacts'),
         members \subseteq members', members' \subseteq (DOMAIN lists) \X (DOMAIN contacts'),
         \A n \in Creations \ used : IdsOf(contacts', Batch[n]) = {},
         j.at # "none" =>
           /\ ImportIs(j, contacts', members')
           /\ j.list \in {0, NoList} \cup used
           /\ \A n \in Creations \ used : AddressesOf(j.rows) \cap Batch[n] = {}
           /\ \A u \in Importers \ {s} :
                /\ imports[u].at # "none" /\ imports[u].list = j.list /\ j.list # NoList
                /\ imports[u].undisturbed /\ j.undisturbed
                => j.counted \cap imports[u].counted = {}
  PROVE  ContactTypes' /\ ImportsAre' /\ Unheard' /\ DOMAIN lists' \subseteq {0} \cup used' /\ used' \subseteq Creations
<1>1. imports \in [Importers -> {NoImport} \cup Imports]
  BY DEF TestInv, ContactTypes
<1>2. imports'[s] = j /\ \A u \in Importers \ {s} : imports'[u] = imports[u]
  BY <1>1
<1>3. ContactTypes' /\ DOMAIN lists' \subseteq {0} \cup used' /\ used' \subseteq Creations
  BY DEF TestInv, ContactTypes, CampaignTypes
<1>4. \A u \in Importers : imports'[u].at # "none" => ImportIs(imports'[u], contacts', members')
  <2> TAKE u \in Importers
  <2>1. CASE u = s
    BY <1>2, <2>1
  <2>2. CASE u # s
    <3>1. imports[u].at # "none" => ImportIs(imports[u], contacts, members)
      BY DEF TestInv, ImportsAre
    <3> QED BY <1>2, <2>2, <3>1, ImportKept
  <2> QED BY <2>1, <2>2
<1>5. CountedByOne'
  <2> SUFFICES ASSUME NEW u \in Importers, NEW v \in Importers, u # v, imports'[u].at # "none", imports'[v].at # "none",
                      imports'[u].list = imports'[v].list, imports'[u].list # NoList,
                      imports'[u].undisturbed, imports'[v].undisturbed
               PROVE  imports'[u].counted \cap imports'[v].counted = {}
    BY DEF CountedByOne
  <2>1. CASE u = s
    BY <1>2, <2>1
  <2>2. CASE v = s
    BY <1>2, <2>2
  <2>3. CASE u # s /\ v # s
    BY <1>2, <2>3 DEF TestInv, ImportsAre, CountedByOne
  <2> QED BY <2>1, <2>2, <2>3
<1>6. Unheard'
  <2>1. \A n \in Creations \ used : With(Batch[n])' = {} /\ suppressed \cap Batch[n] = {}
    BY DEF TestInv, Unheard, With, IdsOf
  <2>2. \A u \in Importers : imports'[u].at # "none" =>
          imports'[u].list \in {0, NoList} \cup used /\ \A n \in Creations \ used : AddressesOf(imports'[u].rows) \cap Batch[n] = {}
    <3> TAKE u \in Importers
    <3>1. CASE u = s
      BY <1>2, <3>1
    <3>2. CASE u # s
      BY <1>2, <3>2 DEF TestInv, Unheard
    <3> QED BY <3>1, <3>2
  <2>3. \A u \in Importers : AddressesOf(imports[u].rows)' = AddressesOf(imports'[u].rows)
    BY DEF AddressesOf
  <2> QED BY <2>1, <2>2, <2>3 DEF Unheard
<1> QED BY <1>3, <1>4, <1>5, <1>6 DEF ImportsAre

\* An import goes on, and so does the creation that waits for it.
LEMMA ImportGoes ==
  ASSUME TestInv, NEW s \in Importers, NEW i \in Imports, i = imports[s], NEW j \in {NoImport} \cup Imports,
         imports' = [imports EXCEPT ![s] = j], UNCHANGED <<lists, suppressed, campaigns, used, making, reset>>,
         Table(contacts', born'), Grown(contacts, contacts'),
         \A id \in DOMAIN contacts' \ DOMAIN contacts : contacts'[id].address \in AddressesOf(i.rows),
         members \subseteq members', members' \subseteq (DOMAIN lists) \X (DOMAIN contacts'),
         \A x \in members' \ members :
           x[1] = i.list /\ i.at # "failed" /\ (i.undisturbed => contacts'[x[2]].address \in AddressesOf(i.rows)),
         j = NoImport => ~(making # Nothing /\ making.by = s),
         j # NoImport =>
           /\ ImportIs(j, contacts', members')
           /\ j.list = i.list /\ j.undisturbed = i.undisturbed /\ AddressesOf(j.rows) \subseteq AddressesOf(i.rows)
           /\ \A id \in j.counted \ i.counted : i.list # NoList => <<i.list, id>> \notin members
           /\ j.at # "failed" =>
                /\ i.at # "failed"
                /\ i.undisturbed /\ i.list # NoList => AddressesOf(i.rows) \subseteq AddressesOf(j.rows) \cup OnList(i.list)'
  PROVE  TestInv'
<1>1. i.at # "none" /\ (j.at # "none" => j # NoImport)
  BY DEF Imports, NoImport
<1>2. /\ i.list \in {0, NoList} \cup used
      /\ \A n \in Creations \ used : AddressesOf(i.rows) \cap Batch[n] = {} /\ IdsOf(contacts, Batch[n]) = {}
  BY <1>1 DEF TestInv, Unheard, With, IdsOf
<1>3. \A n \in Creations \ used : IdsOf(contacts', Batch[n]) = {}
  <2> SUFFICES ASSUME NEW n \in Creations \ used, NEW id \in DOMAIN contacts', contacts'[id].address \in Batch[n] PROVE FALSE
    BY DEF IdsOf
  <2>1. CASE id \in DOMAIN contacts
    BY <1>2, <2>1 DEF Grown, IdsOf
  <2>2. CASE id \notin DOMAIN contacts
    BY <1>2, <2>2
  <2> QED BY <2>1, <2>2
<1>4. ASSUME j.at # "none"
      PROVE  /\ ImportIs(j, contacts', members')
             /\ j.list \in {0, NoList} \cup used
             /\ \A n \in Creations \ used : AddressesOf(j.rows) \cap Batch[n] = {}
             /\ \A u \in Importers \ {s} :
                  /\ imports[u].at # "none" /\ imports[u].list = j.list /\ j.list # NoList
                  /\ imports[u].undisturbed /\ j.undisturbed
                  => j.counted \cap imports[u].counted = {}
  <2>1. ASSUME NEW u \in Importers \ {s}, imports[u].at # "none", imports[u].list = j.list, j.list # NoList,
               imports[u].undisturbed, j.undisturbed
        PROVE  j.counted \cap imports[u].counted = {}
    <3>1. i.counted \cap imports[u].counted = {}
      BY <1>1, <1>4, <2>1 DEF TestInv, ImportsAre, CountedByOne
    <3>2. \A id \in imports[u].counted : <<i.list, id>> \in members
      BY <1>1, <1>4, <2>1 DEF TestInv, ImportsAre, ImportIs
    <3> QED BY <1>1, <1>4, <2>1, <3>1, <3>2
  <2> QED BY <1>1, <1>2, <1>4, <2>1
<1>5. ContactTypes' /\ ImportsAre' /\ Unheard' /\ DOMAIN lists' \subseteq {0} \cup used' /\ used' \subseteq Creations
  BY <1>3, <1>4, OneImport
<1>6. CampaignTypes' /\ Unqueued'
  BY <1>5 DEF TestInv, CampaignTypes, Unqueued
<1>7. ASSUME NEW m, m = making, m # Nothing, m.undisturbed PROVE Gathered(m)'
  <2>1. Gathered(m) /\ (m.at = "importing" => m.by \in Importers) /\ m.n \in Creations
    BY <1>7 DEF TestInv, MakingIs, CampaignTypes, Makings
  <2>2. i.list = m.n => m.at = "importing" /\ m.by = s
    <3>1. m \in Makings
      BY <1>7 DEF TestInv, CampaignTypes
    <3> QED BY <1>1, <2>1, <3>1 DEF Gathered, OnlyInto, Makings
  <2>3. m.at = "importing" /\ m.by = s => ImportOf(i, m.n)
    BY <2>1 DEF Gathered
  <2>4. OnList(m.n) \subseteq OnList(m.n)'
    BY OnListIs DEF TestInv
  <2>5. OnList(m.n)' \subseteq Batch[m.n]
    <3> SUFFICES ASSUME NEW a \in OnList(m.n)' \ OnList(m.n) PROVE a \in Batch[m.n]
      BY <2>1 DEF Gathered
    <3>1. PICK x \in members' \ members : x[1] = m.n /\ contacts'[x[2]].address = a
      BY OnListIs DEF TestInv
    <3>2. ImportOf(i, m.n) /\ i.at # "failed"
      BY <2>2, <2>3, <3>1
    <3>3. i.undisturbed /\ AddressesOf(i.rows) \subseteq Batch[m.n]
      BY <3>2 DEF ImportOf
    <3> QED BY <3>1, <3>3
  <2>6. j.at # "none" => j.list # m.n \/ (m.at = "importing" /\ m.by = s)
    BY <1>1, <2>2
  <2>7. ASSUME m.at = "importing", m.by = s PROVE ImportOf(j, m.n)'
    <3>1. ImportOf(i, m.n) /\ j # NoImport /\ j \in Imports /\ j.at # "none"
      BY <1>7, <2>3, <2>7 DEF Imports
    <3>2. j.list = m.n /\ AddressesOf(j.rows) \subseteq Batch[m.n]
      BY <3>1 DEF ImportOf
    <3>3. ASSUME j.at # "failed" PROVE j.undisturbed /\ Batch[m.n] \subseteq AddressesOf(j.rows) \cup OnList(m.n)'
      <4>1. i.list = m.n /\ m.n # NoList
        BY <2>1, <3>1, TestAssumption DEF ImportOf
      <4> QED BY <2>4, <3>1, <3>3, <4>1 DEF ImportOf
    <3> QED BY <3>1, <3>2, <3>3 DEF ImportOf, AddressesOf
  <2>8. imports \in [Importers -> {NoImport} \cup Imports]
    BY DEF TestInv, ContactTypes
  <2> QED BY <2>1, <2>4, <2>5, <2>6, <2>7, <2>8, GatheredKept
<1>8. MakingIs'
  <2>1. PICK m : m = making
    OBVIOUS
  <2>2. m # Nothing /\ m.undisturbed => Gathered(m)' /\ Chosen(m)'
    BY <1>7, <2>1 DEF TestInv, MakingIs, Chosen, Recipients
  <2>3. (Gathered(m)' <=> Gathered(making)') /\ (Chosen(m)' <=> Chosen(making)')
    BY <2>1 DEF Gathered, Chosen
  <2> QED BY <2>1, <2>2, <2>3 DEF TestInv, MakingIs
<1> QED BY <1>5, <1>6, <1>8 DEF TestInv

\* A chunk is written: every address of it has a contact now, and all that were there keep theirs.
LEMMA WriteChunkStep ==
  ASSUME TestInv, NEW s \in Importers, WriteChunk(s), UNCHANGED <<campaigns, used, making, reset>>
  PROVE  TestInv'
<1>1. PICK i \in Imports : i = imports[s]
  BY DEF TestInv, ContactTypes, WriteChunk, NoImport
<1>2. PICK chunk : chunk = NextChunk(s)
  OBVIOUS
<1>3. PICK j : j = [i EXCEPT !.at = "select"]
  OBVIOUS
<1>4. /\ i.at = "write" /\ contacts' = Upserted(chunk) /\ born' = born + Cardinality(New(chunk))
      /\ imports' = [imports EXCEPT ![s] = j] /\ UNCHANGED <<lists, members, suppressed>>
  BY <1>1, <1>2, <1>3 DEF WriteChunk
<1>5. i.rows \in RowSets /\ ImportIs(i, contacts, members) /\ Table(contacts, born)
  BY <1>1, <1>4 DEF Imports, TestInv, ImportsAre, ContactTypes
<1>6. chunk = [k \in Places(i.rows) |-> i.rows[k]] /\ Places(i.rows) \in SUBSET DOMAIN i.rows
  BY <1>1, <1>2, PlacesAre DEF NextChunk
<1>7. chunk \in RowSets /\ Apart(chunk) /\ AddressesOf(chunk) = Coming(i) /\ Coming(i) \subseteq AddressesOf(i.rows)
  BY <1>5, <1>6, RowsAre DEF Apart, ImportIs, AddressesOf, Coming
<1>8. /\ Table(contacts', born') /\ Grown(contacts, contacts')
      /\ \A id \in DOMAIN contacts' \ DOMAIN contacts : contacts'[id].address \in AddressesOf(i.rows)
      /\ \A a \in Coming(i) : IdsOf(contacts', {a}) # {}
  BY <1>4, <1>5, <1>7, UpsertIs DEF Grown
<1>9. /\ j \in Imports /\ j.at = "select" /\ j.list = i.list /\ j.undisturbed = i.undisturbed
      /\ j.rows = i.rows /\ j.counted = i.counted
  BY <1>3 DEF Imports
<1>10. ImportIs(j, contacts', members')
  <2>1. /\ j.imported = i.imported /\ j.duplicates = i.duplicates /\ j.invalid = i.invalid /\ j.skipped = i.skipped
        /\ j.received = i.received /\ Coming(j) = Coming(i)
    BY <1>3, <1>9 DEF Imports, Coming
  <2> QED BY <1>4, <1>5, <1>8, <1>9, <2>1 DEF ImportIs
<1>11. j # NoImport /\ members' = members /\ members' \subseteq (DOMAIN lists) \X (DOMAIN contacts')
  <2>1. members \subseteq (DOMAIN lists) \X (DOMAIN contacts')
    BY <1>8 DEF Grown, TestInv, ContactTypes
  <2> QED BY <1>4, <1>9, <2>1 DEF NoImport
<1> QED BY <1>1, <1>4, <1>8, <1>9, <1>10, <1>11, ImportGoes

\* Nothing was written or attached.
LEMMA ImportMoves ==
  ASSUME TestInv, NEW s \in Importers, NEW i \in Imports, i = imports[s], NEW j \in {NoImport} \cup Imports,
         imports' = [imports EXCEPT ![s] = j],
         UNCHANGED <<contacts, born, lists, members, suppressed, campaigns, used, making, reset>>,
         j = NoImport => ~(making # Nothing /\ making.by = s),
         j # NoImport =>
           /\ ImportIs(j, contacts, members)
           /\ j.list = i.list /\ j.undisturbed = i.undisturbed /\ AddressesOf(j.rows) \subseteq AddressesOf(i.rows)
           /\ \A id \in j.counted \ i.counted : i.list = NoList
           /\ j.at # "failed" =>
                i.at # "failed" /\ (i.undisturbed /\ i.list # NoList => AddressesOf(i.rows) \subseteq AddressesOf(j.rows))
  PROVE  TestInv'
<1>1. Table(contacts', born') /\ Grown(contacts, contacts') /\ DOMAIN contacts' = DOMAIN contacts
  BY DEF TestInv, ContactTypes, Grown
<1>2. members' = members /\ members' \subseteq (DOMAIN lists) \X (DOMAIN contacts')
  BY DEF TestInv, ContactTypes
<1> QED BY <1>1, <1>2, ImportGoes

\* The ids that are read back are those of the chunk.
LEMMA SelectIdsStep ==
  ASSUME TestInv, NEW s \in Importers, SelectIds(s), UNCHANGED <<campaigns, used, making, reset>>
  PROVE  TestInv'
<1>1. PICK i \in Imports : i = imports[s]
  BY DEF TestInv, ContactTypes, SelectIds, NoImport
<1>2. PICK ids : ids = IdsOf(contacts, Coming(i))
  OBVIOUS
<1>3. With(AddressesOf(NextChunk(s))) = ids
  BY <1>1, <1>2, PlacesAre DEF NextChunk, With, AddressesOf, IdsOf, Coming
<1>4. PICK j : j = [i EXCEPT !.at = "attach", !.ids = ids]
  OBVIOUS
<1>5. /\ i.at = "select" /\ imports' = [imports EXCEPT ![s] = j]
      /\ UNCHANGED <<contacts, born, lists, members, suppressed>>
  <2>1. imports' = [imports EXCEPT ![s].at = "attach", ![s].ids = ids]
    BY <1>3 DEF SelectIds
  <2>2. imports \in [Importers -> {NoImport} \cup Imports]
    BY DEF TestInv, ContactTypes
  <2> QED BY <1>1, <1>4, <2>1, <2>2 DEF SelectIds
<1>6. ids \in IdSets
  BY <1>2, IdsAreFew DEF TestInv, ContactTypes
<1>7. /\ j \in Imports /\ j.at = "attach" /\ j.list = i.list /\ j.undisturbed = i.undisturbed
      /\ j.rows = i.rows /\ j.counted = i.counted
  BY <1>4, <1>6 DEF Imports
<1>8. /\ j.imported = i.imported /\ j.duplicates = i.duplicates /\ j.invalid = i.invalid /\ j.skipped = i.skipped
      /\ j.received = i.received /\ Coming(j) = Coming(i) /\ j.ids = ids
  BY <1>4, <1>7 DEF Imports, Coming
<1>9. ImportIs(j, contacts, members)
  <2>1. ImportIs(i, contacts, members)
    BY <1>1, <1>5 DEF TestInv, ImportsAre
  <2> QED BY <1>2, <1>5, <1>7, <1>8, <2>1 DEF ImportIs
<1>10. j # NoImport
  BY <1>7 DEF NoImport
<1> QED BY <1>1, <1>5, <1>7, <1>9, <1>10, ImportMoves

\* The contacts of a chunk become members; those that were none are counted, each by one import.
LEMMA AttachMembersStep ==
  ASSUME TestInv, NEW s \in Importers, AttachMembers(s), UNCHANGED <<campaigns, used, making, reset>>
  PROVE  TestInv'
<1>1. PICK i \in Imports : i = imports[s]
  BY DEF TestInv, ContactTypes, AttachMembers, NoImport
<1>2. PICK added : added = {id \in i.ids : <<i.list, id>> \notin members}
  OBVIOUS
<1>3. PICK j : j = Summed(i, DOMAIN i.rows \ Places(i.rows), added)
  OBVIOUS
<1>4. /\ i.at = "attach" /\ i.list # NoList /\ i.ids \subseteq DOMAIN contacts /\ i.list \in DOMAIN lists
      /\ members' = members \cup {<<i.list, id>> : id \in added}
      /\ imports' = [imports EXCEPT ![s] = j] /\ UNCHANGED <<contacts, born, lists, suppressed>>
  BY <1>1, <1>2, <1>3 DEF AttachMembers, Attachable, ChunkDone
<1>5. ImportIs(i, contacts, members) /\ Table(contacts, born) /\ members \subseteq members' /\ added \in SUBSET i.ids
  BY <1>1, <1>2, <1>4 DEF TestInv, ImportsAre, ContactTypes
<1>6. i.list # NoList => \A id \in added : <<i.list, id>> \in members'
  BY <1>4
<1>7. /\ j \in Imports /\ ImportIs(j, contacts, members')
      /\ j.at # "failed" /\ j.list = i.list /\ j.undisturbed = i.undisturbed /\ j.counted = i.counted \cup added
      /\ AddressesOf(j.rows) \subseteq AddressesOf(i.rows)
      /\ AddressesOf(i.rows) \subseteq AddressesOf(j.rows) \cup Coming(i)
  <2>1. members \subseteq members' /\ i.at = "attach" /\ added \in SUBSET i.ids
    BY <1>4, <1>5
  <2>2. LET k == Summed(i, DOMAIN i.rows \ Places(i.rows), added)
        IN /\ k \in Imports /\ ImportIs(k, contacts, members')
           /\ k.at # "failed" /\ k.list = i.list /\ k.undisturbed = i.undisturbed /\ k.counted = i.counted \cup added
           /\ AddressesOf(k.rows) \subseteq AddressesOf(i.rows)
           /\ AddressesOf(i.rows) \subseteq AddressesOf(k.rows) \cup Coming(i)
    BY <1>5, <1>6, <2>1, SummedIs
  <2> QED BY <1>3, <2>2
<1>8. /\ Table(contacts', born') /\ Grown(contacts, contacts') /\ contacts' = contacts /\ DOMAIN contacts' \ DOMAIN contacts = {}
      /\ members' \subseteq (DOMAIN lists) \X (DOMAIN contacts')
  <2>1. \A id \in added : <<i.list, id>> \in (DOMAIN lists) \X (DOMAIN contacts)
    BY <1>2, <1>4
  <2>2. members \subseteq (DOMAIN lists) \X (DOMAIN contacts)
    BY DEF TestInv, ContactTypes
  <2>3. members' \subseteq (DOMAIN lists) \X (DOMAIN contacts')
    BY <1>4, <2>1, <2>2
  <2> QED BY <1>4, <1>5, <2>3 DEF Grown
<1>9. \A x \in members' \ members :
        x[1] = i.list /\ i.at # "failed" /\ (i.undisturbed => contacts'[x[2]].address \in AddressesOf(i.rows))
  <2> TAKE x \in members' \ members
  <2>1. PICK id \in added : x = <<i.list, id>>
    BY <1>4
  <2>2. i.undisturbed => id \in IdsOf(contacts, Coming(i))
    BY <1>2, <1>4, <1>5 DEF ImportIs
  <2>3. Coming(i) \subseteq AddressesOf(i.rows)
    BY PlacesAre DEF Coming, AddressesOf
  <2> QED BY <1>4, <1>8, <2>1, <2>2, <2>3 DEF IdsOf
<1>10. ASSUME i.undisturbed PROVE Coming(i) \subseteq OnList(i.list)'
  <2> SUFFICES ASSUME NEW a \in Coming(i) PROVE a \in OnList(i.list)'
    OBVIOUS
  <2>1. PICK id \in DOMAIN contacts : contacts[id].address = a /\ id \in i.ids
    BY <1>4, <1>5, <1>10 DEF ImportIs, IdsOf
  <2>2. <<i.list, id>> \in members'
    BY <1>2, <1>4, <2>1
  <2>3. contacts'[<<i.list, id>>[2]].address = a /\ <<i.list, id>>[1] = i.list
    BY <1>8, <2>1
  <2> QED BY <2>2, <2>3 DEF OnList
<1>11. j # NoImport /\ i.at # "failed"
  BY <1>4, <1>7 DEF NoImport, Imports
<1>12. \A id \in j.counted \ i.counted : i.list # NoList => <<i.list, id>> \notin members
  BY <1>2, <1>7
<1> QED BY <1>1, <1>4, <1>5, <1>7, <1>8, <1>9, <1>10, <1>11, <1>12, ImportGoes

\* Without a list every contact of a chunk is counted.
LEMMA AttachToNothingStep ==
  ASSUME TestInv, NEW s \in Importers, AttachToNothing(s), UNCHANGED <<campaigns, used, making, reset>>
  PROVE  TestInv'
<1>1. PICK i \in Imports : i = imports[s]
  BY DEF TestInv, ContactTypes, AttachToNothing, NoImport
<1>2. PICK j : j = Summed(i, DOMAIN i.rows \ Places(i.rows), i.ids)
  OBVIOUS
<1>3. /\ i.at = "attach" /\ i.list = NoList /\ imports' = [imports EXCEPT ![s] = j]
      /\ UNCHANGED <<contacts, born, lists, members, suppressed>>
  BY <1>1, <1>2 DEF AttachToNothing, ChunkDone
<1>4. ImportIs(i, contacts, members) /\ Table(contacts, born) /\ i.ids \in SUBSET i.ids /\ members \subseteq members
      /\ (i.list # NoList => \A id \in i.ids : <<i.list, id>> \in members)
  BY <1>1, <1>3 DEF TestInv, ImportsAre, ContactTypes
<1>5. /\ j \in Imports /\ ImportIs(j, contacts, members) /\ j.at # "failed" /\ j.list = i.list /\ j.undisturbed = i.undisturbed
      /\ AddressesOf(j.rows) \subseteq AddressesOf(i.rows)
  <2>1. LET k == Summed(i, DOMAIN i.rows \ Places(i.rows), i.ids)
        IN /\ k \in Imports /\ ImportIs(k, contacts, members)
           /\ k.at # "failed" /\ k.list = i.list /\ k.undisturbed = i.undisturbed /\ k.counted = i.counted \cup i.ids
           /\ AddressesOf(k.rows) \subseteq AddressesOf(i.rows)
           /\ AddressesOf(i.rows) \subseteq AddressesOf(k.rows) \cup Coming(i)
    BY <1>3, <1>4, SummedIs
  <2> QED BY <1>2, <2>1
<1>6. j # NoImport /\ i.at # "failed"
  BY <1>3, <1>5 DEF NoImport, Imports
<1> QED BY <1>1, <1>3, <1>5, <1>6, ImportMoves

\* A statement of an import fails or is refused.
LEMMA ImportFailsStep ==
  ASSUME TestInv, NEW s \in Importers, ImportRefused(s) \/ ImportFails(s), UNCHANGED <<campaigns, used, making, reset>>
  PROVE  TestInv'
<1>1. PICK i \in Imports : i = imports[s]
  BY DEF TestInv, ContactTypes, ImportRefused, ImportFails, NoImport
<1>2. PICK j : j = [i EXCEPT !.at = "failed"]
  OBVIOUS
<1>3. i.at # "none" /\ imports' = [imports EXCEPT ![s] = j] /\ UNCHANGED <<contacts, born, lists, members, suppressed>>
  BY <1>1, <1>2 DEF ImportRefused, ImportFails, Failed
<1>4. /\ j \in Imports /\ j.at = "failed" /\ j.list = i.list /\ j.undisturbed = i.undisturbed
      /\ j.rows = i.rows /\ j.counted = i.counted
  BY <1>2 DEF Imports
<1>5. ImportIs(j, contacts, members)
  <2>1. ImportIs(i, contacts, members)
    BY <1>1, <1>3 DEF TestInv, ImportsAre
  <2> QED BY <1>4, <2>1 DEF ImportIs
<1>6. j # NoImport
  BY <1>4 DEF NoImport
<1> QED BY <1>1, <1>3, <1>4, <1>5, <1>6, ImportMoves

\* The answer of an import leaves.
LEMMA EndImportStep ==
  ASSUME TestInv, NEW s \in Importers, ~(making # Nothing /\ making.by = s), EndImport(s),
         UNCHANGED <<campaigns, used, making, reset>>
  PROVE  TestInv'
<1>1. PICK i \in Imports : i = imports[s]
  BY DEF TestInv, ContactTypes, EndImport, NoImport
<1>2. imports' = [imports EXCEPT ![s] = NoImport] /\ UNCHANGED <<contacts, born, lists, members, suppressed>>
  BY DEF EndImport
<1> QED BY <1>1, <1>2, ImportMoves

\* All steps of an import that has begun.
LEMMA ImportGoesOnStep ==
  ASSUME TestInv, NEW s \in Importers, ImportGoesOn(s) \/ (ImportFails(s) /\ UNCHANGED <<campaigns, used, making, reset>>)
  PROVE  TestInv'
  BY WriteChunkStep, SelectIdsStep, AttachMembersStep, AttachToNothingStep, ImportFailsStep, EndImportStep
     DEF ImportGoesOn, ImportStep

\* An import begins; nobody else has seen its rows.
LEMMA Begins ==
  ASSUME TestInv, NEW s \in Importers, NEW input \in Seq(InputRows), NEW list \in {0, NoList} \cup used,
         BeginImport(s, input, list), used' = used,
         \A n \in Creations \ used : AddressesOf(input) \cap Batch[n] = {}
  PROVE  /\ ContactTypes' /\ ImportsAre' /\ Unheard' /\ DOMAIN lists' \subseteq {0} \cup used' /\ used' \subseteq Creations
         /\ UNCHANGED <<contacts, born, lists, members, suppressed>>
         /\ \E i \in Imports :
              /\ imports' = [imports EXCEPT ![s] = i]
              /\ i.at # "failed" /\ i.list = list /\ i.undisturbed
              /\ AddressesOf(i.rows) \subseteq AddressesOf(input)
              /\ Len(input) <= MaxRows /\ Apart(input) /\ AddressesOf(input) \subseteq Addresses \ suppressed
                   => AddressesOf(input) \subseteq AddressesOf(i.rows)
<1>1. list \in ListIds \cup {NoList}
  BY DEF TestInv, CampaignTypes, ListIds
<1>2. PICK i \in Imports :
        /\ imports' = [imports EXCEPT ![s] = i]
        /\ i.at # "failed" /\ i.list = list /\ i.undisturbed /\ i.counted = {}
        /\ ImportIs(i, contacts, members)
        /\ AddressesOf(i.rows) \subseteq AddressesOf(input)
        /\ Len(input) <= MaxRows /\ Apart(input) /\ AddressesOf(input) \subseteq Addresses \ suppressed
             => AddressesOf(input) \subseteq AddressesOf(i.rows)
  BY <1>1, StartedIs
<1>3. UNCHANGED <<contacts, born, lists, members, suppressed>>
  BY DEF BeginImport
<1>4. /\ Table(contacts', born') /\ Grown(contacts, contacts') /\ members \subseteq members'
      /\ members' \subseteq (DOMAIN lists) \X (DOMAIN contacts') /\ ImportIs(i, contacts', members')
  BY <1>2, <1>3 DEF TestInv, ContactTypes, Grown
<1>5. \A n \in Creations \ used : IdsOf(contacts', Batch[n]) = {} /\ AddressesOf(i.rows) \cap Batch[n] = {}
  BY <1>2, <1>3 DEF TestInv, Unheard, With, IdsOf
<1>6. ContactTypes' /\ ImportsAre' /\ Unheard' /\ DOMAIN lists' \subseteq {0} \cup used' /\ used' \subseteq Creations
  <2>1. i.list \in {0, NoList} \cup used /\ \A u \in Importers \ {s} : i.counted \cap imports[u].counted = {}
    BY <1>2
  <2> QED BY <1>2, <1>3, <1>4, <1>5, <2>1, OneImport
<1> QED BY <1>2, <1>3, <1>6

\* An admin imports a file: nobody made up is in it.
LEMMA AdminImportStep ==
  ASSUME TestInv, NEW s \in Importers, NEW input \in Inputs, NEW l \in DOMAIN lists \cup {NoList}, AdminImport(s, input, l)
  PROVE  TestInv'
<1>1. BeginImport(s, input, l) /\ making' = MakingDisturbed /\ UNCHANGED <<campaigns, used, reset>>
  BY DEF AdminImport
<1>2. input \in Seq(InputRows) /\ l \in {0, NoList} \cup used
  BY ImportAssumption DEF TestInv, CampaignTypes
<1>3. \A n \in Creations \ used : AddressesOf(input) \cap Batch[n] = {}
  BY TestAssumption DEF MadeUp
<1>4. ContactTypes' /\ ImportsAre' /\ Unheard' /\ DOMAIN lists' \subseteq {0} \cup used' /\ used' \subseteq Creations
  BY <1>1, <1>2, <1>3, Begins
<1>5. /\ making' \in {Nothing} \cup Makings
      /\ making' # Nothing => /\ making # Nothing /\ making'.n = making.n /\ making'.by = making.by
                              /\ making'.at = making.at /\ ~making'.undisturbed
  <2>1. making \in {Nothing} \cup Makings
    BY DEF TestInv, CampaignTypes
  <2> QED BY <1>1, <2>1, MakingDisturbedIs
<1>6. CampaignTypes' /\ Unqueued'
  BY <1>1, <1>4, <1>5 DEF TestInv, CampaignTypes, Unqueued
<1>7. MakingIs'
  BY <1>1, <1>5 DEF TestInv, MakingIs
<1> QED BY <1>4, <1>6, <1>7 DEF TestInv

-----------------------------------------------------------------------------
(* Steps of a creation. *)

\* A creation begins: nobody has heard of its list or its people.
LEMMA MakeListStep ==
  ASSUME TestInv, NEW n \in Creations, MakeList(n)
  PROVE  TestInv'
<1>1. /\ n \notin used /\ lists' = ListsWith(n, TRUE) /\ used' = used \cup {n}
      /\ making' = [at |-> "import", n |-> n, by |-> NoList, undisturbed |-> TRUE]
      /\ UNCHANGED <<contacts, born, members, suppressed, imports, campaigns, reset>>
  BY DEF MakeList
<1>2. n # 0 /\ n # NoList /\ n \notin DOMAIN lists /\ n \notin DOMAIN campaigns
  BY <1>1, TestAssumption DEF TestInv, CampaignTypes
<1>3. DOMAIN lists' = DOMAIN lists \cup {n} /\ lists' \in [DOMAIN lists' -> BOOLEAN]
  BY <1>1 DEF ListsWith, TestInv, ContactTypes
<1>4. ContactTypes'
  BY <1>1, <1>3 DEF TestInv, ContactTypes
<1>5. making' \in Makings
  BY <1>1 DEF Makings
<1>6. CampaignTypes'
  BY <1>1, <1>3, <1>5 DEF TestInv, CampaignTypes
<1>7. ImportsAre' /\ Unqueued'
  BY <1>1 DEF TestInv, ImportsAre, CountedByOne, Unqueued
<1>8. Unheard'
  BY <1>1 DEF TestInv, Unheard, With, AddressesOf
<1>9. OnList(n)' = {}
  BY <1>1, <1>2 DEF OnList, TestInv, ContactTypes
<1>10. Batch[n] \cap suppressed = {} /\ \A u \in Importers : imports[u].at # "none" => imports[u].list # n
  BY <1>1, <1>2 DEF TestInv, Unheard
<1>11. MakingIs'
  BY <1>1, <1>2, <1>3, <1>9, <1>10 DEF MakingIs, Gathered, Chosen
<1> QED BY <1>4, <1>6, <1>7, <1>8, <1>11 DEF TestInv

\* What is imported for a creation: its people, each once, and no more than are read.
LEMMA PeopleAre ==
  ASSUME NEW n \in Creations, NEW input,
         input = SetToSeq({[address |-> a, name |-> CHOOSE name \in Names : TRUE] : a \in Batch[n]})
  PROVE  input \in Seq(InputRows) /\ Apart(input) /\ AddressesOf(input) = Batch[n] /\ Len(input) <= MaxRows
<1> DEFINE person(a) == [address |-> a, name |-> CHOOSE name \in Names : TRUE]
           people    == {person(a) : a \in Batch[n]}
<1>1. Batch[n] \subseteq Addresses /\ IsFiniteSet(Batch[n]) /\ Cardinality(Batch[n]) <= MaxRows
  BY TestAssumption
<1>2. (CHOOSE name \in Names : TRUE) \in Names
  BY TestAssumption
<1>3. PICK f : f = [a \in Batch[n] |-> person(a)]
  OBVIOUS
<1>4. f \in Bijection(Batch[n], people)
  <2>1. f \in [Batch[n] -> people] /\ \A a \in Batch[n] : f[a] = person(a) /\ f[a].address = a
    BY <1>3
  <2>2. \A a, b \in Batch[n] : f[a] = f[b] => a = b
    BY <2>1
  <2>3. \A p \in people : \E a \in Batch[n] : f[a] = p
    BY <2>1
  <2> HIDE DEF people
  <2> QED BY <2>1, <2>2, <2>3 DEF Bijection, Injection, Surjection, IsInjective
<1>5. IsFiniteSet(people) /\ Cardinality(people) = Cardinality(Batch[n])
  BY <1>1, <1>4, FS_Bijection DEF ExistsBijection
<1>6. /\ input \in Seq(people) /\ Len(input) = Cardinality(people)
      /\ input \in [1..Cardinality(people) -> people]
      /\ \A e \in people : \E k \in 1..Cardinality(people) : input[k] = e
      /\ \A j, k \in 1..Cardinality(people) : input[j] = input[k] => j = k
  BY <1>5, SetInARow
<1>7. \A p \in people : p \in InputRows /\ p.address \in Batch[n] /\ p = person(p.address)
  BY <1>1, <1>2 DEF InputRows
<1>8. input \in Seq(InputRows)
  BY <1>6, <1>7
<1>9. DOMAIN input = 1..Cardinality(people) /\ \A k \in DOMAIN input : input[k] \in people
  BY <1>6
<1>10. Apart(input)
  <2> SUFFICES ASSUME NEW j \in DOMAIN input, NEW k \in DOMAIN input, input[j].address = input[k].address PROVE j = k
    BY DEF Apart
  <2>1. input[j] = person(input[j].address) /\ input[k] = person(input[k].address)
    BY <1>7, <1>9
  <2>2. input[j] = input[k]
    BY <2>1
  <2> QED BY <1>6, <1>9, <2>2
<1>11. AddressesOf(input) = Batch[n]
  <2>1. AddressesOf(input) \subseteq Batch[n]
    BY <1>7, <1>9 DEF AddressesOf
  <2>2. ASSUME NEW a \in Batch[n] PROVE a \in AddressesOf(input)
    <3>1. person(a) \in people /\ person(a).address = a
      OBVIOUS
    <3>2. PICK k \in DOMAIN input : input[k] = person(a)
      BY <1>6, <1>9, <3>1
    <3> QED BY <3>1, <3>2 DEF AddressesOf
  <2> QED BY <2>1, <2>2
<1> QED BY <1>1, <1>5, <1>6, <1>8, <1>10, <1>11

\* The import of a creation begins, with all its people.
LEMMA MakePeopleStep ==
  ASSUME TestInv, MakePeople
  PROVE  TestInv'
<1>1. PICK m \in Makings : m = making
  BY DEF TestInv, CampaignTypes, MakePeople, Nothing
<1>2. PICK input : input = SetToSeq({[address |-> a, name |-> CHOOSE name \in Names : TRUE] : a \in Batch[m.n]})
  OBVIOUS
<1>3. PICK s \in Importers :
        /\ m.at = "import" /\ BeginImport(s, input, m.n) /\ making' = [m EXCEPT !.at = "importing", !.by = s]
        /\ UNCHANGED <<campaigns, used, reset>>
  BY <1>1, <1>2 DEF MakePeople
<1>4. m.n \in Creations /\ m.n \in used /\ m.n \notin DOMAIN campaigns /\ (m.undisturbed => Gathered(m))
  BY <1>1, <1>3 DEF TestInv, MakingIs, Makings, Nothing
<1>5. input \in Seq(InputRows) /\ Apart(input) /\ AddressesOf(input) = Batch[m.n] /\ Len(input) <= MaxRows
  BY <1>2, <1>4, PeopleAre
<1>6. /\ ContactTypes' /\ ImportsAre' /\ Unheard' /\ DOMAIN lists' \subseteq {0} \cup used' /\ used' \subseteq Creations
      /\ UNCHANGED <<contacts, born, lists, members, suppressed>>
      /\ \E i \in Imports :
           /\ imports' = [imports EXCEPT ![s] = i]
           /\ i.at # "failed" /\ i.list = m.n /\ i.undisturbed
           /\ AddressesOf(i.rows) \subseteq AddressesOf(input)
           /\ Len(input) <= MaxRows /\ Apart(input) /\ AddressesOf(input) \subseteq Addresses \ suppressed
                => AddressesOf(input) \subseteq AddressesOf(i.rows)
  <2>1. \A n \in Creations \ used : AddressesOf(input) \cap Batch[n] = {}
    BY <1>4, <1>5, TestAssumption
  <2>2. m.n \in {0, NoList} \cup used
    BY <1>4
  <2> QED BY <1>3, <1>5, <2>1, <2>2, Begins
<1>7. PICK i \in Imports :
           /\ imports' = [imports EXCEPT ![s] = i]
           /\ i.at # "failed" /\ i.list = m.n /\ i.undisturbed
           /\ AddressesOf(i.rows) \subseteq Batch[m.n]
           /\ Batch[m.n] \subseteq Addresses \ suppressed => Batch[m.n] \subseteq AddressesOf(i.rows)
  BY <1>5, <1>6
<1>8. making' \in Makings /\ making'.at = "importing" /\ making'.by = s /\ making'.n = m.n /\ making'.undisturbed = m.undisturbed
  BY <1>1, <1>3 DEF Makings
<1>9. CampaignTypes' /\ Unqueued'
  BY <1>3, <1>6, <1>8 DEF TestInv, CampaignTypes, Unqueued
<1>10. ASSUME m.undisturbed PROVE Gathered(making)' /\ Chosen(making)'
  <2>1. imports'[s] = i /\ i.at # "none" /\ \A u \in Importers \ {s} : imports'[u] = imports[u]
    BY <1>7 DEF TestInv, ContactTypes, Imports
  <2>2. OnList(m.n)' = OnList(m.n)
    BY <1>6 DEF OnList
  <2>3. Batch[m.n] \subseteq AddressesOf(i.rows)
    BY <1>4, <1>7, <1>10, TestAssumption DEF Gathered
  <2>4. ImportOf(i, m.n)'
    BY <1>7, <2>1, <2>3 DEF ImportOf, AddressesOf
  <2>5. OnlyInto(m.n, s)'
    BY <1>3, <1>4, <1>10, <2>1 DEF OnlyInto, Gathered
  <2>6. Gathered(making)'
    <3>1. ImportOf(imports[making.by], making.n)'
      BY <1>8, <2>1, <2>4 DEF ImportOf
    <3>2. OnlyInto(making.n, making.by)'
      BY <1>8, <2>5 DEF OnlyInto
    <3> QED BY <1>4, <1>6, <1>8, <1>10, <2>2, <3>1, <3>2 DEF Gathered
  <2>7. Chosen(making)'
    BY <1>3, <1>4, <1>8 DEF Chosen
  <2> QED BY <2>6, <2>7
<1>11. MakingIs'
  BY <1>3, <1>4, <1>8, <1>10 DEF MakingIs
<1> QED BY <1>6, <1>9, <1>11 DEF TestInv

\* The import of a creation is over: all its people are on its list, or it failed.
LEMMA MakeDraftStep ==
  ASSUME TestInv, MakeDraft
  PROVE  TestInv'
<1>1. PICK m \in Makings : m = making
  BY DEF TestInv, CampaignTypes, MakeDraft, Nothing
<1>2. PICK i : i = imports[m.by]
  OBVIOUS
<1>3. /\ m.at = "importing" /\ imports' = [imports EXCEPT ![m.by] = NoImport]
      /\ UNCHANGED <<contacts, born, lists, members, suppressed, used, reset>>
      /\ \/ /\ i.at = "done"
            /\ campaigns' = [c \in DOMAIN campaigns \cup {m.n} |->
                               IF c = m.n THEN [Real EXCEPT !.test = TRUE, !.lists = {}] ELSE campaigns[c]]
            /\ making' = [m EXCEPT !.at = "select", !.by = NoList]
         \/ making' = Nothing /\ campaigns' = campaigns
  BY <1>1, <1>2 DEF MakeDraft
<1>4. m.by \in Importers /\ m.n \in used /\ m.n \in Creations /\ (m.undisturbed => Gathered(m))
  BY <1>1, <1>3 DEF TestInv, MakingIs, Makings, Nothing
<1>5. /\ Table(contacts', born') /\ Grown(contacts, contacts') /\ members \subseteq members'
      /\ members' \subseteq (DOMAIN lists) \X (DOMAIN contacts')
  BY <1>3 DEF TestInv, ContactTypes, Grown
<1>6. \A n \in Creations \ used : IdsOf(contacts', Batch[n]) = {}
  BY <1>3 DEF TestInv, Unheard, With, IdsOf
<1>7. ContactTypes' /\ ImportsAre' /\ Unheard' /\ DOMAIN lists' \subseteq {0} \cup used' /\ used' \subseteq Creations
  <2>1. NoImport \in {NoImport} \cup Imports /\ NoImport.at = "none"
    BY DEF NoImport
  <2> QED BY <1>3, <1>4, <1>5, <1>6, <2>1, OneImport
<1>8. CASE making' = Nothing /\ campaigns' = campaigns
  BY <1>3, <1>7, <1>8 DEF TestInv, CampaignTypes, Unqueued, MakingIs
<1>9. CASE /\ i.at = "done"
           /\ campaigns' = [c \in DOMAIN campaigns \cup {m.n} |->
                              IF c = m.n THEN [Real EXCEPT !.test = TRUE, !.lists = {}] ELSE campaigns[c]]
           /\ making' = [m EXCEPT !.at = "select", !.by = NoList]
  <2>1. making' \in Makings /\ making'.at = "select" /\ making'.n = m.n /\ making'.undisturbed = m.undisturbed
    BY <1>1, <1>9 DEF Makings
  <2>2. PICK draft : draft = [Real EXCEPT !.test = TRUE, !.lists = {}]
    OBVIOUS
  <2>3. draft \in Campaigns /\ draft.status = "DRAFT" /\ draft.rows = {}
    <3>1. Real \in Campaigns /\ Real.status = "DRAFT" /\ Real.rows = {}
      BY DEF Campaigns, Real, ListIds
    <3>2. TRUE \in BOOLEAN /\ {} \in SUBSET ListIds
      OBVIOUS
    <3> QED BY <2>2, <3>1, <3>2 DEF Campaigns
  <2>4. /\ DOMAIN campaigns' = DOMAIN campaigns \cup {m.n} /\ campaigns'[m.n] = draft
        /\ \A c \in DOMAIN campaigns \ {m.n} : campaigns'[c] = campaigns[c]
    BY <1>9, <2>2
  <2>5. campaigns' \in [DOMAIN campaigns' -> Campaigns]
    <3>1. \A c \in DOMAIN campaigns' : campaigns'[c] \in Campaigns
      BY <2>3, <2>4 DEF TestInv, CampaignTypes
    <3> QED BY <1>9, <3>1
  <2>6. CampaignTypes'
    BY <1>3, <1>4, <1>7, <2>1, <2>4, <2>5 DEF TestInv, CampaignTypes
  <2>7. Unqueued'
    BY <2>3, <2>4 DEF TestInv, Unqueued
  <2>8. ASSUME m.undisturbed PROVE Gathered(making)' /\ Chosen(making)'
    <3>1. OnList(m.n)' = OnList(m.n)
      BY <1>3 DEF OnList
    <3>2. ImportOf(i, m.n) /\ OnlyInto(m.n, m.by)
      BY <1>2, <1>3, <1>4, <2>8 DEF Gathered
    <3>3. DOMAIN i.rows = {}
      BY <1>2, <1>4, <1>9 DEF TestInv, ImportsAre, ImportIs
    <3>4. Batch[m.n] \subseteq OnList(m.n)
      BY <1>9, <3>2, <3>3 DEF ImportOf, AddressesOf
    <3>5. \A u \in Importers : imports'[u].at # "none" => imports'[u].list # m.n
      <4> TAKE u \in Importers
      <4>1. imports \in [Importers -> {NoImport} \cup Imports]
        BY DEF TestInv, ContactTypes
      <4>2. CASE u = m.by
        BY <1>3, <4>1, <4>2 DEF NoImport
      <4>3. CASE u # m.by
        BY <1>3, <3>2, <4>1, <4>3 DEF OnlyInto
      <4> QED BY <4>2, <4>3
    <3> QED BY <1>3, <1>4, <2>1, <2>8, <3>1, <3>4, <3>5 DEF Gathered, Chosen
  <2>9. MakingIs'
    BY <1>3, <1>4, <2>1, <2>8 DEF MakingIs
  <2> QED BY <1>7, <2>6, <2>7, <2>9 DEF TestInv
<1> QED BY <1>3, <1>8, <1>9

-----------------------------------------------------------------------------
(* Steps that take from what imports and creations use. *)

\* What takes something away disturbs every import and the creation, which then know less.
LEMMA DisturbingStep ==
  ASSUME TestInv, imports' = Disturbed, making' = MakingDisturbed, UNCHANGED <<used, suppressed>>,
         Table(contacts', born'), lists' \in [DOMAIN lists' -> BOOLEAN], DOMAIN lists' \subseteq DOMAIN lists,
         members' \subseteq (DOMAIN lists') \X (DOMAIN contacts'),
         \A n \in Creations \ used : IdsOf(contacts', Batch[n]) = {},
         campaigns' \in [DOMAIN campaigns -> Campaigns], Unqueued', reset' \in {Nothing} \cup Resets
  PROVE  TestInv'
<1>1. imports \in [Importers -> {NoImport} \cup Imports] /\ making \in {Nothing} \cup Makings
  BY DEF TestInv, ContactTypes, CampaignTypes
<1>2. ASSUME NEW s \in Importers
      PROVE  /\ imports'[s] \in {NoImport} \cup Imports
             /\ imports'[s].at # "none" =>
                  /\ imports[s].at # "none" /\ imports'[s].list = imports[s].list /\ imports'[s].rows = imports[s].rows
                  /\ imports'[s].at = imports[s].at /\ ~imports'[s].undisturbed
  <2>1. PICK i \in {NoImport} \cup Imports : i = imports[s]
    BY <1>1
  <2>2. imports'[s] = IF i.at = "none" THEN NoImport ELSE [i EXCEPT !.undisturbed = FALSE]
    BY <2>1 DEF Disturbed
  <2>3. CASE i.at = "none"
    BY <2>2, <2>3 DEF NoImport
  <2>4. CASE i.at # "none"
    <3>1. i \in Imports
      BY <2>4 DEF NoImport
    <3>2. PICK j : j = [i EXCEPT !.undisturbed = FALSE]
      OBVIOUS
    <3>3. j \in Imports /\ j.list = i.list /\ j.rows = i.rows /\ j.at = i.at /\ j.undisturbed = FALSE
      BY <3>1, <3>2 DEF Imports
    <3> QED BY <2>1, <2>2, <2>4, <3>2, <3>3
  <2> QED BY <2>3, <2>4
<1>3. imports' \in [Importers -> {NoImport} \cup Imports]
  BY <1>2 DEF Disturbed
<1>4. ContactTypes'
  BY <1>3 DEF TestInv, ContactTypes
<1>5. /\ making' \in {Nothing} \cup Makings
      /\ making' # Nothing => /\ making # Nothing /\ making'.n = making.n /\ making'.by = making.by
                              /\ making'.at = making.at /\ ~making'.undisturbed
  BY <1>1, MakingDisturbedIs
<1>6. CampaignTypes'
  BY <1>5 DEF TestInv, CampaignTypes
<1>7. ImportsAre'
  <2>1. \A s \in Importers : imports'[s].at # "none" => ImportIs(imports'[s], contacts', members')
    BY <1>2 DEF TestInv, ImportsAre, ImportIs
  <2>2. CountedByOne'
    BY <1>2 DEF CountedByOne
  <2> QED BY <2>1, <2>2 DEF ImportsAre
<1>8. Unheard'
  <2>1. \A s \in Importers : imports'[s].at # "none" =>
          /\ imports'[s].list \in {0, NoList} \cup used
          /\ \A n \in Creations \ used : AddressesOf(imports'[s].rows) \cap Batch[n] = {}
    BY <1>2 DEF TestInv, Unheard
  <2>2. \A n \in Creations \ used : With(Batch[n])' = {} /\ suppressed' \cap Batch[n] = {}
    BY DEF TestInv, Unheard, With, IdsOf
  <2>3. \A s \in Importers : AddressesOf(imports[s].rows)' = AddressesOf(imports'[s].rows)
    BY DEF AddressesOf
  <2> QED BY <2>1, <2>2, <2>3 DEF Unheard
<1>9. MakingIs'
  BY <1>5 DEF TestInv, MakingIs
<1> QED BY <1>4, <1>6, <1>7, <1>8, <1>9 DEF TestInv

\* What becomes of campaigns when contacts go: their rows keep the addresses.
LEMMA DetachedIs ==
  ASSUME CampaignTypes, Unqueued, NEW ids
  PROVE  /\ Detached(ids) \in [DOMAIN campaigns -> Campaigns]
         /\ \A c \in DOMAIN campaigns :
              /\ Detached(ids)[c].status = campaigns[c].status /\ Detached(ids)[c].test = campaigns[c].test
              /\ Detached(ids)[c].lists = campaigns[c].lists
              /\ campaigns[c].status \in {"DRAFT", "SCHEDULED"} => Detached(ids)[c].rows = {}
              /\ {r.address : r \in Detached(ids)[c].rows} = Recipients(c)
<1>1. ASSUME NEW c \in DOMAIN campaigns
      PROVE  /\ Detached(ids)[c] \in Campaigns
             /\ Detached(ids)[c].status = campaigns[c].status /\ Detached(ids)[c].test = campaigns[c].test
             /\ Detached(ids)[c].lists = campaigns[c].lists
             /\ campaigns[c].status \in {"DRAFT", "SCHEDULED"} => Detached(ids)[c].rows = {}
             /\ {r.address : r \in Detached(ids)[c].rows} = Recipients(c)
  <2>1. campaigns[c] \in Campaigns /\ campaigns[c].rows \subseteq Copies
    BY DEF CampaignTypes, Campaigns
  <2>2. PICK rows : rows = {IF r.contact \in ids THEN [r EXCEPT !.contact = NoContact] ELSE r : r \in campaigns[c].rows}
    OBVIOUS
  <2>3. \A r \in Copies : [r EXCEPT !.contact = NoContact] \in Copies /\ [r EXCEPT !.contact = NoContact].address = r.address
    BY DEF Copies
  <2>4. rows \in SUBSET Copies
    BY <2>1, <2>2, <2>3
  <2>5. Detached(ids)[c] = [campaigns[c] EXCEPT !.rows = rows]
    BY <2>2 DEF Detached
  <2>6. /\ [campaigns[c] EXCEPT !.rows = rows] \in Campaigns
        /\ [campaigns[c] EXCEPT !.rows = rows]
             = [status |-> campaigns[c].status, test |-> campaigns[c].test, lists |-> campaigns[c].lists, rows |-> rows]
    BY <2>1, <2>4, CampaignIs
  <2>7. campaigns[c].status \in {"DRAFT", "SCHEDULED"} => rows = {}
    BY <2>2 DEF Unqueued
  <2>8. {r.address : r \in rows} = Recipients(c)
    <3>1. \A r \in campaigns[c].rows : r.address \in {q.address : q \in rows}
      BY <2>1, <2>2, <2>3
    <3>2. \A q \in rows : \E r \in campaigns[c].rows : q.address = r.address
      BY <2>1, <2>2, <2>3, ZenonT(60)
    <3> QED BY <3>1, <3>2 DEF Recipients
  <2> QED BY <2>5, <2>6, <2>7, <2>8
<1>2. Detached(ids) = [c \in DOMAIN campaigns |-> Detached(ids)[c]]
  BY DEF Detached
<1> QED BY <1>1, <1>2

\* What becomes of campaigns when lists go.
LEMMA WithoutListsIs ==
  ASSUME CampaignTypes, Unqueued, NEW ls
  PROVE  /\ WithoutLists(ls) \in [DOMAIN campaigns -> Campaigns]
         /\ \A c \in DOMAIN campaigns :
              /\ WithoutLists(ls)[c].status = campaigns[c].status /\ WithoutLists(ls)[c].test = campaigns[c].test
              /\ WithoutLists(ls)[c].rows = campaigns[c].rows
              /\ WithoutLists(ls)[c].lists = campaigns[c].lists \ ls
<1>1. ASSUME NEW c \in DOMAIN campaigns
      PROVE  /\ WithoutLists(ls)[c] \in Campaigns
             /\ WithoutLists(ls)[c].status = campaigns[c].status /\ WithoutLists(ls)[c].test = campaigns[c].test
             /\ WithoutLists(ls)[c].rows = campaigns[c].rows
             /\ WithoutLists(ls)[c].lists = campaigns[c].lists \ ls
  <2>1. campaigns[c] \in Campaigns /\ campaigns[c].lists \ ls \in SUBSET ListIds
    BY DEF CampaignTypes, Campaigns
  <2>2. WithoutLists(ls)[c] = [campaigns[c] EXCEPT !.lists = campaigns[c].lists \ ls]
    BY DEF WithoutLists
  <2>3. /\ [campaigns[c] EXCEPT !.lists = campaigns[c].lists \ ls] \in Campaigns
        /\ [campaigns[c] EXCEPT !.lists = campaigns[c].lists \ ls]
             = [status |-> campaigns[c].status, test |-> campaigns[c].test, lists |-> campaigns[c].lists \ ls,
                rows |-> campaigns[c].rows]
    BY <2>1, CampaignIs
  <2> QED BY <2>2, <2>3
<1>2. WithoutLists(ls) = [c \in DOMAIN campaigns |-> WithoutLists(ls)[c]]
  BY DEF WithoutLists
<1> QED BY <1>1, <1>2

\* Some of the contacts are a table too.
LEMMA SomeAre ==
  ASSUME TestInv, NEW ids
  PROVE  /\ Table(ContactsWithout(ids), born) /\ DOMAIN ContactsWithout(ids) = DOMAIN contacts \ ids
         /\ \A id \in DOMAIN contacts \ ids : ContactsWithout(ids)[id] = contacts[id]
         /\ \A n \in Creations \ used : IdsOf(ContactsWithout(ids), Batch[n]) = {} /\ IdsOf(contacts, Batch[n]) = {}
<1>1. /\ DOMAIN ContactsWithout(ids) = DOMAIN contacts \ ids
      /\ \A id \in DOMAIN contacts \ ids : ContactsWithout(ids)[id] = contacts[id]
  BY DEF ContactsWithout
<1>2. Table(contacts, born) /\ \A n \in Creations \ used : IdsOf(contacts, Batch[n]) = {}
  BY DEF TestInv, ContactTypes, Unheard, With, IdsOf
<1>3. ContactsWithout(ids) \in [DOMAIN ContactsWithout(ids) -> Row]
  BY <1>1, <1>2 DEF Table, ContactsWithout
<1>4. Table(ContactsWithout(ids), born)
  BY <1>1, <1>2, <1>3 DEF Table
<1>5. \A n \in Creations \ used : IdsOf(ContactsWithout(ids), Batch[n]) = {}
  BY <1>1, <1>2 DEF IdsOf
<1> QED BY <1>1, <1>2, <1>4, <1>5

\* An admin edits, deletes, removes or suppresses one person.
LEMMA AdminEditsStep ==
  ASSUME TestInv, AdminEdits, making' = MakingDisturbed, UNCHANGED <<used, reset>>
  PROVE  TestInv'
<1>1. ContactTypes /\ CampaignTypes /\ Unqueued
  BY DEF TestInv
<1>2. /\ Table(contacts, born) /\ lists \in [DOMAIN lists -> BOOLEAN] /\ members \subseteq (DOMAIN lists) \X (DOMAIN contacts)
      /\ campaigns \in [DOMAIN campaigns -> Campaigns] /\ reset' \in {Nothing} \cup Resets
      /\ \A n \in Creations \ used : IdsOf(contacts, Batch[n]) = {}
  BY <1>1 DEF ContactTypes, CampaignTypes, TestInv, Unheard, With, IdsOf
<1>3. ASSUME NEW id \in DOMAIN contacts, NEW a \in Addresses \ MadeUp, NEW name \in Names \cup {NoName},
             EditContact(id, a, name), UNCHANGED campaigns
      PROVE  TestInv'
  <2>1. /\ With({a}) \subseteq {id} /\ contacts' = [contacts EXCEPT ![id] = [address |-> a, name |-> name]]
        /\ imports' = Disturbed /\ UNCHANGED <<born, lists, members, suppressed>>
    BY <1>3 DEF EditContact
  <2>2. /\ DOMAIN contacts' = DOMAIN contacts /\ contacts'[id] = [address |-> a, name |-> name]
        /\ \A j \in DOMAIN contacts \ {id} : contacts'[j] = contacts[j]
    BY <2>1
  <2>3. [address |-> a, name |-> name] \in Row
    BY DEF Row
  <2>4. contacts' \in [DOMAIN contacts' -> Row]
    BY <1>2, <2>1, <2>2, <2>3 DEF Table
  <2>5. ASSUME NEW j \in DOMAIN contacts', NEW k \in DOMAIN contacts', contacts'[j].address = contacts'[k].address PROVE j = k
    <3>1. CASE j # id /\ k # id
      BY <1>2, <2>2, <2>5, <3>1 DEF Table
    <3>2. CASE j = id /\ k # id
      <4>1. contacts[k].address = a
        BY <2>2, <2>5, <3>2
      <4> QED BY <2>1, <2>2, <3>2, <4>1 DEF With
    <3>3. CASE j # id /\ k = id
      <4>1. contacts[j].address = a
        BY <2>2, <2>5, <3>3
      <4> QED BY <2>1, <2>2, <3>3, <4>1 DEF With
    <3> QED BY <3>1, <3>2, <3>3
  <2>6. Table(contacts', born')
    BY <1>2, <2>1, <2>2, <2>4, <2>5 DEF Table
  <2>7. \A n \in Creations \ used : IdsOf(contacts', Batch[n]) = {}
    BY <1>2, <2>2 DEF IdsOf, MadeUp
  <2>8. Unqueued'
    BY <1>1, <1>3 DEF Unqueued
  <2> QED BY <1>2, <1>3, <2>1, <2>2, <2>6, <2>7, <2>8, DisturbingStep
<1>4. ASSUME NEW id \in DOMAIN contacts, DeleteContacts({id}), campaigns' = Detached({id}) PROVE TestInv'
  <2>1. /\ contacts' = ContactsWithout({id}) /\ members' = MembersWithout({}, {id})
        /\ imports' = Disturbed /\ UNCHANGED <<born, lists, suppressed>>
    BY <1>4 DEF DeleteContacts
  <2>2. /\ Table(contacts', born') /\ DOMAIN contacts' = DOMAIN contacts \ {id}
        /\ \A n \in Creations \ used : IdsOf(contacts', Batch[n]) = {}
    BY <2>1, SomeAre
  <2>3. members' \subseteq (DOMAIN lists') \X (DOMAIN contacts')
    BY <1>2, <2>1, <2>2 DEF MembersWithout
  <2>4. campaigns' \in [DOMAIN campaigns -> Campaigns] /\ Unqueued'
    BY <1>1, <1>4, DetachedIs DEF Unqueued
  <2> QED BY <1>2, <1>4, <2>1, <2>2, <2>3, <2>4, DisturbingStep
<1>5. ASSUME NEW m \in members, RemoveFromList(m[1], {m[2]}), UNCHANGED campaigns PROVE TestInv'
  <2>1. members' \subseteq members /\ imports' = Disturbed /\ UNCHANGED <<contacts, born, lists, suppressed>>
    BY <1>5 DEF RemoveFromList
  <2>2. Table(contacts', born') /\ members' \subseteq (DOMAIN lists') \X (DOMAIN contacts') /\ Unqueued'
    BY <1>1, <1>2, <1>5, <2>1 DEF Unqueued
  <2>3. \A n \in Creations \ used : IdsOf(contacts', Batch[n]) = {}
    BY <1>2, <2>1
  <2> QED BY <1>2, <1>5, <2>1, <2>2, <2>3, DisturbingStep
<1>6. ASSUME NEW a \in {contacts[id].address : id \in DOMAIN contacts} \cup suppressed,
             Suppress(a) \/ Unsuppress(a), UNCHANGED campaigns
      PROVE  TestInv'
  <2>1. suppressed' \in {suppressed \cup {a}, suppressed \ {a}} /\ UNCHANGED <<contacts, born, lists, members, imports>>
    BY <1>6 DEF Suppress, Unsuppress
  <2>2. a \in Addresses /\ \A n \in Creations \ used : a \notin Batch[n]
    BY <1>1, <1>2, <1>6 DEF ContactTypes, Table, Row, TestInv, Unheard, IdsOf
  <2>3. ContactTypes'
    BY <1>1, <2>1, <2>2 DEF ContactTypes
  <2>4. ImportsAre'
    BY <2>1 DEF TestInv, ImportsAre, CountedByOne
  <2>5. Unheard'
    BY <2>1, <2>2 DEF TestInv, Unheard, With, AddressesOf
  <2>6. /\ making' \in {Nothing} \cup Makings
        /\ making' # Nothing => /\ making # Nothing /\ making'.n = making.n /\ making'.by = making.by
                                /\ making'.at = making.at /\ ~making'.undisturbed
    <3>1. making \in {Nothing} \cup Makings
      BY <1>1 DEF CampaignTypes
    <3> QED BY <3>1, MakingDisturbedIs
  <2>7. CampaignTypes' /\ Unqueued'
    BY <1>1, <1>2, <1>6, <2>1, <2>6 DEF CampaignTypes, Unqueued
  <2>8. MakingIs'
    BY <1>6, <2>6 DEF TestInv, MakingIs
  <2> QED BY <2>3, <2>4, <2>5, <2>7, <2>8 DEF TestInv
<1> QED BY <1>3, <1>4, <1>5, <1>6 DEF AdminEdits

\* Lists that go, with their members and from their campaigns.
LEMMA ListsGo ==
  ASSUME TestInv, NEW ls, lists' = [l \in DOMAIN lists \ ls |-> lists[l]], members' = MembersWithout(ls, {}),
         campaigns' = WithoutLists(ls), imports' = Disturbed, making' = MakingDisturbed,
         UNCHANGED <<contacts, born, suppressed, used>>, reset' \in {Nothing} \cup Resets
  PROVE  TestInv'
<1>1. ContactTypes /\ CampaignTypes /\ Unqueued
  BY DEF TestInv
<1>2. /\ Table(contacts', born') /\ lists \in [DOMAIN lists -> BOOLEAN] /\ members \subseteq (DOMAIN lists) \X (DOMAIN contacts)
      /\ \A n \in Creations \ used : IdsOf(contacts', Batch[n]) = {}
  BY <1>1 DEF ContactTypes, TestInv, Unheard, With, IdsOf
<1>3. lists' \in [DOMAIN lists' -> BOOLEAN] /\ DOMAIN lists' = DOMAIN lists \ ls
  BY <1>2
<1>4. members' \subseteq (DOMAIN lists') \X (DOMAIN contacts')
  BY <1>2, <1>3 DEF MembersWithout
<1>5. campaigns' \in [DOMAIN campaigns -> Campaigns] /\ Unqueued'
  BY <1>1, WithoutListsIs DEF Unqueued
<1> QED BY <1>2, <1>3, <1>4, <1>5, DisturbingStep

\* A reset deletes the lists of its campaign, or an admin deletes one.
LEMMA ListsGoStep ==
  ASSUME TestInv, DeleteTestLists \/ \E l \in DOMAIN lists : AdminDeletesList(l)
  PROVE  TestInv'
<1>1. CASE DeleteTestLists
  <2>1. reset \in {Nothing} \cup Resets /\ reset.at = "list" /\ reset' = [reset EXCEPT !.at = "people"]
    BY <1>1 DEF DeleteTestLists, TestInv, CampaignTypes
  <2>2. reset' \in {Nothing} \cup Resets
    BY <2>1 DEF Resets, Nothing
  <2> QED BY <1>1, <2>2, ListsGo DEF DeleteTestLists
<1>2. ASSUME NEW l \in DOMAIN lists, AdminDeletesList(l) PROVE TestInv'
  <2>1. reset' \in {Nothing} \cup Resets
    BY <1>2 DEF AdminDeletesList, TestInv, CampaignTypes
  <2> QED BY <1>2, <2>1, ListsGo DEF AdminDeletesList
<1> QED BY <1>1, <1>2

\* A reset deletes the made-up contacts that are in no list.
LEMMA SweepContactsStep ==
  ASSUME TestInv, SweepContacts
  PROVE  TestInv'
<1>1. /\ contacts' = ContactsWithout(Orphans) /\ campaigns' = Detached(Orphans) /\ reset' = Nothing
      /\ imports' = Disturbed /\ making' = MakingDisturbed /\ UNCHANGED <<born, lists, members, suppressed, used>>
  BY DEF SweepContacts
<1>2. ContactTypes /\ CampaignTypes /\ Unqueued
  BY DEF TestInv
<1>3. lists \in [DOMAIN lists -> BOOLEAN] /\ members \subseteq (DOMAIN lists) \X (DOMAIN contacts)
  BY <1>2 DEF ContactTypes
<1>4. /\ Table(contacts', born') /\ DOMAIN contacts' = DOMAIN contacts \ Orphans
      /\ \A n \in Creations \ used : IdsOf(contacts', Batch[n]) = {}
  BY <1>1, SomeAre
<1>5. members' \subseteq (DOMAIN lists') \X (DOMAIN contacts')
  <2>1. \A x \in members : x = <<x[1], x[2]>> /\ x[1] \in DOMAIN lists /\ x[2] \in DOMAIN contacts
    BY <1>3
  <2>2. \A x \in members : x[2] \notin Orphans
    BY <2>1 DEF Orphans
  <2> QED BY <1>1, <1>3, <1>4, <2>1, <2>2
<1>6. campaigns' \in [DOMAIN campaigns -> Campaigns] /\ Unqueued'
  BY <1>1, <1>2, DetachedIs DEF Unqueued
<1> QED BY <1>1, <1>3, <1>4, <1>5, <1>6, DisturbingStep

-----------------------------------------------------------------------------
(* The real campaign stays, as it is never marked. *)

\* Campaign 0 is there, and no reset is about it.
RealStays ==
  /\ 0 \in DOMAIN campaigns /\ ~campaigns[0].test
  /\ reset # Nothing => reset.campaign # 0

\* Every step leaves the real campaign in place and unmarked.
LEMMA RealStaysStep ==
  ASSUME TestInv, RealStays, [TestNext]_testVars
  PROVE  RealStays'
<1>1. /\ campaigns \in [DOMAIN campaigns -> Campaigns] /\ 0 \in DOMAIN campaigns /\ campaigns[0] \in Campaigns
      /\ reset \in {Nothing} \cup Resets /\ ContactTypes /\ CampaignTypes
  BY DEF TestInv, CampaignTypes, RealStays
<1>2. SUFFICES /\ 0 \in DOMAIN campaigns' /\ campaigns'[0].test = campaigns[0].test
               /\ reset' # Nothing => reset'.campaign # 0
  BY DEF RealStays
<1> DEFINE Keeps(cs) == 0 \in DOMAIN cs /\ cs[0].test = campaigns[0].test
<1>4. ASSUME NEW c \in DOMAIN campaigns
      PROVE  /\ \A x \in {"SENDING", "SCHEDULED", "CANCELLED", "COMPLETED"} : Keeps([campaigns EXCEPT ![c].status = x])
             /\ \A ls : Keeps([campaigns EXCEPT ![c].lists = ls])
             /\ Keeps(Queued(c))
  <2>1. Keeps(Queued(c))
    BY <1>1, QueuedIs
  <2>2. \A p \in Campaigns : /\ \A x : [p EXCEPT !.status = x].test = p.test
                             /\ \A ls : [p EXCEPT !.lists = ls].test = p.test
    BY DEF Campaigns
  <2>3. ASSUME NEW x PROVE Keeps([campaigns EXCEPT ![c].status = x]) /\ Keeps([campaigns EXCEPT ![c].lists = x])
    BY <1>1, <2>2
  <2> QED BY <2>1, <2>3
<1>5. (\A ids : Keeps(Detached(ids))) /\ \A ls : Keeps(WithoutLists(ls))
  BY <1>1, DetachedIs, WithoutListsIs DEF TestInv
<1>6. Keeps(campaigns)
  BY <1>1
<1>7. reset # Nothing => reset.campaign # 0 /\ reset \in Resets
  BY <1>1 DEF RealStays
<1> HIDE DEF Keeps
<1>8. Keeps(campaigns')
  <2>1. CASE UNCHANGED campaigns
    BY <1>6, <2>1
  <2>2. CASE MakeDraft
    <3>1. making \in Makings /\ making.n # 0
      BY <1>1, <2>2, TestAssumption DEF CampaignTypes, MakeDraft, Nothing, Makings
    <3> QED BY <1>1, <2>2, <3>1 DEF MakeDraft, Keeps
  <2>3. CASE MakeSelect
    BY <1>4, <2>3 DEF MakeSelect
  <2>4. CASE MakeSend
    BY <1>4, <2>4 DEF MakeSend
  <2>5. CASE DeleteTestCampaign
    <3>1. reset.campaign # 0
      BY <1>7, <2>5 DEF DeleteTestCampaign, Nothing
    <3> QED BY <1>1, <2>5, <3>1 DEF DeleteTestCampaign, Keeps
  <2>6. CASE DeleteTestLists \/ \E l \in DOMAIN lists : AdminDeletesList(l)
    BY <1>5, <2>6 DEF DeleteTestLists, AdminDeletesList
  <2>7. CASE SweepContacts \/ AdminEdits
    BY <1>5, <1>6, <2>7 DEF SweepContacts, AdminEdits
  <2>8. CASE \E c \in DOMAIN campaigns : CampaignGoesOn(c)
    BY <1>4, <2>8 DEF CampaignGoesOn
  <2>9. CASE SendReal \/ \E c \in DOMAIN campaigns, l \in DOMAIN lists : ChooseList(c, l)
    <3>1. CASE SendReal
      BY <1>1, <1>4, <3>1 DEF SendReal
    <3>2. ASSUME NEW c \in DOMAIN campaigns, NEW l \in DOMAIN lists, ChooseList(c, l) PROVE Keeps(campaigns')
      BY <1>4, <3>2 DEF ChooseList
    <3> QED BY <2>9, <3>1, <3>2
  <2> QED BY <2>1, <2>2, <2>3, <2>4, <2>5, <2>6, <2>7, <2>8, <2>9
          DEF TestNext, testVars, Proceed, Request, Failure, MakePeople, MakeEnds, MakeRefused, MakeOver, MakeFails, FindStray,
              ReadResetLists, ResetFails, ImportGoesOn, MakeList, CheckReset, AdminImport
<1>9. reset' # Nothing => reset'.campaign # 0
  <2>1. CASE UNCHANGED reset \/ reset' = Nothing
    BY <1>7, <2>1
  <2>2. CASE \E c \in DOMAIN campaigns : CheckReset(c)
    BY <2>2 DEF CheckReset, RealStays
  <2>3. CASE FindStray \/ ReadResetLists \/ DeleteTestCampaign \/ DeleteTestLists
    <3>1. PICK r : r = reset
      OBVIOUS
    <3>2. r \in Resets /\ r.campaign # 0
      BY <1>7, <2>3, <3>1 DEF FindStray, ReadResetLists, DeleteTestCampaign, DeleteTestLists, Nothing
    <3>3. \/ reset' = Nothing
          \/ \E x : reset' = [r EXCEPT !.at = x]
          \/ \E x, y : reset' = [r EXCEPT !.at = x, !.lists = y]
      BY <2>3, <3>1 DEF FindStray, ReadResetLists, DeleteTestCampaign, DeleteTestLists
    <3>4. ASSUME NEW x, reset' = [r EXCEPT !.at = x] PROVE reset'.campaign # 0
      BY <3>2, <3>4 DEF Resets
    <3>5. ASSUME NEW x, NEW y, reset' = [r EXCEPT !.at = x, !.lists = y] PROVE reset'.campaign # 0
      BY <3>2, <3>5 DEF Resets
    <3> QED BY <3>3, <3>4, <3>5
  <2> QED BY <2>1, <2>2, <2>3
          DEF TestNext, testVars, Proceed, Request, Failure, MakePeople, MakeDraft, MakeSelect, MakeSend, MakeEnds, MakeRefused,
              MakeOver, MakeFails, SweepContacts, ResetFails, CampaignGoesOn, ImportGoesOn, MakeList, SendReal, ChooseList,
              AdminImport, AdminDeletesList
<1> QED BY <1>1, <1>8, <1>9 DEF Keeps

-----------------------------------------------------------------------------
(* What is asked for is done. *)

\* The invariant holds at the start and is kept by every step.
LEMMA TestInvHolds ==
  TestSpec => [](TestInv /\ RealStays)
<1>1. TestInit => TestInv /\ RealStays
  <2> SUFFICES ASSUME TestInit PROVE TestInv /\ RealStays
    OBVIOUS
  <2>1. PICK a \in Addresses \ MadeUp : contacts = <<[address |-> a, name |-> NoName]>>
    BY TestAssumption DEF TestInit
  <2>2. /\ born = 1 /\ lists = [l \in {0} |-> FALSE] /\ members = {<<0, 1>>} /\ suppressed = {}
        /\ imports = [s \in Importers |-> NoImport] /\ campaigns = [c \in {0} |-> Real]
        /\ used = {} /\ making = Nothing /\ reset = Nothing
    BY DEF TestInit
  <2>3. DOMAIN contacts = {1} /\ contacts[1] = [address |-> a, name |-> NoName]
    BY <2>1
  <2>4. Table(contacts, born)
    <3>1. [address |-> a, name |-> NoName] \in Row
      BY DEF Row
    <3>2. contacts \in [DOMAIN contacts -> Row]
      BY <2>1, <2>3, <3>1
    <3> QED BY <2>2, <2>3, <3>2 DEF Table
  <2>5. ContactTypes
    BY <2>2, <2>3, <2>4 DEF ContactTypes
  <2>6. Real \in Campaigns /\ Real.rows = {} /\ Real.test = FALSE
    BY DEF Real, Campaigns, ListIds
  <2>7. CampaignTypes /\ Unqueued
    BY <2>2, <2>6 DEF CampaignTypes, Unqueued
  <2>8. ImportsAre /\ MakingIs /\ RealStays
    BY <2>2, <2>6 DEF ImportsAre, CountedByOne, NoImport, MakingIs, RealStays
  <2>9. Unheard
    BY <2>1, <2>2, <2>3 DEF Unheard, NoImport, With, MadeUp
  <2> QED BY <2>5, <2>7, <2>8, <2>9 DEF TestInv
<1>2. TestInv /\ RealStays /\ [TestNext]_testVars => (TestInv /\ RealStays)'
  <2> SUFFICES ASSUME TestInv, RealStays, [TestNext]_testVars PROVE TestInv'
    BY RealStaysStep
  <2>1. CASE Proceed
    BY <2>1, MakePeopleStep, MakeDraftStep, MakeSelectStep, MakeSendStep, ResetReads, DeleteTestCampaignStep, ListsGoStep,
       SweepContactsStep, CampaignGoesOnStep, ImportGoesOnStep DEF Proceed
  <2>2. CASE Request
    BY <2>2, MakeListStep, ResetReads, CampaignGoesOnStep, ChooseListStep, AdminImportStep, AdminEditsStep, ListsGoStep
       DEF Request, RealStays
  <2>3. CASE Failure
    BY <2>3, ResetReads, ImportGoesOnStep DEF Failure
  <2>4. CASE UNCHANGED testVars
    <3>1. UNCHANGED <<contactVars, campaigns, used>> /\ making' = making /\ reset' = reset
      BY <2>4 DEF testVars
    <3> QED BY <3>1, OnlyRequests DEF TestInv, CampaignTypes
  <2> QED BY <2>1, <2>2, <2>3, <2>4 DEF TestNext
<1> QED BY <1>1, <1>2, PTL DEF TestSpec

\* And it implies that what is asked for is done.
LEMMA InvMeansDone ==
  TestInv => AskedIsDone
<1> SUFFICES ASSUME TestInv PROVE AskedIsDone
  OBVIOUS
<1>1. SummaryAddsUp
  <2> SUFFICES ASSUME NEW s \in Importers, imports[s].at = "done", imports[s].undisturbed
               PROVE  LET i == imports[s] IN i.imported + i.duplicates + i.invalid + i.skipped = i.received
    BY DEF SummaryAddsUp
  <2>1. PICK i \in Imports : i = imports[s]
    BY DEF TestInv, ContactTypes, NoImport
  <2>2. DOMAIN i.rows = {} /\ i.imported + i.duplicates + i.invalid + i.skipped + Cardinality(DOMAIN i.rows) = i.received
    BY <2>1 DEF TestInv, ImportsAre, ImportIs
  <2>3. i.imported + i.duplicates + i.invalid + i.skipped + 0 = i.received
    BY <2>2, FS_EmptySet
  <2>4. /\ i.imported \in Nat /\ i.duplicates \in Nat /\ i.invalid \in Nat /\ i.skipped \in Nat /\ i.received \in Nat
    BY DEF Imports
  <2> QED BY <2>1, <2>3, <2>4
<1>2. CountedByOne
  BY DEF TestInv, ImportsAre
<1>3. MadeAsAsked
  <2> SUFFICES ASSUME making.at = "made", making.undisturbed, making.n \in DOMAIN campaigns
               PROVE  /\ campaigns[making.n].status = "SENDING" => Recipients(making.n) = Batch[making.n]
                      /\ {r.address : r \in Audience(campaigns[making.n].lists)} = Batch[making.n]
    BY DEF MadeAsAsked
  <2>1. Gathered(making) /\ Chosen(making)
    BY DEF TestInv, MakingIs, Nothing
  <2>2. campaigns[making.n].lists = {making.n} /\ (campaigns[making.n].status = "SENDING" => Recipients(making.n) = Batch[making.n])
    BY <2>1 DEF Chosen
  <2>3. {r.address : r \in Audience(campaigns[making.n].lists)} = OnList(making.n) \ suppressed
    BY <2>2, AudienceIs DEF TestInv
  <2> QED BY <2>1, <2>2, <2>3 DEF Gathered
<1> QED BY <1>1, <1>2, <1>3 DEF AskedIsDone

\* What an import or a creation that nobody disturbs reports is what it did: the summary accounts for
\* every row once (import.ts:86-146), two imports never count one person as new on the same list, and a
\* test campaign is for exactly the people it was made for (test-campaigns.ts:145-239).
THEOREM AskedIsAlwaysDone == TestSpec => []AskedIsDone
  BY TestInvHolds, InvMeansDone, PTL

-----------------------------------------------------------------------------
(* Others are spared. *)

\* What the three properties say of one step.
Spares ==
  reset # Nothing /\ reset' # reset =>
    /\ \A c \in DOMAIN campaigns \ {reset.campaign} :
         c \in DOMAIN campaigns' /\ campaigns'[c].lists = campaigns[c].lists /\ Recipients(c)' = Recipients(c)
    /\ \A id \in DOMAIN contacts : contacts[id].address \notin MadeUp => id \in DOMAIN contacts'
    /\ \A m \in members : m[1] \in DOMAIN lists' => m \in members'

Survives == \A c \in DOMAIN campaigns \cap DOMAIN campaigns' : Recipients(c) \subseteq Recipients(c)'

KeepsNames ==
  imports' # imports =>
    \A id \in DOMAIN contacts \cap DOMAIN contacts' :
      contacts'[id].name = NoName => contacts[id].name = NoName \/ imports' = Disturbed

\* A reset takes from nobody else.
LEMMA ResetsSpare ==
  ASSUME TestInv, TestNext
  PROVE  Spares
<1>1. CampaignTypes /\ Unqueued /\ campaigns \in [DOMAIN campaigns -> Campaigns]
  BY DEF TestInv, CampaignTypes
<1>2. CASE UNCHANGED reset
  BY <1>2 DEF Spares
<1>3. CASE FindStray \/ ReadResetLists \/ ResetFails
  BY <1>3 DEF FindStray, ReadResetLists, ResetFails, contactVars, Spares, Recipients
<1>4. CASE DeleteTestCampaign
  BY <1>1, <1>4 DEF DeleteTestCampaign, contactVars, Spares, Recipients
<1>5. CASE DeleteTestLists
  <2>1. \A c \in DOMAIN campaigns : campaigns[c].lists \ Deletable = campaigns[c].lists
    BY DEF Deletable
  <2>2. campaigns' = WithoutLists(Deletable) /\ contacts' = contacts /\ members' = MembersWithout(Deletable, {})
        /\ DOMAIN lists' = DOMAIN lists \ Deletable
    BY <1>5 DEF DeleteTestLists
  <2>3. \A c \in DOMAIN campaigns :
          c \in DOMAIN campaigns' /\ campaigns'[c].lists = campaigns[c].lists /\ Recipients(c)' = Recipients(c)
    BY <1>1, <2>1, <2>2, WithoutListsIs DEF Recipients
  <2> QED BY <2>2, <2>3 DEF Spares, MembersWithout
<1>6. CASE SweepContacts
  <2>1. contacts' = ContactsWithout(Orphans) /\ campaigns' = Detached(Orphans) /\ members' = members
    BY <1>6 DEF SweepContacts
  <2>2. \A c \in DOMAIN campaigns :
          c \in DOMAIN campaigns' /\ campaigns'[c].lists = campaigns[c].lists /\ Recipients(c)' = Recipients(c)
    BY <1>1, <2>1, DetachedIs DEF Recipients
  <2>3. \A id \in DOMAIN contacts : contacts[id].address \notin MadeUp => id \in DOMAIN contacts'
    BY <2>1 DEF ContactsWithout, Orphans, With
  <2> QED BY <2>1, <2>2, <2>3 DEF Spares
<1>7. CASE \E c \in DOMAIN campaigns : CheckReset(c)
  BY <1>7 DEF CheckReset, Spares
<1> QED BY <1>2, <1>3, <1>4, <1>5, <1>6, <1>7
        DEF TestNext, Proceed, Request, Failure, MakePeople, MakeDraft, MakeSelect, MakeSend, MakeEnds, MakeRefused,
            MakeOver, MakeFails, CampaignGoesOn, ImportGoesOn, MakeList, SendReal, ChooseList, AdminImport, AdminDeletesList

\* Only what has no recipients is given some, and nothing else takes any.
LEMMA RecipientsSurvive ==
  ASSUME TestInv, RealStays, TestNext
  PROVE  Survives
<1>1. ContactTypes /\ CampaignTypes /\ Unqueued /\ campaigns \in [DOMAIN campaigns -> Campaigns] /\ 0 \in DOMAIN campaigns
  BY DEF TestInv, CampaignTypes, RealStays
<1>2. CASE UNCHANGED campaigns
  BY <1>2 DEF Survives, Recipients
<1>3. ASSUME NEW c \in DOMAIN campaigns, campaigns[c].status \in {"DRAFT", "SCHEDULED"}, campaigns' = Queued(c) PROVE Survives
  <2>1. \A d \in DOMAIN campaigns \ {c} : campaigns'[d] = campaigns[d]
    BY <1>1, <1>3, QueuedIs
  <2>2. Recipients(c) = {}
    BY <1>1, <1>3 DEF Unqueued, Recipients
  <2> QED BY <2>1, <2>2 DEF Survives, Recipients
<1>4. ASSUME NEW c \in DOMAIN campaigns, NEW x,
             campaigns' = [campaigns EXCEPT ![c].status = x] \/ campaigns' = [campaigns EXCEPT ![c].lists = x]
      PROVE  Survives
  <2>1. \A p \in Campaigns : [p EXCEPT !.status = x].rows = p.rows /\ [p EXCEPT !.lists = x].rows = p.rows
    BY DEF Campaigns
  <2>2. \A d \in DOMAIN campaigns : campaigns'[d].rows = campaigns[d].rows
    BY <1>1, <1>4, <2>1
  <2> QED BY <2>2 DEF Survives, Recipients
<1>5. CASE MakeDraft
  <2>1. making.n \notin DOMAIN campaigns
    BY <1>5 DEF TestInv, MakingIs, MakeDraft, Nothing
  <2> QED BY <1>5, <2>1 DEF MakeDraft, Survives, Recipients
<1>6. CASE MakeSelect
  BY <1>4, <1>6 DEF MakeSelect
<1>7. CASE MakeSend
  BY <1>3, <1>4, <1>7 DEF MakeSend
<1>8. CASE DeleteTestCampaign
  BY <1>8 DEF DeleteTestCampaign, Survives, Recipients
<1>9. CASE DeleteTestLists \/ \E l \in DOMAIN lists : AdminDeletesList(l)
  <2>1. \E ls : campaigns' = WithoutLists(ls)
    BY <1>9 DEF DeleteTestLists, AdminDeletesList
  <2> QED BY <1>1, <2>1, WithoutListsIs DEF Survives, Recipients
<1>10. CASE SweepContacts \/ AdminEdits
  <2>1. UNCHANGED campaigns \/ \E ids : campaigns' = Detached(ids)
    BY <1>10 DEF SweepContacts, AdminEdits
  <2>2. ASSUME NEW ids, campaigns' = Detached(ids), NEW c \in DOMAIN campaigns
        PROVE  Recipients(c)' = Recipients(c)
    <3>1. {r.address : r \in Detached(ids)[c].rows} = Recipients(c)
      BY <1>1, <2>2, DetachedIs
    <3> QED BY <2>2, <3>1 DEF Recipients
  <2>3. ASSUME NEW ids, campaigns' = Detached(ids) PROVE Survives
    BY <2>2, <2>3 DEF Survives
  <2> QED BY <1>2, <2>1, <2>3
<1>11. CASE \E c \in DOMAIN campaigns : CampaignGoesOn(c)
  BY <1>3, <1>4, <1>11 DEF CampaignGoesOn
<1>12. CASE SendReal
  BY <1>1, <1>3, <1>12 DEF SendReal
<1>13. CASE \E c \in DOMAIN campaigns, l \in DOMAIN lists : ChooseList(c, l)
  BY <1>4, <1>13 DEF ChooseList
<1> QED BY <1>2, <1>5, <1>6, <1>7, <1>8, <1>9, <1>10, <1>11, <1>12, <1>13
        DEF TestNext, Proceed, Request, Failure, MakePeople, MakeEnds, MakeRefused, MakeOver, MakeFails, FindStray,
            ReadResetLists, ResetFails, ImportGoesOn, MakeList, CheckReset, AdminImport

\* Of the steps of an import only the insert of a chunk writes names.
LEMMA NamesSurvive ==
  ASSUME TestInv, TestNext
  PROVE  KeepsNames
<1>1. CASE UNCHANGED contacts \/ imports' = Disturbed \/ UNCHANGED imports
  BY <1>1 DEF KeepsNames
<1>2. ASSUME NEW s \in Importers, WriteChunk(s) PROVE KeepsNames
  <2>1. PICK chunk : chunk = NextChunk(s)
    OBVIOUS
  <2>2. contacts' = Upserted(chunk) /\ born' = born + Cardinality(New(chunk)) /\ Table(contacts, born)
    BY <1>2, <2>1 DEF WriteChunk, TestInv, ContactTypes
  <2>3. chunk \in RowSets /\ Apart(chunk)
    <3>1. PICK i \in Imports : i = imports[s]
      BY <1>2 DEF TestInv, ContactTypes, WriteChunk, NoImport
    <3>2. i.rows \in RowSets /\ Apart(i.rows) /\ Places(i.rows) \in SUBSET DOMAIN i.rows
      BY <1>2, <3>1, PlacesAre DEF Imports, WriteChunk, TestInv, ImportsAre, ImportIs
    <3>3. chunk = [k \in Places(i.rows) |-> i.rows[k]]
      BY <2>1, <3>1 DEF NextChunk
    <3> QED BY <3>2, <3>3, RowsAre DEF Apart
  <2> QED BY <2>2, <2>3, UpsertIs DEF KeepsNames
<1> QED BY <1>1, <1>2
        DEF TestNext, Proceed, Request, Failure, MakePeople, MakeDraft, MakeSelect, MakeSend, MakeEnds, MakeRefused, MakeOver,
            MakeFails, FindStray, ReadResetLists, DeleteTestCampaign, DeleteTestLists, SweepContacts, ResetFails, CampaignGoesOn,
            ImportGoesOn, ImportStep, SelectIds, AttachMembers, AttachToNothing, ImportRefused, ImportFails, Failed, EndImport,
            MakeList, CheckReset, SendReal, ChooseList, AdminImport, BeginImport, AdminEdits, EditContact, DeleteContacts,
            RemoveFromList, Suppress, Unsuppress, AdminDeletesList, contactVars

\* Whatever fails or meets on the way, nobody takes from others what is theirs: a reset leaves other
\* campaigns, real contacts and the members of lists that stay (test-campaigns.ts:285-362), what was sent
\* stays on record, and an import blanks no name (import.ts:104-113).
THEOREM OthersAreAlwaysSpared == TestSpec => OthersAreSpared
<1>1. TestInv /\ RealStays /\ [TestNext]_testVars => [Spares]_testVars /\ [Survives]_testVars /\ [KeepsNames]_contactVars
  <2> SUFFICES ASSUME TestInv, RealStays, [TestNext]_testVars
               PROVE  [Spares]_testVars /\ [Survives]_testVars /\ [KeepsNames]_contactVars
    OBVIOUS
  <2>1. CASE TestNext
    BY <2>1, ResetsSpare, RecipientsSurvive, NamesSurvive
  <2>2. CASE UNCHANGED testVars
    BY <2>2 DEF testVars
  <2> QED BY <2>1, <2>2
<1>2. TestSpec => [][Spares]_testVars /\ [][Survives]_testVars /\ [][KeepsNames]_contactVars
  BY <1>1, TestInvHolds, PTL DEF TestSpec
<1>3. [][Spares]_testVars => ResetSparesOthers
  BY PTL DEF ResetSparesOthers, Spares
<1>4. [][Survives]_testVars => HistorySurvives
  BY PTL DEF HistorySurvives, Survives
<1>5. [][KeepsNames]_contactVars => NamesAreKept
  BY PTL DEF NamesAreKept, KeepsNames
<1> QED BY <1>2, <1>3, <1>4, <1>5, PTL DEF OthersAreSpared
=============================================================================
