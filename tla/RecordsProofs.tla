----------------------------- MODULE RecordsProofs -----------------------------
(***************************************************************************)
(* Proofs about what is kept, read and answered for one person at a time:  *)
(* signing in and its throttle (SignIn), the test mail server and those    *)
(* who mail through it (TestSmtp), the times people type (ScheduleTimes)   *)
(* and the mail settings (Settings), each a specification of its own.      *)
(***************************************************************************)
EXTENDS SignIn, TestSmtp, ScheduleTimes, Settings, TLAPS, FiniteSetTheorems, SequenceTheorems

-----------------------------------------------------------------------------
(* Signing in. *)

Keys       == ({"account"} \X Accounts) \cup ({"address"} \X CallerAddresses)
Entries    == [key : Keys, failures : Nat \ {0}, since : Nat]
Failed     == [account : Accounts, address : CallerAddresses, at : Nat]
Tokens     == [until : Nat, over : BOOLEAN]
TabRecords == [at : {"idle", "authenticating", "refused", "cleaning", "leaving", "left", "asking", "served", "turned away"},
               account : Accounts \cup {NoToken}, address : CallerAddresses \cup {NoToken}, token : Nat \cup {NoToken}]

\* A map of the throttle: one entry of each key, and no more than are kept.
Proper(map) ==
  /\ map \in Seq(Entries) /\ Len(map) <= MaxKeys
  /\ \A j, k \in DOMAIN map : map[j].key = map[k].key => j = k

\* Nothing in it that was not in the other.
Of(map, other) == \A j \in DOMAIN map : \E i \in DOMAIN other : map[j] = other[i]

\* One element is taken out of a sequence.
LEMMA RemovedIs ==
  ASSUME NEW S, NEW s \in Seq(S), NEW i \in 1..Len(s)
  PROVE  /\ RemoveAt(s, i) \in Seq(S) /\ Len(RemoveAt(s, i)) = Len(s) - 1
         /\ \A k \in 1..Len(s) - 1 : RemoveAt(s, i)[k] = IF k < i THEN s[k] ELSE s[k + 1]
<1>1. Len(s) \in Nat /\ i \in Int /\ i - 1 \in Int /\ i + 1 \in Int /\ 1 \in Int /\ Len(s) \in Int
  BY LenProperties
<1>2. \A k \in 1..Len(s) : s[k] \in S
  BY <1>1, ElementOfSeq
<1>3. PICK p : p = SubSeq(s, 1, i - 1)
  OBVIOUS
<1>4. PICK q : q = SubSeq(s, i + 1, Len(s))
  OBVIOUS
<1>5. p \in Seq(S) /\ Len(p) = i - 1 /\ \A k \in 1..i - 1 : p[k] = s[k]
  <2>1. /\ SubSeq(s, 1, i - 1) \in Seq(S)
        /\ Len(SubSeq(s, 1, i - 1)) = IF 1 <= i - 1 THEN (i - 1) - 1 + 1 ELSE 0
        /\ \A k \in 1..(i - 1) - 1 + 1 : SubSeq(s, 1, i - 1)[k] = s[1 + k - 1]
    BY <1>1, <1>2, SubSeqProperties
  <2> QED BY <1>1, <1>3, <2>1
<1>6. q \in Seq(S) /\ Len(q) = Len(s) - i /\ \A k \in 1..Len(s) - i : q[k] = s[i + k]
  <2>1. /\ SubSeq(s, i + 1, Len(s)) \in Seq(S)
        /\ Len(SubSeq(s, i + 1, Len(s))) = IF i + 1 <= Len(s) THEN Len(s) - (i + 1) + 1 ELSE 0
        /\ \A k \in 1..Len(s) - (i + 1) + 1 : SubSeq(s, i + 1, Len(s))[k] = s[(i + 1) + k - 1]
    BY <1>1, <1>2, SubSeqProperties
  <2> QED BY <1>1, <1>4, <2>1
<1>7. /\ p \o q \in Seq(S) /\ Len(p \o q) = Len(p) + Len(q)
      /\ \A k \in 1..Len(p) + Len(q) : (p \o q)[k] = IF k <= Len(p) THEN p[k] ELSE q[k - Len(p)]
  BY <1>5, <1>6, ConcatProperties
<1>8. RemoveAt(s, i) = p \o q
  BY <1>3, <1>4 DEF RemoveAt
<1>9. \A k \in 1..Len(s) - 1 : (p \o q)[k] = IF k < i THEN s[k] ELSE s[k + 1]
  <2> SUFFICES ASSUME NEW k \in 1..Len(s) - 1 PROVE (p \o q)[k] = IF k < i THEN s[k] ELSE s[k + 1]
    OBVIOUS
  <2>1. k \in 1..Len(p) + Len(q)
    BY <1>1, <1>5, <1>6
  <2>2. CASE k < i
    BY <1>1, <1>5, <1>7, <2>1, <2>2
  <2>3. CASE ~(k < i)
    <3>1. k - Len(p) \in 1..Len(s) - i /\ i + (k - Len(p)) = k + 1 /\ ~(k <= Len(p))
      BY <1>1, <1>5, <2>3
    <3> QED BY <1>6, <1>7, <2>1, <2>3, <3>1
  <2> QED BY <2>2, <2>3
<1>10. Len(p \o q) = Len(s) - 1
  BY <1>1, <1>5, <1>6, <1>7
<1> QED BY <1>7, <1>8, <1>9, <1>10

\* What a sequence of entries is.
LEMMA ProperIs ==
  ASSUME NEW map, Proper(map)
  PROVE  /\ map \in Seq(Entries) /\ Len(map) \in Nat /\ DOMAIN map = 1..Len(map)
         /\ \A j \in DOMAIN map : map[j] \in Entries
<1>1. map \in Seq(Entries)
  BY DEF Proper
<1> QED BY <1>1, LenProperties, ElementOfSeq

\* Of no key there are two places, so the entry found is the one.
LEMMA EntryIs ==
  ASSUME NEW map, Proper(map), NEW key, NEW j \in DOMAIN map, map[j].key = key
  PROVE  EntryOf(map, key) = j /\ PlacesOf(map, key) # {}
<1>1. j \in PlacesOf(map, key)
  BY DEF PlacesOf
<1>2. EntryOf(map, key) \in PlacesOf(map, key)
  BY <1>1 DEF EntryOf
<1> QED BY <1>1, <1>2 DEF PlacesOf, Proper

\* Taking a key out leaves the others.
LEMMA WithoutIs ==
  ASSUME NEW map, Proper(map), NEW key
  PROVE  /\ Proper(Without(map, key)) /\ Of(Without(map, key), map)
         /\ \A j \in DOMAIN Without(map, key) : Without(map, key)[j].key # key
<1>t. /\ map \in Seq(Entries) /\ Len(map) \in Nat /\ DOMAIN map = 1..Len(map)
      /\ \A j \in DOMAIN map : map[j] \in Entries
  BY ProperIs
<1>1. CASE PlacesOf(map, key) = {}
  BY <1>1 DEF Without, Of, PlacesOf
<1>2. CASE PlacesOf(map, key) # {}
  <2>1. PICK i \in DOMAIN map : map[i].key = key
    BY <1>2 DEF PlacesOf
  <2>2. EntryOf(map, key) = i
    BY <2>1, EntryIs
  <2>3. PICK r : r = RemoveAt(map, i)
    OBVIOUS
  <2>4. Without(map, key) = r
    BY <1>2, <2>2, <2>3 DEF Without
  <2>5. /\ r \in Seq(Entries) /\ Len(r) = Len(map) - 1
        /\ \A k \in 1..Len(map) - 1 : r[k] = IF k < i THEN map[k] ELSE map[k + 1]
    BY <1>t, <2>1, <2>3, RemovedIs
  <2>6. DOMAIN r = 1..Len(map) - 1
    BY <2>5, LenProperties
  <2>7. \A k \in DOMAIN r : \E l \in DOMAIN map : l # i /\ r[k] = map[l] /\ l = (IF k < i THEN k ELSE k + 1)
    <3> SUFFICES ASSUME NEW k \in DOMAIN r
                 PROVE  \E l \in DOMAIN map : l # i /\ r[k] = map[l] /\ l = (IF k < i THEN k ELSE k + 1)
      OBVIOUS
    <3>1. CASE k < i
      <4>1. k \in DOMAIN map /\ k # i /\ r[k] = map[k]
        BY <1>t, <2>1, <2>5, <2>6, <3>1
      <4> QED BY <3>1, <4>1
    <3>2. CASE ~(k < i)
      <4>1. k + 1 \in DOMAIN map /\ k + 1 # i /\ r[k] = map[k + 1]
        BY <1>t, <2>1, <2>5, <2>6, <3>2
      <4> QED BY <3>2, <4>1
    <3> QED BY <3>1, <3>2
  <2>8. \A k \in DOMAIN r : r[k].key # key
    BY <2>1, <2>7 DEF Proper
  <2>9. \A j, k \in DOMAIN r : r[j].key = r[k].key => j = k
    <3> SUFFICES ASSUME NEW j \in DOMAIN r, NEW k \in DOMAIN r, r[j].key = r[k].key PROVE j = k
      OBVIOUS
    <3>1. PICK a \in DOMAIN map : r[j] = map[a] /\ a = (IF j < i THEN j ELSE j + 1)
      BY <2>7
    <3>2. PICK b \in DOMAIN map : r[k] = map[b] /\ b = (IF k < i THEN k ELSE k + 1)
      BY <2>7
    <3>3. a = b
      BY <3>1, <3>2 DEF Proper
    <3>4. j \in Nat /\ k \in Nat /\ i \in Nat
      BY <1>t, <2>1, <2>6
    <3> QED BY <3>1, <3>2, <3>3, <3>4
  <2>10. Len(r) <= MaxKeys
    BY <1>t, <2>5, SignInAssumption DEF Proper
  <2> QED BY <2>4, <2>5, <2>7, <2>8, <2>9, <2>10 DEF Proper, Of
<1> QED BY <1>1, <1>2

\* Looking at a key leaves an entry of it only while its window lasts.
LEMMA LookedIs ==
  ASSUME NEW map, Proper(map), NEW key
  PROVE  /\ Proper(Looked(map, key)) /\ Of(Looked(map, key), map)
         /\ \A j \in DOMAIN Looked(map, key) :
              Looked(map, key)[j].key = key => ~(moment - Looked(map, key)[j].since >= LoginWindow)
<1>1. CASE \E k \in PlacesOf(map, key) : moment - map[k].since >= LoginWindow
  <2>1. Looked(map, key) = Without(map, key)
    BY <1>1 DEF Looked
  <2> QED BY <2>1, WithoutIs
<1>2. CASE ~\E k \in PlacesOf(map, key) : moment - map[k].since >= LoginWindow
  <2>1. Looked(map, key) = map
    BY <1>2 DEF Looked
  <2>2. \A j \in DOMAIN map : map[j].key = key => ~(moment - map[j].since >= LoginWindow)
    BY <1>2 DEF PlacesOf
  <2> QED BY <2>1, <2>2 DEF Of
<1> QED BY <1>1, <1>2

\* The failures of a key are those of its entry.
LEMMA FailuresAre ==
  ASSUME NEW map, Proper(map), NEW key
  PROVE  /\ \A j \in DOMAIN map : map[j].key = key => FailuresOf(map, key) = map[j].failures
         /\ FailuresOf(map, key) # 0 => \E j \in DOMAIN map : map[j].key = key /\ FailuresOf(map, key) = map[j].failures
         /\ FailuresOf(map, key) \in Nat
<1>1. \A j \in DOMAIN map : map[j].key = key => FailuresOf(map, key) = map[j].failures
  BY EntryIs DEF FailuresOf
<1>2. CASE PlacesOf(map, key) = {}
  BY <1>1, <1>2 DEF FailuresOf
<1>3. CASE PlacesOf(map, key) # {}
  <2>1. PICK i \in DOMAIN map : map[i].key = key
    BY <1>3 DEF PlacesOf
  <2>2. map[i] \in Entries
    BY ProperIs
  <2>3. map[i].failures \in Nat
    BY <2>2 DEF Entries
  <2> QED BY <1>1, <2>1, <2>3
<1> QED BY <1>2, <1>3

\* The oldest entry goes to make room.
LEMMA TailIs ==
  ASSUME NEW map, Proper(map), Len(map) >= MaxKeys
  PROVE  /\ Proper(Tail(map)) /\ Of(Tail(map), map) /\ Len(Tail(map)) = Len(map) - 1
<1>t. /\ map \in Seq(Entries) /\ Len(map) \in Nat /\ DOMAIN map = 1..Len(map) /\ MaxKeys \in Nat \ {0}
  BY ProperIs, SignInAssumption
<1>1. map # <<>>
  BY <1>t, EmptySeq
<1>2. PICK r : r = Tail(map)
  OBVIOUS
<1>3. /\ r \in Seq(Entries) /\ Len(r) = Len(map) - 1
      /\ \A i \in 1..Len(r) : r[i] = map[i + 1]
  BY <1>t, <1>1, <1>2, HeadTailProperties
<1>4. DOMAIN r = 1..Len(map) - 1
  BY <1>3, LenProperties
<1>5. \A k \in DOMAIN r : k + 1 \in DOMAIN map /\ r[k] = map[k + 1] /\ k \in Nat
  BY <1>t, <1>3, <1>4
<1>6. \A j, k \in DOMAIN r : r[j].key = r[k].key => j = k
  <2> SUFFICES ASSUME NEW j \in DOMAIN r, NEW k \in DOMAIN r, r[j].key = r[k].key PROVE j = k
    OBVIOUS
  <2>1. j + 1 = k + 1
    BY <1>5 DEF Proper
  <2> QED BY <1>5, <2>1
<1> QED BY <1>t, <1>2, <1>3, <1>5, <1>6 DEF Proper, Of

\* One entry more, of a key there is none of.
LEMMA OneMore ==
  ASSUME NEW map, Proper(map), NEW e \in Entries, ~(Len(map) >= MaxKeys), \A j \in DOMAIN map : map[j].key # e.key
  PROVE  /\ Proper(Append(map, e))
         /\ \A j \in DOMAIN Append(map, e) : Append(map, e)[j] = e \/ \E i \in DOMAIN map : Append(map, e)[j] = map[i]
<1>t. /\ map \in Seq(Entries) /\ Len(map) \in Nat /\ DOMAIN map = 1..Len(map) /\ MaxKeys \in Nat \ {0}
  BY ProperIs, SignInAssumption
<1>1. PICK r : r = Append(map, e)
  OBVIOUS
<1>2. /\ r \in Seq(Entries) /\ Len(r) = Len(map) + 1
      /\ \A i \in 1..Len(map) : r[i] = map[i]
      /\ r[Len(map) + 1] = e
  BY <1>t, <1>1, AppendProperties
<1>3. DOMAIN r = 1..Len(map) + 1
  BY <1>2, LenProperties
<1>4. \A k \in DOMAIN r : (k = Len(map) + 1 /\ r[k] = e) \/ (k \in DOMAIN map /\ r[k] = map[k])
  BY <1>t, <1>2, <1>3
<1>5. \A j, k \in DOMAIN r : r[j].key = r[k].key => j = k
  BY <1>4 DEF Proper
<1> QED BY <1>t, <1>1, <1>2, <1>4, <1>5 DEF Proper

\* What one more failure of a key does to the map.
LEMMA CountIs ==
  ASSUME NEW map, Proper(map), NEW key \in Keys, moment \in Nat
  PROVE  /\ Proper(Count(map, key))
         /\ \A j \in DOMAIN Count(map, key) :
              LET e == Count(map, key)[j]
              IN \/ e.key # key /\ \E i \in DOMAIN map : e = map[i]
                 \/ e.key = key /\ e.failures = 1 /\ e.since = moment
                 \/ /\ e.key = key
                    /\ \E i \in DOMAIN map : map[i].key = key /\ e.failures = map[i].failures + 1 /\ e.since = map[i].since
<1>1. PICK live : live = Looked(map, key)
  OBVIOUS
<1>2. Proper(live) /\ Of(live, map)
  BY <1>1, LookedIs
<1>t. /\ live \in Seq(Entries) /\ Len(live) \in Nat /\ DOMAIN live = 1..Len(live) /\ MaxKeys \in Nat \ {0}
      /\ \A j \in DOMAIN live : live[j] \in Entries
  BY <1>2, ProperIs, SignInAssumption
<1>3. PICK new : new = Count(map, key)
  OBVIOUS
<1>4. CASE PlacesOf(live, key) # {}
  <2>1. PICK i \in DOMAIN live : live[i].key = key
    BY <1>4 DEF PlacesOf
  <2>2. EntryOf(live, key) = i
    BY <1>2, <2>1, EntryIs
  <2>3. new = [live EXCEPT ![i].failures = @ + 1]
    BY <1>1, <1>3, <1>4, <2>2 DEF Count
  <2>4. live[i] \in Entries
    BY <1>t
  <2>5. PICK e : e = [live[i] EXCEPT !.failures = live[i].failures + 1]
    OBVIOUS
  <2>6. e \in Entries /\ e.key = key /\ e.failures = live[i].failures + 1 /\ e.since = live[i].since
    BY <2>1, <2>4, <2>5 DEF Entries
  <2>7. new = [live EXCEPT ![i] = e]
    BY <2>3, <2>5
  <2>8. new \in Seq(Entries) /\ Len(new) = Len(live)
    BY <1>t, <2>6, <2>7, ExceptSeq
  <2>9. DOMAIN new = DOMAIN live /\ new[i] = e /\ \A j \in DOMAIN live : j # i => new[j] = live[j]
    BY <2>7
  <2>10. \A j \in DOMAIN live : new[j].key = live[j].key
    BY <2>1, <2>6, <2>9
  <2>11. Proper(new)
    BY <1>2, <2>8, <2>9, <2>10 DEF Proper
  <2>12. \A j \in DOMAIN live : j # i => live[j].key # key
    BY <1>2, <2>1 DEF Proper
  <2>13. PICK k \in DOMAIN map : live[i] = map[k]
    BY <1>2 DEF Of
  <2>14. \A j \in DOMAIN live : \E l \in DOMAIN map : live[j] = map[l]
    BY <1>2 DEF Of
  <2> SUFFICES ASSUME NEW j \in DOMAIN new
               PROVE  \/ new[j].key # key /\ \E l \in DOMAIN map : new[j] = map[l]
                      \/ /\ new[j].key = key
                         /\ \E l \in DOMAIN map : /\ map[l].key = key /\ new[j].failures = map[l].failures + 1
                                                  /\ new[j].since = map[l].since
    BY <1>3, <2>11
  <2>15. CASE j = i
    BY <2>1, <2>6, <2>9, <2>13, <2>15
  <2>16. CASE j # i
    BY <2>9, <2>12, <2>14, <2>16
  <2> QED BY <2>15, <2>16
<1>5. CASE PlacesOf(live, key) = {}
  <2>1. PICK e : e = [key |-> key, failures |-> 1, since |-> moment]
    OBVIOUS
  <2>2. e \in Entries /\ e.key = key /\ e.failures = 1 /\ e.since = moment
    BY <2>1 DEF Entries
  <2>3. PICK room : room = IF Len(live) >= MaxKeys THEN Tail(live) ELSE live
    OBVIOUS
  <2>4. new = Append(room, e)
    BY <1>1, <1>3, <1>5, <2>1, <2>3 DEF Count
  <2>5. Proper(room) /\ Of(room, live) /\ ~(Len(room) >= MaxKeys)
    <3>1. CASE Len(live) >= MaxKeys
      <4>1. Proper(room) /\ Of(room, live) /\ Len(room) = Len(live) - 1
        BY <1>2, <2>3, <3>1, TailIs
      <4>2. Len(live) <= MaxKeys
        BY <1>2 DEF Proper
      <4> QED BY <1>t, <4>1, <4>2
    <3>2. CASE ~(Len(live) >= MaxKeys)
      BY <1>2, <2>3, <3>2 DEF Of
    <3> QED BY <3>1, <3>2
  <2>6. \A j \in DOMAIN room : room[j].key # e.key
    BY <1>5, <2>2, <2>5 DEF Of, PlacesOf
  <2>7. Proper(new) /\ \A j \in DOMAIN new : new[j] = e \/ \E i \in DOMAIN room : new[j] = room[i]
    BY <2>2, <2>4, <2>5, <2>6, OneMore
  <2>8. \A i \in DOMAIN room : \E l \in DOMAIN map : room[i] = map[l]
    BY <1>2, <2>5 DEF Of
  <2> SUFFICES ASSUME NEW j \in DOMAIN new
               PROVE  \/ new[j].key # key /\ \E l \in DOMAIN map : new[j] = map[l]
                      \/ new[j].key = key /\ new[j].failures = 1 /\ new[j].since = moment
    BY <1>3, <2>7
  <2>9. CASE new[j] = e
    BY <2>2, <2>9
  <2>10. CASE new[j] # e
    BY <2>2, <2>6, <2>7, <2>8, <2>10
  <2> QED BY <2>9, <2>10
<1> QED BY <1>4, <1>5

\* The failed sign-ins of a key since some moment, and the tabs that wait with it for the database.
FailedSince(log, key, at) ==
  {k \in DOMAIN log : log[k].at >= at /\ (key = AccountKey(log[k].account) \/ key = AddressKey(log[k].address))}
Waiting(tabs, key) ==
  {t \in Tabs : tabs[t].at = "authenticating" /\ (key = AccountKey(tabs[t].account) \/ key = AddressKey(tabs[t].address))}
LimitOf(key) == IF key[1] = "account" THEN MaxPerAccount ELSE MaxPerAddress

\* Every failure counted really happened, since the entry's window began.
Backed(map, log, clock) ==
  \A j \in DOMAIN map : map[j].since <= clock /\ map[j].failures <= Cardinality(FailedSince(log, map[j].key, map[j].since))

\* Those who wait may still fail, each once.
WithinLimits(map, tabs) ==
  \A j \in DOMAIN map : map[j].failures + Cardinality(Waiting(tabs, map[j].key)) <= LimitOf(map[j].key) + Cardinality(Tabs) - 1

SignInTypes ==
  /\ moment \in Nat /\ signIns \in Nat
  /\ Proper(attempts)
  /\ sessions \subseteq [token : Nat, until : Nat]
  /\ cookie \in Nat \cup {NoToken}
  /\ tab \in [Tabs -> TabRecords]
  /\ failed \in Seq(Failed)
  /\ tokens \in Seq(Tokens)

\* Who signs in does so with an account from an address.
Named(r) == r.at \in {"authenticating", "refused"} => r.account \in Accounts /\ r.address \in CallerAddresses

\* What a cookie, or a request that carries it, names is a session that was made.
Issued(r, made) == r.at \in {"cleaning", "leaving", "asking"} => r.token \in DOMAIN made

\* A row is of a session that is not over.
Rows(rows, made) == \A s \in rows : s.token \in DOMAIN made /\ ~made[s.token].over /\ s.until = made[s.token].until

Throttled ==
  /\ \A t \in Tabs : Named(tab[t])
  /\ Backed(attempts, failed, moment)
  /\ WithinLimits(attempts, tab)
  /\ RefusedForCause

Signed ==
  /\ \A t \in Tabs : Issued(tab[t], tokens)
  /\ cookie # NoToken => cookie \in DOMAIN tokens
  /\ Rows(sessions, tokens)

SignInInv == SignInTypes /\ Throttled /\ Signed

-----------------------------------------------------------------------------
(* The steps of the throttle. *)

\* How many failed or wait is a number, and more when there are more.
LEMMA Counted ==
  ASSUME SignInTypes, NEW key, NEW at
  PROVE  /\ IsFiniteSet(FailedSince(failed, key, at)) /\ Cardinality(FailedSince(failed, key, at)) \in Nat
         /\ Cardinality(Tabs) \in Nat
<1>1. failed \in Seq(Failed) /\ DOMAIN failed = 1..Len(failed) /\ Len(failed) \in Nat
  BY LenProperties DEF SignInTypes
<1>2. IsFiniteSet(1..Len(failed))
  BY <1>1, FS_Interval
<1>3. IsFiniteSet(FailedSince(failed, key, at))
  BY <1>1, <1>2, FS_Subset DEF FailedSince
<1> QED BY <1>3, FS_CardinalityType, SignInAssumption

\* Tabs that wait are tabs.
LEMMA WaitingCounted ==
  ASSUME NEW tabs, NEW key
  PROVE  /\ IsFiniteSet(Waiting(tabs, key)) /\ Cardinality(Waiting(tabs, key)) \in Nat
         /\ Cardinality(Waiting(tabs, key)) <= Cardinality(Tabs) /\ Cardinality(Tabs) \in Nat
<1>1. Waiting(tabs, key) \subseteq Tabs
  BY DEF Waiting
<1> QED BY <1>1, FS_Subset, FS_CardinalityType, SignInAssumption

\* A map of entries there were already: nothing is counted that was not, and nobody waits who did not.
LEMMA FewerEntries ==
  ASSUME NEW map, NEW other, Of(map, other), NEW log, NEW clock, NEW tabs, NEW tabs2,
         \A key : Waiting(tabs2, key) \subseteq Waiting(tabs, key), Proper(other),
         Backed(other, log, clock), WithinLimits(other, tabs)
  PROVE  Backed(map, log, clock) /\ WithinLimits(map, tabs2)
<1>1. Backed(map, log, clock)
  BY DEF Backed, Of
<1>2. WithinLimits(map, tabs2)
  <2> SUFFICES ASSUME NEW j \in DOMAIN map
               PROVE  map[j].failures + Cardinality(Waiting(tabs2, map[j].key)) <= LimitOf(map[j].key) + Cardinality(Tabs) - 1
    BY DEF WithinLimits
  <2>1. PICK i \in DOMAIN other : map[j] = other[i]
    BY DEF Of
  <2>2. other[i].failures + Cardinality(Waiting(tabs, other[i].key)) <= LimitOf(other[i].key) + Cardinality(Tabs) - 1
    BY DEF WithinLimits
  <2>3. Cardinality(Waiting(tabs2, other[i].key)) <= Cardinality(Waiting(tabs, other[i].key))
    BY WaitingCounted, FS_Subset
  <2>4. other[i] \in Entries
    BY ProperIs
  <2>5. other[i].failures \in Nat /\ LimitOf(other[i].key) \in Nat
    BY <2>4, SignInAssumption DEF Entries, LimitOf
  <2>6. Cardinality(Waiting(tabs2, other[i].key)) \in Nat /\ Cardinality(Waiting(tabs, other[i].key)) \in Nat
        /\ Cardinality(Tabs) \in Nat
    BY WaitingCounted
  <2> HIDE DEF Waiting
  <2> QED BY <2>1, <2>2, <2>3, <2>5, <2>6
<1> QED BY <1>1, <1>2

\* Throttled is said of the variables; what a step needs of a change of one tab.
LEMMA TabChanged ==
  ASSUME SignInTypes, NEW t \in Tabs, NEW r \in TabRecords, tab' = [tab EXCEPT ![t] = r]
  PROVE  /\ tab' \in [Tabs -> TabRecords] /\ tab'[t] = r
         /\ \A u \in Tabs : u # t => tab'[u] = tab[u]
         /\ r.at # "authenticating" => \A key : Waiting(tab', key) \subseteq Waiting(tab, key) \ {t}
<1>1. tab' \in [Tabs -> TabRecords] /\ tab'[t] = r /\ \A u \in Tabs : u # t => tab'[u] = tab[u]
  BY DEF SignInTypes
<1>2. r.at # "authenticating" => \A key : Waiting(tab', key) \subseteq Waiting(tab, key) \ {t}
  BY <1>1 DEF Waiting
<1> QED BY <1>1, <1>2

\* The records of a tab.
LEMMA TabRecordsAre ==
  /\ \A account \in Accounts, address \in CallerAddresses, at \in {"authenticating", "refused"} :
       /\ Trying(at, account, address) \in TabRecords /\ Trying(at, account, address).at = at
       /\ Trying(at, account, address).account = account /\ Trying(at, account, address).address = address
  /\ \A token \in Nat \cup {NoToken}, at \in {"idle", "cleaning", "leaving", "left", "asking", "served", "turned away"} :
       /\ Asking(at, token) \in TabRecords /\ Asking(at, token).at = at /\ Asking(at, token).token = token
  /\ Idle \in TabRecords /\ Idle.at = "idle"
BY DEF Trying, Asking, Idle, TabRecords

\* The tab's next record is of no sign-in that waits or was refused, and no failure is added.
LEMMA ThrottlePlain ==
  ASSUME SignInTypes, Throttled, NEW t \in Tabs, NEW r \in TabRecords, r.at \notin {"authenticating", "refused"},
         tab' = [tab EXCEPT ![t] = r], Of(attempts', attempts), failed' = failed, moment' = moment
  PROVE  Throttled'
<1>1. /\ tab' \in [Tabs -> TabRecords] /\ tab'[t] = r
      /\ \A u \in Tabs : u # t => tab'[u] = tab[u]
      /\ \A key : Waiting(tab', key) \subseteq Waiting(tab, key) \ {t}
  BY TabChanged
<1>2. Proper(attempts) /\ Backed(attempts, failed, moment) /\ WithinLimits(attempts, tab)
  BY DEF SignInTypes, Throttled
<1>3. Backed(attempts', failed, moment) /\ WithinLimits(attempts', tab')
  BY <1>1, <1>2, FewerEntries
<1>4. \A u \in Tabs : Named(tab'[u])
  BY <1>1 DEF Throttled, Named
<1>5. Lately' = Lately
  BY DEF Lately
<1>6. RefusedForCause'
  BY <1>1, <1>5 DEF RefusedForCause, Throttled
<1> QED BY <1>3, <1>4, <1>6 DEF Throttled

\* What an entry within its window counts happened lately.
LEMMA CauseIs ==
  ASSUME SignInTypes, NEW map, Proper(map), Backed(map, failed, moment), NEW j \in DOMAIN map,
         ~(moment - map[j].since >= LoginWindow), NEW n \in Nat, n <= map[j].failures
  PROVE  /\ \A account \in Accounts :
              map[j].key = AccountKey(account) => Cardinality({k \in Lately : failed[k].account = account}) >= n
         /\ \A address \in CallerAddresses :
              map[j].key = AddressKey(address) => Cardinality({k \in Lately : failed[k].address = address}) >= n
<1> DEFINE F == FailedSince(failed, map[j].key, map[j].since)
<1>1. map[j] \in Entries
  BY ProperIs
<1>2. map[j].failures \in Nat /\ map[j].since \in Nat /\ moment \in Nat /\ LoginWindow \in Nat
  BY <1>1, SignInAssumption DEF Entries, SignInTypes
<1>3. map[j].failures <= Cardinality(F)
  BY DEF Backed
<1>4. \A k \in DOMAIN failed : failed[k].at \in Nat
  <2>1. failed \in Seq(Failed) /\ DOMAIN failed = 1..Len(failed)
    BY LenProperties DEF SignInTypes
  <2>2. \A k \in DOMAIN failed : failed[k] \in Failed
    BY <2>1, ElementOfSeq
  <2> QED BY <2>2 DEF Failed
<1>5. F \subseteq Lately
  BY <1>2, <1>4 DEF FailedSince, Lately
<1>6. IsFiniteSet(Lately)
  <2>1. failed \in Seq(Failed) /\ DOMAIN failed = 1..Len(failed) /\ Len(failed) \in Nat
    BY LenProperties DEF SignInTypes
  <2>2. IsFiniteSet(1..Len(failed))
    BY <2>1, FS_Interval
  <2> QED BY <2>1, <2>2, FS_Subset DEF Lately
<1>7. \A A : F \subseteq A /\ A \subseteq Lately => Cardinality(A) >= n
  <2> SUFFICES ASSUME NEW A, F \subseteq A, A \subseteq Lately PROVE Cardinality(A) >= n
    OBVIOUS
  <2>1. IsFiniteSet(A)
    BY <1>6, FS_Subset
  <2>2. Cardinality(F) <= Cardinality(A) /\ Cardinality(A) \in Nat /\ Cardinality(F) \in Nat
    BY <2>1, FS_Subset, FS_CardinalityType, Counted
  <2> QED BY <1>2, <1>3, <2>2
<1>8. ASSUME NEW account \in Accounts, map[j].key = AccountKey(account)
      PROVE  F \subseteq {k \in Lately : failed[k].account = account}
  BY <1>5, <1>8 DEF FailedSince, AccountKey, AddressKey
<1>9. ASSUME NEW address \in CallerAddresses, map[j].key = AddressKey(address)
      PROVE  F \subseteq {k \in Lately : failed[k].address = address}
  BY <1>5, <1>9 DEF FailedSince, AccountKey, AddressKey
<1>10. \A account : {k \in Lately : failed[k].account = account} \subseteq Lately
  OBVIOUS
<1>11. \A address : {k \in Lately : failed[k].address = address} \subseteq Lately
  OBVIOUS
<1> HIDE DEF F
<1> QED BY <1>7, <1>8, <1>9, <1>10, <1>11

\* A tab may try only while neither key has failed too often.
LEMMA ThrottleSendLogin ==
  ASSUME SignInTypes, Throttled, NEW t \in Tabs, NEW account \in Accounts, NEW address \in CallerAddresses,
         SendLogin(t, account, address)
  PROVE  Proper(attempts') /\ Of(attempts', attempts) /\ Throttled'
<1> DEFINE AK == AccountKey(account)
           DK == AddressKey(address)
<1>1. PICK looked : looked = Looked(attempts, AK)
  OBVIOUS
<1> DEFINE may == FailuresOf(looked, AK) < MaxPerAccount
<1>3. PICK both : both = IF may THEN Looked(looked, DK) ELSE looked
  OBVIOUS
<1> DEFINE allowed == may /\ FailuresOf(both, DK) < MaxPerAddress
<1>5. PICK r : r = Trying(IF allowed THEN "authenticating" ELSE "refused", account, address)
  OBVIOUS
<1>6. /\ attempts' = both /\ tab' = [tab EXCEPT ![t] = r] /\ tab[t] = Idle
      /\ failed' = failed /\ moment' = moment
  BY <1>1, <1>3, <1>5 DEF SendLogin
<1>7. /\ r \in TabRecords /\ r.at = (IF allowed THEN "authenticating" ELSE "refused")
      /\ r.account = account /\ r.address = address
  BY ZenonT(60), <1>5, TabRecordsAre
<1>8. Proper(attempts) /\ Backed(attempts, failed, moment) /\ WithinLimits(attempts, tab)
  BY DEF SignInTypes, Throttled
<1>9. /\ Proper(looked) /\ Of(looked, attempts)
      /\ \A j \in DOMAIN looked : looked[j].key = AK => ~(moment - looked[j].since >= LoginWindow)
  BY <1>1, <1>8, LookedIs
<1>10. /\ Proper(both) /\ Of(both, looked)
       /\ may => \A j \in DOMAIN both : both[j].key = DK => ~(moment - both[j].since >= LoginWindow)
       /\ ~may => both = looked
  <2>1. CASE may
    BY <1>3, <1>9, <2>1, LookedIs
  <2>2. CASE ~may
    BY <1>3, <1>9, <2>2 DEF Of
  <2> QED BY <2>1, <2>2
<1>11. Of(both, attempts)
  BY <1>9, <1>10 DEF Of
<1>12. \A key : Waiting(tab, key) \subseteq Waiting(tab, key)
  OBVIOUS
<1>13. Backed(both, failed, moment) /\ WithinLimits(both, tab) /\ Backed(looked, failed, moment)
  BY <1>8, <1>9, <1>11, <1>12, FewerEntries
<1>14. /\ tab' \in [Tabs -> TabRecords] /\ tab'[t] = r
       /\ \A u \in Tabs : u # t => tab'[u] = tab[u]
       /\ r.at # "authenticating" => \A key : Waiting(tab', key) \subseteq Waiting(tab, key)
  BY <1>6, <1>7, TabChanged
<1>15. \A u \in Tabs : Named(tab'[u])
  BY <1>7, <1>14 DEF Throttled, Named
<1>16. Backed(both, failed, moment) /\ (~allowed => WithinLimits(both, tab'))
  <2>1. Of(both, both)
    BY DEF Of
  <2> QED BY <1>7, <1>10, <1>13, <1>14, <2>1, FewerEntries
<1>17. allowed => WithinLimits(both, tab')
  <2> SUFFICES ASSUME allowed, NEW j \in DOMAIN both
               PROVE  both[j].failures + Cardinality(Waiting(tab', both[j].key)) <= LimitOf(both[j].key) + Cardinality(Tabs) - 1
    BY DEF WithinLimits
  <2>t. both[j] \in Entries
    BY <1>10, ProperIs
  <2>1. /\ both[j].failures \in Nat /\ LimitOf(both[j].key) \in Nat /\ Cardinality(Tabs) \in Nat
        /\ Cardinality(Waiting(tab', both[j].key)) \in Nat /\ Cardinality(Waiting(tab', both[j].key)) <= Cardinality(Tabs)
    BY <2>t, WaitingCounted, SignInAssumption DEF Entries, LimitOf
  <2>2. CASE both[j].key = AK
    <3>1. PICK i \in DOMAIN looked : both[j] = looked[i]
      BY <1>10 DEF Of
    <3>2. FailuresOf(looked, AK) = both[j].failures
      BY <1>9, <2>2, <3>1, FailuresAre
    <3>3. both[j].failures < LimitOf(both[j].key)
      BY <2>2, <3>2 DEF LimitOf, AccountKey
    <3> QED BY <2>1, <3>3
  <2>3. CASE both[j].key = DK
    <3>1. FailuresOf(both, DK) = both[j].failures
      BY <1>10, <2>3, FailuresAre
    <3>2. both[j].failures < LimitOf(both[j].key)
      BY <2>3, <3>1 DEF LimitOf, AddressKey
    <3> QED BY <2>1, <3>2
  <2>4. CASE both[j].key # AK /\ both[j].key # DK
    <3>1. Waiting(tab', both[j].key) = Waiting(tab, both[j].key)
      <4>1. tab[t].at # "authenticating"
        BY <1>6, TabRecordsAre
      <4>2. t \notin Waiting(tab', both[j].key) /\ t \notin Waiting(tab, both[j].key)
        BY <1>7, <1>14, <2>4, <4>1 DEF Waiting
      <4> QED BY <1>14, <4>2 DEF Waiting
    <3> QED BY <1>13, <3>1 DEF WithinLimits
  <2> QED BY <2>2, <2>3, <2>4
<1>18. RefusedForCause'
  <2>1. Lately' = Lately
    BY <1>6 DEF Lately
  <2>2. ~allowed => \/ Cardinality({k \in Lately : failed[k].account = account}) >= MaxPerAccount
                    \/ Cardinality({k \in Lately : failed[k].address = address}) >= MaxPerAddress
    <3>1. CASE ~may
      <4>1. FailuresOf(looked, AK) \in Nat /\ FailuresOf(looked, AK) >= MaxPerAccount /\ MaxPerAccount \in Nat \ {0}
        BY <1>9, <3>1, FailuresAre, SignInAssumption
      <4>2. PICK j \in DOMAIN looked : looked[j].key = AK /\ looked[j].failures = FailuresOf(looked, AK)
        BY <1>9, <4>1, FailuresAre
      <4>3. MaxPerAccount <= looked[j].failures /\ MaxPerAccount \in Nat
        BY <4>1, <4>2
      <4> QED BY <1>9, <1>13, <4>2, <4>3, CauseIs
    <3>2. CASE may /\ ~allowed
      <4>1. FailuresOf(both, DK) \in Nat /\ FailuresOf(both, DK) >= MaxPerAddress /\ MaxPerAddress \in Nat \ {0}
        BY <1>10, <3>2, FailuresAre, SignInAssumption
      <4>2. PICK j \in DOMAIN both : both[j].key = DK /\ both[j].failures = FailuresOf(both, DK)
        BY <1>10, <4>1, FailuresAre
      <4>3. MaxPerAddress <= both[j].failures /\ MaxPerAddress \in Nat
        BY <4>1, <4>2
      <4> QED BY <1>10, <1>13, <3>2, <4>2, <4>3, CauseIs
    <3> QED BY <3>1, <3>2
  <2> SUFFICES ASSUME NEW u \in Tabs, tab'[u].at = "refused"
               PROVE  \/ Cardinality({k \in Lately : failed[k].account = tab'[u].account}) >= MaxPerAccount
                      \/ Cardinality({k \in Lately : failed[k].address = tab'[u].address}) >= MaxPerAddress
    BY <1>6, <2>1 DEF RefusedForCause
  <2>3. CASE u = t
    <3>1. ~allowed
      BY <1>7, <1>14, <2>3
    <3> QED BY <1>7, <1>14, <2>2, <2>3, <3>1
  <2>4. CASE u # t
    BY <1>14, <2>4 DEF RefusedForCause, Throttled
  <2> QED BY <2>3, <2>4
<1> QED BY <1>6, <1>10, <1>11, <1>15, <1>16, <1>17, <1>18 DEF Throttled

\* A failed sign-in is one more of both its keys.
LEMMA FailedMore ==
  ASSUME SignInTypes, moment' = moment, NEW f \in Failed, f.at = moment, failed' = Append(failed, f)
  PROVE  /\ failed' \in Seq(Failed) /\ DOMAIN failed \subseteq DOMAIN failed'
         /\ \A k \in DOMAIN failed : failed'[k] = failed[k]
         /\ \A key, at : Cardinality(FailedSince(failed, key, at)) <= Cardinality(FailedSince(failed', key, at))
         /\ \A key, at : at <= moment /\ (key = AccountKey(f.account) \/ key = AddressKey(f.address))
              => Cardinality(FailedSince(failed, key, at)) + 1 <= Cardinality(FailedSince(failed', key, at))
         /\ \A key, at : Cardinality(FailedSince(failed', key, at)) \in Nat
         /\ Lately \subseteq Lately' /\ IsFiniteSet(Lately')
<1>1. failed \in Seq(Failed) /\ DOMAIN failed = 1..Len(failed) /\ Len(failed) \in Nat
  BY LenProperties DEF SignInTypes
<1>2. /\ failed' \in Seq(Failed) /\ Len(failed') = Len(failed) + 1
      /\ \A i \in 1..Len(failed) : failed'[i] = failed[i]
      /\ failed'[Len(failed) + 1] = f
  BY <1>1, AppendProperties
<1>3. DOMAIN failed' = 1..Len(failed) + 1
  BY <1>2, LenProperties
<1>4. DOMAIN failed \subseteq DOMAIN failed' /\ Len(failed) + 1 \in DOMAIN failed' /\ Len(failed) + 1 \notin DOMAIN failed
  BY <1>1, <1>3
<1>5. IsFiniteSet(DOMAIN failed')
  BY <1>1, <1>3, FS_Interval
<1>6. \A key, at : IsFiniteSet(FailedSince(failed', key, at)) /\ IsFiniteSet(FailedSince(failed, key, at))
  <2>1. \A key, at : FailedSince(failed', key, at) \subseteq DOMAIN failed' /\ FailedSince(failed, key, at) \subseteq DOMAIN failed'
    BY <1>4 DEF FailedSince
  <2> QED BY <1>5, <2>1, FS_Subset
<1>7. \A key, at : FailedSince(failed, key, at) \subseteq FailedSince(failed', key, at)
  BY <1>1, <1>2, <1>4 DEF FailedSince
<1>8. ASSUME NEW key, NEW at, at <= moment, key = AccountKey(f.account) \/ key = AddressKey(f.address)
      PROVE  Cardinality(FailedSince(failed, key, at)) + 1 <= Cardinality(FailedSince(failed', key, at))
  <2>1. Len(failed) + 1 \in FailedSince(failed', key, at)
    BY <1>2, <1>4, <1>8 DEF FailedSince
  <2>2. Len(failed) + 1 \notin FailedSince(failed, key, at)
    BY <1>4 DEF FailedSince
  <2>3. FailedSince(failed, key, at) \cup {Len(failed) + 1} \subseteq FailedSince(failed', key, at)
    BY <1>7, <2>1
  <2>4. Cardinality(FailedSince(failed, key, at) \cup {Len(failed) + 1}) = Cardinality(FailedSince(failed, key, at)) + 1
    BY <1>6, <2>2, FS_AddElement
  <2> QED BY <1>6, <2>3, <2>4, FS_Subset
<1>9. Lately \subseteq Lately'
  BY <1>1, <1>2, <1>4 DEF Lately
<1>10. IsFiniteSet(Lately')
  BY <1>5, FS_Subset DEF Lately
<1>11. \A key, at : Cardinality(FailedSince(failed, key, at)) <= Cardinality(FailedSince(failed', key, at))
  BY <1>6, <1>7, FS_Subset
<1>12. \A key, at : Cardinality(FailedSince(failed', key, at)) \in Nat
  BY <1>6, FS_CardinalityType
<1> QED BY <1>1, <1>2, <1>4, <1>8, <1>9, <1>10, <1>11, <1>12

\* A tab that waited and fails counts once more, and waits no longer.
LEMMA ThrottleWrongPassword ==
  ASSUME SignInTypes, Throttled, NEW t \in Tabs, WrongPassword(t)
  PROVE  Proper(attempts') /\ failed' \in Seq(Failed) /\ Throttled'
<1> DEFINE AK == AccountKey(tab[t].account)
           DK == AddressKey(tab[t].address)
<1>1. PICK one : one = Count(attempts, AK)
  OBVIOUS
<1>2. PICK two : two = Count(one, DK)
  OBVIOUS
<1>3. PICK f : f = [account |-> tab[t].account, address |-> tab[t].address, at |-> moment]
  OBVIOUS
<1>4. /\ attempts' = two /\ failed' = Append(failed, f) /\ tab' = [tab EXCEPT ![t] = Idle]
      /\ moment' = moment /\ tab[t].at = "authenticating"
  BY <1>1, <1>2, <1>3 DEF WrongPassword
<1>5. tab[t].account \in Accounts /\ tab[t].address \in CallerAddresses
  BY <1>4 DEF Throttled, Named
<1>6. AK \in Keys /\ DK \in Keys /\ AK # DK
  BY <1>5 DEF Keys, AccountKey, AddressKey
<1>7. f \in Failed /\ f.at = moment /\ f.account = tab[t].account /\ f.address = tab[t].address /\ moment \in Nat
  BY <1>3, <1>5 DEF Failed, SignInTypes
<1>8. Proper(attempts) /\ Backed(attempts, failed, moment) /\ WithinLimits(attempts, tab)
  BY DEF SignInTypes, Throttled
<1>9. /\ tab' \in [Tabs -> TabRecords] /\ tab'[t] = Idle
      /\ \A u \in Tabs : u # t => tab'[u] = tab[u]
      /\ \A key : Waiting(tab', key) \subseteq Waiting(tab, key) \ {t}
  BY ZenonT(60), <1>4, TabRecordsAre, TabChanged
<1>10. /\ failed' \in Seq(Failed) /\ DOMAIN failed \subseteq DOMAIN failed'
       /\ \A k \in DOMAIN failed : failed'[k] = failed[k]
       /\ \A key, at : Cardinality(FailedSince(failed, key, at)) <= Cardinality(FailedSince(failed', key, at))
       /\ \A key, at : at <= moment /\ (key = AK \/ key = DK)
            => Cardinality(FailedSince(failed, key, at)) + 1 <= Cardinality(FailedSince(failed', key, at))
       /\ \A key, at : Cardinality(FailedSince(failed', key, at)) \in Nat
       /\ Lately \subseteq Lately' /\ IsFiniteSet(Lately')
  BY <1>4, <1>7, FailedMore
<1>11. /\ Proper(one)
       /\ \A j \in DOMAIN one :
            \/ one[j].key # AK /\ \E i \in DOMAIN attempts : one[j] = attempts[i]
            \/ one[j].key = AK /\ one[j].failures = 1 /\ one[j].since = moment
            \/ /\ one[j].key = AK
               /\ \E i \in DOMAIN attempts : /\ attempts[i].key = AK /\ one[j].failures = attempts[i].failures + 1
                                             /\ one[j].since = attempts[i].since
  BY <1>1, <1>6, <1>7, <1>8, CountIs
<1>12. /\ Proper(two)
       /\ \A j \in DOMAIN two :
            \/ two[j].key # DK /\ \E i \in DOMAIN one : two[j] = one[i]
            \/ two[j].key = DK /\ two[j].failures = 1 /\ two[j].since = moment
            \/ /\ two[j].key = DK
               /\ \E i \in DOMAIN one : /\ one[i].key = DK /\ two[j].failures = one[i].failures + 1
                                        /\ two[j].since = one[i].since
  BY <1>2, <1>6, <1>7, <1>11, CountIs
<1>13. \A j \in DOMAIN two :
         \/ two[j].key # AK /\ two[j].key # DK /\ \E i \in DOMAIN attempts : two[j] = attempts[i]
         \/ (two[j].key = AK \/ two[j].key = DK) /\ two[j].failures = 1 /\ two[j].since = moment
         \/ /\ two[j].key = AK \/ two[j].key = DK
            /\ \E i \in DOMAIN attempts : /\ attempts[i].key = two[j].key /\ two[j].failures = attempts[i].failures + 1
                                          /\ two[j].since = attempts[i].since
  <2> SUFFICES ASSUME NEW j \in DOMAIN two
               PROVE  \/ two[j].key # AK /\ two[j].key # DK /\ \E i \in DOMAIN attempts : two[j] = attempts[i]
                      \/ (two[j].key = AK \/ two[j].key = DK) /\ two[j].failures = 1 /\ two[j].since = moment
                      \/ /\ two[j].key = AK \/ two[j].key = DK
                         /\ \E i \in DOMAIN attempts : /\ attempts[i].key = two[j].key /\ two[j].failures = attempts[i].failures + 1
                                                       /\ two[j].since = attempts[i].since
    OBVIOUS
  <2> HIDE DEF AK, DK
  <2>1. CASE two[j].key # DK
    <3>1. PICK i \in DOMAIN one : two[j] = one[i]
      BY <1>12, <2>1
    <3> QED BY <1>11, <2>1, <3>1
  <2>2. CASE two[j].key = DK /\ two[j].failures = 1 /\ two[j].since = moment
    BY <2>2
  <2>3. ASSUME NEW i \in DOMAIN one, two[j].key = DK, one[i].key = DK, two[j].failures = one[i].failures + 1,
               two[j].since = one[i].since
        PROVE  \E l \in DOMAIN attempts : /\ attempts[l].key = two[j].key /\ two[j].failures = attempts[l].failures + 1
                                          /\ two[j].since = attempts[l].since
    <3>1. PICK l \in DOMAIN attempts : one[i] = attempts[l]
      BY <1>6, <1>11, <2>3
    <3> QED BY <2>3, <3>1
  <2> QED BY <1>12, <2>1, <2>2, <2>3
<1> HIDE DEF AK, DK
<1>14. \A j \in DOMAIN attempts : attempts[j] \in Entries
  BY <1>8, ProperIs
<1>15. \A j \in DOMAIN two : two[j] \in Entries
  BY <1>12, ProperIs
<1>16. Backed(two, failed', moment)
  <2> SUFFICES ASSUME NEW j \in DOMAIN two
               PROVE  two[j].since <= moment /\ two[j].failures <= Cardinality(FailedSince(failed', two[j].key, two[j].since))
    BY DEF Backed
  <2>t. /\ Cardinality(FailedSince(failed', two[j].key, two[j].since)) \in Nat
        /\ Cardinality(FailedSince(failed, two[j].key, two[j].since)) \in Nat
    BY <1>10, Counted
  <2>1. ASSUME NEW i \in DOMAIN attempts, two[j] = attempts[i]
        PROVE  two[j].since <= moment /\ two[j].failures <= Cardinality(FailedSince(failed', two[j].key, two[j].since))
    <3>1. two[j].since <= moment /\ two[j].failures <= Cardinality(FailedSince(failed, two[j].key, two[j].since))
      BY <1>8, <2>1 DEF Backed
    <3>2. two[j].failures \in Nat
      BY <1>15 DEF Entries
    <3> QED BY <1>10, <2>t, <3>1, <3>2
  <2>2. ASSUME two[j].key = AK \/ two[j].key = DK, two[j].failures = 1, two[j].since = moment
        PROVE  two[j].since <= moment /\ two[j].failures <= Cardinality(FailedSince(failed', two[j].key, two[j].since))
    <3>1. two[j].since <= moment
      BY <1>7, <2>2
    <3>2. Cardinality(FailedSince(failed, two[j].key, two[j].since)) + 1
           <= Cardinality(FailedSince(failed', two[j].key, two[j].since))
      BY <1>10, <2>2, <3>1
    <3> QED BY <2>t, <2>2, <3>1, <3>2
  <2>3. ASSUME two[j].key = AK \/ two[j].key = DK, NEW i \in DOMAIN attempts, attempts[i].key = two[j].key,
               two[j].failures = attempts[i].failures + 1, two[j].since = attempts[i].since
        PROVE  two[j].since <= moment /\ two[j].failures <= Cardinality(FailedSince(failed', two[j].key, two[j].since))
    <3>1. two[j].since <= moment /\ attempts[i].failures <= Cardinality(FailedSince(failed, two[j].key, two[j].since))
      BY <1>8, <2>3 DEF Backed
    <3>2. attempts[i].failures \in Nat
      BY <1>14 DEF Entries
    <3>3. Cardinality(FailedSince(failed, two[j].key, two[j].since)) + 1
           <= Cardinality(FailedSince(failed', two[j].key, two[j].since))
      BY <1>10, <2>3, <3>1
    <3> QED BY <2>t, <2>3, <3>1, <3>2, <3>3
  <2> QED BY <1>13, <2>1, <2>2, <2>3
<1>17. \A key : (key = AK \/ key = DK) => /\ Cardinality(Waiting(tab', key)) + 1 <= Cardinality(Waiting(tab, key))
                                         /\ Cardinality(Waiting(tab', key)) + 1 <= Cardinality(Tabs)
  <2> SUFFICES ASSUME NEW key, key = AK \/ key = DK
               PROVE  /\ Cardinality(Waiting(tab', key)) + 1 <= Cardinality(Waiting(tab, key))
                      /\ Cardinality(Waiting(tab', key)) + 1 <= Cardinality(Tabs)
    OBVIOUS
  <2>1. t \in Waiting(tab, key)
    BY <1>4 DEF Waiting, AK, DK
  <2>2. t \notin Waiting(tab', key) /\ Waiting(tab', key) \cup {t} \subseteq Waiting(tab, key)
    BY <1>9, <2>1
  <2>3. Cardinality(Waiting(tab', key) \cup {t}) = Cardinality(Waiting(tab', key)) + 1
    BY <2>2, WaitingCounted, FS_AddElement
  <2>4. Cardinality(Waiting(tab', key)) + 1 <= Cardinality(Waiting(tab, key))
    BY <2>2, <2>3, WaitingCounted, FS_Subset
  <2>5. /\ Cardinality(Waiting(tab, key)) <= Cardinality(Tabs) /\ Cardinality(Waiting(tab, key)) \in Nat
        /\ Cardinality(Waiting(tab', key)) \in Nat /\ Cardinality(Tabs) \in Nat
    BY WaitingCounted
  <2> QED BY <2>4, <2>5
<1>18. WithinLimits(two, tab')
  <2> SUFFICES ASSUME NEW j \in DOMAIN two
               PROVE  two[j].failures + Cardinality(Waiting(tab', two[j].key)) <= LimitOf(two[j].key) + Cardinality(Tabs) - 1
    BY DEF WithinLimits
  <2>t. /\ Cardinality(Waiting(tab', two[j].key)) \in Nat /\ Cardinality(Waiting(tab, two[j].key)) \in Nat
        /\ Cardinality(Tabs) \in Nat /\ LimitOf(two[j].key) \in Nat \ {0} /\ two[j].failures \in Nat
    BY <1>15, WaitingCounted, SignInAssumption DEF Entries, LimitOf
  <2>1. ASSUME NEW i \in DOMAIN attempts, two[j] = attempts[i]
        PROVE  two[j].failures + Cardinality(Waiting(tab', two[j].key)) <= LimitOf(two[j].key) + Cardinality(Tabs) - 1
    <3>1. two[j].failures + Cardinality(Waiting(tab, two[j].key)) <= LimitOf(two[j].key) + Cardinality(Tabs) - 1
      BY <1>8, <2>1 DEF WithinLimits
    <3>2. Waiting(tab', two[j].key) \subseteq Waiting(tab, two[j].key)
      BY <1>9
    <3>3. Cardinality(Waiting(tab', two[j].key)) <= Cardinality(Waiting(tab, two[j].key))
      BY <3>2, WaitingCounted, FS_Subset
    <3> QED BY <2>t, <3>1, <3>3
  <2>2. ASSUME two[j].key = AK \/ two[j].key = DK, two[j].failures = 1
        PROVE  two[j].failures + Cardinality(Waiting(tab', two[j].key)) <= LimitOf(two[j].key) + Cardinality(Tabs) - 1
    <3>1. Cardinality(Waiting(tab', two[j].key)) + 1 <= Cardinality(Tabs)
      BY <1>17, <2>2
    <3> QED BY <2>t, <2>2, <3>1
  <2>3. ASSUME two[j].key = AK \/ two[j].key = DK, NEW i \in DOMAIN attempts, attempts[i].key = two[j].key,
               two[j].failures = attempts[i].failures + 1
        PROVE  two[j].failures + Cardinality(Waiting(tab', two[j].key)) <= LimitOf(two[j].key) + Cardinality(Tabs) - 1
    <3>1. attempts[i].failures + Cardinality(Waiting(tab, two[j].key)) <= LimitOf(two[j].key) + Cardinality(Tabs) - 1
      BY <1>8, <2>3 DEF WithinLimits
    <3>2. Cardinality(Waiting(tab', two[j].key)) + 1 <= Cardinality(Waiting(tab, two[j].key))
      BY <1>17, <2>3
    <3>3. attempts[i].failures \in Nat
      BY <1>14 DEF Entries
    <3> QED BY <2>t, <2>3, <3>1, <3>2, <3>3
  <2> QED BY <1>13, <2>1, <2>2, <2>3
<1>19. \A u \in Tabs : Named(tab'[u])
  BY ZenonT(60), <1>9, TabRecordsAre DEF Throttled, Named
<1>20. RefusedForCause'
  <2> SUFFICES ASSUME NEW u \in Tabs, tab'[u].at = "refused"
               PROVE  \/ Cardinality({k \in Lately' : failed'[k].account = tab'[u].account}) >= MaxPerAccount
                      \/ Cardinality({k \in Lately' : failed'[k].address = tab'[u].address}) >= MaxPerAddress
    BY DEF RefusedForCause
  <2>1. u # t /\ tab'[u] = tab[u]
    BY <1>9, TabRecordsAre
  <2> DEFINE AL == {k \in Lately : failed[k].account = tab[u].account}
             DL == {k \in Lately : failed[k].address = tab[u].address}
             AN == {k \in Lately' : failed'[k].account = tab'[u].account}
             DN == {k \in Lately' : failed'[k].address = tab'[u].address}
  <2>2. \A k \in Lately : k \in DOMAIN failed
    BY DEF Lately
  <2>3. AL \subseteq AN /\ DL \subseteq DN /\ AN \subseteq Lately' /\ DN \subseteq Lately'
    BY <1>10, <2>1, <2>2
  <2>4. Cardinality(AL) >= MaxPerAccount \/ Cardinality(DL) >= MaxPerAddress
    BY <2>1 DEF RefusedForCause, Throttled
  <2> HIDE DEF AL, DL, AN, DN
  <2>5. IsFiniteSet(AN) /\ IsFiniteSet(DN)
    BY <1>10, <2>3, FS_Subset
  <2>6. /\ Cardinality(AL) <= Cardinality(AN) /\ Cardinality(DL) <= Cardinality(DN)
        /\ Cardinality(AL) \in Nat /\ Cardinality(DL) \in Nat /\ Cardinality(AN) \in Nat /\ Cardinality(DN) \in Nat
    BY <2>3, <2>5, FS_Subset, FS_CardinalityType
  <2>7. Cardinality(AN) >= MaxPerAccount \/ Cardinality(DN) >= MaxPerAddress
    BY <2>4, <2>6, SignInAssumption
  <2> QED BY <2>7 DEF AN, DN
<1> QED BY <1>4, <1>10, <1>12, <1>16, <1>18, <1>19, <1>20 DEF Throttled

-----------------------------------------------------------------------------
(* The steps of the sessions. *)

\* A tab's next record names no session, or one that was made: rows, cookie and tokens stay.
LEMMA SignedPlain ==
  ASSUME SignInTypes, Signed, NEW t \in Tabs, NEW r \in TabRecords, Issued(r, tokens), tab' = [tab EXCEPT ![t] = r],
         sessions' \subseteq sessions, cookie' = cookie, tokens' = tokens
  PROVE  Signed'
<1>1. tab' \in [Tabs -> TabRecords] /\ tab'[t] = r /\ \A u \in Tabs : u # t => tab'[u] = tab[u]
  BY TabChanged
<1>2. \A u \in Tabs : Issued(tab'[u], tokens')
  BY <1>1 DEF Signed
<1> QED BY <1>2 DEF Signed, Rows

\* A session is made: its row and its token say the same, and every older token stays.
LEMMA SignedMade ==
  ASSUME SignInTypes, Throttled, Signed, NEW t \in Tabs, RightPassword(t)
  PROVE  SignInTypes' /\ Throttled' /\ Signed'
<1>1. PICK n : n = Len(tokens) + 1
  OBVIOUS
<1>2. PICK e : e = [until |-> moment + Ttl, over |-> FALSE]
  OBVIOUS
<1>3. PICK r : r = Asking("cleaning", n)
  OBVIOUS
<1>4. /\ attempts' = Without(attempts, AccountKey(tab[t].account))
      /\ tokens' = Append(tokens, e)
      /\ sessions' = sessions \cup {[token |-> n, until |-> moment + Ttl]}
      /\ tab' = [tab EXCEPT ![t] = r]
      /\ moment' = moment /\ cookie' = cookie /\ failed' = failed /\ signIns' = signIns
  BY <1>1, <1>2, <1>3 DEF RightPassword
<1>t. tokens \in Seq(Tokens) /\ DOMAIN tokens = 1..Len(tokens) /\ Len(tokens) \in Nat /\ moment \in Nat /\ Ttl \in Nat
  BY LenProperties, SignInAssumption DEF SignInTypes
<1>5. e \in Tokens /\ e.until = moment + Ttl /\ ~e.over /\ n \in Nat
  BY <1>1, <1>2, <1>t DEF Tokens
<1>6. /\ tokens' \in Seq(Tokens) /\ Len(tokens') = Len(tokens) + 1
      /\ \A i \in 1..Len(tokens) : tokens'[i] = tokens[i]
      /\ tokens'[n] = e
  BY <1>1, <1>4, <1>5, <1>t, AppendProperties
<1>7. DOMAIN tokens' = 1..Len(tokens) + 1
  BY <1>6, LenProperties
<1>8. DOMAIN tokens \subseteq DOMAIN tokens' /\ n \in DOMAIN tokens' /\ \A i \in DOMAIN tokens : tokens'[i] = tokens[i]
  BY <1>1, <1>6, <1>7, <1>t
<1>9. r \in TabRecords /\ r.at = "cleaning" /\ r.token = n
  BY ZenonT(60), <1>3, <1>5, TabRecordsAre
<1>10. tab' \in [Tabs -> TabRecords] /\ tab'[t] = r /\ \A u \in Tabs : u # t => tab'[u] = tab[u]
  BY <1>4, <1>9, TabChanged
<1>11. Proper(attempts') /\ Of(attempts', attempts)
  BY <1>4, WithoutIs DEF SignInTypes
<1>12. Throttled'
  BY <1>4, <1>9, <1>11, ThrottlePlain
<1>13. [token |-> n, until |-> moment + Ttl] \in [token : Nat, until : Nat]
  BY <1>5, <1>t
<1>14. SignInTypes'
  BY <1>4, <1>6, <1>10, <1>11, <1>13 DEF SignInTypes
<1>15. \A u \in Tabs : Issued(tab'[u], tokens')
  BY <1>8, <1>9, <1>10 DEF Signed, Issued
<1>16. Rows(sessions', tokens')
  BY <1>4, <1>5, <1>6, <1>8 DEF Signed, Rows
<1>17. cookie' # NoToken => cookie' \in DOMAIN tokens'
  BY <1>4, <1>8 DEF Signed
<1> QED BY <1>12, <1>14, <1>15, <1>16, <1>17 DEF Signed

\* A session is signed out of: its row goes with it.
LEMMA SignedOver ==
  ASSUME SignInTypes, Throttled, Signed, NEW t \in Tabs, DestroySession(t)
  PROVE  SignInTypes' /\ Throttled' /\ Signed'
<1>1. PICK k : k = tab[t].token
  OBVIOUS
<1>2. PICK r : r = Asking("left", NoToken)
  OBVIOUS
<1>3. /\ sessions' = {s \in sessions : s.token # k} /\ tokens' = [tokens EXCEPT ![k].over = TRUE]
      /\ tab' = [tab EXCEPT ![t] = r] /\ tab[t].at = "leaving"
      /\ moment' = moment /\ cookie' = cookie /\ failed' = failed /\ signIns' = signIns /\ attempts' = attempts
  BY <1>1, <1>2 DEF DestroySession
<1>t. tokens \in Seq(Tokens) /\ DOMAIN tokens = 1..Len(tokens) /\ \A i \in DOMAIN tokens : tokens[i] \in Tokens
  BY LenProperties, ElementOfSeq DEF SignInTypes
<1>4. k \in DOMAIN tokens
  BY <1>1, <1>3 DEF Signed, Issued
<1>5. PICK e : e = [tokens[k] EXCEPT !.over = TRUE]
  OBVIOUS
<1>6. e \in Tokens
  BY <1>4, <1>5, <1>t DEF Tokens
<1>7. tokens' = [tokens EXCEPT ![k] = e]
  BY <1>3, <1>5
<1>8. tokens' \in Seq(Tokens)
  BY <1>4, <1>6, <1>7, <1>t, ExceptSeq
<1>9. DOMAIN tokens' = DOMAIN tokens /\ \A i \in DOMAIN tokens : i # k => tokens'[i] = tokens[i]
  BY <1>7
<1>10. r \in TabRecords /\ r.at = "left"
  BY <1>2, TabRecordsAre
<1>11. tab' \in [Tabs -> TabRecords] /\ tab'[t] = r /\ \A u \in Tabs : u # t => tab'[u] = tab[u]
  BY <1>3, <1>10, TabChanged
<1>12. Proper(attempts') /\ Of(attempts', attempts)
  BY <1>3 DEF SignInTypes, Of
<1>13. Throttled'
  BY <1>3, <1>10, <1>12, ThrottlePlain
<1>14. SignInTypes'
  BY <1>3, <1>8, <1>11, <1>12 DEF SignInTypes
<1>15. \A u \in Tabs : Issued(tab'[u], tokens')
  BY <1>9, <1>10, <1>11 DEF Signed, Issued
<1>16. Rows(sessions', tokens')
  BY <1>3, <1>9 DEF Signed, Rows
<1>17. cookie' # NoToken => cookie' \in DOMAIN tokens'
  BY <1>3, <1>9 DEF Signed
<1> QED BY <1>13, <1>14, <1>15, <1>16, <1>17 DEF Signed

-----------------------------------------------------------------------------
(* Every step. *)

LEMMA SignInStarts == SignInInit => SignInInv
<1> SUFFICES ASSUME SignInInit PROVE SignInInv
  OBVIOUS
<1>1. attempts = <<>> /\ failed = <<>> /\ tokens = <<>> /\ sessions = {} /\ moment = 0 /\ signIns = 0
  BY DEF SignInInit
<1>2. cookie = NoToken /\ tab = [t \in Tabs |-> Idle]
  BY DEF SignInInit
<1>3. <<>> \in Seq(Entries) /\ <<>> \in Seq(Failed) /\ <<>> \in Seq(Tokens) /\ Len(<<>>) = 0
  BY EmptySeq
<1>4. DOMAIN attempts = {}
  BY <1>1, <1>3, LenProperties
<1>5. Proper(attempts)
  BY <1>1, <1>3, <1>4, SignInAssumption DEF Proper
<1>6. SignInTypes
  BY <1>1, <1>2, <1>3, <1>5, TabRecordsAre DEF SignInTypes
<1>7. Throttled
  BY <1>2, <1>4, TabRecordsAre DEF Throttled, Named, Backed, WithinLimits, RefusedForCause
<1>8. Signed
  BY <1>1, <1>2, TabRecordsAre DEF Signed, Issued, Rows
<1> QED BY <1>6, <1>7, <1>8 DEF SignInInv

\* One tab's record changes, and perhaps the cookie or rows that go.
LEMMA PlainStep ==
  ASSUME SignInInv, NEW t \in Tabs, NEW r \in TabRecords, Issued(r, tokens), r.at \notin {"authenticating", "refused"},
         tab' = [tab EXCEPT ![t] = r], attempts' = attempts, failed' = failed, moment' = moment, signIns' = signIns,
         tokens' = tokens, sessions' \subseteq sessions, cookie' = cookie \/ cookie' = NoToken \/ cookie' \in DOMAIN tokens
  PROVE  SignInInv'
<1>1. SignInTypes /\ Throttled /\ Signed
  BY DEF SignInInv
<1>2. Of(attempts', attempts)
  BY DEF Of
<1>3. Throttled'
  BY <1>1, <1>2, ThrottlePlain
<1>4. tab' \in [Tabs -> TabRecords] /\ tab'[t] = r /\ \A u \in Tabs : u # t => tab'[u] = tab[u]
  BY <1>1, TabChanged
<1>5. \A k \in DOMAIN tokens : k \in Nat
  BY <1>1, LenProperties DEF SignInTypes
<1>6. SignInTypes'
  <2>1. cookie' \in Nat \cup {NoToken}
    BY <1>1, <1>5 DEF SignInTypes
  <2>2. sessions' \subseteq [token : Nat, until : Nat]
    BY <1>1 DEF SignInTypes
  <2> QED BY <1>1, <1>4, <2>1, <2>2 DEF SignInTypes
<1>7. Signed'
  <2>1. \A u \in Tabs : Issued(tab'[u], tokens')
    BY <1>1, <1>4 DEF Signed
  <2>2. cookie' # NoToken => cookie' \in DOMAIN tokens'
    BY <1>1 DEF Signed
  <2>3. Rows(sessions', tokens')
    BY <1>1 DEF Signed, Rows
  <2> QED BY <2>1, <2>2, <2>3 DEF Signed
<1> QED BY <1>3, <1>6, <1>7 DEF SignInInv

\* The invariant of signing in is inductive.
LEMMA SignInSteps == SignInInv /\ [SignInNext]_signInVars => SignInInv'
<1> SUFFICES ASSUME SignInInv, [SignInNext]_signInVars PROVE SignInInv'
  OBVIOUS
<1>t. SignInTypes /\ Throttled /\ Signed
  BY DEF SignInInv
<1>d. \A k \in DOMAIN tokens : k \in Nat
  BY <1>t, LenProperties DEF SignInTypes
<1>1. ASSUME NEW t \in Tabs, NEW account \in Accounts, NEW address \in CallerAddresses, SendLogin(t, account, address)
      PROVE  SignInInv'
  <2>1. Proper(attempts') /\ Throttled'
    BY <1>t, <1>1, ThrottleSendLogin
  <2>p. PICK at \in {"authenticating", "refused"} : tab' = [tab EXCEPT ![t] = Trying(at, account, address)]
    BY <1>1 DEF SendLogin
  <2>q. PICK r : r = Trying(at, account, address)
    OBVIOUS
  <2>r. r \in TabRecords /\ r.at = at
    BY <2>q, TabRecordsAre
  <2>2. /\ r \in TabRecords /\ r.at \in {"authenticating", "refused"} /\ tab' = [tab EXCEPT ![t] = r]
        /\ moment' = moment /\ failed' = failed /\ sessions' = sessions /\ tokens' = tokens /\ cookie' = cookie
        /\ signIns' = signIns + 1
    BY <1>1, <2>p, <2>q, <2>r DEF SendLogin
  <2>3. tab' \in [Tabs -> TabRecords]
    BY <1>t, <2>2, TabChanged
  <2>4. SignInTypes'
    BY <1>t, <2>1, <2>2, <2>3 DEF SignInTypes
  <2>5. Issued(r, tokens)
    BY <2>2 DEF Issued
  <2>6. Signed'
    BY <1>t, <2>2, <2>5, SignedPlain
  <2> QED BY <2>1, <2>4, <2>6 DEF SignInInv
<1>2. ASSUME NEW t \in Tabs, WrongPassword(t)
      PROVE  SignInInv'
  <2>1. Proper(attempts') /\ failed' \in Seq(Failed) /\ Throttled'
    BY <1>t, <1>2, ThrottleWrongPassword
  <2>2. /\ tab' = [tab EXCEPT ![t] = Idle] /\ sessions' = sessions /\ tokens' = tokens /\ cookie' = cookie
        /\ moment' = moment /\ signIns' = signIns
    BY <1>2 DEF WrongPassword
  <2>3. Idle \in TabRecords /\ Issued(Idle, tokens)
    BY TabRecordsAre DEF Issued
  <2>4. tab' \in [Tabs -> TabRecords]
    BY <1>t, <2>2, <2>3, TabChanged
  <2>5. SignInTypes'
    BY <1>t, <2>1, <2>2, <2>4 DEF SignInTypes
  <2>6. Signed'
    BY <1>t, <2>2, <2>3, SignedPlain
  <2> QED BY <2>1, <2>5, <2>6 DEF SignInInv
<1>3. ASSUME NEW t \in Tabs, RightPassword(t)
      PROVE  SignInInv'
  BY <1>t, <1>3, SignedMade DEF SignInInv
<1>4. ASSUME NEW t \in Tabs, SignedIn(t)
      PROVE  SignInInv'
  <2>1. /\ tab' = [tab EXCEPT ![t] = Idle] /\ cookie' = tab[t].token /\ sessions' \subseteq sessions
        /\ attempts' = attempts /\ failed' = failed /\ moment' = moment /\ signIns' = signIns /\ tokens' = tokens
    BY <1>4 DEF SignedIn
  <2>2. Idle \in TabRecords /\ Issued(Idle, tokens) /\ Idle.at \notin {"authenticating", "refused"}
    BY TabRecordsAre DEF Issued
  <2>3. cookie' \in DOMAIN tokens
    BY <1>t, <1>4, <2>1 DEF SignedIn, Signed, Issued
  <2> QED BY <2>1, <2>2, <2>3, PlainStep
<1>5. ASSUME NEW t \in Tabs, SeeRefusal(t) \/ SeeAnswer(t) \/ SignedOut(t)
      PROVE  SignInInv'
  <2>1. /\ tab' = [tab EXCEPT ![t] = Idle] /\ (cookie' = cookie \/ cookie' = NoToken) /\ sessions' \subseteq sessions
        /\ attempts' = attempts /\ failed' = failed /\ moment' = moment /\ signIns' = signIns /\ tokens' = tokens
    BY <1>5 DEF SeeRefusal, SeeAnswer, SignedOut
  <2>2. Idle \in TabRecords /\ Issued(Idle, tokens) /\ Idle.at \notin {"authenticating", "refused"}
    BY TabRecordsAre DEF Issued
  <2> QED BY <2>1, <2>2, PlainStep
<1>6. ASSUME NEW t \in Tabs, SendLogout(t) \/ SendRequest(t)
      PROVE  SignInInv'
  <2>1. PICK at \in {"leaving", "asking"} :
          /\ tab' = [tab EXCEPT ![t] = Asking(at, cookie)] /\ cookie # NoToken /\ cookie' = cookie /\ sessions' \subseteq sessions
          /\ attempts' = attempts /\ failed' = failed /\ moment' = moment /\ signIns' = signIns /\ tokens' = tokens
    BY <1>6 DEF SendLogout, SendRequest
  <2>2. cookie \in DOMAIN tokens /\ cookie \in Nat
    BY <1>t, <1>d, <2>1 DEF Signed
  <2>3. /\ Asking(at, cookie) \in TabRecords /\ Issued(Asking(at, cookie), tokens)
        /\ Asking(at, cookie).at \notin {"authenticating", "refused"}
    <3>1. /\ Asking(at, cookie) \in TabRecords /\ Asking(at, cookie).at = at /\ Asking(at, cookie).token = cookie
      <4>1. cookie \in Nat \cup {NoToken}
        BY <2>2
      <4>2. at \in {"idle", "cleaning", "leaving", "left", "asking", "served", "turned away"}
        OBVIOUS
      <4> QED BY <4>1, <4>2, TabRecordsAre
    <3> QED BY <2>2, <3>1 DEF Issued
  <2> QED BY <2>1, <2>3, PlainStep
<1>7. ASSUME NEW t \in Tabs, DestroySession(t)
      PROVE  SignInInv'
  BY <1>t, <1>7, SignedOver DEF SignInInv
<1>8. ASSUME NEW t \in Tabs, Answer(t)
      PROVE  SignInInv'
  <2>1. PICK at \in {"served", "turned away"} :
          /\ tab' = [tab EXCEPT ![t] = Asking(at, tab[t].token)] /\ cookie' = cookie /\ sessions' \subseteq sessions
          /\ attempts' = attempts /\ failed' = failed /\ moment' = moment /\ signIns' = signIns /\ tokens' = tokens
    BY <1>8 DEF Answer
  <2>2. tab[t].token \in DOMAIN tokens /\ tab[t].token \in Nat
    BY <1>t, <1>d, <1>8 DEF Answer, Signed, Issued
  <2>3. /\ Asking(at, tab[t].token) \in TabRecords /\ Issued(Asking(at, tab[t].token), tokens)
        /\ Asking(at, tab[t].token).at \notin {"authenticating", "refused"}
    BY <2>2, TabRecordsAre DEF Issued
  <2> QED BY <2>1, <2>3, PlainStep
<1>9. ASSUME TimePasses PROVE SignInInv'
  <2>1. /\ moment' = moment + 1 /\ \A t \in Tabs : tab[t].at # "refused"
        /\ attempts' = attempts /\ failed' = failed /\ signIns' = signIns /\ tokens' = tokens /\ sessions' = sessions
        /\ tab' = tab /\ cookie' = cookie
    BY <1>9 DEF TimePasses
  <2>2. SignInTypes'
    BY <1>t, <2>1 DEF SignInTypes
  <2>3. Backed(attempts', failed', moment')
    <3>1. \A j \in DOMAIN attempts : attempts[j].since \in Nat /\ moment \in Nat
      <4>1. \A j \in DOMAIN attempts : attempts[j] \in Entries
        BY <1>t, ProperIs DEF SignInTypes
      <4> QED BY <1>t, <4>1 DEF Entries, SignInTypes
    <3> QED BY <1>t, <2>1, <3>1 DEF Backed, Throttled
  <2>4. Throttled'
    BY <1>t, <2>1, <2>3 DEF Throttled, RefusedForCause
  <2>5. Signed'
    BY <1>t, <2>1 DEF Signed
  <2> QED BY <2>2, <2>4, <2>5 DEF SignInInv
<1>10. ASSUME ServerRestart PROVE SignInInv'
  <2>1. /\ attempts' = <<>> /\ tab' = [t \in Tabs |-> Idle]
        /\ moment' = moment /\ failed' = failed /\ signIns' = signIns /\ tokens' = tokens /\ sessions' = sessions
        /\ cookie' = cookie
    BY <1>10 DEF ServerRestart
  <2>2. <<>> \in Seq(Entries) /\ Len(<<>>) = 0
    BY EmptySeq
  <2>3. DOMAIN attempts' = {}
    BY <2>1, <2>2, LenProperties
  <2>4. Proper(attempts')
    BY <2>1, <2>2, <2>3, SignInAssumption DEF Proper
  <2>5. SignInTypes'
    BY <1>t, <2>1, <2>4, TabRecordsAre DEF SignInTypes
  <2>6. Throttled'
    BY <2>1, <2>3, TabRecordsAre DEF Throttled, Named, Backed, WithinLimits, RefusedForCause
  <2>7. Signed'
    BY <1>t, <2>1, TabRecordsAre DEF Signed, Issued
  <2> QED BY <2>5, <2>6, <2>7 DEF SignInInv
<1>11. ASSUME UNCHANGED signInVars PROVE SignInInv'
  <2>1. SignInTypes'
    BY <1>t, <1>11 DEF SignInTypes, signInVars
  <2>2. Throttled'
    BY <1>t, <1>11 DEF Throttled, RefusedForCause, Lately, signInVars
  <2>3. Signed'
    BY <1>t, <1>11 DEF Signed, signInVars
  <2> QED BY <2>1, <2>2, <2>3 DEF SignInInv
<1> QED BY <1>1, <1>2, <1>3, <1>4, <1>5, <1>6, <1>7, <1>8, <1>9, <1>10, <1>11 DEF SignInNext

\* The invariant implies what is promised of the throttle.
LEMMA SignInImplies == SignInInv => ThrottleHolds
<1> SUFFICES ASSUME SignInInv PROVE ThrottleHolds
  OBVIOUS
<1>1. SignInTypes /\ Throttled
  BY DEF SignInInv
<1>2. \A j \in DOMAIN attempts : attempts[j] \in Entries
  BY <1>1, ProperIs DEF SignInTypes
<1>3. TriesAreBounded
  <2> SUFFICES ASSUME NEW k \in DOMAIN attempts
               PROVE  attempts[k].failures <= LimitOf(attempts[k].key) + Cardinality(Tabs) - 1
    BY DEF TriesAreBounded, LimitOf
  <2>1. attempts[k].failures + Cardinality(Waiting(tab, attempts[k].key)) <= LimitOf(attempts[k].key) + Cardinality(Tabs) - 1
    BY <1>1 DEF Throttled, WithinLimits
  <2>2. /\ Cardinality(Waiting(tab, attempts[k].key)) \in Nat /\ attempts[k].failures \in Nat /\ Cardinality(Tabs) \in Nat
        /\ LimitOf(attempts[k].key) \in Nat
    BY <1>2, WaitingCounted, SignInAssumption DEF Entries, LimitOf
  <2> QED BY <2>1, <2>2
<1>4. KeysAreBounded
  BY <1>1 DEF SignInTypes, Proper, KeysAreBounded
<1> QED BY <1>1, <1>3, <1>4 DEF ThrottleHolds, Throttled

\* Only the server's answer serves a request, and it looks at the rows there are.
LEMMA ServedIsSignedIn ==
  ASSUME SignInInv, SignInNext, NEW t \in Tabs, tab[t].at = "asking", tab'[t].at = "served"
  PROVE  ~tokens[tab[t].token].over /\ moment < tokens[tab[t].token].until
<1>t. SignInTypes /\ Signed
  BY DEF SignInInv
<1>1. Answer(t)
  <2>1. ASSUME NEW u \in Tabs, NEW r \in TabRecords, tab' = [tab EXCEPT ![u] = r], r.at # "served" \/ u # t PROVE FALSE
    <3>1. tab'[u] = r /\ (u # t => tab'[t] = tab[t])
      BY <1>t, <2>1, TabChanged
    <3> QED BY <2>1, <3>1
  <2>2. ASSUME NEW u \in Tabs, NEW account \in Accounts, NEW address \in CallerAddresses, SendLogin(u, account, address)
        PROVE  FALSE
    <3>1. PICK at \in {"authenticating", "refused"} : tab' = [tab EXCEPT ![u] = Trying(at, account, address)]
      BY <2>2 DEF SendLogin
    <3> QED BY <2>1, <3>1, TabRecordsAre
  <2>3. ASSUME NEW u \in Tabs, WrongPassword(u) \/ SignedIn(u) \/ SeeRefusal(u) \/ SignedOut(u) \/ SeeAnswer(u)
        PROVE  FALSE
    <3>1. tab' = [tab EXCEPT ![u] = Idle]
      BY <2>3 DEF WrongPassword, SignedIn, SeeRefusal, SignedOut, SeeAnswer
    <3> QED BY <2>1, <3>1, TabRecordsAre
  <2>4. ASSUME NEW u \in Tabs, RightPassword(u) \/ SendLogout(u) \/ DestroySession(u) \/ SendRequest(u)
        PROVE  FALSE
    <3>1. Len(tokens) + 1 \in Nat
      BY <1>t, LenProperties DEF SignInTypes
    <3>2. PICK at \in {"cleaning", "leaving", "left", "asking"}, token \in Nat \cup {NoToken} :
            tab' = [tab EXCEPT ![u] = Asking(at, token)]
      BY <1>t, <2>4, <3>1 DEF RightPassword, SendLogout, DestroySession, SendRequest, SignInTypes
    <3> QED BY <2>1, <3>2, TabRecordsAre
  <2>5. ASSUME NEW u \in Tabs, Answer(u), u # t PROVE FALSE
    <3>1. PICK at \in {"served", "turned away"} : tab' = [tab EXCEPT ![u] = Asking(at, tab[u].token)]
      BY <2>5 DEF Answer
    <3>2. tab[u].token \in Nat \cup {NoToken}
      BY <1>t DEF SignInTypes, TabRecords
    <3> QED BY <2>1, <2>5, <3>1, <3>2, TabRecordsAre
  <2>6. ~TimePasses
    BY DEF TimePasses
  <2>7. ~ServerRestart
    <3>1. ServerRestart => tab'[t] = Idle
      BY DEF ServerRestart
    <3> QED BY <3>1, TabRecordsAre
  <2> QED BY <2>2, <2>3, <2>4, <2>5, <2>6, <2>7 DEF SignInNext
<1>2. \E s \in sessions : s.token = tab[t].token /\ s.until > moment
  <2>1. PICK found \in BOOLEAN : /\ found = (\E s \in sessions : s.token = tab[t].token /\ s.until > moment)
                                /\ tab' = [tab EXCEPT ![t] = Asking(IF found THEN "served" ELSE "turned away", tab[t].token)]
    BY <1>1 DEF Answer
  <2>2. tab[t].token \in Nat \cup {NoToken}
    BY <1>t DEF SignInTypes, TabRecords
  <2>3. Asking(IF found THEN "served" ELSE "turned away", tab[t].token) \in TabRecords
    BY <2>2, TabRecordsAre
  <2>4. tab'[t] = Asking(IF found THEN "served" ELSE "turned away", tab[t].token)
    BY <1>t, <2>1, <2>3, TabChanged
  <2>5. found
    BY <2>2, <2>4, TabRecordsAre
  <2> QED BY <2>1, <2>5
<1>3. PICK s \in sessions : s.token = tab[t].token /\ s.until > moment
  BY <1>2
<1>4. s.until \in Nat /\ moment \in Nat
  BY <1>t DEF SignInTypes
<1> QED BY <1>t, <1>3, <1>4 DEF Signed, Rows

\* Nobody is refused who did not fail often enough within one window, those who try at once go past
\* a limit by no more than they are, and the map keeps its size and one entry of a key
\* (login-throttle.ts).
THEOREM ThrottleIsSound == SignInSpec => []ThrottleHolds
<1>1. SignInSpec => []SignInInv
  BY SignInStarts, SignInSteps, PTL DEF SignInSpec
<1> QED BY <1>1, SignInImplies, PTL

\* Whoever is served has a session that nobody signed out of and that has time left (auth.ts:40-53).
THEOREM ServedAreSignedIn == SignInSpec => ServedWhileSignedIn
<1>1. SignInSpec => []SignInInv
  BY SignInStarts, SignInSteps, PTL DEF SignInSpec
<1>2. SignInInv /\ [SignInNext]_signInVars
        => [\A t \in Tabs : tab[t].at = "asking" /\ tab'[t].at = "served" =>
              ~tokens[tab[t].token].over /\ moment < tokens[tab[t].token].until]_signInVars
  BY ServedIsSignedIn
<1> QED BY <1>1, <1>2, PTL DEF SignInSpec, ServedWhileSignedIn

-----------------------------------------------------------------------------
(* The test mail server. *)

Lines       == {NoLine, "RCPT", "DATA", "content"}
Mails       == {[message |-> m, to |-> To[m]] : m \in Messages}
ConnRecords ==
  [up : BOOLEAN, live : BOOLEAN, message : Messages \cup {Nobody}, asked : Lines, line : Lines,
   reply : {NoLine, "250", "354", "451", "550", "554"}, recipients : {<<>>} \cup {<<To[m]>> : m \in Messages},
   data : BOOLEAN, held : {<<>>} \cup {<<m, To[m]>> : m \in Messages}]

\* Nothing is left to refuse the message for.
Unrefused(m, refused) == Scenario[To[m]] \in {"success", "slow", "tempfail"} /\ refused[To[m]] = Failures[To[m]]

Arrived(m, box) == Len(box) < Keep => \E k \in DOMAIN box : box[k].message = m

\* How far a message has come on a connection: where its last line is, or what it was answered.
Naming(k)    == /\ k.asked = "RCPT" /\ k.line = "RCPT" /\ k.reply = NoLine /\ k.recipients = <<>> /\ k.held = <<>>
TurnedDown(k) == /\ k.asked = "RCPT" /\ k.line = NoLine /\ k.held = <<>>
                 /\ k.reply = "451" \/ (k.reply = "550" /\ Scenario[To[k.message]] \in {"permfail", "foreign"})
Addressed(k) == /\ \/ k.asked = "RCPT" /\ k.line = NoLine /\ k.reply = "250"
                   \/ k.asked = "DATA" /\ k.line = "DATA" /\ k.reply = NoLine
                   \/ k.asked = "DATA" /\ k.line = NoLine /\ k.reply = "354"
                   \/ k.asked = "content" /\ k.line = "content" /\ k.reply = NoLine
                /\ k.recipients = <<To[k.message]>> /\ k.held = <<>>
Held(k)      == /\ k.asked = "content" /\ k.line = NoLine /\ k.reply = NoLine
                /\ k.recipients = <<>> /\ k.held = <<k.message, To[k.message]>>
Delivered(k) == /\ k.asked = "content" /\ k.line = NoLine /\ k.reply = "250" /\ k.recipients = <<>> /\ k.held = <<>>

\* The two ends of a connection agree.
Conversation(k, refused, box) ==
  /\ k.live \/ k = Closed
  /\ k.up => k.live
  /\ ~k.up => k.line = NoLine
  /\ k.held # <<>> => k.reply = NoLine
  /\ k.up /\ k.message = Nobody => k.line = NoLine /\ k.reply = NoLine /\ k.recipients = <<>> /\ k.held = <<>>
  /\ k.up /\ k.message # Nobody =>
       \/ Naming(k)
       \/ TurnedDown(k)
       \/ Addressed(k) /\ Unrefused(k.message, refused)
       \/ Held(k) /\ Unrefused(k.message, refused)
       \/ Delivered(k) /\ Unrefused(k.message, refused) /\ Arrived(k.message, box)

SmtpTypes ==
  /\ shared \in [instance : BOOLEAN, starting : BOOLEAN, begun : Nat, listening : Nat]
  /\ conns \in [Connections -> ConnRecords]
  /\ refusals \in [DOMAIN Scenario -> Nat]
  /\ received \in Seq(Mails)
  /\ fate \in [Messages -> {"queued", "sending", "sent", "failed"}]

\* A start under way is not begun again, nor after one that succeeded.
OneStart ==
  /\ shared.starting => shared.begun + shared.listening = 1
  /\ ~shared.starting => shared.begun = 0 /\ shared.listening = 0

\* No message is believed refused, or sent, that is not.
FateKnown(m, end, refused, box) ==
  /\ end = "failed" => Scenario[To[m]] \in {"permfail", "foreign"}
  /\ end = "sent" => Unrefused(m, refused) /\ Arrived(m, box)

Accounted ==
  /\ \A c \in Connections : Conversation(conns[c], refusals, received)
  /\ \A a \in DOMAIN Scenario : refusals[a] <= Failures[a]
  /\ \A m \in Messages : FateKnown(m, fate[m], refusals, received)

SmtpInv == SmtpTypes /\ OneStart /\ Accounted

-----------------------------------------------------------------------------
(* What a step changes. *)

\* Filing a message: it arrives, and those that had arrived have, as far as anything is kept.
LEMMA FiledIs ==
  ASSUME received \in Seq(Mails), NEW m \in Messages
  PROVE  /\ Filed(m, To[m]) \in Seq(Mails)
         /\ Arrived(m, Filed(m, To[m]))
         /\ \A n : Arrived(n, received) => Arrived(n, Filed(m, To[m]))
<1>1. PICK e : e = [message |-> m, to |-> To[m]]
  OBVIOUS
<1>2. e \in Mails /\ e.message = m
  BY <1>1 DEF Mails
<1>3. PICK all : all = Append(received, e)
  OBVIOUS
<1>4. /\ all \in Seq(Mails) /\ Len(all) = Len(received) + 1
      /\ \A i \in 1..Len(received) : all[i] = received[i]
      /\ all[Len(received) + 1] = e
  BY <1>2, <1>3, AppendProperties
<1>5. /\ Len(received) \in Nat /\ DOMAIN received = 1..Len(received) /\ DOMAIN all = 1..Len(received) + 1 /\ Keep \in Nat
  BY <1>4, LenProperties, SmtpAssumption
<1>6. Filed(m, To[m]) = IF Len(all) > Keep THEN Tail(all) ELSE all
  BY <1>1, <1>3 DEF Filed
<1>7. CASE Len(all) > Keep
  <2>1. all # <<>>
    BY <1>4, <1>5, EmptySeq
  <2>2. Tail(all) \in Seq(Mails) /\ Len(Tail(all)) = Len(all) - 1
    BY <1>4, <2>1, HeadTailProperties
  <2>3. ~(Len(Tail(all)) < Keep)
    BY <1>4, <1>5, <1>7, <2>2
  <2> QED BY <1>6, <1>7, <2>2, <2>3 DEF Arrived
<1>8. CASE ~(Len(all) > Keep)
  <2>1. Len(received) + 1 \in DOMAIN all
    BY <1>5
  <2>2. Arrived(m, all)
    BY <1>2, <1>4, <2>1 DEF Arrived
  <2>3. ASSUME NEW n, Arrived(n, received) PROVE Arrived(n, all)
    <3>1. Len(received) < Keep
      BY <1>4, <1>5, <1>8
    <3>2. PICK k \in DOMAIN received : received[k].message = n
      BY <2>3, <3>1 DEF Arrived
    <3>3. k \in DOMAIN all /\ all[k] = received[k]
      BY <1>4, <1>5
    <3> QED BY <3>2, <3>3 DEF Arrived
  <2> QED BY <1>4, <1>6, <1>8, <2>2, <2>3
<1> QED BY <1>7, <1>8

\* What was accepted and what arrived stays so: a conversation goes on as it was.
LEMMA ConversationStays ==
  ASSUME NEW k \in ConnRecords, NEW refused, NEW box, NEW refused2, NEW box2, Conversation(k, refused, box),
         \A m \in Messages : Unrefused(m, refused) => Unrefused(m, refused2),
         \A m \in Messages : Arrived(m, box) => Arrived(m, box2)
  PROVE  Conversation(k, refused2, box2)
<1>1. k.message \in Messages \/ k.message = Nobody
  BY DEF ConnRecords
<1> QED BY <1>1 DEF Conversation

\* One connection changes, and what was accepted and what arrived stays so.
LEMMA OneConnection ==
  ASSUME SmtpTypes, Accounted, NEW c \in Connections, NEW k \in ConnRecords, Becomes(c, k),
         refusals' \in [DOMAIN Scenario -> Nat], received' \in Seq(Mails),
         fate' \in [Messages -> {"queued", "sending", "sent", "failed"}],
         Conversation(k, refusals', received'),
         \A m \in Messages : Unrefused(m, refusals) => Unrefused(m, refusals'),
         \A m \in Messages : Arrived(m, received) => Arrived(m, received'),
         \A a \in DOMAIN Scenario : refusals'[a] <= Failures[a],
         \A m \in Messages : fate'[m] = fate[m] \/ FateKnown(m, fate'[m], refusals', received'),
         shared' = shared
  PROVE  SmtpTypes' /\ Accounted'
<1>1. conns' \in [Connections -> ConnRecords] /\ conns'[c] = k /\ \A d \in Connections : d # c => conns'[d] = conns[d]
  BY DEF Becomes, SmtpTypes
<1>2. SmtpTypes'
  BY <1>1 DEF SmtpTypes
<1>3. \A d \in Connections : Conversation(conns'[d], refusals', received')
  <2> SUFFICES ASSUME NEW d \in Connections PROVE Conversation(conns'[d], refusals', received')
    OBVIOUS
  <2>1. CASE d = c
    BY <1>1, <2>1
  <2>2. CASE d # c
    <3>1. conns[d] \in ConnRecords /\ Conversation(conns[d], refusals, received) /\ conns'[d] = conns[d]
      BY <1>1, <2>2 DEF SmtpTypes, Accounted
    <3>2. Conversation(conns[d], refusals', received')
      BY <3>1, ConversationStays
    <3> QED BY <3>1, <3>2
  <2> QED BY <2>1, <2>2
<1>4. \A m \in Messages : FateKnown(m, fate'[m], refusals', received')
  BY DEF Accounted, FateKnown
<1> QED BY <1>2, <1>3, <1>4 DEF Accounted

\* A step that changes a connection and the fate of its message only.
LEMMA OnlyConnection ==
  ASSUME SmtpTypes, Accounted, NEW c \in Connections, NEW k \in ConnRecords, Becomes(c, k),
         Conversation(k, refusals, received), UNCHANGED <<shared, refusals, received>>,
         \/ fate' = fate
         \/ \E m \in Messages, end \in {"queued", "sending", "sent", "failed"} :
              fate' = [fate EXCEPT ![m] = end] /\ FateKnown(m, end, refusals, received)
  PROVE  SmtpTypes' /\ Accounted'
<1>1. /\ refusals' \in [DOMAIN Scenario -> Nat] /\ received' \in Seq(Mails) /\ refusals' = refusals /\ received' = received
      /\ shared' = shared
  BY DEF SmtpTypes
<1>2. fate' \in [Messages -> {"queued", "sending", "sent", "failed"}]
  BY DEF SmtpTypes
<1>3. \A m \in Messages : fate'[m] = fate[m] \/ FateKnown(m, fate'[m], refusals', received')
  BY <1>1 DEF SmtpTypes
<1>4. /\ \A m \in Messages : Unrefused(m, refusals) => Unrefused(m, refusals')
      /\ \A m \in Messages : Arrived(m, received) => Arrived(m, received')
      /\ \A a \in DOMAIN Scenario : refusals'[a] <= Failures[a]
      /\ Conversation(k, refusals', received')
  BY <1>1 DEF Accounted
<1> QED BY <1>1, <1>2, <1>3, <1>4, OneConnection

-----------------------------------------------------------------------------
(* The server's steps. *)

\* The connection a step begins with.
LEMMA ConnIs ==
  ASSUME SmtpTypes, Accounted, NEW c \in Connections
  PROVE  /\ conns[c] \in ConnRecords /\ Conversation(conns[c], refusals, received)
         /\ conns[c].message \in Messages \/ conns[c].message = Nobody
         /\ conns[c].message = Nobody => conns[c].message \notin Messages
BY SmtpAssumption DEF SmtpTypes, Accounted, ConnRecords, Nobody

\* A line is under way only on a connection that is up, with a message.
LEMMA LineIs ==
  ASSUME SmtpTypes, Accounted, NEW c \in Connections, conns[c].line # NoLine
  PROVE  /\ conns[c].up /\ conns[c].live /\ conns[c].message \in Messages /\ conns[c].reply = NoLine /\ conns[c].held = <<>>
         /\ conns[c].line = "RCPT" => Naming(conns[c])
         /\ conns[c].line \in {"DATA", "content"} => Addressed(conns[c]) /\ Unrefused(conns[c].message, refusals)
BY ConnIs DEF Conversation, Naming, TurnedDown, Addressed, Held, Delivered, NoLine

\* RCPT TO: each answer is the one the address asks for.
LEMMA ReadRcptStep ==
  ASSUME SmtpTypes, Accounted, NEW c \in Connections, ReadRcpt(c)
  PROVE  SmtpTypes' /\ Accounted'
<1>1. PICK k : k = conns[c]
  OBVIOUS
<1>2. PICK a : a = To[k.message]
  OBVIOUS
<1>3. k \in ConnRecords /\ k.line = "RCPT" /\ UNCHANGED <<shared, received, fate>>
  BY <1>1, ConnIs DEF ReadRcpt
<1>4. k.up /\ k.live /\ k.message \in Messages /\ k.held = <<>> /\ Naming(k)
  BY <1>1, <1>3, LineIs DEF NoLine
<1>5. a \in DOMAIN Scenario /\ Failures[a] \in Nat /\ refusals[a] \in Nat /\ refusals[a] <= Failures[a]
      /\ (Scenario[a] # "tempfail" => Failures[a] = 0)
  BY <1>2, <1>4, SmtpAssumption DEF SmtpTypes, Accounted
<1>6. k.message # Nobody
  BY <1>4, SmtpAssumption DEF Nobody
<1>t. refusals \in [DOMAIN Scenario -> Nat] /\ received' = received /\ received \in Seq(Mails) /\ fate' = fate
  BY <1>3 DEF SmtpTypes
<1>7. ASSUME NEW reply \in {"550", "451"}, Becomes(c, Replied(k, reply)),
             reply = "550" => Scenario[a] \in {"permfail", "foreign"}, UNCHANGED refusals \/ (reply = "451"
               /\ refusals[a] < Failures[a] /\ refusals' = [refusals EXCEPT ![a] = @ + 1])
      PROVE  SmtpTypes' /\ Accounted'
  <2>1. PICK n : n = Replied(k, reply)
    OBVIOUS
  <2>2. /\ n \in ConnRecords /\ n.up /\ n.live /\ n.message = k.message /\ n.asked = "RCPT" /\ n.line = NoLine
        /\ n.reply = reply /\ n.held = <<>>
    BY <1>3, <1>4, <2>1 DEF ConnRecords, Replied, Naming, Lines
  <2>3. TurnedDown(n)
    BY <1>2, <1>7, <2>2 DEF TurnedDown
  <2>4. Conversation(n, refusals', received')
    BY <1>6, <2>2, <2>3 DEF Conversation
  <2>5. refusals' \in [DOMAIN Scenario -> Nat] /\ \A b \in DOMAIN Scenario : refusals'[b] <= Failures[b]
    <3>1. CASE UNCHANGED refusals
      BY <1>t, <3>1 DEF Accounted
    <3>2. CASE refusals[a] < Failures[a] /\ refusals' = [refusals EXCEPT ![a] = @ + 1]
      <4>1. refusals' \in [DOMAIN Scenario -> Nat] /\ refusals'[a] = refusals[a] + 1
            /\ \A b \in DOMAIN Scenario : b # a => refusals'[b] = refusals[b]
        BY <1>t, <1>5, <3>2
      <4>2. refusals'[a] <= Failures[a]
        BY <1>5, <3>2, <4>1
      <4> QED BY <4>1, <4>2 DEF Accounted
    <3> QED BY <1>7, <3>1, <3>2
  <2>6. \A m \in Messages : Unrefused(m, refusals) => Unrefused(m, refusals')
    <3> SUFFICES ASSUME NEW m \in Messages, Unrefused(m, refusals) PROVE Unrefused(m, refusals')
      OBVIOUS
    <3>1. refusals'[To[m]] = refusals[To[m]]
      <4>1. CASE UNCHANGED refusals
        BY <4>1
      <4>2. CASE refusals[a] < Failures[a] /\ refusals' = [refusals EXCEPT ![a] = @ + 1]
        <5>1. To[m] # a
          BY <1>5, <4>2 DEF Unrefused
        <5> QED BY <4>2, <5>1
      <4> QED BY <1>7, <4>1, <4>2
    <3> QED BY <3>1 DEF Unrefused
  <2>7. Becomes(c, n)
    BY <1>7, <2>1
  <2>8. \A m \in Messages : fate'[m] = fate[m] \/ FateKnown(m, fate'[m], refusals', received')
    BY <1>t
  <2>9. \A m \in Messages : Arrived(m, received) => Arrived(m, received')
    BY <1>t
  <2>10. fate' \in [Messages -> {"queued", "sending", "sent", "failed"}] /\ shared' = shared /\ received' \in Seq(Mails)
    BY <1>3, <1>t DEF SmtpTypes
  <2> QED BY <2>2, <2>4, <2>5, <2>6, <2>7, <2>8, <2>9, <2>10, OneConnection
<1>8. ASSUME Scenario[a] \in {"success", "slow"} \/ (Scenario[a] = "tempfail" /\ refusals[a] >= Failures[a]),
             Becomes(c, [Replied(k, "250") EXCEPT !.recipients = Append(@, a)]), UNCHANGED refusals
      PROVE  SmtpTypes' /\ Accounted'
  <2>1. PICK n : n = [Replied(k, "250") EXCEPT !.recipients = <<a>>]
    OBVIOUS
  <2>2. Append(k.recipients, a) = <<a>>
    BY <1>4 DEF Naming
  <2>3. Becomes(c, n)
    BY <1>8, <2>1, <2>2 DEF Replied
  <2>4. /\ n \in ConnRecords /\ n.up /\ n.live /\ n.message = k.message /\ n.asked = "RCPT" /\ n.line = NoLine
        /\ n.reply = "250" /\ n.held = <<>> /\ n.recipients = <<a>>
    BY <1>2, <1>3, <1>4, <2>1 DEF ConnRecords, Replied, Naming, Lines
  <2>5. Addressed(n)
    BY <1>2, <2>4 DEF Addressed
  <2>6. Unrefused(n.message, refusals)
    BY <1>2, <1>5, <1>8, <2>4 DEF Unrefused
  <2>7. Conversation(n, refusals, received)
    BY <1>6, <2>4, <2>5, <2>6 DEF Conversation
  <2> QED BY <1>3, <1>8, <2>3, <2>4, <2>7, OnlyConnection
<1>9. \/ Becomes(c, Replied(k, "550")) /\ Scenario[a] \in {"permfail", "foreign"} /\ UNCHANGED refusals
      \/ /\ Becomes(c, Replied(k, "451")) /\ refusals[a] < Failures[a] /\ refusals' = [refusals EXCEPT ![a] = @ + 1]
      \/ /\ Scenario[a] \in {"success", "slow"} \/ (Scenario[a] = "tempfail" /\ refusals[a] >= Failures[a])
         /\ Becomes(c, [Replied(k, "250") EXCEPT !.recipients = Append(@, a)]) /\ UNCHANGED refusals
  BY <1>1, <1>2 DEF ReadRcpt
<1> QED BY <1>7, <1>8, <1>9

\* DATA: a recipient was named, so it is answered with 354.
LEMMA ReadDataStep ==
  ASSUME SmtpTypes, Accounted, NEW c \in Connections, ReadData(c)
  PROVE  SmtpTypes' /\ Accounted'
<1>1. PICK k : k = conns[c]
  OBVIOUS
<1>2. k \in ConnRecords /\ k.line = "DATA" /\ UNCHANGED <<shared, refusals, received, fate>>
  BY <1>1, ConnIs DEF ReadData
<1>3. k.up /\ k.live /\ k.message \in Messages /\ k.held = <<>> /\ Addressed(k) /\ Unrefused(k.message, refusals)
  BY <1>1, <1>2, LineIs DEF NoLine
<1>4. k.message # Nobody /\ k.recipients = <<To[k.message]>> /\ k.recipients # <<>> /\ k.asked = "DATA"
  BY <1>2, <1>3, SmtpAssumption DEF Nobody, Addressed, NoLine
<1>5. PICK n : n = [Replied(k, "354") EXCEPT !.data = TRUE]
  OBVIOUS
<1>6. Becomes(c, n)
  BY <1>1, <1>4, <1>5 DEF ReadData
<1>7. /\ n \in ConnRecords /\ n.up /\ n.live /\ n.message = k.message /\ n.asked = "DATA" /\ n.line = NoLine
      /\ n.reply = "354" /\ n.held = <<>> /\ n.recipients = <<To[k.message]>>
  BY <1>2, <1>3, <1>4, <1>5 DEF ConnRecords, Replied, Lines
<1>8. Addressed(n)
  BY <1>7 DEF Addressed
<1>9. Conversation(n, refusals, received)
  BY <1>3, <1>4, <1>7, <1>8 DEF Conversation
<1> QED BY <1>2, <1>6, <1>7, <1>9, OnlyConnection

\* The content: what is filed, or held back, is for the message's own address; the answer and the
\* filing come together, while the connection is live.
LEMMA ReadContentStep ==
  ASSUME SmtpTypes, Accounted, NEW c \in Connections, ReadContent(c)
  PROVE  /\ SmtpTypes' /\ Accounted'
         /\ received' # received => conns[c].live /\ conns[c].reply = NoLine /\ conns'[c].reply = "250"
<1>1. PICK k : k = conns[c]
  OBVIOUS
<1>2. k \in ConnRecords /\ k.line = "content" /\ UNCHANGED <<shared, refusals, fate>>
  BY <1>1, ConnIs DEF ReadContent
<1>3. /\ k.up /\ k.live /\ k.message \in Messages /\ k.held = <<>> /\ Addressed(k) /\ Unrefused(k.message, refusals)
      /\ k.reply = NoLine
  BY <1>1, <1>2, LineIs DEF NoLine
<1>4. k.message # Nobody /\ k.recipients = <<To[k.message]>> /\ k.asked = "content" /\ Head(k.recipients) = To[k.message]
  BY <1>2, <1>3, SmtpAssumption DEF Nobody, Addressed, NoLine
<1>t. received \in Seq(Mails) /\ refusals' \in [DOMAIN Scenario -> Nat] /\ refusals' = refusals /\ fate' = fate
      /\ fate' \in [Messages -> {"queued", "sending", "sent", "failed"}] /\ shared' = shared
  BY <1>2 DEF SmtpTypes
<1>5. ASSUME Becomes(c, [k EXCEPT !.line = NoLine, !.data = FALSE, !.held = <<k.message, To[k.message]>>, !.recipients = <<>>]),
             UNCHANGED received
      PROVE  SmtpTypes' /\ Accounted'
  <2>1. PICK n : n = [k EXCEPT !.line = NoLine, !.data = FALSE, !.held = <<k.message, To[k.message]>>, !.recipients = <<>>]
    OBVIOUS
  <2>2. /\ n \in ConnRecords /\ n.up /\ n.live /\ n.message = k.message /\ n.asked = "content" /\ n.line = NoLine
        /\ n.reply = NoLine /\ n.held = <<k.message, To[k.message]>> /\ n.recipients = <<>>
    BY <1>2, <1>3, <1>4, <2>1 DEF ConnRecords, Lines
  <2>3. Held(n)
    BY <2>2 DEF Held
  <2>4. Conversation(n, refusals, received)
    BY <1>3, <1>4, <2>2, <2>3 DEF Conversation
  <2>5. Becomes(c, n)
    BY <1>5, <2>1
  <2> QED BY <1>2, <1>5, <2>2, <2>4, <2>5, OnlyConnection
<1>6. ASSUME Becomes(c, [Replied(k, "250") EXCEPT !.data = FALSE, !.recipients = <<>>]),
             received' = Filed(k.message, To[k.message])
      PROVE  SmtpTypes' /\ Accounted' /\ conns'[c].reply = "250"
  <2>1. PICK n : n = [Replied(k, "250") EXCEPT !.data = FALSE, !.recipients = <<>>]
    OBVIOUS
  <2>2. /\ n \in ConnRecords /\ n.up /\ n.live /\ n.message = k.message /\ n.asked = "content" /\ n.line = NoLine
        /\ n.reply = "250" /\ n.held = <<>> /\ n.recipients = <<>>
    BY <1>2, <1>3, <1>4, <2>1 DEF ConnRecords, Replied, Lines
  <2>3. Delivered(n)
    BY <2>2 DEF Delivered
  <2>4. /\ received' \in Seq(Mails) /\ Arrived(k.message, received')
        /\ \A m \in Messages : Arrived(m, received) => Arrived(m, received')
    BY <1>3, <1>6, <1>t, FiledIs
  <2>5. Conversation(n, refusals', received')
    BY <1>3, <1>4, <1>t, <2>2, <2>3, <2>4 DEF Conversation
  <2>6. Becomes(c, n)
    BY <1>6, <2>1
  <2>7. /\ \A m \in Messages : Unrefused(m, refusals) => Unrefused(m, refusals')
        /\ \A a \in DOMAIN Scenario : refusals'[a] <= Failures[a]
        /\ \A m \in Messages : fate'[m] = fate[m] \/ FateKnown(m, fate'[m], refusals', received')
    BY <1>t DEF Accounted
  <2>8. SmtpTypes' /\ Accounted'
    BY <1>t, <2>2, <2>4, <2>5, <2>6, <2>7, OneConnection
  <2>9. conns'[c] = n
    BY <2>6 DEF Becomes, SmtpTypes
  <2> QED BY <2>2, <2>8, <2>9
<1>7. \/ /\ Becomes(c, [k EXCEPT !.line = NoLine, !.data = FALSE, !.held = <<k.message, To[k.message]>>, !.recipients = <<>>])
         /\ UNCHANGED received
      \/ /\ Becomes(c, [Replied(k, "250") EXCEPT !.data = FALSE, !.recipients = <<>>])
         /\ received' = Filed(k.message, To[k.message])
  BY <1>1, <1>4 DEF ReadContent
<1> QED BY <1>1, <1>3, <1>5, <1>6, <1>7

\* What was held back is filed for its own address, and answered if somebody still listens.
LEMMA HoldingBackStep ==
  ASSUME SmtpTypes, Accounted, NEW c \in Connections, HoldingBackEnds(c)
  PROVE  /\ SmtpTypes' /\ Accounted'
         /\ conns[c].live /\ conns[c].reply = NoLine /\ conns'[c].reply = "250"
<1>1. PICK k : k = conns[c]
  OBVIOUS
<1>2. k \in ConnRecords /\ k.held # <<>> /\ Conversation(k, refusals, received) /\ UNCHANGED <<shared, refusals, fate>>
  BY <1>1, ConnIs DEF HoldingBackEnds
<1>3. k.live /\ k.reply = NoLine
  BY <1>2 DEF Conversation, Closed
<1>4. PICK m \in Messages : k.held = <<m, To[m]>>
  BY <1>2 DEF ConnRecords
<1>5. received' = Filed(m, To[m])
  BY <1>1, <1>4 DEF HoldingBackEnds
<1>6. PICK n : n = [k EXCEPT !.held = <<>>, !.reply = "250"]
  OBVIOUS
<1>7. Becomes(c, n)
  BY <1>1, <1>3, <1>6 DEF HoldingBackEnds
<1>8. /\ n \in ConnRecords /\ n.live /\ n.up = k.up /\ n.message = k.message /\ n.asked = k.asked /\ n.line = k.line
      /\ n.reply = "250" /\ n.held = <<>> /\ n.recipients = k.recipients
  BY <1>2, <1>3, <1>6 DEF ConnRecords
<1>t. received \in Seq(Mails) /\ refusals' \in [DOMAIN Scenario -> Nat] /\ refusals' = refusals /\ fate' = fate
      /\ fate' \in [Messages -> {"queued", "sending", "sent", "failed"}] /\ shared' = shared
  BY <1>2 DEF SmtpTypes
<1>9. /\ received' \in Seq(Mails) /\ Arrived(m, received')
      /\ \A l \in Messages : Arrived(l, received) => Arrived(l, received')
  BY <1>5, <1>t, FiledIs
<1>10. k.up => k.message # Nobody /\ Held(k) /\ Unrefused(k.message, refusals)
  BY <1>2, <1>3 DEF Conversation, Naming, TurnedDown, Addressed, Delivered
<1>11. k.up => k.message = m
  BY <1>4, <1>10 DEF Held
<1>12. k.up => Delivered(n)
  BY <1>8, <1>10 DEF Delivered, Held
<1>13. Conversation(n, refusals', received')
  BY <1>2, <1>8, <1>9, <1>10, <1>11, <1>12, <1>t DEF Conversation
<1>14. /\ \A l \in Messages : Unrefused(l, refusals) => Unrefused(l, refusals')
       /\ \A a \in DOMAIN Scenario : refusals'[a] <= Failures[a]
       /\ \A l \in Messages : fate'[l] = fate[l] \/ FateKnown(l, fate'[l], refusals', received')
  BY <1>t DEF Accounted
<1>15. SmtpTypes' /\ Accounted'
  BY <1>t, <1>7, <1>8, <1>9, <1>13, <1>14, OneConnection
<1>16. conns'[c] = n
  BY <1>7 DEF Becomes, SmtpTypes
<1> QED BY <1>1, <1>3, <1>8, <1>15, <1>16

-----------------------------------------------------------------------------
(* The transport's steps. *)

\* A connection that is let go says nothing more, and what is closed is as it began.
LEMMA LetGoStep ==
  ASSUME SmtpTypes, Accounted, NEW c \in Connections, SeeClose(c) \/ HangUp(c)
  PROVE  SmtpTypes' /\ Accounted'
<1>1. PICK k : k = conns[c]
  OBVIOUS
<1>2. k \in ConnRecords /\ Conversation(k, refusals, received)
  BY <1>1, ConnIs
<1>3. CASE SeeClose(c)
  <2>1. Closed \in ConnRecords /\ ~Closed.up /\ Closed.line = NoLine /\ Closed.held = <<>>
    BY DEF Closed, ConnRecords, Lines
  <2>2. Conversation(Closed, refusals, received)
    BY <2>1 DEF Conversation
  <2>3. Becomes(c, Closed) /\ UNCHANGED <<shared, refusals, received, fate>>
    BY <1>3 DEF SeeClose
  <2> QED BY <2>1, <2>2, <2>3, OnlyConnection
<1>4. CASE HangUp(c)
  <2>1. PICK n : n = Dropped(k)
    OBVIOUS
  <2>2. Becomes(c, n) /\ UNCHANGED <<shared, refusals, received, fate>> /\ k.up /\ k.message = Nobody
    BY <1>1, <1>4, <2>1 DEF HangUp
  <2>3. k.line = NoLine /\ k.live
    BY <1>2, <2>2 DEF Conversation
  <2>4. n \in ConnRecords /\ ~n.up /\ n.live /\ n.line = NoLine /\ n.reply = NoLine
    BY <1>2, <2>1, <2>3 DEF ConnRecords, Dropped
  <2>5. Conversation(n, refusals, received)
    BY <2>4 DEF Conversation
  <2> QED BY <2>2, <2>4, <2>5, OnlyConnection
<1> QED BY <1>3, <1>4

\* A message begins on a connection that carries nothing of the one before.
LEMMA SendMailStep ==
  ASSUME SmtpTypes, Accounted, NEW c \in Connections, NEW m \in Messages, SendMail(c, m)
  PROVE  SmtpTypes' /\ Accounted'
<1>1. PICK k : k = conns[c]
  OBVIOUS
<1>2. k \in ConnRecords /\ Conversation(k, refusals, received)
  BY <1>1, ConnIs
<1>3. PICK n : n = [k EXCEPT !.up = TRUE, !.live = TRUE, !.message = m, !.asked = "RCPT", !.line = "RCPT"]
  OBVIOUS
<1>4. /\ Becomes(c, n) /\ UNCHANGED <<shared, refusals, received>> /\ fate' = [fate EXCEPT ![m] = "sending"]
      /\ k.message = Nobody /\ (k.up \/ ~k.live)
  BY <1>1, <1>3 DEF SendMail
<1>5. k.reply = NoLine /\ k.recipients = <<>> /\ k.held = <<>>
  BY <1>2, <1>4 DEF Conversation, Closed
<1>6. /\ n \in ConnRecords /\ n.up /\ n.live /\ n.message = m /\ n.asked = "RCPT" /\ n.line = "RCPT"
      /\ n.reply = NoLine /\ n.held = <<>> /\ n.recipients = <<>>
  BY <1>2, <1>3, <1>5 DEF ConnRecords, Lines
<1>7. Naming(n) /\ n.message # Nobody
  BY <1>6, SmtpAssumption DEF Naming, Nobody
<1>8. Conversation(n, refusals, received)
  BY <1>6, <1>7 DEF Conversation
<1>9. FateKnown(m, "sending", refusals, received)
  BY DEF FateKnown
<1> QED BY <1>4, <1>6, <1>8, <1>9, OnlyConnection

\* On to DATA after 250, to the content after 354.
LEMMA GoOnStep ==
  ASSUME SmtpTypes, Accounted, NEW c \in Connections, GoOn(c)
  PROVE  SmtpTypes' /\ Accounted'
<1>1. PICK k : k = conns[c]
  OBVIOUS
<1>2. k \in ConnRecords /\ Conversation(k, refusals, received) /\ (k.message \in Messages \/ k.message = Nobody)
  BY <1>1, ConnIs
<1>3. PICK next \in {"DATA", "content"} :
        /\ next = "DATA" => k.asked = "RCPT" /\ k.reply = "250"
        /\ next = "content" => k.reply = "354"
        /\ k.up /\ Becomes(c, [k EXCEPT !.reply = NoLine, !.asked = next, !.line = next])
        /\ UNCHANGED <<shared, refusals, received, fate>>
  BY <1>1 DEF GoOn
<1>4. /\ k.live /\ k.message # Nobody /\ Addressed(k) /\ Unrefused(k.message, refusals)
  BY <1>2, <1>3 DEF Conversation, Naming, TurnedDown, Addressed, Held, Delivered, NoLine
<1>5. PICK n : n = [k EXCEPT !.reply = NoLine, !.asked = next, !.line = next]
  OBVIOUS
<1>6. Becomes(c, n)
  BY <1>3, <1>5
<1>7. /\ n \in ConnRecords /\ n.up /\ n.live /\ n.message = k.message /\ n.asked = next /\ n.line = next
      /\ n.reply = NoLine /\ n.held = <<>> /\ n.recipients = <<To[k.message]>>
  BY <1>2, <1>3, <1>4, <1>5 DEF ConnRecords, Lines, Addressed
<1>8. Addressed(n)
  BY <1>7 DEF Addressed
<1>9. Conversation(n, refusals, received)
  BY <1>4, <1>7, <1>8 DEF Conversation
<1> QED BY <1>3, <1>6, <1>7, <1>9, OnlyConnection

\* The content was taken: the message is sent, and it is.
LEMMA TakenStep ==
  ASSUME SmtpTypes, Accounted, NEW c \in Connections, TakenBy(c)
  PROVE  SmtpTypes' /\ Accounted'
<1>1. PICK k : k = conns[c]
  OBVIOUS
<1>2. k \in ConnRecords /\ Conversation(k, refusals, received) /\ (k.message \in Messages \/ k.message = Nobody)
  BY <1>1, ConnIs
<1>3. PICK n : n = [k EXCEPT !.reply = NoLine, !.message = Nobody]
  OBVIOUS
<1>4. /\ Becomes(c, n) /\ UNCHANGED <<shared, refusals, received>> /\ fate' = [fate EXCEPT ![k.message] = "sent"]
      /\ k.up /\ k.asked = "content" /\ k.reply = "250"
  BY <1>1, <1>3 DEF TakenBy
<1>5. /\ k.live /\ k.message \in Messages /\ Delivered(k) /\ Unrefused(k.message, refusals) /\ Arrived(k.message, received)
  BY <1>2, <1>4 DEF Conversation, Naming, TurnedDown, Addressed, Held, NoLine
<1>6. /\ n \in ConnRecords /\ n.up /\ n.live /\ n.message = Nobody /\ n.line = NoLine
      /\ n.reply = NoLine /\ n.held = <<>> /\ n.recipients = <<>>
  BY <1>2, <1>3, <1>4, <1>5 DEF ConnRecords, Lines, Delivered
<1>7. Conversation(n, refusals, received)
  BY <1>6 DEF Conversation
<1>8. FateKnown(k.message, "sent", refusals, received)
  BY <1>5 DEF FateKnown
<1> QED BY <1>4, <1>5, <1>6, <1>7, <1>8, OnlyConnection

\* It was refused, or nobody knows: only an address that is to fail for good fails for good.
LEMMA DroppedStep ==
  ASSUME SmtpTypes, Accounted, NEW c \in Connections, RefusedBy(c) \/ GiveUp(c)
  PROVE  SmtpTypes' /\ Accounted'
<1>1. PICK k : k = conns[c]
  OBVIOUS
<1>2. k \in ConnRecords /\ Conversation(k, refusals, received) /\ (k.message \in Messages \/ k.message = Nobody)
  BY <1>1, ConnIs
<1>3. ASSUME NEW n \in ConnRecords, ~n.up, n.live, n.line = NoLine, n.reply = NoLine, Becomes(c, n), k.message \in Messages,
             NEW end \in {"queued", "failed"}, fate' = [fate EXCEPT ![k.message] = end],
             end = "failed" => Scenario[To[k.message]] \in {"permfail", "foreign"}, UNCHANGED <<shared, refusals, received>>
      PROVE  SmtpTypes' /\ Accounted'
  <2>1. Conversation(n, refusals, received)
    BY <1>3 DEF Conversation
  <2>2. FateKnown(k.message, end, refusals, received)
    BY <1>3 DEF FateKnown
  <2> QED BY <1>3, <2>1, <2>2, OnlyConnection
<1>4. CASE RefusedBy(c)
  <2>1. PICK n : n = Dropped(k)
    OBVIOUS
  <2>2. /\ Becomes(c, n) /\ UNCHANGED <<shared, refusals, received>> /\ k.up /\ k.reply \in {"451", "550", "554"}
        /\ fate' = [fate EXCEPT ![k.message] = IF Permanent(k.reply) THEN "failed" ELSE "queued"]
    BY <1>1, <1>4, <2>1 DEF RefusedBy
  <2>3. k.live /\ k.message \in Messages /\ TurnedDown(k)
    BY <1>2, <2>2 DEF Conversation, Naming, Addressed, Held, Delivered, NoLine
  <2>4. n \in ConnRecords /\ ~n.up /\ n.live /\ n.line = NoLine /\ n.reply = NoLine
    BY <1>2, <2>1, <2>3 DEF ConnRecords, Dropped, TurnedDown
  <2>5. Permanent(k.reply) => Scenario[To[k.message]] \in {"permfail", "foreign"}
    BY <2>3 DEF Permanent, TurnedDown
  <2>6. CASE Permanent(k.reply)
    BY <1>3, <2>2, <2>3, <2>4, <2>5, <2>6
  <2>7. CASE ~Permanent(k.reply)
    BY <1>3, <2>2, <2>3, <2>4, <2>7
  <2> QED BY <2>6, <2>7
<1>5. CASE GiveUp(c)
  <2>1. PICK n : n = [Dropped(k) EXCEPT !.line = NoLine]
    OBVIOUS
  <2>2. /\ Becomes(c, n) /\ UNCHANGED <<shared, refusals, received>> /\ k.up /\ k.message # Nobody
        /\ fate' = [fate EXCEPT ![k.message] = "queued"]
    BY <1>1, <1>5, <2>1 DEF GiveUp
  <2>3. k.live /\ k.message \in Messages
    BY <1>2, <2>2 DEF Conversation
  <2>4. n \in ConnRecords /\ ~n.up /\ n.live /\ n.line = NoLine /\ n.reply = NoLine
    BY <1>2, <2>1, <2>3 DEF ConnRecords, Dropped, Lines
  <2> QED BY <1>3, <2>2, <2>3, <2>4
<1> QED BY <1>4, <1>5

-----------------------------------------------------------------------------
(* Every step. *)

LEMMA SmtpStarts == SmtpInit => SmtpInv
<1> SUFFICES ASSUME SmtpInit PROVE SmtpInv
  OBVIOUS
<1>1. Closed \in ConnRecords /\ ~Closed.up /\ Closed.line = NoLine /\ Closed.held = <<>>
  BY DEF Closed, ConnRecords, Lines
<1>2. <<>> \in Seq(Mails)
  BY EmptySeq
<1>3. SmtpTypes /\ OneStart
  BY <1>1, <1>2 DEF SmtpInit, SmtpTypes, OneStart
<1>4. Conversation(Closed, refusals, received)
  BY <1>1 DEF Conversation
<1>5. \A c \in Connections : Conversation(conns[c], refusals, received)
  BY <1>4 DEF SmtpInit
<1>6. \A a \in DOMAIN Scenario : refusals[a] <= Failures[a]
  BY SmtpAssumption DEF SmtpInit
<1>7. \A m \in Messages : FateKnown(m, fate[m], refusals, received)
  BY DEF SmtpInit, FateKnown
<1> QED BY <1>3, <1>5, <1>6, <1>7 DEF SmtpInv, Accounted

\* Starting the server touches no message.
LEMMA StartSteps ==
  ASSUME SmtpInv, StartSucceeds \/ StartFails \/ \E p \in Callers : EnsureSmtp(p)
  PROVE  SmtpInv'
<1>1. UNCHANGED <<conns, refusals, received, fate>>
  BY DEF StartSucceeds, StartFails, EnsureSmtp
<1>2. shared \in [instance : BOOLEAN, starting : BOOLEAN, begun : Nat, listening : Nat] /\ OneStart
  BY DEF SmtpInv, SmtpTypes
<1>3. shared' \in [instance : BOOLEAN, starting : BOOLEAN, begun : Nat, listening : Nat] /\ OneStart'
  <2>1. shared.begun \in Nat /\ shared.listening \in Nat /\ shared.starting \in BOOLEAN /\ shared.instance \in BOOLEAN
    BY <1>2
  <2>2. CASE StartSucceeds
    <3>1. /\ shared.starting /\ shared.begun = 1 /\ shared.listening = 0
      BY <1>2, <2>1, <2>2 DEF StartSucceeds, OneStart
    <3>2. /\ shared' \in [instance : BOOLEAN, starting : BOOLEAN, begun : Nat, listening : Nat]
          /\ shared'.begun = shared.begun - 1 /\ shared'.listening = shared.listening + 1
          /\ shared'.starting = shared.starting
      <4>1. shared' = [shared EXCEPT !.instance = TRUE, !.begun = shared.begun - 1, !.listening = shared.listening + 1]
        BY <2>2 DEF StartSucceeds
      <4>2. shared' = [instance |-> TRUE, starting |-> shared.starting, begun |-> shared.begun - 1,
                       listening |-> shared.listening + 1]
        BY <1>2, <4>1
      <4>3. shared.begun - 1 \in Nat /\ shared.listening + 1 \in Nat
        BY <3>1
      <4> QED BY <2>1, <4>2, <4>3
    <3> QED BY <3>1, <3>2 DEF OneStart
  <2>3. CASE StartFails
    <3>1. shared.begun = 1 /\ shared.listening = 0
      BY <1>2, <2>1, <2>3 DEF StartFails, OneStart
    <3>2. /\ shared' \in [instance : BOOLEAN, starting : BOOLEAN, begun : Nat, listening : Nat]
          /\ shared'.begun = shared.begun - 1 /\ shared'.listening = shared.listening
          /\ ~shared'.starting
      <4>1. shared' = [shared EXCEPT !.starting = FALSE, !.begun = shared.begun - 1]
        BY <2>3 DEF StartFails
      <4>2. shared' = [instance |-> shared.instance, starting |-> FALSE, begun |-> shared.begun - 1,
                       listening |-> shared.listening]
        BY <1>2, <4>1
      <4>3. shared.begun - 1 \in Nat
        BY <3>1
      <4> QED BY <2>1, <4>2, <4>3
    <3> QED BY <3>1, <3>2 DEF OneStart
  <2>4. ASSUME NEW p \in Callers, EnsureSmtp(p)
        PROVE  shared' \in [instance : BOOLEAN, starting : BOOLEAN, begun : Nat, listening : Nat] /\ OneStart'
    <3>1. CASE shared.instance \/ shared.starting
      <4>1. shared' = shared
        BY <2>4, <3>1 DEF EnsureSmtp
      <4> QED BY <1>2, <4>1 DEF OneStart
    <3>2. CASE ~(shared.instance \/ shared.starting)
      <4>1. shared' = [shared EXCEPT !.starting = TRUE, !.begun = @ + 1]
        BY <2>4, <3>2 DEF EnsureSmtp
      <4>2. /\ shared' \in [instance : BOOLEAN, starting : BOOLEAN, begun : Nat, listening : Nat]
            /\ shared'.begun = shared.begun + 1 /\ shared'.listening = shared.listening /\ shared'.starting
        <5>1. shared' = [shared EXCEPT !.starting = TRUE, !.begun = shared.begun + 1]
          BY <4>1
        <5>2. shared' = [instance |-> shared.instance, starting |-> TRUE, begun |-> shared.begun + 1,
                         listening |-> shared.listening]
          BY <1>2, <5>1
        <5>3. shared.begun + 1 \in Nat
          BY <2>1
        <5> QED BY <2>1, <5>2, <5>3
      <4>3. shared.begun = 0 /\ shared.listening = 0
        BY <1>2, <3>2 DEF OneStart
      <4> QED BY <4>2, <4>3 DEF OneStart
    <3> QED BY <3>1, <3>2
  <2> QED BY <2>2, <2>3, <2>4
<1>4. SmtpTypes' /\ Accounted'
  BY <1>1, <1>3 DEF SmtpInv, SmtpTypes, Accounted
<1> QED BY <1>3, <1>4 DEF SmtpInv

\* The invariant of the mail server and its transport is inductive.
LEMMA SmtpSteps == SmtpInv /\ [SmtpNext]_smtpVars => SmtpInv'
<1> SUFFICES ASSUME SmtpInv, [SmtpNext]_smtpVars PROVE SmtpInv'
  OBVIOUS
<1>t. SmtpTypes /\ OneStart /\ Accounted
  BY DEF SmtpInv
<1>1. ASSUME StartSucceeds \/ StartFails \/ \E p \in Callers : EnsureSmtp(p) PROVE SmtpInv'
  BY <1>1, StartSteps
<1>2. ASSUME NEW c \in Connections, ReadRcpt(c) PROVE SmtpInv'
  <2>1. shared' = shared
    BY <1>2 DEF ReadRcpt
  <2> QED BY <1>t, <1>2, <2>1, ReadRcptStep DEF SmtpInv, OneStart
<1>3. ASSUME NEW c \in Connections, ReadData(c) PROVE SmtpInv'
  <2>1. shared' = shared
    BY <1>3 DEF ReadData
  <2> QED BY <1>t, <1>3, <2>1, ReadDataStep DEF SmtpInv, OneStart
<1>4. ASSUME NEW c \in Connections, ReadContent(c) PROVE SmtpInv'
  <2>1. shared' = shared
    BY <1>4 DEF ReadContent
  <2> QED BY <1>t, <1>4, <2>1, ReadContentStep DEF SmtpInv, OneStart
<1>5. ASSUME NEW c \in Connections, HoldingBackEnds(c) PROVE SmtpInv'
  <2>1. shared' = shared
    BY <1>5 DEF HoldingBackEnds
  <2> QED BY <1>t, <1>5, <2>1, HoldingBackStep DEF SmtpInv, OneStart
<1>6. ASSUME NEW c \in Connections, SeeClose(c) \/ HangUp(c) PROVE SmtpInv'
  <2>1. shared' = shared
    BY <1>6 DEF SeeClose, HangUp
  <2> QED BY <1>t, <1>6, <2>1, LetGoStep DEF SmtpInv, OneStart
<1>7. ASSUME NEW c \in Connections, NEW m \in Messages, SendMail(c, m) PROVE SmtpInv'
  <2>1. shared' = shared
    BY <1>7 DEF SendMail
  <2> QED BY <1>t, <1>7, <2>1, SendMailStep DEF SmtpInv, OneStart
<1>8. ASSUME NEW c \in Connections, GoOn(c) PROVE SmtpInv'
  <2>1. shared' = shared
    BY <1>8 DEF GoOn
  <2> QED BY <1>t, <1>8, <2>1, GoOnStep DEF SmtpInv, OneStart
<1>9. ASSUME NEW c \in Connections, TakenBy(c) PROVE SmtpInv'
  <2>1. shared' = shared
    BY <1>9 DEF TakenBy
  <2> QED BY <1>t, <1>9, <2>1, TakenStep DEF SmtpInv, OneStart
<1>10. ASSUME NEW c \in Connections, RefusedBy(c) \/ GiveUp(c) PROVE SmtpInv'
  <2>1. shared' = shared
    BY <1>10 DEF RefusedBy, GiveUp
  <2> QED BY <1>t, <1>10, <2>1, DroppedStep DEF SmtpInv, OneStart
<1>11. ASSUME UNCHANGED smtpVars PROVE SmtpInv'
  BY <1>t, <1>11 DEF SmtpInv, SmtpTypes, OneStart, Accounted, smtpVars
<1> QED BY <1>1, <1>2, <1>3, <1>4, <1>5, <1>6, <1>7, <1>8, <1>9, <1>10, <1>11 DEF SmtpNext

\* The invariant implies what is said of each state.
LEMMA SmtpImplies == SmtpInv => OneServer /\ FateIsTheScenario /\ FiledForAddressee /\ SentIsReceived
<1> SUFFICES ASSUME SmtpInv PROVE OneServer /\ FateIsTheScenario /\ FiledForAddressee /\ SentIsReceived
  OBVIOUS
<1>t. SmtpTypes /\ OneStart /\ Accounted
  BY DEF SmtpInv
<1>1. OneServer
  BY <1>t DEF OneStart, OneServer, SmtpTypes
<1>2. FateIsTheScenario
  BY <1>t, SmtpAssumption DEF Accounted, FateKnown, Unrefused, FateIsTheScenario
<1>3. FiledForAddressee
  <2>1. \A k \in DOMAIN received : received[k] \in Mails
    BY <1>t, LenProperties, ElementOfSeq DEF SmtpTypes
  <2> QED BY <2>1 DEF FiledForAddressee, Mails
<1>4. SentIsReceived
  BY <1>t DEF Accounted, FateKnown, Arrived, SentIsReceived
<1> QED BY <1>1, <1>2, <1>3, <1>4

\* A message is taken in together with the reply.
LEMMA TakenWithReply ==
  ASSUME SmtpInv, SmtpNext, received' # received
  PROVE  \E c \in Connections : conns[c].live /\ conns[c].reply = NoLine /\ conns'[c].reply = "250"
<1>t. SmtpTypes /\ Accounted
  BY DEF SmtpInv
<1>1. \E c \in Connections : ReadContent(c) \/ HoldingBackEnds(c)
  BY DEF SmtpNext, StartSucceeds, StartFails, EnsureSmtp, ReadRcpt, ReadData, SeeClose, GoOn, TakenBy, RefusedBy, GiveUp,
         HangUp, SendMail
<1>2. PICK c \in Connections : ReadContent(c) \/ HoldingBackEnds(c)
  BY <1>1
<1> QED BY <1>t, <1>2, ReadContentStep, HoldingBackStep

\* Each message ends as its address says, the worker and the one server agree on it, and nothing is
\* taken in after a hang-up (test-smtp.ts).
THEOREM MailIsAccounted == SmtpSpec => MailAccounted
<1>1. SmtpSpec => []SmtpInv
  BY SmtpStarts, SmtpSteps, PTL DEF SmtpSpec
<1>2. SmtpInv /\ [SmtpNext]_smtpVars
        => [received' # received =>
              \E c \in Connections : conns[c].live /\ conns[c].reply = NoLine /\ conns'[c].reply = "250"]_smtpVars
  BY TakenWithReply
<1>3. SmtpSpec => NothingAfterHangUp
  BY <1>1, <1>2, PTL DEF SmtpSpec, NothingAfterHangUp
<1> QED BY <1>1, <1>3, SmtpImplies, PTL DEF MailAccounted

-----------------------------------------------------------------------------
(* The times people type. *)

Zones  == [before : Offsets, after : Offsets]
Picks  == {None, "first", "second"}
AskedFields == [reading : Int \cup {None}, pick : Picks]

TimesTypes ==
  /\ zone \in Zones
  /\ now \in Int /\ skew \in Int
  /\ form \in [open : BOOLEAN, asked : AskedFields, meant : Int \cup {None}]
  /\ stored \in [at : Int \cup {None}, asked : AskedFields, meant : Int \cup {None}]

\* Offsets are numbers, less than a day.
LEMMA OffsetIs ==
  ASSUME zone \in Zones, NEW at \in Int
  PROVE  /\ Offset(at) \in Int /\ Offset(at) > -Day /\ Offset(at) < Day /\ Day \in Int
         /\ at < Change => Offset(at) = zone.before
         /\ ~(at < Change) => Offset(at) = zone.after
         /\ zone.before \in Int /\ zone.after \in Int /\ Change \in Int
         /\ Wall(at) = at + Offset(at) /\ Wall(at) \in Int
<1>1. zone.before \in Offsets /\ zone.after \in Offsets
  BY DEF Zones
<1>2. /\ zone.before \in Int /\ zone.before > -Day /\ zone.before < Day
      /\ zone.after \in Int /\ zone.after > -Day /\ zone.after < Day /\ Day \in Int /\ Change \in Int
  BY <1>1, TimesAssumption
<1> QED BY <1>2 DEF Offset, Wall

\* The two offsets tried find every instant that reads so, and no other.
LEMMA ReadingsAreAll ==
  ASSUME zone \in Zones, NEW r \in Int
  PROVE  \A at \in Int : at \in InstantsReading(r) <=> Wall(at) = r
<1> SUFFICES ASSUME NEW at \in Int PROVE at \in InstantsReading(r) <=> Wall(at) = r
  OBVIOUS
<1> DEFINE offsets == {Offset(r - Day), Offset(r + Day)}
<1>t. /\ Offset(at) \in Int /\ Offset(at) > -Day /\ Offset(at) < Day /\ Day \in Int /\ Change \in Int
      /\ at < Change => Offset(at) = zone.before
      /\ ~(at < Change) => Offset(at) = zone.after
      /\ Wall(at) = at + Offset(at)
  BY OffsetIs
<1>1. r - Day \in Int /\ r + Day \in Int
  BY <1>t
<1>2. /\ r - Day < Change => Offset(r - Day) = zone.before
      /\ ~(r + Day < Change) => Offset(r + Day) = zone.after
      /\ Offset(r - Day) \in Int /\ Offset(r + Day) \in Int
  BY <1>1, OffsetIs
<1>3. ASSUME Wall(at) = r PROVE at \in InstantsReading(r)
  <2>1. at = r - Offset(at) /\ r - Day < at /\ at < r + Day
    BY <1>t, <1>3
  <2>2. Offset(at) \in offsets
    <3>1. CASE at < Change
      <4>1. r - Day < Change
        BY <1>t, <2>1, <3>1
      <4> QED BY <1>t, <1>2, <3>1, <4>1
    <3>2. CASE ~(at < Change)
      <4>1. ~(r + Day < Change)
        BY <1>t, <2>1, <3>2
      <4> QED BY <1>t, <1>2, <3>2, <4>1
    <3> QED BY <3>1, <3>2
  <2>3. Offset(r - Offset(at)) = Offset(at)
    BY <2>1
  <2> QED BY <2>1, <2>2, <2>3 DEF InstantsReading
<1>4. ASSUME at \in InstantsReading(r) PROVE Wall(at) = r
  <2>1. PICK o \in offsets : at = r - o /\ Offset(r - o) = o
    BY <1>4 DEF InstantsReading
  <2>2. Offset(at) = o /\ o \in Int
    BY <1>2, <2>1
  <2> QED BY <1>t, <2>1, <2>2
<1> QED BY <1>3, <1>4

\* All of them are numbers: one for each offset, the earlier before the change.
LEMMA ReadingsAreFew ==
  ASSUME zone \in Zones, NEW r \in Int
  PROVE  /\ InstantsReading(r) \subseteq Int
         /\ \A at \in InstantsReading(r) : at = (IF at < Change THEN r - zone.before ELSE r - zone.after)
<1>1. Offset(r - Day) \in Int /\ Offset(r + Day) \in Int
  <2>1. r - Day \in Int /\ r + Day \in Int
    BY TimesAssumption
  <2> QED BY <2>1, OffsetIs
<1>2. InstantsReading(r) \subseteq Int
  BY <1>1 DEF InstantsReading
<1>3. ASSUME NEW at \in InstantsReading(r)
      PROVE  at = (IF at < Change THEN r - zone.before ELSE r - zone.after)
  <2>1. at \in Int /\ Wall(at) = r
    BY <1>2, ReadingsAreAll
  <2> QED BY <2>1, OffsetIs
<1> QED BY <1>2, <1>3

\* The earliest and the latest of them, and how many there are.
LEMMA ReadingsCounted ==
  ASSUME zone \in Zones, NEW r \in Int, InstantsReading(r) # {}
  PROVE  LET S == InstantsReading(r)
         IN /\ Min(S) \in S /\ Max(S) \in S
            /\ \A at \in S : at = Min(S) \/ at = Max(S)
            /\ Min(S) # Max(S) <=> Cardinality(S) > 1
            /\ Cardinality(S) \in Nat
<1> DEFINE S == InstantsReading(r)
<1>1. S \subseteq Int /\ \A at \in S : at = (IF at < Change THEN r - zone.before ELSE r - zone.after)
  BY ReadingsAreFew
<1>t. Change \in Int
  BY TimesAssumption
<1> HIDE DEF S
<1>2. \A a, b \in S : (a < Change /\ b < Change) \/ (~(a < Change) /\ ~(b < Change)) => a = b
  BY <1>1
<1>3. PICK x \in S : \A y \in S : x <= y
  <2>1. CASE \E x \in S : x < Change
    <3>1. PICK x \in S : x < Change
      BY <2>1
    <3>2. \A y \in S : x <= y
      <4> SUFFICES ASSUME NEW y \in S PROVE x <= y
        OBVIOUS
      <4>1. CASE y < Change
        <5>1. x = y
          BY <1>2, <3>1, <4>1
        <5> QED BY <1>1, <5>1
      <4>2. CASE ~(y < Change)
        BY <1>1, <1>t, <3>1, <4>2
      <4> QED BY <4>1, <4>2
    <3> QED BY <3>2
  <2>2. CASE ~\E x \in S : x < Change
    <3>1. PICK x \in S : TRUE
      BY DEF S
    <3>2. \A y \in S : x = y
      BY <1>2, <2>2
    <3> QED BY <1>1, <3>2
  <2> QED BY <2>1, <2>2
<1>4. PICK z \in S : \A y \in S : z >= y
  <2>1. CASE \E u \in S : ~(u < Change)
    <3>1. PICK u \in S : ~(u < Change)
      BY <2>1
    <3>2. \A y \in S : u >= y
      <4> SUFFICES ASSUME NEW y \in S PROVE u >= y
        OBVIOUS
      <4>1. CASE ~(y < Change)
        <5>1. u = y
          BY <1>2, <3>1, <4>1
        <5> QED BY <1>1, <5>1
      <4>2. CASE y < Change
        BY <1>1, <1>t, <3>1, <4>2
      <4> QED BY <4>1, <4>2
    <3> QED BY <3>2
  <2>2. CASE ~\E u \in S : ~(u < Change)
    <3>1. PICK u \in S : TRUE
      BY DEF S
    <3>2. \A y \in S : u = y
      BY <1>2, <2>2
    <3> QED BY <1>1, <3>2
  <2> QED BY <2>1, <2>2
<1>5. Min(S) = x
  <2>1. Min(S) \in S /\ \A y \in S : Min(S) <= y
    BY <1>3 DEF Min
  <2>2. Min(S) \in Int /\ x \in Int /\ Min(S) <= x /\ x <= Min(S)
    BY <1>1, <1>3, <2>1
  <2> QED BY <2>2
<1>6. Max(S) = z
  <2>1. Max(S) \in S /\ \A y \in S : Max(S) >= y
    BY <1>4 DEF Max
  <2>2. Max(S) \in Int /\ z \in Int /\ Max(S) >= z /\ z >= Max(S)
    BY <1>1, <1>4, <2>1
  <2> QED BY <2>2
<1>7. \A y \in S : y = x \/ y = z
  <2> SUFFICES ASSUME NEW y \in S, y # x PROVE y = z
    OBVIOUS
  <2>1. x < Change /\ ~(y < Change)
    BY <1>1, <1>2, <1>3, <1>t
  <2>2. ~(z < Change)
    BY <1>1, <1>4, <1>t, <2>1
  <2> QED BY <1>2, <2>1, <2>2
<1>8. S = {x, z}
  BY <1>7
<1>9. CASE x = z
  <2>1. S = {x}
    BY <1>8, <1>9
  <2>2. Cardinality(S) = 1
    BY <2>1, FS_Singleton
  <2> QED BY <1>5, <1>6, <1>7, <1>9, <2>2 DEF S
<1>10. CASE x # z
  <2>1. IsFiniteSet({x}) /\ Cardinality({x}) = 1
    BY FS_Singleton
  <2>2. S = {x} \cup {z} /\ z \notin {x}
    BY <1>8, <1>10
  <2>3. Cardinality({x} \cup {z}) = Cardinality({x}) + 1
    BY <2>1, <2>2, FS_AddElement
  <2>4. Cardinality(S) = 2
    BY <2>1, <2>2, <2>3
  <2> QED BY <1>5, <1>6, <1>7, <1>10, <2>4 DEF S
<1> QED BY <1>9, <1>10

\* The form holds what the person means: a time their wall shows and the occurrence they picked,
\* or a reading that never happens.
FormMeans(asked, meant) ==
  asked.reading # None =>
    /\ meant = None => InstantsReading(asked.reading) = {}
    /\ meant # None =>
         /\ meant \in InstantsReading(asked.reading)
         /\ asked.pick = "first" => meant = Min(InstantsReading(asked.reading))
         /\ asked.pick = "second" => meant = Max(InstantsReading(asked.reading))

\* The inductive invariant.
TimesInv == TimesTypes /\ FormMeans(form.asked, form.meant) /\ StoredIsMeant

\* The fields made of an instant read as it does and pick it out.
LEMMA FieldsMean ==
  ASSUME zone \in Zones, NEW at \in Int
  PROVE  /\ FormMeans(ScheduleFieldsFor(at), at)
         /\ ScheduleFieldsFor(at) \in AskedFields
         /\ ScheduleFieldsFor(at).reading = Wall(at)
         /\ Cardinality(InstantsReading(Wall(at))) > 1 => ScheduleFieldsFor(at).pick # None
<1>1. Wall(at) \in Int /\ Wall(at) # None
  BY OffsetIs, TimesAssumption
<1>2. at \in InstantsReading(Wall(at))
  BY <1>1, ReadingsAreAll
<1> DEFINE S == InstantsReading(Wall(at))
<1>3. /\ Min(S) \in S /\ Max(S) \in S
      /\ \A y \in S : y = Min(S) \/ y = Max(S)
      /\ Min(S) # Max(S) <=> Cardinality(S) > 1
      /\ Cardinality(S) \in Nat
  BY <1>1, <1>2, ReadingsCounted
<1>4. None \notin Int /\ None # "first" /\ None # "second"
  BY TimesAssumption
<1>5. PICK pick : pick = (IF Cardinality(S) < 2 THEN None ELSE IF at = Min(S) THEN "first" ELSE "second")
  OBVIOUS
<1>6. ScheduleFieldsFor(at) = [reading |-> Wall(at), pick |-> pick]
  BY <1>5 DEF ScheduleFieldsFor, Asked
<1>7. pick \in Picks
  BY <1>5 DEF Picks
<1>8. pick = "first" => at = Min(S)
  BY <1>3, <1>5, <1>2
<1> QED BY <1>1, <1>2, <1>3, <1>4, <1>5, <1>6, <1>7, <1>8 DEF FormMeans, AskedFields, Picks

\* What the check lets through is ahead and, as the form means it, the instant that is meant.
LEMMA AcceptedIsMeant ==
  ASSUME zone \in Zones, NEW asked \in AskedFields, asked.reading # None, NEW meant, FormMeans(asked, meant),
         ToScheduledAt(asked).ok
  PROVE  /\ meant # None /\ meant \in Int
         /\ ToScheduledAt(asked).at = meant
<1> DEFINE S == InstantsReading(asked.reading)
<1>1. asked.reading \in Int /\ asked.pick \in Picks
  BY DEF AskedFields
<1>2. S \subseteq Int
  BY <1>1, ReadingsAreFew
<1>3. S # {} /\ (Cardinality(S) > 1 => asked.pick # None)
  <2>1. ~Refused("NONEXISTENT").ok /\ ~Refused("AMBIGUOUS").ok /\ ~Refused("PAST").ok
    BY DEF Refused
  <2> QED BY <2>1 DEF ToScheduledAt
<1>4. /\ Min(S) \in S /\ Max(S) \in S
      /\ \A y \in S : y = Min(S) \/ y = Max(S)
      /\ Min(S) # Max(S) <=> Cardinality(S) > 1
      /\ Cardinality(S) \in Nat
  BY <1>1, <1>3, ReadingsCounted
<1>5. PICK chosen : chosen = (IF asked.pick = "second" /\ Cardinality(S) > 1 THEN Max(S) ELSE Min(S))
  OBVIOUS
<1>6. ToScheduledAt(asked).at = chosen
  <2>1. ToScheduledAt(asked) = Refused("NONEXISTENT") \/ ToScheduledAt(asked) = Refused("PAST")
          \/ ToScheduledAt(asked) = Refused("AMBIGUOUS") \/ ToScheduledAt(asked) = Accepted(chosen)
    BY <1>5 DEF ToScheduledAt
  <2>2. ToScheduledAt(asked) = Accepted(chosen)
    BY <2>1 DEF Refused
  <2> QED BY <2>2 DEF Accepted
<1>7. meant # None /\ meant \in S
  BY <1>3 DEF FormMeans
<1>8. chosen = meant
  BY <1>1, <1>3, <1>4, <1>5, <1>7 DEF FormMeans, Picks
<1> QED BY <1>2, <1>6, <1>7, <1>8

\* The form opened on a time that is ahead gives that time back.
LEMMA FieldsGiveBack ==
  ASSUME zone \in Zones, now \in Int, NEW at \in Int, at > now
  PROVE  ToScheduledAt(ScheduleFieldsFor(at)) = Accepted(at)
<1> DEFINE S == InstantsReading(Wall(at))
<1>1. Wall(at) \in Int /\ Wall(at) # None /\ None # "first" /\ None # "second"
  BY OffsetIs, TimesAssumption
<1>2. at \in S
  BY <1>1, ReadingsAreAll
<1>3. /\ Min(S) \in S /\ Max(S) \in S
      /\ \A y \in S : y = Min(S) \/ y = Max(S)
      /\ Min(S) # Max(S) <=> Cardinality(S) > 1
      /\ Cardinality(S) \in Nat
  BY <1>1, <1>2, ReadingsCounted
<1>4. PICK pick : pick = (IF Cardinality(S) < 2 THEN None ELSE IF at = Min(S) THEN "first" ELSE "second")
  OBVIOUS
<1>5. ScheduleFieldsFor(at) = [reading |-> Wall(at), pick |-> pick]
  BY <1>4 DEF ScheduleFieldsFor, Asked
<1>6. at = (IF pick = "second" /\ Cardinality(S) > 1 THEN Max(S) ELSE Min(S))
  BY <1>1, <1>2, <1>3, <1>4
<1>7. ~(Cardinality(S) > 1 /\ pick = None)
  BY <1>1, <1>3, <1>4
<1>8. PICK fields : fields = ScheduleFieldsFor(at)
  OBVIOUS
<1>9. fields.reading = Wall(at) /\ fields.pick = pick
  BY <1>5, <1>8
<1>10. ~(\A x \in S : x <= now) /\ ~(at <= now) /\ S # {}
  BY <1>2
<1>11. ToScheduledAt(fields) = Accepted(at)
  BY <1>6, <1>7, <1>9, <1>10 DEF ToScheduledAt
<1> QED BY <1>8, <1>11

\* The days and the rest of two readings of one day are in the order of the readings.
LEMMA SameDay ==
  ASSUME NEW x \in Int, NEW y \in Int, x <= y, DateOf(x) = DateOf(y)
  PROVE  TimeOf(x) <= TimeOf(y)
<1>1. Day \in Int /\ Day > 0
  BY TimesAssumption
<1>2. PICK day \in Int : day = Day
  BY <1>1
<1>3. day > 0 /\ x \div day = y \div day
  BY <1>1, <1>2 DEF DateOf
<1>4. x % day <= y % day
  BY <1>3, SMTT(30)
<1> QED BY <1>2, <1>4 DEF TimeOf

\* The floor of the time picker leaves out no time that is still to come today.
LEMMA FloorIsLow ==
  ASSUME zone \in Zones, now \in Int, NEW at \in Int, at > now,
         DateOf(Wall(at)) = DateOf(Wall(now)), Wall(at) - Wall(now) >= at - now,
         MinimumTimeFor(DateOf(Wall(at))) # None
  PROVE  TimeOf(Wall(at)) >= MinimumTimeFor(DateOf(Wall(at)))
<1>1. /\ MinimumTimeFor(DateOf(Wall(at))) = TimeOf(Wall(now + 1))
      /\ DateOf(Wall(now + 1)) = DateOf(Wall(at))
  BY DEF MinimumTimeFor
<1>2. now + 1 \in Int
  OBVIOUS
<1>3. Wall(at) \in Int /\ Wall(now + 1) \in Int /\ Day \in Int /\ Day > 0
  BY <1>2, OffsetIs, TimesAssumption
<1>4. PICK b, a \in Int : b = zone.before /\ a = zone.after /\ Change \in Int
  BY OffsetIs
<1>5. /\ Wall(at) = at + (IF at < Change THEN b ELSE a)
      /\ Wall(now) = now + (IF now < Change THEN b ELSE a)
      /\ Wall(now + 1) = now + 1 + (IF now + 1 < Change THEN b ELSE a)
  BY <1>4 DEF Wall, Offset
<1>6. Wall(now + 1) <= Wall(at)
  <2>1. CASE at < Change
    BY <1>4, <1>5, <2>1
  <2>2. CASE ~(at < Change) /\ now < Change
    <3>1. a >= b
      BY <1>4, <1>5, <2>2
    <3> QED BY <1>4, <1>5, <2>2, <3>1
  <2>3. CASE ~(now < Change)
    BY <1>4, <1>5, <2>3
  <2> QED BY <2>1, <2>2, <2>3
<1>7. TimeOf(Wall(now + 1)) <= TimeOf(Wall(at))
  BY <1>1, <1>3, <1>6, SameDay
<1>8. TimeOf(Wall(now + 1)) \in Int /\ TimeOf(Wall(at)) \in Int
  BY <1>3 DEF TimeOf
<1> QED BY <1>1, <1>7, <1>8

\* The types and the invariant hold of what the program starts with.
LEMMA TimesStarts == TimesInit => TimesInv
<1> SUFFICES ASSUME NEW before \in Offsets, NEW after \in Offsets, NEW start \in Starts, NEW ahead \in Skews,
                    TimesStart(before, after, start, ahead)
             PROVE  TimesInv
  BY DEF TimesInit
<1>1. start \in Int /\ ahead \in Int /\ None \in Picks
  BY TimesAssumption DEF Picks
<1>2. TimesTypes
  BY <1>1 DEF TimesStart, TimesTypes, Zones, AskedFields, Asked
<1> QED BY <1>2 DEF TimesStart, TimesInv, FormMeans, StoredIsMeant, Asked


\* What a form holds depends on the zone alone, which stays.
LEMMA ZoneStays ==
  ASSUME zone' = zone
  PROVE  FormMeans(form.asked, form.meant)' <=> FormMeans(form'.asked, form'.meant)
<1>1. InstantsReading(form.asked.reading)' = InstantsReading(form'.asked.reading)
  BY DEF InstantsReading, Offset
<1> QED BY <1>1 DEF FormMeans

\* A reading that a change of the clocks skips is read by no clock.
LEMMA SkippedIsNever ==
  ASSUME zone \in Zones, NEW reading \in Change + zone.before .. Change + zone.after - 1
  PROVE  reading \in Int /\ InstantsReading(reading) = {}
<1>1. zone.before \in Int /\ zone.after \in Int /\ Change \in Int
  BY OffsetIs
<1>2. reading \in Int /\ reading >= Change + zone.before /\ reading < Change + zone.after
  BY <1>1
<1>3. InstantsReading(reading) \subseteq Int
  BY <1>2, ReadingsAreFew
<1>4. \A at \in Int : Wall(at) # reading
  BY <1>1, <1>2 DEF Wall, Offset
<1> QED BY <1>2, <1>3, <1>4, ReadingsAreAll

\* Every step keeps the invariant.
LEMMA TimesSteps == TimesInv /\ [TimesNext]_timesVars => TimesInv'
<1> SUFFICES ASSUME TimesInv, [TimesNext]_timesVars PROVE TimesInv'
  OBVIOUS
<1>t. /\ zone \in Zones /\ now \in Int /\ skew \in Int
      /\ form \in [open : BOOLEAN, asked : AskedFields, meant : Int \cup {None}]
      /\ stored \in [at : Int \cup {None}, asked : AskedFields, meant : Int \cup {None}]
      /\ FormMeans(form.asked, form.meant) /\ StoredIsMeant
      /\ None \notin Int /\ None \in Picks /\ Instants \subseteq Int
  BY TimesAssumption DEF TimesInv, TimesTypes, Picks
<1>f. /\ form.open \in BOOLEAN /\ form.asked \in AskedFields /\ form.meant \in Int \cup {None}
      /\ stored.at \in Int \cup {None} /\ stored.meant \in Int \cup {None}
  BY <1>t
<1>z. Asked(None, None) \in AskedFields /\ \A meant : FormMeans(Asked(None, None), meant)
  BY <1>t DEF Asked, AskedFields, FormMeans
<1>1. CASE OpenForm
  <2>1. PICK asked : asked = (IF stored.at = None THEN Asked(None, None) ELSE ScheduleFieldsFor(stored.at))
    OBVIOUS
  <2>2. asked \in AskedFields /\ FormMeans(asked, stored.at)
    BY <1>t, <1>f, <1>z, <2>1, FieldsMean
  <2>3. form' = [open |-> TRUE, meant |-> stored.at, asked |-> asked]
    BY <1>1, <2>1 DEF OpenForm
  <2>4. zone' = zone /\ now' = now /\ skew' = skew /\ stored' = stored
    BY <1>1 DEF OpenForm
  <2>5. TimesTypes'
    BY <1>t, <1>f, <2>2, <2>3, <2>4 DEF TimesTypes
  <2>6. FormMeans(form.asked, form.meant)'
    BY <2>2, <2>3, <2>4, ZoneStays
  <2> QED BY <1>t, <2>4, <2>5, <2>6 DEF TimesInv, StoredIsMeant
<1>2. ASSUME NEW at \in Instants, TypeTime(at) PROVE TimesInv'
  <2>1. form' = [form EXCEPT !.asked = Asked(Wall(at), None), !.meant = at]
    BY <1>2 DEF TypeTime
  <2>2. at \in Int /\ Wall(at) \in Int
    BY <1>t, OffsetIs
  <2>3. form' = [open |-> form.open, asked |-> Asked(Wall(at), None), meant |-> at]
    BY <1>t, <2>1
  <2>4. Asked(Wall(at), None) \in AskedFields
    BY <1>t, <2>2 DEF Asked, AskedFields
  <2>5. FormMeans(Asked(Wall(at), None), at)
    BY <1>t, <2>2, ReadingsAreAll, TimesAssumption DEF FormMeans, Asked
  <2>6. zone' = zone /\ now' = now /\ skew' = skew /\ stored' = stored
    BY <1>2 DEF TypeTime
  <2>7. TimesTypes'
    BY <1>t, <1>f, <2>2, <2>3, <2>4, <2>6 DEF TimesTypes
  <2>8. FormMeans(form.asked, form.meant)'
    BY <2>3, <2>5, <2>6, ZoneStays
  <2> QED BY <1>t, <2>6, <2>7, <2>8 DEF TimesInv, StoredIsMeant
<1>3. ASSUME NEW reading, TypeSkipped(reading) PROVE TimesInv'
  <2>1. /\ form' = [form EXCEPT !.asked = Asked(reading, None), !.meant = None]
        /\ reading \in Change + zone.before .. Change + zone.after - 1
    BY <1>3 DEF TypeSkipped
  <2>2. reading \in Int /\ InstantsReading(reading) = {}
    BY <1>t, <2>1, SkippedIsNever
  <2>3. form' = [open |-> form.open, asked |-> Asked(reading, None), meant |-> None]
    BY <1>t, <2>1
  <2>4. Asked(reading, None) \in AskedFields
    BY <1>t, <2>2 DEF Asked, AskedFields
  <2>5. FormMeans(Asked(reading, None), None)
    BY <2>2 DEF FormMeans, Asked
  <2>6. zone' = zone /\ now' = now /\ skew' = skew /\ stored' = stored
    BY <1>3 DEF TypeSkipped
  <2>7. TimesTypes'
    BY <1>t, <1>f, <2>2, <2>3, <2>4, <2>6 DEF TimesTypes
  <2>8. FormMeans(form.asked, form.meant)'
    BY <2>3, <2>5, <2>6, ZoneStays
  <2> QED BY <1>t, <2>6, <2>7, <2>8 DEF TimesInv, StoredIsMeant
<1>4. CASE PickOccurrence
  <2>0. PICK r : r = form.asked.reading
    OBVIOUS
  <2>1. form.asked.reading # None /\ form.meant # None
    BY <1>4 DEF PickOccurrence, Filled
  <2>2. r \in Int /\ form.meant \in InstantsReading(r)
    BY <1>t, <1>f, <2>0, <2>1 DEF FormMeans, AskedFields
  <2>3. /\ \A y \in InstantsReading(r) : y = Min(InstantsReading(r)) \/ y = Max(InstantsReading(r))
    BY <1>t, <2>2, ReadingsCounted
  <2>4. PICK pick : pick = (IF form.meant = Min(InstantsReading(r)) THEN "first" ELSE "second")
    OBVIOUS
  <2>5. form' = [form EXCEPT !.asked.pick = pick]
    BY <1>4, <2>0, <2>4 DEF PickOccurrence
  <2>6. form' = [open |-> form.open, asked |-> [reading |-> r, pick |-> pick], meant |-> form.meant]
    BY <1>t, <1>f, <2>0, <2>5 DEF AskedFields
  <2>7. pick \in Picks
    BY <2>4 DEF Picks
  <2>8. [reading |-> r, pick |-> pick] \in AskedFields
    BY <2>2, <2>7 DEF AskedFields
  <2>9. FormMeans([reading |-> r, pick |-> pick], form.meant)
    BY <2>1, <2>2, <2>3, <2>4 DEF FormMeans
  <2>10. zone' = zone /\ now' = now /\ skew' = skew /\ stored' = stored
    BY <1>4 DEF PickOccurrence
  <2>11. TimesTypes'
    BY <1>t, <1>f, <2>6, <2>8, <2>10 DEF TimesTypes
  <2>12. FormMeans(form.asked, form.meant)'
    BY <2>6, <2>9, <2>10, ZoneStays
  <2> QED BY <1>t, <2>10, <2>11, <2>12 DEF TimesInv, StoredIsMeant
<1>5. CASE SubmitTime
  <2>1. zone' = zone /\ now' = now /\ skew' = skew
    BY <1>5 DEF SubmitTime
  <2>2. ToScheduledAt(form.asked).ok /\ form.asked.reading # None
    BY <1>5 DEF SubmitTime, Filled
  <2>3. form.meant \in Int /\ ToScheduledAt(form.asked).at = form.meant
    BY <1>t, <1>f, <2>2, AcceptedIsMeant
  <2>4. CASE /\ stored' = [at |-> ToScheduledAt(form.asked).at, asked |-> form.asked, meant |-> form.meant]
             /\ form' = [form EXCEPT !.open = FALSE]
    <3>1. stored' = [at |-> form.meant, asked |-> form.asked, meant |-> form.meant]
      BY <2>3, <2>4
    <3>2. form' = [open |-> FALSE, asked |-> form.asked, meant |-> form.meant]
      BY <1>t, <2>4
    <3>3. TimesTypes'
      BY <1>t, <1>f, <2>1, <2>3, <3>1, <3>2 DEF TimesTypes
    <3>4. FormMeans(form.asked, form.meant)'
      BY <1>t, <2>1, <3>2, ZoneStays
    <3> QED BY <3>1, <3>3, <3>4 DEF TimesInv, StoredIsMeant
  <2>5. CASE UNCHANGED <<stored, form>>
    <3>1. TimesTypes'
      BY <1>t, <2>1, <2>5 DEF TimesTypes
    <3>2. FormMeans(form.asked, form.meant)'
      BY <1>t, <2>1, <2>5, ZoneStays
    <3> QED BY <1>t, <2>5, <3>1, <3>2 DEF TimesInv, StoredIsMeant
  <2> QED BY <1>5, <2>4, <2>5 DEF SubmitTime
<1>6. CASE CloseForm
  <2>1. zone' = zone /\ now' = now /\ skew' = skew /\ stored' = stored
    BY <1>6 DEF CloseForm
  <2>2. form' = [open |-> FALSE, asked |-> form.asked, meant |-> form.meant]
    BY <1>t, <1>6 DEF CloseForm
  <2>3. TimesTypes'
    BY <1>t, <1>f, <2>1, <2>2 DEF TimesTypes
  <2>4. FormMeans(form.asked, form.meant)'
    BY <1>t, <2>1, <2>2, ZoneStays
  <2> QED BY <1>t, <2>1, <2>3, <2>4 DEF TimesInv, StoredIsMeant
<1>7. CASE Minute
  <2>1. zone' = zone /\ now' = now + 1 /\ skew' = skew /\ stored' = stored /\ form' = form
    BY <1>7 DEF Minute
  <2>2. TimesTypes'
    BY <1>t, <2>1 DEF TimesTypes
  <2>3. FormMeans(form.asked, form.meant)'
    BY <1>t, <2>1, ZoneStays
  <2> QED BY <1>t, <2>1, <2>2, <2>3 DEF TimesInv, StoredIsMeant
<1>8. CASE UNCHANGED timesVars
  <2>1. zone' = zone /\ now' = now /\ skew' = skew /\ stored' = stored /\ form' = form
    BY <1>8 DEF timesVars
  <2>2. TimesTypes'
    BY <1>t, <2>1 DEF TimesTypes
  <2>3. FormMeans(form.asked, form.meant)'
    BY <1>t, <2>1, ZoneStays
  <2> QED BY <1>t, <2>1, <2>2, <2>3 DEF TimesInv, StoredIsMeant
<1> QED BY <1>1, <1>2, <1>3, <1>4, <1>5, <1>6, <1>7, <1>8 DEF TimesNext

\* What the invariant says of each conjunct.
LEMMA TimesImplied == TimesInv => TimesAreMeant
<1> SUFFICES ASSUME TimesInv PROVE TimesAreMeant
  OBVIOUS
<1>1. zone \in Zones /\ now \in Int /\ form.asked \in AskedFields /\ StoredIsMeant /\ Instants \subseteq Int
  BY TimesAssumption DEF TimesInv, TimesTypes
<1>2. FieldsGoBack
  BY <1>1, FieldsGiveBack DEF FieldsGoBack
<1>3. ReadsEveryInstant
  <2> SUFFICES ASSUME Filled
               PROVE  InstantsReading(form.asked.reading) \cap Instants = {at \in Instants : Wall(at) = form.asked.reading}
    BY DEF ReadsEveryInstant
  <2>1. form.asked.reading \in Int
    BY <1>1 DEF AskedFields, Filled
  <2> QED BY <1>1, <2>1, ReadingsAreAll
<1>4. FloorExcludesNothing
  BY <1>1, FloorIsLow DEF FloorExcludesNothing
<1> QED BY <1>1, <1>2, <1>3, <1>4 DEF TimesAreMeant

\* A time on the clock on the wall becomes the instant that was meant and comes back from it, on both
\* sides of a change of the clocks, whatever the zone, the day and the instants (scheduling.ts).
THEOREM TimesAreAlwaysMeant == TimesSpec => []TimesAreMeant
<1>1. TimesInit => TimesInv
  BY TimesStarts
<1>2. TimesInv /\ [TimesNext]_timesVars => TimesInv'
  BY TimesSteps
<1>3. TimesInv => TimesAreMeant
  BY TimesImplied
<1> QED BY <1>1, <1>2, <1>3, PTL DEF TimesSpec

-----------------------------------------------------------------------------
(* The settings. *)

FieldValues == [Fields -> {"null", "from@", "malformed", "starttls", "tls"}]

Stages == {"looking", "inserting", "loaded", "written"}

Visits == [at : Stages, what : {"page", "config"}]
Saves  == [at : Stages, what : {"save"}, fields : FieldValues, password : Nat, clear : BOOLEAN]
Pages  == [boot : Nat, fields : FieldValues, password : Nat, overridden : SUBSET Fields]

SettingsTypes ==
  /\ settingsRow # NoRow => settingsRow.fields \in FieldValues /\ settingsRow.secret.plain \in Nat
  /\ settingsForm \in [Forms -> {NoPage} \cup Pages]
  /\ request \in [Forms \cup {Sender} -> {NoRequest} \cup Visits \cup Saves]
  /\ passwords \in Nat /\ restarts \in Nat

\* A password that a form still holds, to save it or to save it again.
Holds(t, password) ==
  /\ password # NoPassword
  /\ \/ settingsForm[t] \in Pages /\ settingsForm[t].password = password
     \/ request[t] \in Saves /\ request[t].password = password

\* Each password was typed into one form, which has not been told that it is saved.
PasswordsApart ==
  /\ told \subseteq 1..passwords
  /\ \A t \in Forms, password \in Nat :
       Holds(t, password) =>
         /\ password <= passwords /\ password \notin told
         /\ \A u \in Forms \ {t} : ~Holds(u, password)

\* A page shown by this server marks what the environment overrides.
PagesMark ==
  \A t \in Forms :
    settingsForm[t] \in Pages =>
      /\ settingsForm[t].boot <= restarts
      /\ settingsForm[t].boot = restarts => settingsForm[t].overridden = Overrides

\* The inductive invariant of the settings.
SettingsInv ==
  /\ SettingsTypes
  /\ PasswordsApart
  /\ PagesMark
  /\ SavesCount
  /\ settingsRow = NoRow => lastSave = [fields |-> DefaultRow.fields, password |-> NoPassword]
  /\ request[Sender] \notin Saves
  /\ \A t \in Forms :
       /\ request[t] \in Saves /\ request[t].clear => request[t].password = NoPassword
       /\ request[t] \in Visits => request[t].at # "written"

\* A row that was written is there.
LEMMA RowIsNotNoRow == \A f, s : [fields |-> f, secret |-> s] # NoRow
<1> TAKE f, s
<1> "secret" \in DOMAIN [fields |-> f, secret |-> s] /\ "secret" \notin DOMAIN NoRow
  BY DEF NoRow
<1> QED OBVIOUS

\* A tab without the page is not a page.
LEMMA NoPageIsNone == NoPage \notin Pages
<1> "fields" \notin DOMAIN NoPage /\ \A p \in Pages : "fields" \in DOMAIN p
  BY DEF NoPage, Pages
<1> QED OBVIOUS

\* Before the first look there is no row, no page and no request.
LEMMA SettingsStarts == SettingsInit => SettingsInv
<1> SUFFICES ASSUME SettingsInit PROVE SettingsInv
  OBVIOUS
<1> USE SettingsAssumption DEF SettingsInit, SettingsStart, NoRequest, NoPage, NoPassword, Visits, Saves, Pages, Stages
<1>1. SettingsTypes
  BY DEF SettingsTypes
<1>2. PasswordsApart
  BY DEF PasswordsApart, Holds
<1>3. PagesMark
  BY DEF PagesMark
<1>4. SavesCount
  BY DEF SavesCount
<1> QED BY <1>1, <1>2, <1>3, <1>4 DEF SettingsInv

\* Every look, save, edit, failure and restart keeps the invariant.
LEMMA SettingsSteps == SettingsInv /\ [SettingsNext]_settingsVars => SettingsInv'
<1> SUFFICES ASSUME SettingsInv, [SettingsNext]_settingsVars PROVE SettingsInv'
  OBVIOUS
<1> USE SettingsAssumption DEF NoRequest, NoPage, NoPassword, Visits, Saves, Pages, Stages
<1>1. ASSUME NEW a \in Forms \cup {Sender}, LookUp(a) PROVE SettingsInv'
  BY <1>1 DEF LookUp, SettingsInv, SettingsTypes, PasswordsApart, Holds, PagesMark, SavesCount, Overrides
<1>2. ASSUME NEW a \in Forms \cup {Sender}, InsertRow(a) PROVE SettingsInv'
  BY <1>2 DEF InsertRow, SettingsInv, SettingsTypes, PasswordsApart, Holds, PagesMark, SavesCount, Overrides, DefaultRow,
              FieldValues, Fields
<1>3. ASSUME NEW a \in Forms \cup {Sender}, CallFails(a) PROVE SettingsInv'
  BY <1>3 DEF CallFails, SettingsInv, SettingsTypes, PasswordsApart, Holds, PagesMark, SavesCount, Overrides
<1>4. ASSUME ReadConfig PROVE SettingsInv'
  BY <1>4 DEF ReadConfig, SettingsInv, SettingsTypes, PasswordsApart, Holds, PagesMark, SavesCount, Overrides
<1>5. ASSUME ConfigRead PROVE SettingsInv'
  BY <1>5 DEF ConfigRead, Loaded, SettingsInv, SettingsTypes, PasswordsApart, Holds, PagesMark, SavesCount, Overrides
<1>6. ASSUME NEW t \in Forms, OpenPage(t) PROVE SettingsInv'
  <2>1. SettingsTypes' /\ PagesMark'
    BY <1>6, NoPageIsNone DEF OpenPage, SettingsInv, SettingsTypes, PagesMark, Overrides
  <2>2. \A u \in Forms, password \in Nat : Holds(u, password)' => Holds(u, password)
    BY <1>6, NoPageIsNone DEF OpenPage, SettingsInv, SettingsTypes, Holds
  <2>3. PasswordsApart'
    BY <1>6, <2>2 DEF OpenPage, SettingsInv, PasswordsApart
  <2> QED BY <1>6, <2>1, <2>3 DEF OpenPage, SettingsInv, SettingsTypes, SavesCount
<1>7. ASSUME NEW t \in Forms, ShowPage(t) PROVE SettingsInv'
  <2> DEFINE shown == [boot |-> restarts, fields |-> settingsRow.fields, password |-> NoPassword, overridden |-> Overrides]
  <2>1. shown \in Pages
    BY <1>7 DEF ShowPage, Loaded, SettingsInv, SettingsTypes, Overrides
  <2>2. settingsForm' = [settingsForm EXCEPT ![t] = shown] /\ request' = [request EXCEPT ![t] = NoRequest]
    BY <1>7 DEF ShowPage
  <2>3. shown.password = NoPassword /\ shown.boot = restarts /\ shown.overridden = Overrides
    OBVIOUS
  <2> HIDE DEF shown
  <2>4. SettingsTypes'
    BY <1>7, <2>1, <2>2 DEF ShowPage, SettingsInv, SettingsTypes
  <2>5. PasswordsApart'
    BY <1>7, <2>2, <2>3 DEF ShowPage, SettingsInv, SettingsTypes, PasswordsApart, Holds
  <2>6. PagesMark'
    BY <1>7, <2>2, <2>3 DEF ShowPage, SettingsInv, SettingsTypes, PagesMark, Overrides
  <2> QED BY <1>7, <2>4, <2>5, <2>6 DEF ShowPage, SettingsInv, SettingsTypes, SavesCount
<1>8. ASSUME NEW t \in Forms, NEW field \in Fields, NEW value \in Typeable(field), Edit(t, field, value) PROVE SettingsInv'
  <2>1. settingsForm[t] \in Pages /\ value \in {"null", "from@", "malformed", "starttls", "tls"}
    BY <1>8 DEF Edit, Typeable, SettingsInv, SettingsTypes
  <2>2. PICK edited \in Pages :
          /\ settingsForm' = [settingsForm EXCEPT ![t] = edited]
          /\ edited.password = settingsForm[t].password /\ edited.boot = settingsForm[t].boot
          /\ edited.overridden = settingsForm[t].overridden
    <3>1. [settingsForm[t] EXCEPT !.fields[field] = value] \in Pages
      BY <2>1 DEF FieldValues
    <3> QED BY <1>8, <2>1, <3>1 DEF Edit
  <2>3. SettingsTypes' /\ PagesMark'
    BY <1>8, <2>1, <2>2 DEF Edit, SettingsInv, SettingsTypes, PagesMark, Overrides
  <2>4. PasswordsApart'
    BY <1>8, <2>1, <2>2 DEF Edit, SettingsInv, SettingsTypes, PasswordsApart, Holds
  <2> QED BY <1>8, <2>3, <2>4 DEF Edit, SettingsInv, SavesCount
<1>9. ASSUME NEW t \in Forms, TypePassword(t) PROVE SettingsInv'
  <2>1. settingsForm[t] \in Pages
    BY <1>9 DEF TypePassword, SettingsInv, SettingsTypes
  <2>2. SettingsTypes' /\ PagesMark'
    BY <1>9, <2>1 DEF TypePassword, SettingsInv, SettingsTypes, PagesMark, Overrides
  <2>3. \A u \in Forms, password \in Nat :
          Holds(u, password)' => Holds(u, password) \/ (u = t /\ password = passwords + 1)
    BY <1>9, <2>1 DEF TypePassword, SettingsInv, SettingsTypes, Holds
  <2>4. told' \subseteq 1..passwords'
    BY <1>9 DEF TypePassword, SettingsInv, SettingsTypes, PasswordsApart
  <2>5. \A u \in Forms : ~Holds(u, passwords + 1)
    BY DEF SettingsInv, SettingsTypes, PasswordsApart
  <2>6. PasswordsApart'
    <3> SUFFICES ASSUME NEW u \in Forms, NEW password \in Nat, Holds(u, password)'
                 PROVE  /\ password <= passwords' /\ password \notin told'
                        /\ \A v \in Forms \ {u} : ~Holds(v, password)'
      BY <2>4 DEF PasswordsApart
    <3>1. told' = told /\ passwords' = passwords + 1 /\ passwords \in Nat /\ told \subseteq 1..passwords
      BY <1>9 DEF TypePassword, SettingsInv, SettingsTypes, PasswordsApart
    <3>2. CASE u = t /\ password = passwords + 1
      BY <2>3, <2>5, <3>1, <3>2
    <3>3. CASE Holds(u, password)
      <4>1. password <= passwords /\ password \notin told /\ \A v \in Forms \ {u} : ~Holds(v, password)
        BY <3>3 DEF SettingsInv, PasswordsApart
      <4> QED BY <4>1, <2>3, <3>1
    <3> QED BY <2>3, <3>2, <3>3
  <2> QED BY <1>9, <2>2, <2>6 DEF TypePassword, SettingsInv, SavesCount
<1>10. ASSUME NEW t \in Forms, NEW clear \in BOOLEAN, Put(t, clear) PROVE SettingsInv'
  BY <1>10 DEF Put, SettingsInv, SettingsTypes, PasswordsApart, Holds, PagesMark, SavesCount, Overrides
<1>11. ASSUME NEW t \in Forms, SaveSettings(t) PROVE SettingsInv'
  BY <1>11, RowIsNotNoRow DEF SaveSettings, Loaded, DefaultRow, SettingsInv, SettingsTypes, PasswordsApart, Holds,
                              PagesMark, SavesCount, Overrides
<1>12. ASSUME NEW t \in Forms, SeeSaved(t) PROVE SettingsInv'
  BY <1>12 DEF SeeSaved, SettingsInv, SettingsTypes, PasswordsApart, Holds, PagesMark, SavesCount, Overrides
<1>13. ASSUME NEW e \in Environments, RestartWith(e) PROVE SettingsInv'
  BY <1>13 DEF RestartWith, SettingsInv, SettingsTypes, PasswordsApart, Holds, PagesMark, SavesCount, Overrides
<1>14. CASE UNCHANGED settingsVars
  BY <1>14 DEF settingsVars, SettingsInv, SettingsTypes, PasswordsApart, Holds, PagesMark, SavesCount, Overrides
<1> QED
  BY <1>1, <1>2, <1>3, <1>4, <1>5, <1>6, <1>7, <1>8, <1>9, <1>10, <1>11, <1>12, <1>13, <1>14
  DEF SettingsNext, Loading, OnPage, PressSave, PutClearing

\* What the invariant says of a state.
LEMMA SettingsPromise ==
  SettingsInv => SavesCount /\ NeverUnauthenticated /\ NoSilentOverride
<1> SUFFICES ASSUME SettingsInv PROVE NeverUnauthenticated /\ NoSilentOverride
  BY DEF SettingsInv
<1>1. NeverUnauthenticated
  BY DEF SettingsInv, NeverUnauthenticated, SmtpConfig, Readable, Password, SavesCount
<1>2. NoSilentOverride
  <2> SUFFICES ASSUME NEW t \in Forms, settingsForm[t] # NoPage, settingsForm[t].boot = restarts,
                      NEW f \in Fields \ settingsForm[t].overridden
               PROVE  InEffect(f) = settingsRow.fields[f]
    BY DEF NoSilentOverride
  <2>1. settingsForm[t].overridden = Overrides
    BY DEF SettingsInv, SettingsTypes, PagesMark
  <2> QED BY <2>1 DEF Overrides, InEffect, Counts
<1> QED BY <1>1, <1>2

\* SavedPasswordStaysSaved, of one step.
SavesOnce == settingsRow' # NoRow /\ settingsRow # NoRow /\ settingsRow'.secret.plain # settingsRow.secret.plain
       => settingsRow'.secret.plain \notin told

\* The password of the row only changes to one no form was told of.
LEMMA SettingsOnce == SettingsInv /\ [SettingsNext]_settingsVars => SavesOnce
<1> SUFFICES ASSUME SettingsInv, SettingsNext, settingsRow # NoRow, settingsRow' # settingsRow,
                    settingsRow'.secret.plain # settingsRow.secret.plain
             PROVE  settingsRow'.secret.plain \notin told
  BY DEF settingsVars, SavesOnce
<1>1. PICK t \in Forms : SaveSettings(t)
  BY DEF SettingsNext, Loading, OnPage, PressSave, PutClearing, Put, LookUp, InsertRow, CallFails, ReadConfig, ConfigRead,
         OpenPage, ShowPage, Edit, TypePassword, SeeSaved, RestartWith
<1>2. request[t] \in Saves
  BY <1>1 DEF SaveSettings, Loaded, SettingsInv, SettingsTypes, NoRequest, Visits
<1>3. settingsRow'.secret.plain \in {NoPassword, settingsRow.secret.plain, request[t].password}
  BY <1>1 DEF SaveSettings, DefaultRow
<1>4. NoPassword \notin told
  BY DEF SettingsInv, PasswordsApart, NoPassword, SettingsTypes
<1>5. request[t].password # NoPassword => request[t].password \notin told
  BY <1>2 DEF SettingsInv, PasswordsApart, Holds, Saves
<1> QED BY <1>3, <1>4, <1>5

\* What was saved is kept and used, or no mail is sent, through concurrent first looks and saves, lost
\* answers, other environments and other keys (settings.ts); for any number of tabs, edits, saves and
\* restarts.
THEOREM SettingsStayKept == SettingsSpec => SettingsKept
<1>3. SettingsSpec => []SettingsInv
  BY SettingsStarts, SettingsSteps, PTL DEF SettingsSpec
<1>4. SettingsSpec => [][SavesOnce]_settingsVars
  BY <1>3, SettingsOnce, PTL DEF SettingsSpec
<1> QED BY <1>3, <1>4, SettingsPromise, PTL DEF SettingsKept, SavedPasswordStaysSaved, SavesOnce
================================================================================
