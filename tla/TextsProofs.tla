------------------------------ MODULE TextsProofs ------------------------------
(***************************************************************************)
(* Proofs about files that are read (CsvImport) and messages that are      *)
(* built (MessageBuilding): the folds over a text, for every text that the *)
(* assumptions of these modules allow.  Induction is over the positions of *)
(* a sequence: every set of naturals that is not empty has a least one.    *)
(***************************************************************************)
EXTENDS CsvImport, MessageBuilding, WellFoundedInduction, SequenceTheorems, TLAPS

\* Texts, and the rows a file may hold: an empty line is none.
Texts == Seq(Characters)
Rows  == Seq(Seq(Characters)) \ {<<>>, <<<<>>>>}

\* A non-empty set of naturals has a least element.
LEMMA Least == ASSUME NEW T, T \subseteq Nat, T # {} PROVE \E n \in T : \A m \in T : n <= m
<1>1. IsWellFoundedOn(OpToRel(<, Nat), Nat)
  BY NatLessThanWellFounded
<1>2. PICK n \in T : \A m \in T : ~(<<m, n>> \in OpToRel(<, Nat))
  BY <1>1, WFMin
<1>3. \A m \in T : ~(m < n)
  BY <1>2 DEF OpToRel
<1> QED
  BY <1>3

\* Counting up: a set that holds 0 and every successor up to n holds all of 0..n.
LEMMA UpTo ==
  ASSUME NEW n \in Nat, NEW T, 0 \in T, \A k \in 1..n : k - 1 \in T => k \in T
  PROVE  \A k \in 0..n : k \in T
<1>1. SUFFICES ASSUME NEW j \in 0..n, j \notin T PROVE FALSE
  OBVIOUS
<1> DEFINE Out == {k \in Nat : k <= n /\ k \notin T}
<1>2. Out \subseteq Nat /\ Out # {}
  BY <1>1
<1>3. PICK k \in Out : \A m \in Out : k <= m
  BY <1>2, Least
<1>4. k \in Nat /\ k <= n /\ k \notin T /\ k # 0
  BY <1>3
<1>5. k - 1 \in Nat /\ k - 1 < k /\ k - 1 <= n
  BY <1>4
<1>6. k - 1 \in T
  BY <1>3, <1>5
<1>7. k \in 1..n
  BY <1>4
<1> QED
  BY <1>4, <1>6, <1>7

\* The function that FlattenSeq is defined by exists.
LEMMA FlattenSteps ==
  ASSUME NEW C, NEW ss \in Seq(Seq(C))
  PROVE  \E flat : /\ flat \in [0..Len(ss) -> Seq(C)] /\ flat[0] = <<>>
                   /\ \A k \in 1..Len(ss) : flat[k] = flat[k - 1] \o ss[k]
                   /\ FlattenSeq(ss) = flat[Len(ss)]
<1>0. Len(ss) \in Nat /\ \A k \in 1..Len(ss) : ss[k] \in Seq(C)
  BY LenProperties, ElementOfSeq
<1> DEFINE n == Len(ss)
           Is(f, m) == f = [i \in 1..m |-> IF i = 1 THEN ss[i] ELSE f[i - 1] \o ss[i]]
           T == {m \in Nat : m <= n => \E f \in [1..m -> Seq(C)] : Is(f, m)}
<1>1. 0 \in T
  <2>1. PICK f : f = [i \in 1..0 |-> <<>>]
    OBVIOUS
  <2>2. f \in [1..0 -> Seq(C)] /\ Is(f, 0)
    BY <2>1
  <2> QED
    BY <2>2
<1>2. ASSUME NEW m \in 1..n, m - 1 \in T PROVE m \in T
  <2>1. PICK f \in [1..m - 1 -> Seq(C)] : Is(f, m - 1)
    <3>1. m - 1 <= n
      BY <1>0
    <3> QED
      BY <3>1, <1>2, Zenon
  <2>2. PICK g : g = [i \in 1..m |-> IF i = 1 THEN ss[i] ELSE f[i - 1] \o ss[i]]
    OBVIOUS
  <2>3. ASSUME NEW i \in 1..m - 1 PROVE g[i] = f[i]
    <3>1. i \in 1..m
      BY <1>0
    <3>2. g[i] = IF i = 1 THEN ss[i] ELSE f[i - 1] \o ss[i]
      BY <2>2, <3>1, Zenon
    <3>3. f[i] = IF i = 1 THEN ss[i] ELSE f[i - 1] \o ss[i]
      BY <2>1, Zenon
    <3> QED
      BY <3>2, <3>3
  <2>4. \A i \in 1..m : i # 1 => i - 1 \in 1..m - 1
    BY <1>0
  <2>5. Is(g, m)
    BY <2>2, <2>3, <2>4
  <2>6. g \in [1..m -> Seq(C)]
    <3>1. ASSUME NEW i \in 1..m PROVE (IF i = 1 THEN ss[i] ELSE f[i - 1] \o ss[i]) \in Seq(C)
      <4>1. ss[i] \in Seq(C)
        BY <1>0, <1>2
      <4>2. i # 1 => f[i - 1] \in Seq(C)
        BY <2>1, <2>4
      <4>3. i # 1 => f[i - 1] \o ss[i] \in Seq(C)
        BY <4>1, <4>2, ConcatProperties
      <4> QED
        BY <4>1, <4>3
    <3> QED
      BY <2>2, <3>1
  <2>7. m \in Nat
    BY <1>0
  <2> QED
    BY <2>5, <2>6, <2>7
<1>3. n \in T
  <2> HIDE DEF T
  <2>1. \A m \in 0..n : m \in T
    BY <1>0, <1>1, <1>2, UpTo
  <2> QED
    BY <2>1, <1>0
<1>4. PICK f \in [1..n -> Seq(C)] : Is(f, n)
  <2>1. n <= n
    BY <1>0
  <2> QED
    BY <2>1, <1>3, Zenon
<1>5. PICK g : g = CHOOSE h : Is(h, n)
  OBVIOUS
<1>6. Is(g, n)
  BY <1>4, <1>5
<1>7. n # 0 => FlattenSeq(ss) = g[n]
  BY <1>5 DEF FlattenSeq
<1>8. n = 0 => FlattenSeq(ss) = <<>>
  BY EmptySeq DEF FlattenSeq
<1> QED
  <2>0. DOMAIN g = 1..n /\ \A i \in 1..n : g[i] = IF i = 1 THEN ss[i] ELSE g[i - 1] \o ss[i]
    BY <1>6
  <2>1. \A i \in 1..n : g[i] \in Seq(C)
    <3> DEFINE U == {i \in Nat : i \in 1..n => g[i] \in Seq(C)}
    <3>1. 0 \in U
      OBVIOUS
    <3>2. ASSUME NEW i \in 1..n, i - 1 \in U PROVE i \in U
      <4>1. ss[i] \in Seq(C) /\ i \in Nat
        BY <1>0
      <4>2. CASE i = 1
        BY <4>1, <4>2, <2>0
      <4>3. CASE i # 1
        <5>1. i - 1 \in 1..n
          BY <4>3, <1>0
        <5>2. g[i - 1] \in Seq(C)
          BY <5>1, <3>2
        <5>3. g[i - 1] \o ss[i] \in Seq(C)
          BY <5>2, <4>1, ConcatProperties
        <5>4. g[i] = g[i - 1] \o ss[i]
          BY <4>3, <2>0, Zenon
        <5> QED
          BY <5>3, <5>4, <4>1
      <4> QED
        BY <4>2, <4>3
    <3> HIDE DEF U
    <3>3. \A i \in 0..n : i \in U
      BY <1>0, <3>1, <3>2, UpTo
    <3> QED
      BY <3>3 DEF U
  <2>2. PICK flat : flat = [k \in 0..n |-> IF k = 0 THEN <<>> ELSE g[k]]
    OBVIOUS
  <2>3. flat \in [0..n -> Seq(C)] /\ flat[0] = <<>>
    BY <2>1, <2>2, EmptySeq, <1>0
  <2>4. ASSUME NEW k \in 1..n PROVE flat[k] = flat[k - 1] \o ss[k]
    <3>1. flat[k] = g[k] /\ k \in 0..n /\ k - 1 \in 0..n
      BY <2>2, <1>0
    <3>2. CASE k = 1
      <4>1. flat[k - 1] = <<>>
        BY <3>2, <2>3
      <4>2. ss[k] \in Seq(C) /\ <<>> \o ss[k] = ss[k]
        BY <1>0, ConcatEmptySeq
      <4> QED
        BY <4>1, <4>2, <3>1, <3>2, <2>0
    <3>3. CASE k # 1
      <4>1. flat[k - 1] = g[k - 1]
        BY <3>1, <3>3, <2>2
      <4> QED
        BY <4>1, <3>1, <3>3, <2>0
    <3> QED
      BY <3>2, <3>3
  <2>5. FlattenSeq(ss) = flat[n]
    BY <1>0, <1>7, <1>8, <2>2, <2>3
  <2> QED
    BY <2>3, <2>4, <2>5

\* f runs as the reader does.
Runs(f, r, text, next, d) ==
  /\ f[0] = r
  /\ \A i \in 1..Len(text) : f[i] = ReadChar(f[i - 1], text[i], IF i < Len(text) THEN text[i + 1] ELSE next, d)

\* The function that ReadOn is defined by exists.
LEMMA ReadSteps ==
  ASSUME NEW text \in Texts, NEW r, NEW next, NEW d
  PROVE  \E read : Runs(read, r, text, next, d) /\ ReadOn(r, text, next, d) = read[Len(text)]
<1>0. Len(text) \in Nat
  BY LenProperties DEF Texts
<1> DEFINE n == Len(text)
           Is(f, m) == f = [i \in 0..m |-> IF i = 0 THEN r
                                           ELSE ReadChar(f[i - 1], text[i], IF i < Len(text) THEN text[i + 1] ELSE next, d)]
           T == {m \in Nat : m <= n => \E f : Is(f, m)}
<1>1. 0 \in T
  <2>1. PICK f : f = [i \in 0..0 |-> r]
    OBVIOUS
  <2>2. \A i \in 0..0 : i = 0
    OBVIOUS
  <2>3. Is(f, 0)
    BY <2>1, <2>2
  <2> QED
    BY <2>3
<1>2. ASSUME NEW m \in 1..n, m - 1 \in T PROVE m \in T
  <2>1. PICK f : Is(f, m - 1)
    <3>1. m - 1 <= n
      BY <1>0
    <3> QED
      BY <3>1, <1>2, Zenon
  <2>2. PICK g : g = [i \in 0..m |-> IF i = 0 THEN r
                                     ELSE ReadChar(f[i - 1], text[i], IF i < Len(text) THEN text[i + 1] ELSE next, d)]
    OBVIOUS
  <2>3. ASSUME NEW i \in 0..m - 1 PROVE g[i] = f[i]
    <3>1. i \in 0..m
      BY <1>0
    <3> QED
      BY <2>1, <2>2, <3>1, Zenon
  <2>4. \A i \in 0..m : i # 0 => i - 1 \in 0..m - 1
    BY <1>0
  <2>5. Is(g, m)
    BY <2>2, <2>3, <2>4
  <2>7. m \in Nat
    BY <1>0
  <2> QED
    BY <2>5, <2>7
<1>3. n \in T
  <2> HIDE DEF T
  <2>1. \A m \in 0..n : m \in T
    BY <1>0, <1>1, <1>2, UpTo
  <2> QED
    BY <2>1, <1>0
<1>4. PICK f : Is(f, n)
  <2>1. n <= n
    BY <1>0
  <2> QED
    BY <2>1, <1>3, Zenon
<1>5. PICK g : g = CHOOSE h : Is(h, n)
  OBVIOUS
<1>6. Is(g, n)
  BY <1>4, <1>5
<1>7. ReadOn(r, text, next, d) = g[n]
  BY <1>5 DEF ReadOn
<1>8. 0 \in 0..n /\ \A i \in 1..n : i \in 0..n /\ i # 0
  BY <1>0
<1>9. g[0] = r
  BY <1>6, <1>8, Zenon
<1>10. \A i \in 1..n : g[i] = ReadChar(g[i - 1], text[i], IF i < Len(text) THEN text[i + 1] ELSE next, d)
  BY <1>6, <1>8, Zenon
<1> QED
  BY <1>7, <1>9, <1>10 DEF Runs

\* Whatever runs as the reader does ends as it does.
LEMMA ReadIs ==
  ASSUME NEW text \in Texts, NEW r, NEW next, NEW d, NEW f, Runs(f, r, text, next, d)
  PROVE  ReadOn(r, text, next, d) = f[Len(text)]
<1>0. Len(text) \in Nat
  BY LenProperties DEF Texts
<1>1. PICK read : Runs(read, r, text, next, d) /\ ReadOn(r, text, next, d) = read[Len(text)]
  BY ReadSteps
<1> DEFINE T == {k \in Nat : f[k] = read[k]}
<1>2. 0 \in T
  BY <1>1 DEF Runs
<1>3. ASSUME NEW k \in 1..Len(text), k - 1 \in T PROVE k \in T
  <2>1. f[k - 1] = read[k - 1] /\ k \in Nat
    BY <1>3
  <2>2. f[k] = ReadChar(f[k - 1], text[k], IF k < Len(text) THEN text[k + 1] ELSE next, d)
    BY Zenon DEF Runs
  <2>3. read[k] = ReadChar(read[k - 1], text[k], IF k < Len(text) THEN text[k + 1] ELSE next, d)
    BY <1>1, Zenon DEF Runs
  <2>4. f[k] = read[k]
    BY <2>1, <2>2, <2>3, Zenon
  <2> QED
    BY <2>1, <2>4
<1> HIDE DEF T
<1>4. \A k \in 0..Len(text) : k \in T
  BY <1>0, <1>2, <1>3, UpTo
<1>5. Len(text) \in T
  BY <1>0, <1>4
<1> QED
  BY <1>1, <1>5 DEF T

\* A text is read as its parts are, each with the one after it in view.
LEMMA ReadJoined ==
  ASSUME NEW a \in Texts, NEW b \in Texts, b # <<>>, NEW r, NEW next, NEW d
  PROVE  ReadOn(r, a \o b, next, d) = ReadOn(ReadOn(r, a, b[1], d), b, next, d)
<1>0. Len(a) \in Nat /\ Len(b) \in Nat /\ Len(b) > 0
  BY LenProperties, EmptySeq DEF Texts
<1>1. /\ a \o b \in Texts /\ Len(a \o b) = Len(a) + Len(b)
      /\ \A i \in 1..Len(a) + Len(b) : (a \o b)[i] = IF i <= Len(a) THEN a[i] ELSE b[i - Len(a)]
  BY ConcatProperties, <1>0 DEF Texts
<1>2. PICK fa : Runs(fa, r, a, b[1], d) /\ ReadOn(r, a, b[1], d) = fa[Len(a)]
  BY ReadSteps
<1>3. PICK fb : Runs(fb, fa[Len(a)], b, next, d) /\ ReadOn(fa[Len(a)], b, next, d) = fb[Len(b)]
  BY ReadSteps
<1> DEFINE ab == a \o b
<1>4. PICK f : f = [i \in 0..Len(a) + Len(b) |-> IF i <= Len(a) THEN fa[i] ELSE fb[i - Len(a)]]
  OBVIOUS
<1>5. f[0] = r
  BY <1>0, <1>2, <1>4 DEF Runs
<1>6. f[Len(a) + Len(b)] = fb[Len(b)]
  BY <1>0, <1>4
<1>7. ASSUME NEW i \in 1..Len(ab) PROVE f[i] = ReadChar(f[i - 1], ab[i], IF i < Len(ab) THEN ab[i + 1] ELSE next, d)
  <2>0. i \in Nat /\ i \in 0..Len(a) + Len(b) /\ i - 1 \in 0..Len(a) + Len(b) /\ i \in 1..Len(a) + Len(b)
    BY <1>0, <1>1
  <2>1. CASE i <= Len(a)
    <3>1. f[i] = fa[i] /\ f[i - 1] = fa[i - 1] /\ ab[i] = a[i] /\ i \in 1..Len(a)
      BY <2>0, <2>1, <1>0, <1>1, <1>4
    <3>2. (IF i < Len(ab) THEN ab[i + 1] ELSE next) = (IF i < Len(a) THEN a[i + 1] ELSE b[1])
      <4>1. i < Len(ab) /\ i + 1 \in 1..Len(a) + Len(b)
        BY <2>0, <2>1, <1>0, <1>1
      <4>2. i < Len(a) => ab[i + 1] = a[i + 1]
        BY <4>1, <2>0, <1>0, <1>1
      <4>3. ~(i < Len(a)) => ab[i + 1] = b[1]
        BY <4>1, <2>0, <2>1, <1>0, <1>1
      <4> QED
        BY <4>1, <4>2, <4>3
    <3>3. fa[i] = ReadChar(fa[i - 1], a[i], IF i < Len(a) THEN a[i + 1] ELSE b[1], d)
      BY <1>2, <3>1, Zenon DEF Runs
    <3> QED
      BY <3>1, <3>2, <3>3, Zenon
  <2>2. CASE ~(i <= Len(a))
    <3>0. PICK j : j = i - Len(a)
      OBVIOUS
    <3>1. j \in 1..Len(b) /\ f[i] = fb[j] /\ ab[i] = b[j]
      BY <3>0, <2>0, <2>2, <1>0, <1>1, <1>4
    <3>2. f[i - 1] = fb[j - 1]
      <4>1. CASE i - 1 = Len(a)
        <5>1. f[i - 1] = fa[Len(a)] /\ j - 1 = 0
          BY <4>1, <3>0, <2>0, <1>0, <1>4
        <5> QED
          BY <5>1, <1>3 DEF Runs
      <4>2. CASE i - 1 # Len(a)
        <5>1. ~(i - 1 <= Len(a)) /\ (i - 1) - Len(a) = j - 1
          BY <4>2, <3>0, <2>0, <2>2, <1>0
        <5> QED
          BY <5>1, <2>0, <1>4
      <4> QED
        BY <4>1, <4>2
    <3>3. (IF i < Len(ab) THEN ab[i + 1] ELSE next) = (IF j < Len(b) THEN b[j + 1] ELSE next)
      <4>1. i < Len(ab) <=> j < Len(b)
        BY <3>0, <3>1, <2>0, <1>0, <1>1
      <4>2. j < Len(b) => ab[i + 1] = b[j + 1]
        <5>1. SUFFICES ASSUME j < Len(b) PROVE ab[i + 1] = b[j + 1]
          OBVIOUS
        <5>2. i + 1 \in 1..Len(a) + Len(b) /\ ~(i + 1 <= Len(a)) /\ (i + 1) - Len(a) = j + 1
          BY <5>1, <3>0, <3>1, <2>0, <2>2, <1>0
        <5> QED
          BY <5>2, <1>1
      <4> QED
        BY <4>1, <4>2
    <3>4. fb[j] = ReadChar(fb[j - 1], b[j], IF j < Len(b) THEN b[j + 1] ELSE next, d)
      BY <1>3, <3>1, Zenon DEF Runs
    <3> QED
      BY <3>1, <3>2, <3>3, <3>4, Zenon
  <2> QED
    BY <2>1, <2>2
<1>8. Runs(f, r, ab, next, d)
  BY <1>5, <1>7, Zenon DEF Runs
<1>9. ReadOn(r, ab, next, d) = f[Len(ab)]
  BY <1>1, <1>8, ReadIs
<1> QED
  BY <1>1, <1>2, <1>3, <1>6, <1>9

\* One character, and two.
LEMMA ReadOne ==
  ASSUME NEW c \in Characters, NEW r, NEW next, NEW d
  PROVE  ReadOn(r, <<c>>, next, d) = ReadChar(r, c, next, d)
<1>1. <<c>> \in Texts /\ Len(<<c>>) = 1
  BY DEF Texts
<1>2. PICK f : f = [i \in 0..1 |-> IF i = 0 THEN r ELSE ReadChar(r, c, next, d)]
  OBVIOUS
<1>3. f[0] = r /\ f[1] = ReadChar(r, c, next, d)
  BY <1>2
<1>4. \A i \in 1..1 : i = 1 /\ i - 1 = 0 /\ ~(i < 1)
  OBVIOUS
<1>5. \A i \in 1..Len(<<c>>) : f[i] = ReadChar(f[i - 1], <<c>>[i], IF i < Len(<<c>>) THEN <<c>>[i + 1] ELSE next, d)
  BY <1>1, <1>3, <1>4
<1>6. Runs(f, r, <<c>>, next, d)
  BY <1>3, <1>5, Zenon DEF Runs
<1> QED
  BY <1>1, <1>3, <1>6, ReadIs

\* What comes next, before a text that another follows.
Ahead(text, next) == IF text = <<>> THEN next ELSE text[1]

\* Reading no text changes nothing.
LEMMA ReadNone ==
  ASSUME NEW r, NEW next, NEW d
  PROVE  ReadOn(r, <<>>, next, d) = r
<1>1. <<>> \in Texts /\ Len(<<>>) = 0
  BY EmptySeq DEF Texts
<1>2. PICK read : Runs(read, r, <<>>, next, d) /\ ReadOn(r, <<>>, next, d) = read[Len(<<>>)]
  BY <1>1, ReadSteps
<1> QED
  BY <1>1, <1>2 DEF Runs

\* Two texts joined are read one after the other, the first one seeing the start of the second ahead.
LEMMA ReadParts ==
  ASSUME NEW a \in Texts, NEW b \in Texts, NEW r, NEW next, NEW d
  PROVE  /\ a \o b \in Texts
         /\ ReadOn(r, a \o b, next, d) = ReadOn(ReadOn(r, a, Ahead(b, next), d), b, next, d)
<1>1. a \o b \in Texts
  BY ConcatProperties DEF Texts
<1>2. CASE b = <<>>
  <2>1. a \o b = a
    BY <1>2, ConcatEmptySeq DEF Texts
  <2>2. Ahead(b, next) = next
    BY <1>2 DEF Ahead
  <2> QED
    BY <1>1, <1>2, <2>1, <2>2, ReadNone
<1>3. CASE b # <<>>
  <2>1. Ahead(b, next) = b[1]
    BY <1>3 DEF Ahead
  <2>2. ReadOn(r, a \o b, next, d) = ReadOn(ReadOn(r, a, b[1], d), b, next, d)
    BY <1>3, ReadJoined
  <2> QED
    BY <1>1, <2>1, <2>2
<1> QED
  BY <1>2, <1>3

\* Two single characters joined.
LEMMA TwoJoined ==
  ASSUME NEW S, NEW c \in S, NEW e \in S
  PROVE  <<c>> \o <<e>> = <<c, e>>
<1>1. <<c>> \in Seq(S) /\ <<e>> \in Seq(S) /\ Len(<<c>>) = 1 /\ Len(<<e>>) = 1
  OBVIOUS
<1>2. /\ <<c>> \o <<e>> \in Seq(S) /\ Len(<<c>> \o <<e>>) = 2
      /\ \A i \in 1..2 : (<<c>> \o <<e>>)[i] = IF i <= 1 THEN <<c>>[i] ELSE <<e>>[i - 1]
  BY <1>1, ConcatProperties
<1>3. <<c, e>> \in Seq(S) /\ Len(<<c, e>>) = 2 /\ <<c, e>>[1] = c /\ <<c, e>>[2] = e
  OBVIOUS
<1>4. \A i \in 1..2 : (<<c>> \o <<e>>)[i] = <<c, e>>[i]
  BY <1>2, <1>3
<1> QED
  BY <1>2, <1>3, <1>4, SeqEqual

\* Two characters are read one after the other.
LEMMA ReadTwo ==
  ASSUME NEW c \in Characters, NEW e \in Characters, NEW r, NEW next, NEW d
  PROVE  ReadOn(r, <<c, e>>, next, d) = ReadChar(ReadChar(r, c, e, d), e, next, d)
<1>1. <<c>> \in Texts /\ <<e>> \in Texts /\ <<c>> \o <<e>> = <<c, e>>
  BY TwoJoined DEF Texts
<1>2. Ahead(<<e>>, next) = e
  BY DEF Ahead
<1>3. ReadOn(r, <<c>> \o <<e>>, next, d) = ReadOn(ReadOn(r, <<c>>, e, d), <<e>>, next, d)
  BY <1>1, <1>2, ReadParts
<1>4. ReadOn(r, <<c>>, e, d) = ReadChar(r, c, e, d)
  BY ReadOne
<1>5. ReadOn(ReadChar(r, c, e, d), <<e>>, next, d) = ReadChar(ReadChar(r, c, e, d), e, next, d)
  BY ReadOne
<1> QED
  BY <1>1, <1>3, <1>4, <1>5, Zenon

\* The beginnings of a sequence.
LEMMA Beginnings ==
  ASSUME NEW S, NEW s \in Seq(S)
  PROVE  /\ SubSeq(s, 1, 0) = <<>> /\ SubSeq(s, 1, Len(s)) = s /\ Len(s) \in Nat
         /\ \A k \in 1..Len(s) : /\ SubSeq(s, 1, k - 1) \in Seq(S) /\ s[k] \in S
                                 /\ SubSeq(s, 1, k) = Append(SubSeq(s, 1, k - 1), s[k])
<1>1. Len(s) \in Nat /\ \A k \in 1..Len(s) : s[k] \in S
  BY LenProperties, ElementOfSeq
<1>2. SubSeq(s, 1, 0) = <<>> /\ SubSeq(s, 1, Len(s)) = s
  BY SubSeqEmpty, SubSeqFull
<1>3. ASSUME NEW k \in 1..Len(s) PROVE SubSeq(s, 1, k - 1) \in Seq(S) /\ SubSeq(s, 1, k) = Append(SubSeq(s, 1, k - 1), s[k])
  <2>1. 1 \in Int /\ k - 1 \in Int /\ \A i \in 1..k - 1 : s[i] \in S
    BY <1>1
  <2>2. SubSeq(s, 1, k - 1) \in Seq(S)
    BY <2>1, SubSeqProperties
  <2>3. 1 \in 1..Len(s) /\ k \in 1..Len(s)
    BY <1>1
  <2>4. SubSeq(s, 1, k) = SubSeq(s, 1, k - 1) \o <<s[k]>>
    BY <2>3, SubSeqRecursiveSecond
  <2> QED
    BY <1>1, <2>2, <2>4, AppendIsConcat
<1> QED
  BY <1>1, <1>2, <1>3

-----------------------------------------------------------------------------
\* The reader's states: between quoted parts, or within one; and what it treats specially there.
Reader(rows, row, field, quoting, quoted, skip) ==
  [rows |-> rows, row |-> row, field |-> field, quoting |-> quoting, quoted |-> quoted, skip |-> skip]

Between(rows, row, field, quoted) == Reader(rows, row, field, FALSE, quoted, FALSE)
Within(rows, row, field) == Reader(rows, row, field, TRUE, TRUE, FALSE)
Special(d) == {Quote, CR, NewLine, d}

\* Outside quotes, a character that means nothing to the reader is added to the field.
LEMMA PlainChar ==
  ASSUME NEW rows, NEW row, NEW field, NEW quoted, NEW c, NEW after, NEW d, c \notin Special(d)
  PROVE  ReadChar(Between(rows, row, field, quoted), c, after, d) = Between(rows, row, Append(field, c), quoted)
<1>1. PICK no : no = FALSE
  OBVIOUS
<1>2. PICK r : r = Reader(rows, row, field, no, quoted, no)
  OBVIOUS
<1>3. r.field = field /\ r.quoting = no /\ r.skip = no
  BY <1>2 DEF Reader
<1>4. c # Quote /\ c # CR /\ c # NewLine /\ c # d
  BY DEF Special
<1>5. ReadChar(r, c, after, d) = [r EXCEPT !.field = Append(@, c)]
  BY <1>1, <1>3, <1>4 DEF ReadChar
<1>6. PICK y : y = Append(field, c)
  OBVIOUS
<1>7. Append(r.field, c) = y
  BY <1>3, <1>6, Zenon
<1>8. [r EXCEPT !.field = y] = Reader(rows, row, y, no, quoted, no)
  BY <1>2 DEF Reader
<1> QED
  BY <1>1, <1>2, <1>5, <1>6, <1>7, <1>8, Zenon DEF Between


\* A quote at the start of a field opens a quoted field.
LEMMA OpeningQuote ==
  ASSUME NEW rows, NEW row, NEW after, NEW d, d # Quote
  PROVE  ReadChar(Between(rows, row, <<>>, FALSE), Quote, after, d) = Within(rows, row, <<>>)
<1>1. PICK no : no = FALSE
  OBVIOUS
<1>2. PICK yes : yes = TRUE
  OBVIOUS
<1>3. PICK r : r = Reader(rows, row, <<>>, no, no, no)
  OBVIOUS
<1>4. r.field = <<>> /\ r.quoting = no /\ r.skip = no
  BY <1>3 DEF Reader
<1>5. Trim(<<>>) = <<>>
  BY DEF Trim
<1>6. ReadChar(r, Quote, after, d) = [r EXCEPT !.quoting = TRUE, !.quoted = TRUE, !.field = <<>>]
  <2>1. Trim(r.field) = <<>>
    BY <1>4, <1>5, Zenon
  <2>2. Quote # CR /\ Quote # NewLine
    BY DEF Quote, CR, NewLine
  <2> QED
    BY <1>1, <1>4, <2>1, <2>2, Zenon DEF ReadChar
<1>7. [r EXCEPT !.quoting = yes, !.quoted = yes, !.field = <<>>] = Reader(rows, row, <<>>, yes, yes, no)
  <2> DEFINE edited == [k \in DOMAIN r |-> IF k = "field" THEN <<>> ELSE IF k \in {"quoted", "quoting"} THEN yes ELSE r[k]]
  <2>1. [r EXCEPT !.quoting = yes, !.quoted = yes, !.field = <<>>] = edited
    OBVIOUS
  <2>2. Reader(rows, row, <<>>, yes, yes, no) = edited
    BY <1>3 DEF Reader
  <2> QED
    BY <2>1, <2>2
<1> QED
  BY <1>1, <1>2, <1>3, <1>6, <1>7, Zenon DEF Between, Within

\* Inside quotes every character but a quote is added to the field.
LEMMA InnerChar ==
  ASSUME NEW rows, NEW row, NEW field, NEW c, NEW after, NEW d, c # Quote
  PROVE  ReadChar(Within(rows, row, field), c, after, d) = Within(rows, row, Append(field, c))
<1>1. PICK no : no = FALSE
  OBVIOUS
<1>2. PICK yes : yes = TRUE
  OBVIOUS
<1>3. PICK r : r = Reader(rows, row, field, yes, yes, no)
  OBVIOUS
<1>4. r.field = field /\ r.quoting = yes /\ r.skip = no
  BY <1>3 DEF Reader
<1>5. ReadChar(r, c, after, d) = [r EXCEPT !.field = Append(@, c)]
  BY <1>1, <1>2, <1>4 DEF ReadChar
<1>6. PICK y : y = Append(field, c)
  OBVIOUS
<1>7. Append(r.field, c) = y
  BY <1>4, <1>6, Zenon
<1>8. [r EXCEPT !.field = y] = Reader(rows, row, y, yes, yes, no)
  BY <1>3 DEF Reader
<1> QED
  BY <1>1, <1>2, <1>3, <1>5, <1>6, <1>7, <1>8, Zenon DEF Within

\* Inside quotes two quotes add one.
LEMMA InnerQuotes ==
  ASSUME NEW rows, NEW row, NEW field, NEW after, NEW d
  PROVE  ReadChar(ReadChar(Within(rows, row, field), Quote, Quote, d), Quote, after, d) = Within(rows, row,
           Append(field, Quote))
<1>1. PICK no : no = FALSE
  OBVIOUS
<1>2. PICK yes : yes = TRUE
  OBVIOUS
<1>3. PICK r : r = Reader(rows, row, field, yes, yes, no)
  OBVIOUS
<1>4. r.field = field /\ r.quoting = yes /\ r.skip = no
  BY <1>3 DEF Reader
<1>5. ReadChar(r, Quote, Quote, d) = [r EXCEPT !.field = Append(@, Quote), !.skip = TRUE]
  BY <1>1, <1>2, <1>4 DEF ReadChar
<1>6. PICK y : y = Append(field, Quote)
  OBVIOUS
<1>7. Append(r.field, Quote) = y
  BY <1>4, <1>6, Zenon
<1>8. [r EXCEPT !.field = y, !.skip = yes] = Reader(rows, row, y, yes, yes, yes)
  <2> DEFINE edited == [k \in DOMAIN r |-> IF k = "skip" THEN yes ELSE IF k = "field" THEN y ELSE r[k]]
  <2>1. [r EXCEPT !.field = y, !.skip = yes] = edited
    OBVIOUS
  <2>2. Reader(rows, row, y, yes, yes, yes) = edited
    BY <1>3 DEF Reader
  <2> QED
    BY <2>1, <2>2
<1>9. PICK t : t = Reader(rows, row, y, yes, yes, yes)
  OBVIOUS
<1>10. t.skip = yes /\ [t EXCEPT !.skip = no] = Reader(rows, row, y, yes, yes, no)
  BY <1>9 DEF Reader
<1>11. ReadChar(t, Quote, after, d) = [t EXCEPT !.skip = FALSE]
  BY <1>2, <1>10 DEF ReadChar
<1>12. ReadChar(r, Quote, Quote, d) = t
  BY <1>2, <1>5, <1>7, <1>8, <1>9, Zenon
<1>13. r = Within(rows, row, field)
  BY <1>1, <1>2, <1>3, Zenon DEF Within
<1>14. [t EXCEPT !.skip = FALSE] = Within(rows, row, y)
  BY <1>1, <1>2, <1>10, Zenon DEF Within
<1> QED
  BY <1>6, <1>11, <1>12, <1>13, <1>14, Zenon

\* Inside quotes, a quote that no other follows closes the field.
LEMMA ClosingQuote ==
  ASSUME NEW rows, NEW row, NEW field, NEW after, NEW d, after # Quote
  PROVE  ReadChar(Within(rows, row, field), Quote, after, d) = Between(rows, row, field, TRUE)
<1>1. PICK no : no = FALSE
  OBVIOUS
<1>2. PICK yes : yes = TRUE
  OBVIOUS
<1>3. PICK r : r = Reader(rows, row, field, yes, yes, no)
  OBVIOUS
<1>4. r.quoting = yes /\ r.skip = no
  BY <1>3 DEF Reader
<1>5. ReadChar(r, Quote, after, d) = [r EXCEPT !.quoting = FALSE]
  BY <1>1, <1>2, <1>4 DEF ReadChar
<1>6. [r EXCEPT !.quoting = no] = Reader(rows, row, field, no, yes, no)
  BY <1>3 DEF Reader
<1> QED
  BY <1>1, <1>2, <1>3, <1>5, <1>6, Zenon DEF Within, Between

\* The cell is what was in quotes, or what was not without the white space around it.
Told(cell, quoted) == quoted \/ Trim(cell) = cell

\* A delimiter pushes the cell that was read and starts an empty one.
LEMMA FieldPushed ==
  ASSUME NEW rows, NEW row, NEW cell, NEW quoted, Told(cell, quoted)
  PROVE  PushField(Between(rows, row, cell, quoted)) = Between(rows, Append(row, cell), <<>>, FALSE)
<1>1. PICK no : no = FALSE
  OBVIOUS
<1>3. PICK r : r = Reader(rows, row, cell, no, quoted, no)
  OBVIOUS
<1>4. r.row = row /\ r.field = cell /\ r.quoted = quoted
  BY <1>3 DEF Reader
<1>5. (IF r.quoted THEN r.field ELSE Trim(r.field)) = cell
  BY <1>4, Zenon DEF Told
<1>6. PICK y : y = Append(row, cell)
  OBVIOUS
<1>7. PushField(r) = [r EXCEPT !.row = y, !.field = <<>>, !.quoted = FALSE]
  BY <1>4, <1>5, <1>6, Zenon DEF PushField
<1>8. [r EXCEPT !.row = y, !.field = <<>>, !.quoted = no] = Reader(rows, y, <<>>, no, no, no)
  <2> DEFINE edited == [k \in DOMAIN r |-> IF k = "quoted" THEN no ELSE IF k = "field" THEN <<>> ELSE IF k = "row" THEN y
               ELSE r[k]]
  <2>1. [r EXCEPT !.row = y, !.field = <<>>, !.quoted = no] = edited
    OBVIOUS
  <2>2. Reader(rows, y, <<>>, no, no, no) = edited
    BY <1>3 DEF Reader
  <2> QED
    BY <2>1, <2>2
<1> QED
  BY <1>1, <1>3, <1>6, <1>7, <1>8, Zenon DEF Between

\* A line end pushes the row, unless it is an empty line.
LEMMA RowPushed ==
  ASSUME NEW rows, NEW row, NEW cell, NEW quoted, Told(cell, quoted),
         Len(Append(row, cell)) > 1 \/ Append(row, cell)[1] # <<>>
  PROVE  PushRow(Between(rows, row, cell, quoted)) = Between(Append(rows, Append(row, cell)), <<>>, <<>>, FALSE)
<1>1. PICK no : no = FALSE
  OBVIOUS
<1>2. PICK y : y = Append(row, cell)
  OBVIOUS
<1>3. PICK r : r = Reader(rows, y, <<>>, no, no, no)
  OBVIOUS
<1>4. PushField(Between(rows, row, cell, quoted)) = r
  BY <1>1, <1>2, <1>3, FieldPushed, Zenon DEF Between
<1>5. r.row = y /\ r.rows = rows
  BY <1>3 DEF Reader
<1>6. PICK z : z = Append(rows, y)
  OBVIOUS
<1>7. Len(r.row) > 1 \/ r.row[1] # <<>>
  BY <1>2, <1>5, Zenon
<1>8. PushRow(Between(rows, row, cell, quoted)) = [r EXCEPT !.row = <<>>, !.rows = z]
  BY <1>4, <1>5, <1>6, <1>7, Zenon DEF PushRow
<1>9. [r EXCEPT !.row = <<>>, !.rows = z] = Reader(z, <<>>, <<>>, no, no, no)
  <2> DEFINE edited == [k \in DOMAIN r |-> IF k = "rows" THEN z ELSE IF k = "row" THEN <<>> ELSE r[k]]
  <2>1. [r EXCEPT !.row = <<>>, !.rows = z] = edited
    OBVIOUS
  <2>2. Reader(z, <<>>, <<>>, no, no, no) = edited
    BY <1>3 DEF Reader
  <2> QED
    BY <2>1, <2>2
<1> QED
  BY <1>1, <1>2, <1>6, <1>8, <1>9, Zenon DEF Between

\* What the reader does, outside quotes, at a delimiter, a CR and a newline.
LEMMA EndingChars ==
  ASSUME NEW rows, NEW row, NEW cell, NEW quoted, NEW after, NEW d, d \notin {Quote, CR, NewLine}
  PROVE  /\ ReadChar(Between(rows, row, cell, quoted), d, after, d) = PushField(Between(rows, row, cell, quoted))
         /\ ReadChar(Between(rows, row, cell, quoted), CR, after, d) = Between(rows, row, cell, quoted)
         /\ ReadChar(Between(rows, row, cell, quoted), NewLine, after, d) = PushRow(Between(rows, row, cell, quoted))
<1>1. PICK no : no = FALSE
  OBVIOUS
<1>3. PICK r : r = Reader(rows, row, cell, no, quoted, no)
  OBVIOUS
<1>4. r.quoting = no /\ r.skip = no
  BY <1>3 DEF Reader
<1>5. r = Between(rows, row, cell, quoted)
  BY <1>1, <1>3, Zenon DEF Between
<1>6. /\ ReadChar(r, d, after, d) = PushField(r)
      /\ ReadChar(r, CR, after, d) = r
      /\ ReadChar(r, NewLine, after, d) = PushRow(r)
  <2>1. Quote # CR /\ Quote # NewLine /\ CR # NewLine
    BY DEF Quote, CR, NewLine
  <2>5. d # Quote /\ d # CR /\ d # NewLine
    OBVIOUS
  <2>2. ReadChar(r, d, after, d) = PushField(r)
    BY <1>1, <1>4, <2>5, Zenon DEF ReadChar
  <2>3. ReadChar(r, CR, after, d) = r
    BY <1>1, <1>4, <2>1, <2>5, Zenon DEF ReadChar
  <2>4. ReadChar(r, NewLine, after, d) = PushRow(r)
    BY <1>1, <1>4, <2>1, <2>5, Zenon DEF ReadChar
  <2> QED
    BY <2>2, <2>3, <2>4
<1> QED
  BY <1>5, <1>6, Zenon

\* The end of the text pushes the row that was begun, if one was.
LEMMA LastRowIs ==
  ASSUME NEW rows, NEW row, NEW cell, NEW quoted
  PROVE  LastRow(Between(rows, row, cell, quoted)) = IF cell # <<>> \/ row # <<>> THEN PushRow(Between(rows, row, cell, quoted))
                                                     ELSE Between(rows, row, cell, quoted)
<1>1. Between(rows, row, cell, quoted).field = cell /\ Between(rows, row, cell, quoted).row = row
  BY DEF Between, Reader
<1> QED
  BY <1>1, Zenon DEF LastRow

\* A cell that needs no quotes is read as it stands.
LEMMA PlainRead ==
  ASSUME NEW cell \in Texts, NEW d, NEW next, NEW rows, NEW row,
         \A k \in DOMAIN cell : cell[k] \notin Special(d)
  PROVE  ReadOn(Between(rows, row, <<>>, FALSE), cell, next, d) = Between(rows, row, cell, FALSE)
<1>0. /\ SubSeq(cell, 1, 0) = <<>> /\ SubSeq(cell, 1, Len(cell)) = cell /\ Len(cell) \in Nat
      /\ \A k \in 1..Len(cell) : SubSeq(cell, 1, k) = Append(SubSeq(cell, 1, k - 1), cell[k])
  BY Beginnings DEF Texts
<1>1. PICK f : f = [i \in 0..Len(cell) |-> Between(rows, row, SubSeq(cell, 1, i), FALSE)]
  OBVIOUS
<1>2. f[0] = Between(rows, row, <<>>, FALSE) /\ f[Len(cell)] = Between(rows, row, cell, FALSE)
  <2>1. 0 \in 0..Len(cell) /\ Len(cell) \in 0..Len(cell)
    BY <1>0
  <2> QED
    BY <1>0, <1>1, <2>1, Zenon
<1>3. ASSUME NEW i \in 1..Len(cell)
      PROVE  f[i] = ReadChar(f[i - 1], cell[i], IF i < Len(cell) THEN cell[i + 1] ELSE next, d)
  <2>1. f[i] = Between(rows, row, SubSeq(cell, 1, i), FALSE) /\ f[i - 1] = Between(rows, row, SubSeq(cell, 1, i - 1), FALSE)
    <3>1. i \in 0..Len(cell) /\ i - 1 \in 0..Len(cell)
      BY <1>0
    <3> QED
      BY <1>1, <3>1, Zenon
  <2>2. SubSeq(cell, 1, i) = Append(SubSeq(cell, 1, i - 1), cell[i])
    BY <1>0
  <2>3. i \in DOMAIN cell
    BY LenProperties DEF Texts
  <2>5. cell[i] \notin Special(d)
    BY <2>3
  <2>6. ASSUME NEW after
        PROVE  ReadChar(Between(rows, row, SubSeq(cell, 1, i - 1), FALSE), cell[i], after, d)
                 = Between(rows, row, Append(SubSeq(cell, 1, i - 1), cell[i]), FALSE)
    <3>1. PICK no : no = FALSE
      OBVIOUS
    <3>2. ReadChar(Between(rows, row, SubSeq(cell, 1, i - 1), no), cell[i], after, d)
            = Between(rows, row, Append(SubSeq(cell, 1, i - 1), cell[i]), no)
      BY <2>5, PlainChar
    <3> QED
      BY <3>1, <3>2, Zenon
  <2> QED
    BY <2>1, <2>2, <2>6, Zenon
<1>4. Runs(f, Between(rows, row, <<>>, FALSE), cell, next, d)
  BY <1>2, <1>3, Zenon DEF Runs
<1> QED
  BY <1>2, <1>4, ReadIs

\* What stands for a character in quotes.
Doubled(cell) == [k \in DOMAIN cell |-> IF cell[k] = Quote THEN <<Quote, Quote>> ELSE <<cell[k]>>]

\* Doubling the quotes of a cell leaves one piece of text for each of its characters.
LEMMA DoubledIs ==
  ASSUME NEW cell \in Texts
  PROVE  Doubled(cell) \in Seq(Texts) /\ Len(Doubled(cell)) = Len(cell)
<1>1. Quote \in Characters
  BY TablesAssumption
<1>2. DOMAIN cell = 1..Len(cell) /\ Len(cell) \in Nat /\ \A k \in 1..Len(cell) : cell[k] \in Characters
  BY LenProperties, ElementOfSeq DEF Texts
<1>3. \A k \in 1..Len(cell) : Doubled(cell)[k] \in Texts
  BY <1>1, <1>2 DEF Doubled, Texts
<1>4. Doubled(cell) = [k \in 1..Len(cell) |-> Doubled(cell)[k]]
  BY <1>2 DEF Doubled
<1> QED
  BY <1>2, <1>3, <1>4, IsASeq, LenProperties

\* In quotes, what stands for a cell is read as the cell.
LEMMA InnerRead ==
  ASSUME NEW cell \in Texts, NEW d, NEW next, NEW rows, NEW row
  PROVE  /\ FlattenSeq(Doubled(cell)) \in Texts
         /\ ReadOn(Within(rows, row, <<>>), FlattenSeq(Doubled(cell)), next, d) = Within(rows, row, cell)
<1>0. /\ SubSeq(cell, 1, 0) = <<>> /\ SubSeq(cell, 1, Len(cell)) = cell /\ Len(cell) \in Nat
      /\ \A k \in 1..Len(cell) : /\ SubSeq(cell, 1, k) = Append(SubSeq(cell, 1, k - 1), cell[k])
                                 /\ cell[k] \in Characters
  BY Beginnings DEF Texts
<1>1. Doubled(cell) \in Seq(Seq(Characters)) /\ Len(Doubled(cell)) = Len(cell) /\ Quote \in Characters
  BY DoubledIs, TablesAssumption DEF Texts
<1>2. PICK flat : /\ flat \in [0..Len(cell) -> Seq(Characters)] /\ flat[0] = <<>>
                  /\ \A k \in 1..Len(cell) : flat[k] = flat[k - 1] \o Doubled(cell)[k]
                  /\ FlattenSeq(Doubled(cell)) = flat[Len(cell)]
  <2> DEFINE ss == Doubled(cell)
  <2> HIDE DEF ss
  <2>1. ss \in Seq(Seq(Characters)) /\ Len(ss) = Len(cell)
    BY <1>1 DEF ss
  <2>2. \E flat : /\ flat \in [0..Len(ss) -> Seq(Characters)] /\ flat[0] = <<>>
                  /\ \A k \in 1..Len(ss) : flat[k] = flat[k - 1] \o ss[k]
                  /\ FlattenSeq(ss) = flat[Len(ss)]
    BY <2>1, FlattenSteps, Zenon
  <2> QED
    BY <2>1, <2>2, Zenon DEF ss
<1> DEFINE T == {k \in Nat : k <= Len(cell) => \A after : ReadOn(Within(rows, row, <<>>), flat[k], after, d)
                                                            = Within(rows, row, SubSeq(cell, 1, k))}
<1>3. 0 \in T
  BY <1>0, <1>2, ReadNone
<1>4. ASSUME NEW k \in 1..Len(cell), k - 1 \in T PROVE k \in T
  <2>0. k \in Nat /\ k - 1 \in 0..Len(cell) /\ k - 1 <= Len(cell)
    BY <1>0
  <2>1. \A after : ReadOn(Within(rows, row, <<>>), flat[k - 1], after, d) = Within(rows, row, SubSeq(cell, 1, k - 1))
    BY <2>0, <1>4, Zenon
  <2>2. flat[k - 1] \in Texts /\ Doubled(cell)[k] \in Texts /\ flat[k] = flat[k - 1] \o Doubled(cell)[k]
    BY <2>0, <1>1, <1>2, ElementOfSeq DEF Texts
  <2>3. Doubled(cell)[k] = IF cell[k] = Quote THEN <<Quote, Quote>> ELSE <<cell[k]>>
    BY <1>0, LenProperties DEF Doubled, Texts
  <2>4. ASSUME NEW after
        PROVE  ReadOn(Within(rows, row, <<>>), flat[k], after, d) = Within(rows, row, SubSeq(cell, 1, k))
    <3>1. ReadOn(Within(rows, row, <<>>), flat[k], after, d)
            = ReadOn(Within(rows, row, SubSeq(cell, 1, k - 1)), Doubled(cell)[k], after, d)
      BY <2>1, <2>2, ReadParts
    <3>3. CASE cell[k] = Quote
      <4>1. ReadOn(Within(rows, row, SubSeq(cell, 1, k - 1)), <<Quote, Quote>>, after, d)
              = ReadChar(ReadChar(Within(rows, row, SubSeq(cell, 1, k - 1)), Quote, Quote, d), Quote, after, d)
        BY <1>1, ReadTwo
      <4>2. ReadChar(ReadChar(Within(rows, row, SubSeq(cell, 1, k - 1)), Quote, Quote, d), Quote, after, d)
              = Within(rows, row, Append(SubSeq(cell, 1, k - 1), Quote))
        BY InnerQuotes
      <4> QED
        BY <1>0, <2>3, <3>1, <3>3, <4>1, <4>2
    <3>4. CASE cell[k] # Quote
      <4>1. ReadOn(Within(rows, row, SubSeq(cell, 1, k - 1)), <<cell[k]>>, after, d)
              = ReadChar(Within(rows, row, SubSeq(cell, 1, k - 1)), cell[k], after, d)
        BY <1>0, ReadOne
      <4>2. ReadChar(Within(rows, row, SubSeq(cell, 1, k - 1)), cell[k], after, d)
              = Within(rows, row, Append(SubSeq(cell, 1, k - 1), cell[k]))
        BY <3>4, InnerChar
      <4> QED
        BY <1>0, <2>3, <3>1, <3>4, <4>1, <4>2
    <3> QED
      BY <3>3, <3>4
  <2> QED
    BY <2>0, <2>4
<1> HIDE DEF T
<1>5. \A k \in 0..Len(cell) : k \in T
  BY <1>0, <1>3, <1>4, UpTo
<1>6. Len(cell) \in T /\ Len(cell) <= Len(cell) /\ Len(cell) \in 0..Len(cell)
  BY <1>0, <1>5
<1>7. ReadOn(Within(rows, row, <<>>), flat[Len(cell)], next, d) = Within(rows, row, SubSeq(cell, 1, Len(cell)))
  BY <1>6, Zenon DEF T
<1> QED
  BY <1>0, <1>2, <1>6, <1>7 DEF Texts

\* Before the first character of a cell, and after the quotes around one.
Begun(rows, row) == Between(rows, row, <<>>, FALSE)
Closed(rows, row, cell) == Between(rows, row, cell, TRUE)

\* A cell written in quotes is read back, and its field is closed.
LEMMA QuotedRead ==
  ASSUME NEW cell \in Texts, NEW d, d # Quote, NEW next, next # Quote, NEW rows, NEW row
  PROVE  /\ Quoted(cell) \in Texts /\ Quoted(cell) # <<>> /\ Quoted(cell)[1] = Quote
         /\ ReadOn(Begun(rows, row), Quoted(cell), next, d) = Closed(rows, row, cell)
<1> DEFINE inner == FlattenSeq(Doubled(cell))
<1>1. Quote \in Characters
  BY TablesAssumption
<1>2. <<Quote>> \in Texts /\ Ahead(<<Quote>>, next) = Quote
  BY <1>1 DEF Texts, Ahead
<1>3. inner \in Texts /\ \A after : ReadOn(Within(rows, row, <<>>), inner, after, d) = Within(rows, row, cell)
  BY InnerRead
<1>4. Quoted(cell) = <<Quote>> \o inner \o <<Quote>>
  BY DEF Quoted, Doubled
<1> HIDE DEF inner
<1>5. <<Quote>> \o inner \in Texts /\ (<<Quote>> \o inner) \o <<Quote>> \in Texts
  BY <1>2, <1>3, ReadParts
<1>6. Quoted(cell) # <<>> /\ Quoted(cell)[1] = Quote
  <2>1. Len(<<Quote>>) = 1 /\ Len(inner) \in Nat /\ <<Quote>>[1] = Quote
    BY <1>3, LenProperties DEF Texts
  <2>2. /\ Len(<<Quote>> \o inner) = 1 + Len(inner)
        /\ \A i \in 1..1 + Len(inner) : (<<Quote>> \o inner)[i] = IF i <= 1 THEN <<Quote>>[i] ELSE inner[i - 1]
    BY <1>2, <1>3, <2>1, ConcatProperties DEF Texts
  <2>3. (<<Quote>> \o inner)[1] = Quote
    BY <2>1, <2>2
  <2> DEFINE start == <<Quote>> \o inner
  <2> HIDE DEF start
  <2>4. start \in Seq(Characters) /\ <<Quote>> \in Seq(Characters) /\ Len(start) = 1 + Len(inner) /\ start[1] = Quote
    BY <1>2, <1>5, <2>2, <2>3 DEF start, Texts
  <2>5. /\ Len(start \o <<Quote>>) = Len(start) + 1
        /\ \A i \in 1..Len(start) + 1 : (start \o <<Quote>>)[i] = IF i <= Len(start) THEN start[i]
             ELSE <<Quote>>[i - Len(start)]
    BY <2>1, <2>4, ConcatProperties
  <2>6. Len(start \o <<Quote>>) # 0 /\ (start \o <<Quote>>)[1] = Quote
    BY <2>1, <2>4, <2>5
  <2> QED
    BY <1>4, <2>6 DEF start
<1>7. ReadOn(Begun(rows, row), <<Quote>>, Ahead(inner, Quote), d) = Within(rows, row, <<>>)
  <2>1. ReadOn(Begun(rows, row), <<Quote>>, Ahead(inner, Quote), d) = ReadChar(Begun(rows, row), Quote, Ahead(inner, Quote), d)
    BY <1>1, ReadOne
  <2>2. ReadChar(Begun(rows, row), Quote, Ahead(inner, Quote), d) = Within(rows, row, <<>>)
    BY OpeningQuote, Zenon DEF Begun
  <2> QED
    BY <2>1, <2>2, Zenon
<1>8. ReadOn(Begun(rows, row), <<Quote>> \o inner, Quote, d) = Within(rows, row, cell)
  BY <1>2, <1>3, <1>7, ReadParts
<1>9. ReadOn(Within(rows, row, cell), <<Quote>>, next, d) = Closed(rows, row, cell)
  <2>1. ReadOn(Within(rows, row, cell), <<Quote>>, next, d) = ReadChar(Within(rows, row, cell), Quote, next, d)
    BY <1>1, ReadOne
  <2>2. ReadChar(Within(rows, row, cell), Quote, next, d) = Closed(rows, row, cell)
    BY ClosingQuote, Zenon DEF Closed
  <2> QED
    BY <2>1, <2>2, Zenon
<1>10. ReadOn(Begun(rows, row), (<<Quote>> \o inner) \o <<Quote>>, next, d) = Closed(rows, row, cell)
  BY <1>2, <1>5, <1>8, <1>9, ReadParts
<1> QED
  BY <1>4, <1>5, <1>6, <1>10

\* A delimiter that may be used.
Mark(d) == d \in {Delimiters[k] : k \in DOMAIN Delimiters}

\* A delimiter is neither a quote, nor part of a line end, nor the byte order mark.
LEMMA MarkIs ==
  ASSUME NEW d, Mark(d)
  PROVE  d \in Characters /\ d \notin {Quote, CR, NewLine, Bom}
BY DelimitersAssumption, ElementOfSeq, LenProperties DEF Mark

\* Read up to where the cell has been taken in, the row before it held.
CellTaken(read, rows, row, cell) == \E q : Told(cell, q) /\ read = Between(rows, row, cell, q)

\* A cell is read back however it was written.
LEMMA CellRead ==
  ASSUME NEW cell \in Texts, NEW style \in Styles, NEW next, next # Quote, NEW rows, NEW row
  PROVE  /\ WrittenCell(cell, style) \in Texts
         /\ CellTaken(ReadOn(Begun(rows, row), WrittenCell(cell, style), next, style.delimiter), rows, row, cell)
         /\ WrittenCell(cell, style) = <<>> => cell = <<>>
         /\ WrittenCell(cell, style) # <<>> => WrittenCell(cell, style)[1] # Bom
<1>1. Mark(style.delimiter)
  BY DEF Styles, Mark
<1>2. style.delimiter # Quote
  BY <1>1, MarkIs
<1>3. CASE style.quoteAll \/ MustQuote(cell)
  <2>1. WrittenCell(cell, style) = Quoted(cell)
    BY <1>3 DEF WrittenCell
  <2>2. PICK yes : yes = TRUE
    OBVIOUS
  <2>3. Told(cell, yes)
    BY <2>2 DEF Told
  <2>4. ReadOn(Begun(rows, row), Quoted(cell), next, style.delimiter) = Between(rows, row, cell, yes)
    <3>1. ReadOn(Begun(rows, row), Quoted(cell), next, style.delimiter) = Closed(rows, row, cell)
      BY <1>2, QuotedRead
    <3> QED
      BY <3>1, <2>2, Zenon DEF Closed
  <2>5. Quoted(cell) \in Texts /\ Quoted(cell) # <<>> /\ Quoted(cell)[1] = Quote
    BY <1>2, QuotedRead
  <2>6. Quote # Bom
    BY DEF Quote, Bom
  <2> QED
    BY <2>1, <2>3, <2>4, <2>5, <2>6, Zenon DEF CellTaken
<1>4. CASE ~(style.quoteAll \/ MustQuote(cell))
  <2>1. WrittenCell(cell, style) = cell
    BY <1>4 DEF WrittenCell
  <2>2. Trim(cell) = cell /\ \A k \in DOMAIN cell : cell[k] \notin {Quote, CR, NewLine, Bom} /\ cell[k] # style.delimiter
    BY <1>1, <1>4 DEF MustQuote, Has, Mark
  <2>3. \A k \in DOMAIN cell : cell[k] \notin Special(style.delimiter)
    BY <2>2 DEF Special
  <2>4. PICK no : no = FALSE
    OBVIOUS
  <2>5. Told(cell, no)
    BY <2>2 DEF Told
  <2>6. ReadOn(Begun(rows, row), cell, next, style.delimiter) = Between(rows, row, cell, no)
    BY <2>3, <2>4, PlainRead, Zenon DEF Begun
  <2>7. cell # <<>> => cell[1] # Bom
    <3>1. cell # <<>> => 1 \in DOMAIN cell
      BY LenProperties, EmptySeq DEF Texts
    <3> QED
      BY <2>2, <3>1
  <2> QED
    BY <2>1, <2>5, <2>6, <2>7, Zenon DEF CellTaken
<1> QED
  BY <1>3, <1>4

\* A written cell is empty only if the cell is, and never starts with a byte order mark.
LEMMA CellIs ==
  ASSUME NEW cell \in Texts, NEW style \in Styles
  PROVE  /\ WrittenCell(cell, style) \in Texts
         /\ WrittenCell(cell, style) = <<>> => cell = <<>>
         /\ WrittenCell(cell, style) # <<>> => WrittenCell(cell, style)[1] # Bom
<1>1. End # Quote
  BY DEF End, Quote
<1>2. ASSUME NEW next, next # Quote, NEW rows, NEW row
      PROVE  /\ WrittenCell(cell, style) \in Texts
             /\ WrittenCell(cell, style) = <<>> => cell = <<>>
             /\ WrittenCell(cell, style) # <<>> => WrittenCell(cell, style)[1] # Bom
  BY CellRead
<1> QED
  BY <1>1, <1>2, Zenon

\* The first character of two texts joined.
LEMMA JoinedFirst ==
  ASSUME NEW a \in Texts, NEW b \in Texts
  PROVE  /\ a # <<>> => a \o b # <<>> /\ (a \o b)[1] = a[1]
         /\ a = <<>> => a \o b = b
<1>1. Len(a) \in Nat /\ Len(b) \in Nat
  BY LenProperties DEF Texts
<1>2. /\ Len(a \o b) = Len(a) + Len(b)
      /\ \A i \in 1..Len(a) + Len(b) : (a \o b)[i] = IF i <= Len(a) THEN a[i] ELSE b[i - Len(a)]
  BY <1>1, ConcatProperties DEF Texts
<1>3. ASSUME a # <<>> PROVE a \o b # <<>> /\ (a \o b)[1] = a[1]
  <2>1. Len(a) # 0
    BY <1>3, EmptySeq DEF Texts
  <2>2. Len(a \o b) # 0 /\ 1 \in 1..Len(a) + Len(b) /\ 1 <= Len(a)
    BY <2>1, <1>1, <1>2
  <2>3. (a \o b)[1] = a[1]
    BY <2>2, <1>2
  <2>4. Len(<<>>) = 0
    BY EmptySeq
  <2> QED
    BY <2>2, <2>3, <2>4
<1>4. a = <<>> => a \o b = b
  BY ConcatEmptySeq DEF Texts
<1> QED
  BY <1>3, <1>4

\* A delimiter ends the cell before it.
LEMMA PartRead ==
  ASSUME NEW a \in Texts, NEW cell \in Texts, NEW style \in Styles, NEW next, next # Quote, NEW r,
         NEW rows, NEW row, NEW prev, CellTaken(ReadOn(r, a, style.delimiter, style.delimiter), rows, row, prev)
  PROVE  CellTaken(ReadOn(r, a \o (<<style.delimiter>> \o WrittenCell(cell, style)), next, style.delimiter),
                   rows, Append(row, prev), cell)
<1> DEFINE d == style.delimiter
           w == WrittenCell(cell, style)
<1>1. d \in Characters /\ d \notin {Quote, CR, NewLine}
  BY MarkIs DEF Styles, Mark
<1>2. w \in Texts /\ <<d>> \in Texts
  BY <1>1, CellIs DEF Texts
<1>3. CellTaken(ReadOn(Begun(rows, Append(row, prev)), w, next, d), rows, Append(row, prev), cell)
  BY CellRead, Zenon
<1>0. PICK q : Told(prev, q) /\ ReadOn(r, a, d, d) = Between(rows, row, prev, q)
  BY Zenon DEF CellTaken
<1> HIDE DEF d, w
<1>4. <<d>> \o w \in Texts /\ ReadOn(Between(rows, row, prev, q), <<d>> \o w, next, d)
                                = ReadOn(ReadOn(Between(rows, row, prev, q), <<d>>, Ahead(w, next), d), w, next, d)
  BY <1>2, ReadParts
<1>5. ReadOn(Between(rows, row, prev, q), <<d>>, Ahead(w, next), d) = ReadChar(Between(rows, row, prev, q), d,
        Ahead(w, next), d)
  BY <1>1, ReadOne
<1>6. ReadChar(Between(rows, row, prev, q), d, Ahead(w, next), d) = PushField(Between(rows, row, prev, q))
  BY <1>1, EndingChars, Zenon
<1>7. PushField(Between(rows, row, prev, q)) = Begun(rows, Append(row, prev))
  BY <1>0, FieldPushed, Zenon DEF Begun
<1>8. Ahead(<<d>> \o w, next) = d
  <2>1. <<d>> # <<>> /\ <<d>>[1] = d
    OBVIOUS
  <2> QED
    BY <1>2, <2>1, JoinedFirst DEF Ahead
<1>9. ReadOn(r, a \o (<<d>> \o w), next, d) = ReadOn(ReadOn(r, a, d, d), <<d>> \o w, next, d)
  BY <1>4, <1>8, ReadParts
<1>10. ReadOn(r, a \o (<<d>> \o w), next, d) = ReadOn(Begun(rows, Append(row, prev)), w, next, d)
  BY <1>0, <1>4, <1>5, <1>6, <1>7, <1>9, Zenon
<1> QED
  BY <1>3, <1>10, Zenon DEF d, w

\* The cells of a row as they are written.
PartsOf(row, style) == [k \in DOMAIN row |-> (IF k = 1 THEN <<>> ELSE <<style.delimiter>>) \o WrittenCell(row[k], style)]

\* The pieces of a written row: the cells, each but the first after a delimiter.
LEMMA PartsAre ==
  ASSUME NEW row \in Seq(Seq(Characters)), NEW style \in Styles
  PROVE  /\ PartsOf(row, style) \in Seq(Seq(Characters)) /\ Len(PartsOf(row, style)) = Len(row) /\ Len(row) \in Nat
         /\ \A k \in 1..Len(row) : PartsOf(row, style)[k] = IF k = 1 THEN WrittenCell(row[k], style)
                                                          ELSE <<style.delimiter>> \o WrittenCell(row[k], style)
<1>1. DOMAIN row = 1..Len(row) /\ Len(row) \in Nat /\ \A k \in 1..Len(row) : row[k] \in Texts
  BY LenProperties, ElementOfSeq DEF Texts
<1>2. Mark(style.delimiter)
  BY DEF Styles, Mark
<1>3. <<style.delimiter>> \in Texts
  BY <1>2, MarkIs DEF Texts
<1>5. \A k \in 1..Len(row) : WrittenCell(row[k], style) \in Texts
  BY <1>1, CellIs
<1>6. ASSUME NEW k \in 1..Len(row)
      PROVE  /\ PartsOf(row, style)[k] = IF k = 1 THEN WrittenCell(row[k], style)
                                       ELSE <<style.delimiter>> \o WrittenCell(row[k], style)
             /\ PartsOf(row, style)[k] \in Seq(Characters)
  <2>1. PartsOf(row, style)[k] = (IF k = 1 THEN <<>> ELSE <<style.delimiter>>) \o WrittenCell(row[k], style)
    BY <1>1 DEF PartsOf
  <2>2. <<>> \o WrittenCell(row[k], style) = WrittenCell(row[k], style)
    BY <1>5, ConcatEmptySeq DEF Texts
  <2>3. <<style.delimiter>> \o WrittenCell(row[k], style) \in Texts
    BY <1>3, <1>5, ConcatProperties DEF Texts
  <2> QED
    BY <1>5, <2>1, <2>2, <2>3 DEF Texts
<1>7. PartsOf(row, style) = [k \in 1..Len(row) |-> PartsOf(row, style)[k]]
  BY <1>1 DEF PartsOf
<1> QED
  BY <1>1, <1>6, <1>7, IsASeq, LenProperties

\* A row is read as the cells it has.
LEMMA RowRead ==
  ASSUME NEW row \in Rows, NEW style \in Styles, NEW rows
  PROVE  /\ WrittenRow(row, style) \in Texts
         /\ WrittenRow(row, style) # <<>> /\ WrittenRow(row, style)[1] # Bom
         /\ \A next : next # Quote => CellTaken(ReadOn(Begun(rows, <<>>), WrittenRow(row, style), next, style.delimiter),
                                                rows, SubSeq(row, 1, Len(row) - 1), row[Len(row)])
<1> DEFINE n == Len(row)
           d == style.delimiter
           W(k) == WrittenCell(row[k], style)
<1>0. /\ row \in Seq(Seq(Characters)) /\ n \in Nat /\ n > 0
      /\ SubSeq(row, 1, 0) = <<>>
      /\ \A k \in 1..n : row[k] \in Texts /\ SubSeq(row, 1, k) = Append(SubSeq(row, 1, k - 1), row[k])
  <2>1. row \in Seq(Seq(Characters)) /\ row # <<>>
    BY DEF Rows
  <2> QED
    BY <2>1, Beginnings, EmptySeq, LenProperties DEF Texts
<1>1. d \in Characters /\ d # Quote /\ d # Bom
  BY MarkIs DEF Styles, Mark
<1>2. \A k \in 1..n : /\ W(k) \in Texts
                      /\ W(k) = <<>> => row[k] = <<>>
                      /\ W(k) # <<>> => W(k)[1] # Bom
  BY <1>0, CellIs
<1>3. PICK flat : /\ flat \in [0..n -> Seq(Characters)] /\ flat[0] = <<>>
                  /\ \A k \in 1..n : flat[k] = flat[k - 1] \o (IF k = 1 THEN W(k) ELSE <<d>> \o W(k))
                  /\ WrittenRow(row, style) = flat[n]
  <2> DEFINE ss == PartsOf(row, style)
  <2> HIDE DEF ss
  <2>1. ss \in Seq(Seq(Characters)) /\ Len(ss) = n /\ \A k \in 1..n : ss[k] = IF k = 1 THEN W(k) ELSE <<d>> \o W(k)
    BY <1>0, PartsAre DEF ss
  <2>2. \E flat : /\ flat \in [0..Len(ss) -> Seq(Characters)] /\ flat[0] = <<>>
                  /\ \A k \in 1..Len(ss) : flat[k] = flat[k - 1] \o ss[k]
                  /\ FlattenSeq(ss) = flat[Len(ss)]
    BY <2>1, FlattenSteps, Zenon
  <2>3. WrittenRow(row, style) = FlattenSeq(ss)
    BY Zenon DEF WrittenRow, PartsOf, ss
  <2> QED
    BY <2>1, <2>2, <2>3, ZenonT(60)
<1> DEFINE Read(k) == \A next : next # Quote => CellTaken(ReadOn(Begun(rows, <<>>), flat[k], next, d),
                                                          rows, SubSeq(row, 1, k - 1), row[k])
           Begins(k) == IF flat[k] = <<>> THEN k = 1 /\ row[k] = <<>> ELSE flat[k][1] # Bom
           T == {k \in Nat : k <= n /\ k # 0 => Read(k) /\ Begins(k)}
<1>4. 0 \in T
  OBVIOUS
<1>5. ASSUME NEW k \in 1..n, k - 1 \in T PROVE k \in T
  <2>0. k \in Nat /\ k - 1 \in 0..n /\ k - 1 <= n /\ flat[k - 1] \in Texts
    <3>1. k \in Nat /\ k - 1 \in 0..n /\ k - 1 <= n
      BY <1>0
    <3> QED
      BY <3>1, <1>3, Zenon DEF Texts
  <2>1. CASE k = 1
    <3>1. flat[k] = W(k)
      <4>1. k - 1 = 0 /\ flat[k] = flat[k - 1] \o W(k)
        <5>1. flat[k] = flat[k - 1] \o (IF k = 1 THEN W(k) ELSE <<d>> \o W(k))
          BY <1>3
        <5> QED
          BY <5>1, <2>1
      <4>2. <<>> \o W(k) = W(k)
        BY <1>2, ConcatEmptySeq DEF Texts
      <4> QED
        BY <4>1, <4>2, <1>3
    <3>2. ASSUME NEW next, next # Quote
          PROVE  CellTaken(ReadOn(Begun(rows, <<>>), flat[k], next, d), rows, SubSeq(row, 1, k - 1), row[k])
      <4>1. CellTaken(ReadOn(Begun(rows, <<>>), W(k), next, d), rows, <<>>, row[k])
        <5>1. k \in 1..n /\ row[k] \in Texts
          BY <1>0
        <5> QED
          BY <5>1, <3>2, CellRead, Zenon
      <4>2. SubSeq(row, 1, k - 1) = <<>>
        BY <2>1, <1>0
      <4> QED
        BY <3>1, <4>1, <4>2, Zenon
    <3>3. Begins(k)
      BY <2>1, <3>1, <1>2
    <3> QED
      BY <2>0, <3>2, <3>3, Zenon
  <2>2. CASE k # 1
    <3>0. k - 1 # 0 /\ k - 1 \in 1..n /\ (k - 1) - 1 = k - 2
      BY <2>0, <2>2
    <3>1. Read(k - 1) /\ Begins(k - 1)
      BY <2>0, <3>0, <1>5, Zenon
    <3>2. flat[k] = flat[k - 1] \o (<<d>> \o W(k))
      BY <2>2, <1>3
    <3>3. ASSUME NEW next, next # Quote
          PROVE  CellTaken(ReadOn(Begun(rows, <<>>), flat[k], next, d), rows, SubSeq(row, 1, k - 1), row[k])
      <4>1. CellTaken(ReadOn(Begun(rows, <<>>), flat[k - 1], d, d), rows, SubSeq(row, 1, (k - 1) - 1), row[k - 1])
        BY <3>1, <1>1, Zenon
      <4>2. Append(SubSeq(row, 1, (k - 1) - 1), row[k - 1]) = SubSeq(row, 1, k - 1)
        BY <3>0, <1>0
      <4>3. CellTaken(ReadOn(Begun(rows, <<>>), flat[k - 1] \o (<<d>> \o W(k)), next, d),
                      rows, Append(SubSeq(row, 1, (k - 1) - 1), row[k - 1]), row[k])
        <5>1. row[k] \in Texts /\ flat[k - 1] \in Texts
          BY <2>0, <1>0
        <5> QED
          BY <4>1, <5>1, <3>3, PartRead, Zenon
      <4> QED
        BY <3>2, <4>2, <4>3, Zenon
    <3>4. Begins(k)
      <4>1. <<d>> \o W(k) \in Texts /\ <<d>> \o W(k) # <<>> /\ (<<d>> \o W(k))[1] = d
        <5>1. <<d>> \in Texts /\ <<d>> # <<>> /\ <<d>>[1] = d
          BY <1>1 DEF Texts
        <5> QED
          BY <5>1, <1>2, JoinedFirst, ReadParts
      <4>2. CASE flat[k - 1] = <<>>
        BY <4>1, <4>2, <3>2, <2>0, <1>1, JoinedFirst
      <4>3. CASE flat[k - 1] # <<>>
        <5>1. flat[k - 1][1] # Bom
          BY <4>3, <3>1
        <5>2. flat[k] # <<>> /\ flat[k][1] = flat[k - 1][1]
          BY <4>1, <4>3, <3>2, <2>0, JoinedFirst
        <5> QED
          BY <5>1, <5>2
      <4> QED
        BY <4>2, <4>3
    <3> QED
      BY <2>0, <3>3, <3>4, Zenon
  <2> QED
    BY <2>1, <2>2
<1> HIDE DEF T
<1>6. \A k \in 0..n : k \in T
  BY <1>0, <1>4, <1>5, UpTo
<1>7. n \in T /\ n <= n /\ n # 0 /\ n \in 0..n
  BY <1>0, <1>6
<1>8. Read(n) /\ Begins(n)
  BY <1>7, Zenon DEF T
<1>9. flat[n] # <<>> /\ flat[n][1] # Bom
  <2>1. ~(n = 1 /\ row[n] = <<>>)
    <3>1. SUFFICES ASSUME n = 1, row[1] = <<>> PROVE row = <<<<>>>>
      BY Zenon DEF Rows
    <3>2. <<<<>>>> \in Seq(Seq(Characters)) /\ Len(<<<<>>>>) = 1 /\ <<<<>>>>[1] = <<>>
      OBVIOUS
    <3>3. \A i \in 1..Len(row) : row[i] = <<<<>>>>[i]
      BY <3>1, <3>2
    <3> QED
      BY <3>1, <3>2, <3>3, <1>0, SeqEqual
  <2> QED
    BY <1>8, <2>1
<1> QED
  BY <1>3, <1>7, <1>8, <1>9, Zenon DEF Texts

\* A row that a file may hold: its last cell, the cells before it, and that it is not an empty line.
LEMMA RowIs ==
  ASSUME NEW row \in Rows
  PROVE  /\ row \in Seq(Seq(Characters)) /\ Len(row) \in Nat /\ Len(row) > 0
         /\ Append(SubSeq(row, 1, Len(row) - 1), row[Len(row)]) = row
         /\ Len(row) > 1 \/ row[1] # <<>>
         /\ row[Len(row)] # <<>> \/ SubSeq(row, 1, Len(row) - 1) # <<>>
<1>1. row \in Seq(Seq(Characters)) /\ row # <<>> /\ row # <<<<>>>>
  BY DEF Rows
<1>2. Len(row) \in Nat /\ Len(row) > 0
  BY <1>1, LenProperties, EmptySeq
<1>3. SubSeq(row, 1, Len(row)) = row /\ Len(row) \in 1..Len(row)
  BY <1>1, <1>2, Beginnings
<1>4. Append(SubSeq(row, 1, Len(row) - 1), row[Len(row)]) = row
  BY <1>1, <1>3, Beginnings
<1>5. ASSUME Len(row) = 1, row[1] = <<>> PROVE FALSE
  <2>1. <<<<>>>> \in Seq(Seq(Characters)) /\ Len(<<<<>>>>) = 1 /\ <<<<>>>>[1] = <<>>
    OBVIOUS
  <2>2. \A i \in 1..Len(row) : row[i] = <<<<>>>>[i]
    BY <1>5, <2>1
  <2> QED
    BY <1>1, <1>5, <2>1, <2>2, SeqEqual
<1>6. Len(row) > 1 \/ row[1] # <<>>
  <2>0. \A n \in Nat : n > 0 => n > 1 \/ n = 1
    OBVIOUS
  <2>1. Len(row) > 1 \/ Len(row) = 1
    BY <1>2, <2>0, Zenon
  <2> QED
    BY <2>1, <1>5, Zenon
<1>7. ASSUME SubSeq(row, 1, Len(row) - 1) = <<>>, row[Len(row)] = <<>> PROVE FALSE
  <2>1. \A i \in 1..Len(row) - 1 : row[i] \in Seq(Characters)
    BY <1>1, <1>2, ElementOfSeq
  <2>0. \A n \in Nat : n > 0 => n > 1 \/ n = 1
    OBVIOUS
  <2>2. Len(row) > 1
    <3>1. SUFFICES ASSUME Len(row) = 1 PROVE FALSE
      BY <1>2, <2>0, Zenon
    <3> QED
      BY <1>5, <1>7, <3>1
  <2>3. 1 \in Int /\ Len(row) - 1 \in Int /\ 1 <= Len(row) - 1
    BY <1>2, <2>2
  <2>4. Len(SubSeq(row, 1, Len(row) - 1)) = ((Len(row) - 1) - 1) + 1
    BY <2>1, <2>3, SubSeqProperties
  <2>5. Len(<<>>) = 0
    BY EmptySeq
  <2> QED
    BY <2>3, <2>4, <2>5, <1>7
<1> QED
  BY <1>1, <1>2, <1>4, <1>6, <1>7

\* A row ends with its last cell.
LEMMA RowEnded ==
  ASSUME NEW row \in Rows, NEW rows, NEW read, CellTaken(read, rows, SubSeq(row, 1, Len(row) - 1), row[Len(row)])
  PROVE  /\ PushRow(read) = Begun(Append(rows, row), <<>>)
         /\ LastRow(read) = Begun(Append(rows, row), <<>>)
         /\ \A style \in Styles : \A next : ReadOn(read, LineEnd(style), next, style.delimiter) = Begun(Append(rows, row), <<>>)
<1> DEFINE before == SubSeq(row, 1, Len(row) - 1)
           cell == row[Len(row)]
<1>1. PICK q : Told(cell, q) /\ read = Between(rows, before, cell, q)
  BY Zenon DEF CellTaken
<1>2. Append(before, cell) = row /\ (Len(row) > 1 \/ row[1] # <<>>) /\ (cell # <<>> \/ before # <<>>)
  BY RowIs
<1> HIDE DEF before, cell
<1>3. PushRow(read) = Begun(Append(rows, row), <<>>)
  <2>1. Len(Append(before, cell)) > 1 \/ Append(before, cell)[1] # <<>>
    BY <1>2, Zenon
  <2>2. PushRow(Between(rows, before, cell, q)) = Between(Append(rows, Append(before, cell)), <<>>, <<>>, FALSE)
    BY <1>1, <2>1, RowPushed, Zenon
  <2> QED
    BY <1>1, <1>2, <2>2, Zenon DEF Begun
<1>4. LastRow(read) = PushRow(read)
  BY <1>1, <1>2, LastRowIs, ZenonT(60)
<1>5. ASSUME NEW style \in Styles, NEW next
      PROVE  ReadOn(read, LineEnd(style), next, style.delimiter) = PushRow(read)
  <2> DEFINE d == style.delimiter
  <2>1. d \notin {Quote, CR, NewLine} /\ CR \in Characters /\ NewLine \in Characters
    BY MarkIs, TablesAssumption DEF Styles, Mark
  <2> HIDE DEF d
  <2>2. ASSUME NEW after PROVE ReadChar(read, CR, after, d) = read /\ ReadChar(read, NewLine, after, d) = PushRow(read)
    BY <1>1, <2>1, EndingChars, Zenon
  <2>3. CASE style.crlf
    <3>1. LineEnd(style) = <<CR, NewLine>>
      BY <2>3 DEF LineEnd
    <3>2. ReadOn(read, <<CR, NewLine>>, next, d) = ReadChar(ReadChar(read, CR, NewLine, d), NewLine, next, d)
      BY <2>1, ReadTwo
    <3> QED
      BY <3>1, <3>2, <2>2, Zenon DEF d
  <2>4. CASE ~style.crlf
    <3>1. LineEnd(style) = <<NewLine>>
      BY <2>4 DEF LineEnd
    <3>2. ReadOn(read, <<NewLine>>, next, d) = ReadChar(read, NewLine, next, d)
      BY <2>1, ReadOne
    <3> QED
      BY <3>1, <3>2, <2>2, Zenon DEF d
  <2> QED
    BY <2>3, <2>4
<1> QED
  BY <1>3, <1>4, <1>5, Zenon

\* A line end is not empty and does not start with a quote.
LEMMA LineEndIs ==
  ASSUME NEW style \in Styles
  PROVE  LineEnd(style) \in Texts /\ LineEnd(style) # <<>> /\ LineEnd(style)[1] # Quote
<1>1. CR \in Characters /\ NewLine \in Characters /\ CR # Quote /\ NewLine # Quote
  BY TablesAssumption DEF CR, NewLine, Quote
<1>2. <<CR, NewLine>> \in Texts /\ <<NewLine>> \in Texts
  BY <1>1 DEF Texts
<1>3. <<CR, NewLine>> # <<>> /\ <<NewLine>> # <<>> /\ <<CR, NewLine>>[1] = CR /\ <<NewLine>>[1] = NewLine
  OBVIOUS
<1> QED
  BY <1>1, <1>2, <1>3 DEF LineEnd

\* A line is read as its row, whatever follows.
LEMMA LineRead ==
  ASSUME NEW row \in Rows, NEW style \in Styles, NEW rows, NEW next
  PROVE  ReadOn(Begun(rows, <<>>), WrittenRow(row, style) \o LineEnd(style), next,
           style.delimiter) = Begun(Append(rows, row), <<>>)
<1> DEFINE w == WrittenRow(row, style)
           e == LineEnd(style)
           d == style.delimiter
<1>1. w \in Texts /\ e \in Texts /\ e # <<>> /\ e[1] # Quote
  BY RowRead, LineEndIs
<1>2. CellTaken(ReadOn(Begun(rows, <<>>), w, e[1], d), rows, SubSeq(row, 1, Len(row) - 1), row[Len(row)])
  BY <1>1, RowRead, Zenon
<1>3. ReadOn(ReadOn(Begun(rows, <<>>), w, e[1], d), e, next, d) = Begun(Append(rows, row), <<>>)
  BY <1>2, RowEnded, Zenon
<1> HIDE DEF w, e, d
<1>4. ReadOn(Begun(rows, <<>>), w \o e, next, d) = ReadOn(ReadOn(Begun(rows, <<>>), w, e[1], d), e, next, d)
  BY <1>1, ReadJoined
<1> QED
  BY <1>3, <1>4 DEF w, e, d

\* The lines of a written file: the written rows, each ended but perhaps the last.
LEMMA LinesAre ==
  ASSUME NEW rows \in Seq(Rows), NEW style \in Styles
  PROVE  /\ Lines(rows, style) \in Seq(Seq(Characters)) /\ Len(Lines(rows, style)) = Len(rows) /\ Len(rows) \in Nat
         /\ \A k \in 1..Len(rows) :
              /\ rows[k] \in Rows
              /\ Lines(rows, style)[k] # <<>> /\ Lines(rows, style)[k][1] # Bom
              /\ Lines(rows, style)[k] = IF k = Len(rows) /\ ~style.lastEnds THEN WrittenRow(rows[k], style)
                                         ELSE WrittenRow(rows[k], style) \o LineEnd(style)
<1>1. DOMAIN rows = 1..Len(rows) /\ Len(rows) \in Nat /\ \A k \in 1..Len(rows) : rows[k] \in Rows
  BY LenProperties, ElementOfSeq
<1>2. ASSUME NEW k \in 1..Len(rows)
      PROVE  /\ Lines(rows, style)[k] \in Seq(Characters) /\ Lines(rows, style)[k] # <<>> /\ Lines(rows, style)[k][1] # Bom
             /\ Lines(rows, style)[k] = IF k = Len(rows) /\ ~style.lastEnds THEN WrittenRow(rows[k], style)
                                        ELSE WrittenRow(rows[k], style) \o LineEnd(style)
  <2> DEFINE w == WrittenRow(rows[k], style)
             e == LineEnd(style)
  <2>1. Lines(rows, style)[k] = w \o (IF k = Len(rows) /\ ~style.lastEnds THEN <<>> ELSE e)
    BY <1>1 DEF Lines
  <2>2. w \in Texts /\ w # <<>> /\ w[1] # Bom /\ e \in Texts
    BY <1>1, RowRead, LineEndIs
  <2> HIDE DEF w, e
  <2>3. w \o <<>> = w /\ w \o e \in Texts /\ w \o e # <<>> /\ (w \o e)[1] # Bom
    BY <2>2, ConcatEmptySeq, JoinedFirst, ReadParts DEF Texts
  <2>4. Lines(rows, style)[k] = IF k = Len(rows) /\ ~style.lastEnds THEN w ELSE w \o e
    BY <2>1, <2>3, Zenon
  <2>5. Lines(rows, style)[k] \in Seq(Characters) /\ Lines(rows, style)[k] # <<>> /\ Lines(rows, style)[k][1] # Bom
    BY <2>2, <2>3, <2>4, Zenon DEF Texts
  <2> QED
    BY <2>4, <2>5, Zenon DEF w, e
<1>3. Lines(rows, style) = [k \in 1..Len(rows) |-> Lines(rows, style)[k]]
  BY <1>1 DEF Lines
<1>4. Lines(rows, style) \in Seq(Seq(Characters)) /\ Len(Lines(rows, style)) = Len(rows)
  <2> DEFINE ls == Lines(rows, style)
  <2> HIDE DEF ls
  <2>1. ls = [k \in 1..Len(rows) |-> ls[k]] /\ \A k \in 1..Len(rows) : ls[k] \in Seq(Characters)
    BY <1>2, <1>3 DEF ls
  <2> QED
    BY <1>1, <2>1, IsASeq, LenProperties DEF ls
<1> QED
  BY <1>1, <1>2, <1>4, Zenon

\* A byte order mark is all that StripBom takes.
LEMMA Stripped ==
  ASSUME NEW text \in Texts, text # <<>> => text[1] # Bom
  PROVE  StripBom(text) = text /\ StripBom(<<>> \o text) = text /\ StripBom(<<Bom>> \o text) = text
<1>1. StripBom(text) = text
  BY DEF StripBom
<1>2. <<>> \o text = text
  BY ConcatEmptySeq DEF Texts
<1>3. <<Bom>> \in Seq(Characters) /\ Len(<<Bom>>) = 1 /\ <<Bom>>[1] = Bom /\ text \in Seq(Characters) /\ Len(text) \in Nat
  BY TablesAssumption, LenProperties DEF Texts
<1> DEFINE t == <<Bom>> \o text
<1> HIDE DEF t
<1>4. t \in Seq(Characters) /\ Len(t) = 1 + Len(text) /\ \A i \in 1..1 + Len(text) : t[i] = IF i <= 1 THEN <<Bom>>[i]
        ELSE text[i - 1]
  BY <1>3, ConcatProperties DEF t
<1>5. t # <<>> /\ Head(t) = Bom
  <2>1. Len(t) # 0 /\ t[1] = Bom /\ Len(<<>>) = 0
    BY <1>3, <1>4, EmptySeq
  <2> QED
    BY <2>1, <1>4
<1>6. Tail(t) = text
  <2>1. /\ Tail(t) \in Seq(Characters) /\ Len(Tail(t)) = Len(text)
        /\ \A i \in 1..Len(Tail(t)) : Tail(t)[i] = t[i + 1]
    BY <1>3, <1>4, <1>5, HeadTailProperties
  <2>2. \A i \in 1..Len(Tail(t)) : Tail(t)[i] = text[i]
    BY <1>3, <1>4, <2>1
  <2> QED
    BY <1>3, <2>1, <2>2, SeqEqual
<1>7. StripBom(t) = text
  BY <1>5, <1>6 DEF StripBom
<1> QED
  BY <1>1, <1>2, <1>7 DEF t

\* What is written is read: for every table of rows, in any of the styles.
LEMMA WrittenIsRead ==
  ASSUME NEW rows \in Seq(Rows), NEW style \in Styles
  PROVE  CsvText(rows, style) \in Texts /\ ParseCsv(CsvText(rows, style), style.delimiter) = rows
<1> DEFINE n == Len(rows)
           d == style.delimiter
           L(k) == Lines(rows, style)[k]
<1>1. n \in Nat /\ SubSeq(rows, 1, 0) = <<>> /\ SubSeq(rows, 1, n) = rows
  BY Beginnings
<1>2. \A k \in 1..n : /\ rows[k] \in Rows /\ L(k) \in Texts /\ L(k) # <<>> /\ L(k)[1] # Bom
                      /\ L(k) = IF k = n /\ ~style.lastEnds THEN WrittenRow(rows[k], style)
                                ELSE WrittenRow(rows[k], style) \o LineEnd(style)
                      /\ SubSeq(rows, 1, k) = Append(SubSeq(rows, 1, k - 1), rows[k])
  BY LinesAre, Beginnings, ElementOfSeq DEF Texts
<1>3. PICK flat : /\ flat \in [0..n -> Seq(Characters)] /\ flat[0] = <<>>
                  /\ \A k \in 1..n : flat[k] = flat[k - 1] \o L(k)
                  /\ FlattenSeq(Lines(rows, style)) = flat[n]
  <2> DEFINE ss == Lines(rows, style)
  <2> HIDE DEF ss
  <2>1. ss \in Seq(Seq(Characters)) /\ Len(ss) = n
    BY LinesAre DEF ss
  <2>2. \E flat : /\ flat \in [0..Len(ss) -> Seq(Characters)] /\ flat[0] = <<>>
                  /\ \A k \in 1..Len(ss) : flat[k] = flat[k - 1] \o ss[k]
                  /\ FlattenSeq(ss) = flat[Len(ss)]
    BY <2>1, FlattenSteps, Zenon
  <2> QED
    BY <2>1, <2>2, Zenon DEF ss
<1> HIDE DEF L
<1> DEFINE Start == Begun(<<>>, <<>>)
           Read(k) == k < n \/ style.lastEnds => \A next : ReadOn(Start, flat[k], next, d) = Begun(SubSeq(rows, 1, k), <<>>)
           T == {k \in Nat : k <= n => Read(k) /\ (flat[k] # <<>> => flat[k][1] # Bom)}
<1>4. 0 \in T
  <2>1. \A next : ReadOn(Start, flat[0], next, d) = Begun(SubSeq(rows, 1, 0), <<>>)
    BY <1>1, <1>3, ReadNone, Zenon
  <2> QED
    BY <2>1, <1>3, Zenon
<1>5. ASSUME NEW k \in 1..n, k - 1 \in T PROVE k \in T
  <2>0. k \in Nat /\ k - 1 \in 0..n /\ k - 1 <= n /\ k - 1 < n
    BY <1>1
  <2>1. Read(k - 1) /\ (flat[k - 1] # <<>> => flat[k - 1][1] # Bom)
    BY <2>0, <1>5, Zenon
  <2>2. flat[k - 1] \in Texts /\ flat[k] = flat[k - 1] \o L(k)
    BY <2>0, <1>3, Zenon DEF Texts
  <2>3. ASSUME k < n \/ style.lastEnds, NEW next
        PROVE  ReadOn(Start, flat[k], next, d) = Begun(SubSeq(rows, 1, k), <<>>)
    <3>1. ReadOn(Start, flat[k], next, d) = ReadOn(ReadOn(Start, flat[k - 1], Ahead(L(k), next), d), L(k), next, d)
      BY <1>2, <2>2, ReadParts
    <3>2. ReadOn(Start, flat[k - 1], Ahead(L(k), next), d) = Begun(SubSeq(rows, 1, k - 1), <<>>)
      BY <2>0, <2>1, Zenon
    <3>3. L(k) = WrittenRow(rows[k], style) \o LineEnd(style)
      <4>1. \A i, j \in Nat : i < j => i # j
        OBVIOUS
      <4> QED
        BY <4>1, <2>0, <2>3, <1>1, <1>2, Zenon
    <3>4. ReadOn(Begun(SubSeq(rows, 1, k - 1), <<>>), L(k), next, d) = Begun(Append(SubSeq(rows, 1, k - 1), rows[k]), <<>>)
      BY <1>2, <3>3, LineRead, Zenon
    <3> QED
      BY <1>2, <3>1, <3>2, <3>4, Zenon
  <2>4. flat[k] # <<>> => flat[k][1] # Bom
    <3>1. CASE flat[k - 1] = <<>>
      BY <3>1, <1>2, <2>2, JoinedFirst
    <3>2. CASE flat[k - 1] # <<>>
      BY <3>2, <1>2, <2>1, <2>2, JoinedFirst
    <3> QED
      BY <3>1, <3>2
  <2> QED
    BY <2>0, <2>3, <2>4, Zenon
<1> HIDE DEF T
<1>6. \A k \in 0..n : k \in T
  BY <1>1, <1>4, <1>5, UpTo
<1>7. n \in T /\ n <= n /\ n \in 0..n
  BY <1>1, <1>6
<1>8. flat[n] \in Texts /\ Read(n) /\ (flat[n] # <<>> => flat[n][1] # Bom)
  <2>1. flat[n] \in Texts
    BY <1>3, <1>7, Zenon DEF Texts
  <2> QED
    BY <2>1, <1>7, Zenon DEF T
<1>9. LastRow(ReadOn(Start, flat[n], End, d)) = Begun(rows, <<>>)
  <2>1. CASE n = 0 \/ style.lastEnds
    <3>1. ReadOn(Start, flat[n], End, d) = Begun(rows, <<>>)
      <4>1. CASE style.lastEnds
        BY <4>1, <1>1, <1>8, Zenon
      <4>2. CASE n = 0
        BY <4>2, <1>1, <1>3, ReadNone, Zenon
      <4> QED
        BY <2>1, <4>1, <4>2
    <3>2. LastRow(Begun(rows, <<>>)) = Begun(rows, <<>>)
      BY LastRowIs, Zenon DEF Begun
    <3> QED
      BY <3>1, <3>2, Zenon
  <2>2. CASE n # 0 /\ ~style.lastEnds
    <3>1. n \in 1..n /\ n - 1 \in 0..n /\ n - 1 < n /\ n - 1 <= n /\ n - 1 \in T
      BY <2>2, <1>1, <1>6
    <3>2. \A next : ReadOn(Start, flat[n - 1], next, d) = Begun(SubSeq(rows, 1, n - 1), <<>>)
      BY <3>1, Zenon DEF T
    <3>3. flat[n - 1] \in Texts /\ flat[n] = flat[n - 1] \o L(n) /\ L(n) \in Texts /\ L(n) = WrittenRow(rows[n], style)
      BY <2>2, <3>1, <1>2, <1>3, Zenon DEF Texts
    <3>4. ReadOn(Start, flat[n], End, d) = ReadOn(ReadOn(Start, flat[n - 1], Ahead(L(n), End), d), L(n), End, d)
      BY <3>3, ReadParts
    <3>5. ReadOn(Start, flat[n], End, d) = ReadOn(Begun(SubSeq(rows, 1, n - 1), <<>>), WrittenRow(rows[n], style), End, d)
      BY <3>2, <3>3, <3>4, Zenon
    <3>6. rows[n] \in Rows /\ Append(SubSeq(rows, 1, n - 1), rows[n]) = rows
      BY <3>1, <1>1, <1>2, Zenon
    <3> DEFINE read == ReadOn(Begun(SubSeq(rows, 1, n - 1), <<>>), WrittenRow(rows[n], style), End, d)
    <3>7. CellTaken(read, SubSeq(rows, 1, n - 1), SubSeq(rows[n], 1, Len(rows[n]) - 1), rows[n][Len(rows[n])])
      <4>1. End # Quote
        BY DEF End, Quote
      <4> QED
        BY <4>1, <3>6, RowRead, Zenon
    <3>8. LastRow(read) = Begun(Append(SubSeq(rows, 1, n - 1), rows[n]), <<>>)
      <4> HIDE DEF read
      <4> QED
        BY <3>6, <3>7, RowEnded, Zenon
    <3> QED
      BY <3>5, <3>6, <3>8, Zenon
  <2> QED
    BY <2>1, <2>2
<1>10. FreshReader = Start
  BY DEF FreshReader, Begun, Between, Reader
<1>11. StripBom(CsvText(rows, style)) = flat[n] /\ CsvText(rows, style) \in Texts
  <2>1. CsvText(rows, style) = (IF style.bom THEN <<Bom>> ELSE <<>>) \o flat[n]
    BY <1>3, Zenon DEF CsvText
  <2>2. StripBom(<<>> \o flat[n]) = flat[n] /\ StripBom(<<Bom>> \o flat[n]) = flat[n]
    BY <1>8, Stripped
  <2>3. <<>> \o flat[n] \in Texts /\ <<Bom>> \o flat[n] \in Texts
    <3>1. <<>> \in Texts /\ <<Bom>> \in Texts
      BY TablesAssumption, EmptySeq DEF Texts
    <3> QED
      BY <3>1, <1>8, ReadParts
  <2> QED
    BY <2>1, <2>2, <2>3, Zenon
<1>12. Begun(rows, <<>>).rows = rows
  BY DEF Begun, Between, Reader
<1> QED
  BY <1>9, <1>10, <1>11, <1>12, Zenon DEF ParseCsv

-----------------------------------------------------------------------------
(* Whatever the delimiter, the reader makes rows of cells of characters. *)

\* A non-empty set of naturals up to n has a greatest element.
LEMMA Most == ASSUME NEW T, NEW n \in Nat, T \subseteq 1..n, T # {} PROVE \E k \in T : \A j \in T : k >= j
<1> DEFINE R == {i \in Nat : i <= n /\ n - i \in T}
<1>1. R \subseteq Nat /\ R # {}
  <2>1. PICK k \in T : TRUE
    OBVIOUS
  <2>2. n - k \in Nat /\ n - k <= n /\ n - (n - k) = k
    BY <2>1
  <2> QED
    BY <2>1, <2>2
<1>2. PICK i \in R : \A j \in R : i <= j
  BY <1>1, Least
<1>3. \A j \in T : n - j \in R /\ j \in Nat
  <2>1. \A j \in T : n - j \in Nat /\ n - j <= n /\ n - (n - j) = j /\ j \in Nat
    OBVIOUS
  <2> QED
    BY <2>1
<1>4. \A j \in T : i <= n - j /\ j \in Nat
  BY <1>2, <1>3
<1>5. i \in Nat /\ n - i \in T
  BY <1>2
<1> QED
  BY <1>4, <1>5

\* A trimmed text is a text.
LEMMA TrimIs ==
  ASSUME NEW cell \in Texts
  PROVE  Trim(cell) \in Texts
<1> DEFINE solid == {k \in DOMAIN cell : cell[k] \notin Whitespace}
           first == Min(solid)
           last == Max(solid)
<1>1. DOMAIN cell = 1..Len(cell) /\ Len(cell) \in Nat /\ \A k \in 1..Len(cell) : cell[k] \in Characters
  BY LenProperties, ElementOfSeq DEF Texts
<1>2. CASE solid = {}
  <2>1. Trim(cell) = <<>>
    BY <1>2, Zenon DEF Trim
  <2> QED
    BY <2>1, EmptySeq DEF Texts
<1>3. CASE solid # {}
  <2>1. solid \subseteq 1..Len(cell) /\ solid \subseteq Nat
    BY <1>1
  <2>2. first \in solid /\ last \in solid
    <3>1. (\E k \in solid : \A j \in solid : k <= j) /\ (\E k \in solid : \A j \in solid : k >= j)
      <4> HIDE DEF solid
      <4> QED
        BY <1>1, <1>3, <2>1, Least, Most
    <3> HIDE DEF solid
    <3> QED
      BY <3>1 DEF Min, Max
  <2>3. Trim(cell) = SubSeq(cell, first, last)
    BY <1>3, Zenon DEF Trim
  <2> HIDE DEF solid, first, last
  <2>4. first \in Int /\ last \in Int /\ \A i \in first..last : cell[i] \in Characters
    BY <1>1, <2>1, <2>2
  <2>5. SubSeq(cell, first, last) \in Seq(Characters)
    BY <2>4, SubSeqProperties
  <2> QED
    BY <2>3, <2>5 DEF Texts
<1> QED
  BY <1>2, <1>3

\* All the states of the reader.
Readers == [rows : Seq(Seq(Texts)), row : Seq(Texts), field : Texts, quoting : BOOLEAN, quoted : BOOLEAN, skip : BOOLEAN]

\* Pushing a field or a row leaves a reader.
LEMMA PushedIs ==
  ASSUME NEW r \in Readers
  PROVE  PushField(r) \in Readers /\ PushRow(r) \in Readers
<1>1. /\ r.rows \in Seq(Seq(Texts)) /\ r.row \in Seq(Texts) /\ r.field \in Texts
      /\ Trim(r.field) \in Texts /\ <<>> \in Texts /\ <<>> \in Seq(Texts)
  BY TrimIs, EmptySeq DEF Readers, Texts
<1>2. PICK y : y = Append(r.row, IF r.quoted THEN r.field ELSE Trim(r.field))
  OBVIOUS
<1>3. y \in Seq(Texts)
  <2>1. (IF r.quoted THEN r.field ELSE Trim(r.field)) \in Texts
    BY <1>1
  <2> QED
    BY <1>1, <1>2, <2>1, AppendProperties
<1>4. PushField(r) = [r EXCEPT !.row = y, !.field = <<>>, !.quoted = FALSE]
  BY <1>2, Zenon DEF PushField
<1>5. [r EXCEPT !.row = y, !.field = <<>>, !.quoted = FALSE] \in Readers
  BY <1>1, <1>3 DEF Readers
<1>6. PICK p \in Readers : p = PushField(r)
  BY <1>4, <1>5
<1>7. PICK z : z = IF Len(p.row) > 1 \/ p.row[1] # <<>> THEN Append(p.rows, p.row) ELSE p.rows
  OBVIOUS
<1>8. z \in Seq(Seq(Texts))
  <2>1. p.row \in Seq(Texts) /\ p.rows \in Seq(Seq(Texts))
    BY DEF Readers
  <2>2. Append(p.rows, p.row) \in Seq(Seq(Texts))
    BY <2>1, AppendProperties
  <2> QED
    BY <2>1, <2>2, <1>7
<1>9. PushRow(r) = [p EXCEPT !.row = <<>>, !.rows = z]
  BY <1>6, <1>7, Zenon DEF PushRow
<1>10. [p EXCEPT !.row = <<>>, !.rows = z] \in Readers
  BY <1>1, <1>8 DEF Readers
<1> QED
  BY <1>4, <1>5, <1>9, <1>10

\* Reading a character leaves a reader.
LEMMA ReadCharIs ==
  ASSUME NEW r \in Readers, NEW char \in Characters, NEW next, NEW d
  PROVE  ReadChar(r, char, next, d) \in Readers
<1>1. <<>> \in Texts /\ r.field \in Texts /\ Append(r.field, char) \in Texts /\ Append(r.field, Quote) \in Texts
  <2>1. r.field \in Seq(Characters) /\ Quote \in Characters
    BY TablesAssumption DEF Readers, Texts
  <2> QED
    BY <2>1, AppendProperties, EmptySeq DEF Texts
<1>2. /\ [r EXCEPT !.skip = FALSE] \in Readers
      /\ [r EXCEPT !.quoting = FALSE] \in Readers
      /\ \A f \in Texts : [r EXCEPT !.field = f] \in Readers /\ [r EXCEPT !.field = f, !.skip = TRUE] \in Readers
      /\ [r EXCEPT !.quoting = TRUE, !.quoted = TRUE, !.field = <<>>] \in Readers
  BY <1>1 DEF Readers
<1>3. PushField(r) \in Readers /\ PushRow(r) \in Readers
  BY PushedIs
<1> DEFINE within == CASE char = Quote /\ next = Quote -> [r EXCEPT !.field = Append(@, Quote), !.skip = TRUE]
                       [] char = Quote /\ next # Quote -> [r EXCEPT !.quoting = FALSE]
                       [] OTHER -> [r EXCEPT !.field = Append(@, char)]
           outside == CASE char = Quote /\ Trim(r.field) = <<>> -> [r EXCEPT !.quoting = TRUE, !.quoted = TRUE, !.field = <<>>]
                        [] char = d -> PushField(r)
                        [] char = CR -> r
                        [] char = NewLine -> PushRow(r)
                        [] OTHER -> [r EXCEPT !.field = Append(@, char)]
<1>4. within \in Readers
  BY <1>1, <1>2
<1>5. outside \in Readers
  BY <1>1, <1>2, <1>3
<1>6. ReadChar(r, char, next, d) = IF r.skip THEN [r EXCEPT !.skip = FALSE] ELSE IF r.quoting THEN within ELSE outside
  BY Zenon DEF ReadChar
<1> HIDE DEF within, outside
<1> QED
  BY <1>2, <1>4, <1>5, <1>6, Zenon

\* Reading a text leaves a reader.
LEMMA ReadOnIs ==
  ASSUME NEW text \in Texts, NEW r \in Readers, NEW next, NEW d
  PROVE  ReadOn(r, text, next, d) \in Readers
<1>0. Len(text) \in Nat /\ \A k \in 1..Len(text) : text[k] \in Characters
  BY LenProperties, ElementOfSeq DEF Texts
<1>1. PICK read : Runs(read, r, text, next, d) /\ ReadOn(r, text, next, d) = read[Len(text)]
  BY ReadSteps
<1> DEFINE T == {k \in Nat : read[k] \in Readers}
<1>2. 0 \in T
  BY <1>1 DEF Runs
<1>3. ASSUME NEW k \in 1..Len(text), k - 1 \in T PROVE k \in T
  <2>1. k \in Nat /\ text[k] \in Characters /\ read[k - 1] \in Readers
    BY <1>0, <1>3
  <2>2. read[k] = ReadChar(read[k - 1], text[k], IF k < Len(text) THEN text[k + 1] ELSE next, d)
    BY <1>1, Zenon DEF Runs
  <2>3. read[k] \in Readers
    BY <2>1, <2>2, ReadCharIs, Zenon
  <2> QED
    BY <2>1, <2>3
<1> HIDE DEF T
<1>4. \A k \in 0..Len(text) : k \in T
  BY <1>0, <1>2, <1>3, UpTo
<1>5. Len(text) \in T
  BY <1>0, <1>4
<1> QED
  BY <1>1, <1>5 DEF T

\* A parsed file is rows of texts.
LEMMA ParsedIs ==
  ASSUME NEW text \in Texts, NEW d
  PROVE  ParseCsv(text, d) \in Seq(Seq(Texts))
<1>1. StripBom(text) \in Texts
  BY HeadTailProperties DEF StripBom, Texts
<1>2. FreshReader \in Readers
  BY EmptySeq DEF FreshReader, Readers, Texts
<1>3. PICK r \in Readers : r = ReadOn(FreshReader, StripBom(text), End, d)
  BY <1>1, <1>2, ReadOnIs
<1>4. LastRow(r) \in Readers
  BY PushedIs DEF LastRow
<1> QED
  BY <1>3, <1>4 DEF ParseCsv, Readers

-----------------------------------------------------------------------------
\* The library's least element of a set of naturals.
LEMMA MinIs ==
  ASSUME NEW ks, ks \subseteq Nat, ks # {}
  PROVE  Min(ks) \in ks /\ \A j \in ks : Min(ks) <= j
<1>1. \E k \in ks : \A j \in ks : k <= j
  BY Least
<1> QED
  BY <1>1, Zenon DEF Min

\* A role is given once, to the first column whose label stands for it.
LEMMA GuessedOnce ==
  ASSUME NEW header, NEW n \in Nat, DOMAIN header = 1..n
  PROVE  /\ DOMAIN GuessMapping(header) = 1..n
         /\ \A j, k \in 1..n : j # k => \/ GuessMapping(header)[j] # GuessMapping(header)[k]
                                        \/ GuessMapping(header)[j] = "ignore"
         /\ (\E k \in 1..n : Has(header[k], {"email"})) => ColumnOf(GuessMapping(header), "email") # 0
<1> DEFINE g == GuessMapping(header)
<1>1. n \in Nat
  OBVIOUS
<1>2. /\ DOMAIN g = 1..n
      /\ \A k \in 1..n : g[k] = IF \E j \in 1..k - 1 : RoleOf(header[j]) = RoleOf(header[k]) THEN "ignore"
           ELSE RoleOf(header[k])
  BY DEF GuessMapping
<1> HIDE DEF g
<1>3. ASSUME NEW j \in 1..n, NEW k \in 1..n, j < k, g[j] = g[k] PROVE g[j] = "ignore"
  <2>1. j \in 1..k - 1
    BY <1>1, <1>3
  <2>2. g[j] = "ignore" \/ g[j] = RoleOf(header[j])
    BY <1>2, Zenon
  <2>3. g[k] = "ignore" \/ (g[k] = RoleOf(header[k]) /\ RoleOf(header[j]) # RoleOf(header[k]))
    BY <1>2, <2>1, Zenon
  <2> QED
    BY <1>3, <2>2, <2>3
<1>4. ASSUME NEW j \in 1..n, NEW k \in 1..n, j # k, g[j] = g[k] PROVE g[j] = "ignore"
  <2>1. j < k \/ k < j
    BY <1>1, <1>4
  <2> QED
    BY <1>3, <1>4, <2>1
<1>5. ASSUME NEW k \in 1..n, Has(header[k], {"email"}) PROVE ColumnOf(g, "email") # 0
  <2> DEFINE named == {j \in 1..n : RoleOf(header[j]) = "email"}
  <2>0. \A j \in 1..n : j \in Nat /\ j # 0
    BY <1>1
  <2>1. k \in named
    BY <1>5 DEF RoleOf
  <2>2. PICK i \in named : \A j \in named : i <= j
    <3>1. named \subseteq Nat /\ named # {}
      BY <2>0, <2>1, Zenon
    <3> HIDE DEF named
    <3> QED
      BY <3>1, Least
  <2>3. \A j \in 1..i - 1 : RoleOf(header[j]) # "email"
    <3>1. \A j \in 1..i - 1 : j \in 1..n /\ ~(i <= j)
      BY <1>1, <2>2
    <3> QED
      BY <2>2, <3>1
  <2>4. g[i] = "email"
    BY <1>2, <2>2, <2>3
  <2> DEFINE given == {j \in DOMAIN g : g[j] = "email"}
  <2>5. given # {} /\ given \subseteq Nat /\ \A j \in given : j # 0
    BY <1>2, <2>0, <2>2, <2>4, Zenon
  <2>6. ColumnOf(g, "email") = IF given = {} THEN 0 ELSE Min(given)
    BY Zenon DEF ColumnOf
  <2> HIDE DEF given
  <2> QED
    BY <2>5, <2>6, MinIs
<1> QED
  BY <1>1, <1>2, <1>4, <1>5 DEF g

-----------------------------------------------------------------------------
(* The file is read as the table it was written from. *)

\* The rows of the file: its header, if it has one, then its table.
AllRows == IF file.header = <<>> THEN file.table ELSE <<file.header>> \o file.table

\* The file stays as one of the styles has it.
FileStays ==
  /\ file.header \in Headers \cup {<<>>} /\ file.table \in Tables
  /\ \E style \in Styles : file.delimiter = style.delimiter /\ file.text = CsvText(AllRows, style)

\* The preview is a record of what was found.
WizardIs ==
  wizard.at \in {"preview", "imported"} => DOMAIN wizard = {"at", "delimiter", "hasHeader", "rows", "mapping"}

CsvInv == FileStays /\ WizardIs /\ FileIsRead

\* Parsing a file whose delimiter was found gives the rows it was written from, the header first if it has one.
LEMMA AllRowsAre ==
  ASSUME FileStays
  PROVE  /\ file.text \in Texts /\ ParseCsv(file.text, file.delimiter) = AllRows
         /\ file.table \in Seq(Rows) /\ AllRows \in Seq(Rows)
         /\ file.header = <<>> => (AllRows # <<>> => ~LooksLikeHeader(AllRows[1])) /\ AllRows = file.table
         /\ file.header # <<>> => /\ AllRows # <<>> /\ AllRows[1] = file.header /\ LooksLikeHeader(AllRows[1])
                                  /\ Tail(AllRows) = file.table
<1>1. PICK style \in Styles : file.delimiter = style.delimiter /\ file.text = CsvText(AllRows, style)
  BY DEF FileStays
<1>2. file.table \in Seq(Rows) /\ (file.table # <<>> => ~LooksLikeHeader(file.table[1]))
  BY TablesAssumption DEF FileStays, Rows
<1>3. file.header # <<>> => file.header \in Rows /\ LooksLikeHeader(file.header)
  BY TablesAssumption DEF FileStays, Rows
<1>4. CASE file.header = <<>>
  <2>1. AllRows = file.table
    BY <1>4, Zenon DEF AllRows
  <2>2. AllRows \in Seq(Rows) /\ (AllRows # <<>> => ~LooksLikeHeader(AllRows[1]))
    BY <1>2, <2>1
  <2>3. file.text \in Texts /\ ParseCsv(file.text, file.delimiter) = AllRows
    BY <1>1, <2>2, WrittenIsRead
  <2> QED
    BY <1>2, <1>4, <2>1, <2>2, <2>3
<1>5. CASE file.header # <<>>
  <2>0. PICK header, table : header = file.header /\ table = file.table
    OBVIOUS
  <2>1. AllRows = <<header>> \o table
    BY <1>5, <2>0, Zenon DEF AllRows
  <2>2. header \in Rows /\ table \in Seq(Rows) /\ LooksLikeHeader(header)
    BY <1>2, <1>3, <1>5, <2>0
  <2>3. /\ AllRows \in Seq(Rows) /\ Len(AllRows) = 1 + Len(table) /\ Len(table) \in Nat
        /\ \A i \in 1..1 + Len(table) : AllRows[i] = IF i <= 1 THEN <<header>>[i] ELSE table[i - 1]
    <3>1. <<header>> \in Seq(Rows) /\ Len(<<header>>) = 1 /\ Len(table) \in Nat
      BY <2>2, LenProperties
    <3> QED
      BY <2>1, <2>2, <3>1, ConcatProperties
  <2>4. AllRows # <<>> /\ AllRows[1] = header
    <3>1. Len(<<>>) = 0 /\ Len(AllRows) # 0 /\ <<header>>[1] = header
      BY <2>3, EmptySeq
    <3> QED
      BY <2>3, <3>1
  <2>5. Tail(AllRows) = table
    <3>1. /\ Tail(AllRows) \in Seq(Rows) /\ Len(Tail(AllRows)) = Len(AllRows) - 1
          /\ \A i \in 1..Len(Tail(AllRows)) : Tail(AllRows)[i] = AllRows[i + 1]
      BY <2>3, <2>4, HeadTailProperties
    <3>2. ASSUME NEW i \in 1..Len(Tail(AllRows)) PROVE Tail(AllRows)[i] = table[i]
      <4>1. PICK n \in Nat : n = Len(table)
        BY <2>3
      <4>2. Len(Tail(AllRows)) = n
        BY <2>3, <3>1, <4>1
      <4>3. i \in 1..n /\ i + 1 \in 1..1 + n /\ ~(i + 1 <= 1) /\ (i + 1) - 1 = i
        BY <4>1, <4>2
      <4>4. AllRows[i + 1] = IF i + 1 <= 1 THEN <<header>>[i + 1] ELSE table[(i + 1) - 1]
        BY <2>3, <4>1, <4>3
      <4> QED
        BY <3>1, <4>3, <4>4
    <3> QED
      BY <2>2, <2>3, <3>1, <3>2, SeqEqual
  <2>6. file.text \in Texts /\ ParseCsv(file.text, file.delimiter) = AllRows
    BY <1>1, <2>3, WrittenIsRead
  <2> QED
    BY <1>2, <1>5, <2>0, <2>2, <2>3, <2>4, <2>5, <2>6
<1> QED
  BY <1>4, <1>5

\* What the mapping is guessed from.
LabelsOf(row) == IF LooksLikeHeader(row) THEN row ELSE [k \in DOMAIN row |-> <<"column">>]

\* What is shown of rows that are not none.
LEMMA ShownIs ==
  ASSUME NEW d, NEW rows, rows # <<>>
  PROVE  /\ Shown(d, rows).at = "preview" /\ Shown(d, rows).delimiter = d
         /\ DOMAIN Shown(d, rows) = {"at", "delimiter", "hasHeader", "rows", "mapping"}
         /\ Shown(d, rows).hasHeader <=> LooksLikeHeader(rows[1])
         /\ Shown(d, rows).rows = IF LooksLikeHeader(rows[1]) THEN Tail(rows) ELSE rows
         /\ Shown(d, rows).mapping = GuessMapping(LabelsOf(rows[1]))
<1>1. PICK looks : looks = LooksLikeHeader(rows[1])
  OBVIOUS
<1>2. PICK shown, mapping :
        /\ shown = IF looks THEN Tail(rows) ELSE rows
        /\ mapping = GuessMapping(LabelsOf(rows[1]))
  OBVIOUS
<1>3. PICK w : w = [at |-> "preview", delimiter |-> d, hasHeader |-> looks, rows |-> shown, mapping |-> mapping]
  OBVIOUS
<1>4. Shown(d, rows) = w
  BY <1>1, <1>2, <1>3, Zenon DEF Shown, LabelsOf
<1>5. /\ w.at = "preview" /\ w.delimiter = d /\ w.hasHeader = looks /\ w.rows = shown /\ w.mapping = mapping
      /\ DOMAIN w = {"at", "delimiter", "hasHeader", "rows", "mapping"}
  BY <1>3
<1> QED
  BY <1>1, <1>2, <1>4, <1>5, Zenon

\* The invariant holds before anything is read.
LEMMA CsvStarts == CsvInit => CsvInv
<1>1. SUFFICES ASSUME NEW table \in Tables, NEW header \in Headers \cup {<<>>}, NEW style \in Styles,
                        CsvStart(table, header, style)
               PROVE  CsvInv
  BY Zenon DEF CsvInit
<1>2. wizard.at = "chosen"
  BY <1>1 DEF CsvStart
<1>3. PICK text, d : text = CsvText(IF header = <<>> THEN table ELSE <<header>> \o table, style) /\ d = style.delimiter
  OBVIOUS
<1>4. file = [table |-> table, header |-> header, delimiter |-> d, text |-> text]
  BY <1>1, <1>3, Zenon DEF CsvStart
<1>5. file.table = table /\ file.header = header /\ file.delimiter = d /\ file.text = text
  BY <1>4
<1>6. FileStays
  <2>1. AllRows = IF header = <<>> THEN table ELSE <<header>> \o table
    BY <1>5, Zenon DEF AllRows
  <2> QED
    BY <1>3, <1>5, <2>1, Zenon DEF FileStays
<1>7. ~(wizard.at \in {"preview", "imported"}) /\ wizard.at # "preview" /\ wizard.at # "imported"
  BY <1>2
<1> QED
  BY <1>6, <1>7, Zenon DEF CsvInv, WizardIs, FileIsRead, HandedAsWritten, PreviewIsTheTable, GuessIsUsable

\* The mapping a preview is shown with is usable, whatever the text was read with.
LEMMA PreviewUsable ==
  ASSUME NEW rows \in Seq(Seq(Texts)), rows # <<>>, NEW labels, labels = LabelsOf(rows[1])
  PROVE  /\ \A j, k \in DOMAIN GuessMapping(labels) : j # k => \/ GuessMapping(labels)[j] # GuessMapping(labels)[k]
                                                               \/ GuessMapping(labels)[j] = "ignore"
         /\ (\E k \in DOMAIN labels : Has(labels[k], {"email"})) => ColumnOf(GuessMapping(labels), "email") # 0
<1>1. PICK n \in Nat : DOMAIN rows[1] = 1..n
  <2>1. rows[1] \in Seq(Texts)
    BY LenProperties, EmptySeq, ElementOfSeq
  <2> QED
    BY <2>1, LenProperties
<1>2. DOMAIN labels = 1..n
  BY <1>1 DEF LabelsOf
<1> QED
  BY <1>2, GuessedOnce, ZenonT(60)

\* A preview keeps the invariant.
LEMMA Previewed == CsvInv /\ Preview => CsvInv'
<1>1. SUFFICES ASSUME CsvInv, Preview PROVE CsvInv'
  OBVIOUS
<1>2. PICK d, rows : /\ d = DetectDelimiter(file.text) /\ rows = ParseCsv(file.text, d)
                     /\ wizard' = Shown(d, rows) /\ file' = file
  BY <1>1, Zenon DEF Preview, csvVars
<1>3. FileStays /\ FileStays'
  BY <1>1, <1>2, Zenon DEF CsvInv, FileStays, AllRows
<1>4. file.text \in Texts /\ rows \in Seq(Seq(Texts))
  BY <1>2, <1>3, AllRowsAre, ParsedIs
<1>5. CASE rows = <<>>
  <2>1. wizard'.at = "refused"
    BY <1>2, <1>5 DEF Shown
  <2>2. ~(wizard'.at \in {"preview", "imported"}) /\ wizard'.at # "preview" /\ wizard'.at # "imported"
    BY <2>1
  <2> QED
    BY <1>3, <2>2, Zenon DEF CsvInv, WizardIs, FileIsRead, HandedAsWritten, PreviewIsTheTable, GuessIsUsable
<1>6. CASE rows # <<>>
  <2>1. /\ wizard'.at = "preview" /\ wizard'.delimiter = d
        /\ DOMAIN wizard' = {"at", "delimiter", "hasHeader", "rows", "mapping"}
        /\ wizard'.hasHeader <=> LooksLikeHeader(rows[1])
        /\ wizard'.rows = IF LooksLikeHeader(rows[1]) THEN Tail(rows) ELSE rows
        /\ wizard'.mapping = GuessMapping(LabelsOf(rows[1]))
    <3>1. PICK w : w = Shown(d, rows)
      OBVIOUS
    <3>2. /\ w.at = "preview" /\ w.delimiter = d /\ DOMAIN w = {"at", "delimiter", "hasHeader", "rows", "mapping"}
          /\ w.hasHeader <=> LooksLikeHeader(rows[1])
          /\ w.rows = IF LooksLikeHeader(rows[1]) THEN Tail(rows) ELSE rows
          /\ w.mapping = GuessMapping(LabelsOf(rows[1]))
      BY <1>6, <3>1, ShownIs, ZenonT(60)
    <3>3. wizard' = w
      BY <1>2, <3>1
    <3> QED
      BY <3>2, <3>3, Zenon
  <2>2. d = file.delimiter => rows = AllRows
    BY <1>2, <1>3, AllRowsAre, Zenon
  <2>3. PreviewIsTheTable'
    <3>1. SUFFICES ASSUME d = file.delimiter
                   PROVE  (wizard'.hasHeader <=> file.header # <<>>) /\ wizard'.rows = file.table
      BY <1>2, <2>1, Zenon DEF PreviewIsTheTable
    <3>2. rows = AllRows
      BY <2>2, <3>1
    <3> QED
      BY <1>3, <1>6, <2>1, <3>2, AllRowsAre, Zenon
  <2>4. GuessIsUsable'
    <3>1. PICK labels, mapping : labels = LabelsOf(rows[1]) /\ mapping = GuessMapping(labels)
      OBVIOUS
    <3>0. wizard'.mapping = mapping
      BY <2>1, <3>1
    <3>2. \A j, k \in DOMAIN mapping : j # k => mapping[j] # mapping[k] \/ mapping[j] = "ignore"
      <4>1. \A j, k \in DOMAIN GuessMapping(labels) : j # k => \/ GuessMapping(labels)[j] # GuessMapping(labels)[k]
                                                              \/ GuessMapping(labels)[j] = "ignore"
        BY <1>4, <1>6, <3>1, PreviewUsable, Zenon
      <4> QED
        BY <3>1, <4>1, Zenon
    <3>3. ASSUME d = file.delimiter, NEW k \in DOMAIN file.header, Has(file.header[k], {"email"})
          PROVE  ColumnOf(mapping, "email") # 0
      <4>1. file.header # <<>>
        BY EmptySeq
      <4>2. rows[1] = file.header /\ LooksLikeHeader(rows[1])
        BY <1>3, <2>2, <3>3, <4>1, AllRowsAre, Zenon
      <4>3. labels = rows[1]
        BY <3>1, <4>2, Zenon DEF LabelsOf
      <4>4. (\E i \in DOMAIN labels : Has(labels[i], {"email"})) => ColumnOf(mapping, "email") # 0
        BY <1>4, <1>6, <3>1, PreviewUsable
      <4> QED
        BY <3>3, <4>2, <4>3, <4>4, Zenon
    <3>4. wizard'.delimiter = file'.delimiter /\ (\E k \in DOMAIN file'.header : Has(file'.header[k], {"email"})) =>
            ColumnOf(mapping, "email") # 0
      BY <1>2, <2>1, <3>3, Zenon
    <3> QED
      BY <3>0, <3>2, <3>4, Zenon DEF GuessIsUsable
  <2>5. HandedAsWritten'
    <3>1. wizard'.at # "imported"
      BY <2>1
    <3> QED
      BY <3>1, Zenon DEF HandedAsWritten
  <2> QED
    BY <1>3, <2>1, <2>3, <2>4, <2>5, Zenon DEF CsvInv, WizardIs, FileIsRead
<1> QED
  BY <1>5, <1>6

\* A confirmed import keeps the invariant.
LEMMA Confirmed == ASSUME NEW mapping, CsvInv, Confirm(mapping) PROVE CsvInv'
<1>1. file' = file /\ wizard.at = "preview" /\ FileStays /\ FileStays'
  BY Zenon DEF Confirm, CsvInv, FileStays, AllRows
<1>2. PICK rows : rows = Handed(wizard.delimiter, wizard.hasHeader, mapping)
  OBVIOUS
<1>3. \/ wizard' = [at |-> "refused"]
      \/ wizard' = [wizard EXCEPT !.at = "imported", !.mapping = mapping] /\ handed' = rows
  BY <1>2, Zenon DEF Confirm
<1>4. CASE wizard' = [at |-> "refused"]
  <2>1. ~(wizard'.at \in {"preview", "imported"}) /\ wizard'.at # "preview" /\ wizard'.at # "imported"
    BY <1>4
  <2> QED
    BY <1>1, <2>1, Zenon DEF CsvInv, WizardIs, FileIsRead, HandedAsWritten, PreviewIsTheTable, GuessIsUsable
<1>5. CASE wizard' = [wizard EXCEPT !.at = "imported", !.mapping = mapping] /\ handed' = rows
  <2>0. wizard.at \in {"preview", "imported"}
    BY <1>1
  <2>1. DOMAIN wizard = {"at", "delimiter", "hasHeader", "rows", "mapping"}
    BY <2>0, Zenon DEF CsvInv, WizardIs
  <2>2. /\ DOMAIN wizard' = {"at", "delimiter", "hasHeader", "rows", "mapping"}
        /\ wizard'.at = "imported" /\ wizard'.mapping = mapping /\ wizard'.delimiter = wizard.delimiter
        /\ wizard'.hasHeader = wizard.hasHeader /\ wizard'.rows = wizard.rows
    BY <1>5, <2>1
  <2>3. wizard'.at # "preview" /\ wizard'.at \in {"preview", "imported"}
    BY <2>2
  <2>4. PreviewIsTheTable'
    <3>1. PreviewIsTheTable
      BY DEF CsvInv, FileIsRead
    <3> QED
      BY <1>1, <2>0, <2>2, <3>1, Zenon DEF PreviewIsTheTable
  <2>5. HandedAsWritten'
    <3>1. SUFFICES ASSUME wizard.delimiter = file.delimiter PROVE rows = Picked(file.table, mapping)
      BY <1>1, <1>5, <2>2, Zenon DEF HandedAsWritten
    <3>2. wizard.hasHeader <=> file.header # <<>>
      BY <2>0, <3>1, Zenon DEF CsvInv, FileIsRead, PreviewIsTheTable
    <3>3. AllRows \in Seq(Rows) /\ ParseCsv(file.text, wizard.delimiter) = AllRows
      BY <1>1, <3>1, AllRowsAre
    <3>4. SubSeq(AllRows, IF wizard.hasHeader THEN 2 ELSE 1, Len(AllRows)) = file.table
      <4>1. CASE file.header = <<>>
        <5>1. SubSeq(AllRows, 1, Len(AllRows)) = AllRows /\ AllRows = file.table
          BY <1>1, <3>3, <4>1, AllRowsAre, Beginnings
        <5> QED
          BY <3>2, <4>1, <5>1, Zenon
      <4>2. CASE file.header # <<>>
        <5>1. SubSeq(AllRows, 2, Len(AllRows)) = Tail(AllRows) /\ Tail(AllRows) = file.table
          BY <1>1, <3>3, <4>2, AllRowsAre, TailIsSubSeq
        <5> QED
          BY <3>2, <4>2, <5>1, Zenon
      <4> QED
        BY <4>1, <4>2
    <3> QED
      BY <1>2, <3>3, <3>4, Zenon DEF Handed
  <2>6. GuessIsUsable'
    BY <2>3, Zenon DEF GuessIsUsable
  <2> QED
    BY <1>1, <2>2, <2>4, <2>5, <2>6, Zenon DEF CsvInv, WizardIs, FileIsRead
<1> QED
  BY <1>3, <1>4, <1>5

\* For every table, header, set of delimiters and style: with the delimiter it was written with, a
\* file is shown and imported as the table it was written from, and no guess is given twice.
THEOREM FileIsAlwaysRead == CsvSpec => []FileIsRead
<1>1. CsvInit => CsvInv
  BY CsvStarts
<1>2. ASSUME CsvInv, [CsvNext]_csvVars PROVE CsvInv'
  <2>1. CASE UNCHANGED csvVars
    BY <1>2, <2>1, Zenon
       DEF csvVars, CsvInv, FileStays, AllRows, WizardIs, FileIsRead, HandedAsWritten, PreviewIsTheTable, GuessIsUsable
  <2>2. CASE Preview
    BY <1>2, <2>2, Previewed
  <2>3. CASE \E mapping \in Mappings \cup {wizard.mapping} : Confirm(mapping)
    BY <1>2, <2>3, Confirmed
  <2> QED
    BY <1>2, <2>1, <2>2, <2>3, Zenon DEF CsvNext
<1>3. CsvInv => FileIsRead
  BY DEF CsvInv
<1> QED
  BY <1>1, <1>2, <1>3, PTL DEF CsvSpec

-----------------------------------------------------------------------------
\* Induction on sequences, for a set of them.
LEMMA SeqInduct ==
  ASSUME NEW S, NEW T, <<>> \in T, \A s \in Seq(S), e \in S : s \in T => s \o <<e>> \in T
  PROVE  Seq(S) \subseteq T
<1>1. SUFFICES ASSUME NEW s \in Seq(S) PROVE s \in T
  OBVIOUS
<1> DEFINE U == {k \in Nat : SubSeq(s, 1, k) \in T}
<1>2. /\ SubSeq(s, 1, 0) = <<>> /\ SubSeq(s, 1, Len(s)) = s /\ Len(s) \in Nat
      /\ \A k \in 1..Len(s) : /\ SubSeq(s, 1, k - 1) \in Seq(S) /\ s[k] \in S
                              /\ SubSeq(s, 1, k) = Append(SubSeq(s, 1, k - 1), s[k])
  BY Beginnings
<1>3. 0 \in U
  BY <1>2
<1>4. ASSUME NEW k \in 1..Len(s), k - 1 \in U PROVE k \in U
  <2>1. SubSeq(s, 1, k - 1) \in T /\ k \in Nat
    BY <1>2, <1>4
  <2>2. SubSeq(s, 1, k) = SubSeq(s, 1, k - 1) \o <<s[k]>>
    BY <1>2, AppendIsConcat
  <2> QED
    BY <1>1, <1>2, <2>1, <2>2
<1>5. Len(s) \in U
  <2> HIDE DEF U
  <2>1. \A k \in 0..Len(s) : k \in U
    BY <1>2, <1>3, <1>4, UpTo
  <2>2. Len(s) \in 0..Len(s)
    BY <1>2
  <2> QED
    BY <2>1, <2>2
<1> QED
  BY <1>2, <1>5

\* No texts joined are no text.
LEMMA FlatNone == FlattenSeq(<<>>) = <<>>
  BY DEF FlattenSeq

\* Texts joined with one more: that one follows.
LEMMA FlatAppend ==
  ASSUME NEW C, NEW ss \in Seq(Seq(C)), NEW x \in Seq(C)
  PROVE  FlattenSeq(ss \o <<x>>) = FlattenSeq(ss) \o x
<1> DEFINE n == Len(ss)
<1>1. n \in Nat /\ ss \o <<x>> \in Seq(Seq(C)) /\ Len(ss \o <<x>>) = n + 1
      /\ (\A i \in 1..n : (ss \o <<x>>)[i] = ss[i]) /\ (ss \o <<x>>)[n + 1] = x
  <2>1. Append(ss, x) = ss \o <<x>>
    BY AppendIsConcat
  <2> QED
    BY <2>1, AppendProperties, LenProperties
<1>2. PICK f : /\ f \in [0..n -> Seq(C)] /\ f[0] = <<>> /\ (\A k \in 1..n : f[k] = f[k - 1] \o ss[k]) /\ FlattenSeq(ss) = f[n]
  BY FlattenSteps
<1>3. PICK g : /\ g \in [0..Len(ss \o <<x>>) -> Seq(C)] /\ g[0] = <<>>
               /\ (\A k \in 1..Len(ss \o <<x>>) : g[k] = g[k - 1] \o (ss \o <<x>>)[k])
               /\ FlattenSeq(ss \o <<x>>) = g[Len(ss \o <<x>>)]
  BY <1>1, FlattenSteps
<1> DEFINE T == {k \in Nat : g[k] = f[k]}
<1>4. 0 \in T
  BY <1>2, <1>3
<1>5. ASSUME NEW k \in 1..n, k - 1 \in T PROVE k \in T
  <2>1. k \in 1..Len(ss \o <<x>>) /\ k \in Nat
    BY <1>1
  <2>2. g[k] = g[k - 1] \o ss[k] /\ f[k] = f[k - 1] \o ss[k]
    BY <1>1, <1>2, <1>3, <2>1
  <2> QED
    BY <1>5, <2>1, <2>2
<1>6. n \in T
  <2> HIDE DEF T
  <2>1. \A k \in 0..n : k \in T
    BY <1>1, <1>4, <1>5, UpTo
  <2>2. n \in 0..n
    BY <1>1
  <2> QED
    BY <2>1, <2>2
<1>7. n + 1 \in 1..Len(ss \o <<x>>) /\ n + 1 - 1 = n
  BY <1>1
<1>8. g[n] = f[n]
  BY <1>6
<1>9. g[n + 1] = g[n] \o x
  <2> HIDE DEF n, T
  <2>0. PICK m : m = n + 1
    OBVIOUS
  <2>1. m \in 1..Len(ss \o <<x>>) /\ m - 1 = n
    BY <1>1, <1>7, <2>0
  <2>2. g[m] = g[m - 1] \o (ss \o <<x>>)[m]
    BY <1>3, <2>1, Zenon
  <2> QED
    BY <1>1, <2>0, <2>1, <2>2, Zenon
<1> QED
  BY <1>1, <1>2, <1>3, <1>8, <1>9, Zenon

\* Texts joined are a text over the same symbols.
LEMMA FlatTyped == ASSUME NEW C, NEW ss \in Seq(Seq(C)) PROVE FlattenSeq(ss) \in Seq(C)
<1>1. PICK f : f \in [0..Len(ss) -> Seq(C)] /\ FlattenSeq(ss) = f[Len(ss)]
  BY FlattenSteps
<1>2. Len(ss) \in 0..Len(ss)
  BY LenProperties
<1> QED
  BY <1>1, <1>2

\* One text joined is itself.
LEMMA FlatOne == ASSUME NEW C, NEW x \in Seq(C) PROVE FlattenSeq(<<x>>) = x
<1>1. <<>> \in Seq(Seq(C)) /\ <<x>> \in Seq(Seq(C)) /\ <<>> \o <<x>> = <<x>> /\ <<>> \o x = x
  BY EmptySeq, ConcatEmptySeq
<1> QED
  BY <1>1, FlatNone, FlatAppend

\* Joining is done part by part.
LEMMA FlatJoined ==
  ASSUME NEW C, NEW ss \in Seq(Seq(C)), NEW tt \in Seq(Seq(C))
  PROVE  FlattenSeq(ss \o tt) = FlattenSeq(ss) \o FlattenSeq(tt)
<1> DEFINE T == {t \in Seq(Seq(C)) : FlattenSeq(ss \o t) = FlattenSeq(ss) \o FlattenSeq(t)}
<1>1. <<>> \in T
  <2>1. <<>> \in Seq(Seq(C)) /\ ss \o <<>> = ss /\ FlattenSeq(ss) \in Seq(C)
    BY EmptySeq, ConcatEmptySeq, FlatTyped
  <2>2. FlattenSeq(ss) \o <<>> = FlattenSeq(ss)
    BY <2>1, ConcatEmptySeq
  <2> QED
    BY <2>1, <2>2, FlatNone
<1>2. ASSUME NEW t \in Seq(Seq(C)), NEW x \in Seq(C), t \in T PROVE t \o <<x>> \in T
  <2>1. <<x>> \in Seq(Seq(C)) /\ t \o <<x>> \in Seq(Seq(C)) /\ ss \o t \in Seq(Seq(C))
    BY ConcatProperties
  <2>2. ss \o (t \o <<x>>) = (ss \o t) \o <<x>>
    BY <2>1, ConcatAssociative
  <2>3. FlattenSeq((ss \o t) \o <<x>>) = FlattenSeq(ss \o t) \o x
    BY <2>1, FlatAppend
  <2>4. FlattenSeq(t \o <<x>>) = FlattenSeq(t) \o x
    BY FlatAppend
  <2>5. FlattenSeq(ss) \in Seq(C) /\ FlattenSeq(t) \in Seq(C)
    BY FlatTyped
  <2>6. (FlattenSeq(ss) \o FlattenSeq(t)) \o x = FlattenSeq(ss) \o (FlattenSeq(t) \o x)
    BY <2>5, ConcatAssociative
  <2> QED
    BY <1>2, <2>1, <2>2, <2>3, <2>4, <2>6
<1> HIDE DEF T
<1>3. Seq(Seq(C)) \subseteq T
  BY <1>1, <1>2, SeqInduct
<1> QED
  BY <1>3 DEF T

\* Every element of a sequence spread out into a sequence of its own.
Pieces(s, g) == [i \in DOMAIN s |-> g[s[i]]]
Spread(s, g) == FlattenSeq(Pieces(s, g))

\* The pieces that stand for the symbols of a text are texts.
LEMMA PiecesTyped ==
  ASSUME NEW D, NEW C, NEW g \in [D -> Seq(C)], NEW s \in Seq(D)
  PROVE  Pieces(s, g) \in Seq(Seq(C))
<1>0. PICK m : m = Pieces(s, g)
  OBVIOUS
<1>1. Len(s) \in Nat /\ DOMAIN s = 1..Len(s) /\ \A i \in 1..Len(s) : s[i] \in D
  BY LenProperties, ElementOfSeq
<1>2. \A i \in 1..Len(s) : g[s[i]] \in Seq(C)
  BY <1>1
<1>3. m \in [1..Len(s) -> Seq(C)]
  BY <1>0, <1>1, <1>2 DEF Pieces
<1>4. m \in Seq(Seq(C)) /\ Len(m) = Len(s)
  BY <1>1, <1>3, SeqDef, SMTT(30)
<1> QED
  BY <1>0, <1>1, <1>4 DEF Pieces

\* There is one piece for each symbol: the one the table gives.
LEMMA PiecesAre ==
  ASSUME NEW D, NEW g, NEW s \in Seq(D)
  PROVE  Len(Pieces(s, g)) = Len(s) /\ \A i \in 1..Len(s) : Pieces(s, g)[i] = g[s[i]]
<1>0. PICK m : m = Pieces(s, g)
  OBVIOUS
<1>1. Len(s) \in Nat /\ DOMAIN s = 1..Len(s)
  BY LenProperties
<1>2. PICK S : S = {g[s[i]] : i \in 1..Len(s)}
  OBVIOUS
<1>3. m \in [1..Len(s) -> S]
  BY <1>0, <1>1, <1>2 DEF Pieces
<1>4. m \in Seq(S) /\ Len(m) = Len(s)
  BY <1>1, <1>3, SeqDef
<1> QED
  BY <1>0, <1>1, <1>4 DEF Pieces

\* A text whose symbols are replaced is a text.
LEMMA SpreadTyped ==
  ASSUME NEW D, NEW C, NEW g \in [D -> Seq(C)], NEW s \in Seq(D)
  PROVE  Spread(s, g) \in Seq(C)
<1>1. Pieces(s, g) \in Seq(Seq(C))
  BY PiecesTyped
<1> QED
  BY <1>1, FlatTyped DEF Spread

\* There is nothing to replace in no text.
LEMMA SpreadNone == ASSUME NEW g PROVE Spread(<<>>, g) = <<>>
<1>1. DOMAIN <<>> = 1..0
  OBVIOUS
<1>2. Pieces(<<>>, g) = <<>>
  BY <1>1 DEF Pieces
<1> QED
  BY <1>2, FlatNone DEF Spread

\* Symbols are replaced part by part.
LEMMA SpreadJoined ==
  ASSUME NEW D, NEW C, NEW g \in [D -> Seq(C)], NEW s \in Seq(D), NEW t \in Seq(D)
  PROVE  Spread(s \o t, g) = Spread(s, g) \o Spread(t, g)
<1>1. /\ s \o t \in Seq(D) /\ Len(s \o t) = Len(s) + Len(t) /\ Len(s) \in Nat /\ Len(t) \in Nat
      /\ \A i \in 1..Len(s) + Len(t) : (s \o t)[i] = IF i <= Len(s) THEN s[i] ELSE t[i - Len(s)]
  BY ConcatProperties, LenProperties
<1>2. PICK a, b, c : /\ a = Pieces(s, g) /\ b = Pieces(t, g)
                     /\ c = Pieces(s \o t, g)
  OBVIOUS
<1>3. a \in Seq(Seq(C)) /\ Len(a) = Len(s) /\ \A i \in 1..Len(s) : a[i] = g[s[i]]
  <2>1. Pieces(s, g) \in Seq(Seq(C)) /\ Len(Pieces(s, g)) = Len(s) /\ \A i \in 1..Len(s) : Pieces(s, g)[i] = g[s[i]]
    BY PiecesTyped, PiecesAre
  <2> QED
    BY <1>2, <2>1, Zenon
<1>4. b \in Seq(Seq(C)) /\ Len(b) = Len(t) /\ \A i \in 1..Len(t) : b[i] = g[t[i]]
  <2>1. Pieces(t, g) \in Seq(Seq(C)) /\ Len(Pieces(t, g)) = Len(t) /\ \A i \in 1..Len(t) : Pieces(t, g)[i] = g[t[i]]
    BY PiecesTyped, PiecesAre
  <2> QED
    BY <1>2, <2>1, Zenon
<1>5. c \in Seq(Seq(C)) /\ Len(c) = Len(s \o t) /\ \A i \in 1..Len(s \o t) : c[i] = g[(s \o t)[i]]
  <2>1. PICK u : u = s \o t
    OBVIOUS
  <2>2. u \in Seq(D)
    BY <1>1, <2>1
  <2> QED
    <3>1. Pieces(u, g) \in Seq(Seq(C))
      BY <2>2, PiecesTyped
    <3>2. Len(Pieces(u, g)) = Len(u) /\ \A i \in 1..Len(u) : Pieces(u, g)[i] = g[u[i]]
      BY <2>2, PiecesAre
    <3> QED
      BY <1>2, <2>1, <3>1, <3>2, Zenon
<1>6. a \o b \in Seq(Seq(C)) /\ Len(a \o b) = Len(s) + Len(t)
      /\ \A i \in 1..Len(s) + Len(t) : (a \o b)[i] = IF i <= Len(s) THEN a[i] ELSE b[i - Len(s)]
  <2>1. a \o b \in Seq(Seq(C)) /\ Len(a \o b) = Len(a) + Len(b)
        /\ \A i \in 1..Len(a) + Len(b) : (a \o b)[i] = IF i <= Len(a) THEN a[i] ELSE b[i - Len(a)]
    BY <1>3, <1>4, ConcatProperties, ZenonT(60)
  <2>2. Len(a) = Len(s) /\ Len(b) = Len(t)
    BY <1>3, <1>4
  <2> QED
    BY <2>1, <2>2, Zenon
<1>7. ASSUME NEW i \in 1..Len(s) + Len(t) PROVE c[i] = (a \o b)[i]
  <2>1. CASE i <= Len(s)
    <3>1. i \in 1..Len(s)
      BY <1>1, <2>1
    <3> QED
      BY <1>1, <1>3, <1>5, <1>6, <2>1, <3>1
  <2>2. CASE ~(i <= Len(s))
    <3>1. i - Len(s) \in 1..Len(t)
      BY <1>1, <2>2
    <3> QED
      BY <1>1, <1>4, <1>5, <1>6, <2>2, <3>1, ZenonT(60)
  <2> QED
    BY <2>1, <2>2
<1>8. c = a \o b
  BY <1>1, <1>5, <1>6, <1>7, SeqEqual
<1>9. FlattenSeq(a \o b) = FlattenSeq(a) \o FlattenSeq(b)
  BY <1>3, <1>4, FlatJoined
<1> QED
  BY <1>2, <1>8, <1>9 DEF Spread

\* A single symbol is replaced by what the table gives.
LEMMA SpreadOne ==
  ASSUME NEW D, NEW C, NEW g \in [D -> Seq(C)], NEW x \in D
  PROVE  Spread(<<x>>, g) = g[x]
<1>1. Pieces(<<x>>, g) = <<g[x]>>
  BY DEF Pieces
<1> QED
  BY <1>1, FlatOne DEF Spread

\* To spread with two functions, one after the other.
LEMMA SpreadTwice ==
  ASSUME NEW D, NEW E, NEW C, NEW g \in [D -> Seq(E)], NEW h \in [E -> Seq(C)], NEW s \in Seq(D)
  PROVE  Spread(Spread(s, g), h) = Spread(s, [x \in D |-> Spread(g[x], h)])
<1> DEFINE k == [x \in D |-> Spread(g[x], h)]
           T == {t \in Seq(D) : Spread(Spread(t, g), h) = Spread(t, k)}
<1>1. k \in [D -> Seq(C)]
  BY SpreadTyped
<1>2. <<>> \in T
  BY SpreadNone, EmptySeq
<1>3. ASSUME NEW t \in Seq(D), NEW x \in D, t \in T PROVE t \o <<x>> \in T
  <2>1. <<x>> \in Seq(D) /\ t \o <<x>> \in Seq(D)
    BY ConcatProperties
  <2>2. Spread(t \o <<x>>, g) = Spread(t, g) \o g[x]
    <3>1. Spread(t \o <<x>>, g) = Spread(t, g) \o Spread(<<x>>, g)
      BY <2>1, SpreadJoined, Zenon
    <3>2. Spread(<<x>>, g) = g[x]
      BY SpreadOne, Zenon
    <3> QED
      BY <3>1, <3>2
  <2>3. Spread(t, g) \in Seq(E) /\ g[x] \in Seq(E)
    BY SpreadTyped
  <2>4. Spread(Spread(t, g) \o g[x], h) = Spread(Spread(t, g), h) \o Spread(g[x], h)
    BY <2>3, SpreadJoined, ZenonT(60)
  <2> HIDE DEF k
  <2>5. Spread(t \o <<x>>, k) = Spread(t, k) \o k[x]
    <3>1. Spread(t \o <<x>>, k) = Spread(t, k) \o Spread(<<x>>, k)
      BY <1>1, <2>1, SpreadJoined, ZenonT(60)
    <3>2. Spread(<<x>>, k) = k[x]
      BY <1>1, SpreadOne, Zenon
    <3> QED
      BY <3>1, <3>2
  <2> USE DEF k
  <2> QED
    BY <1>3, <2>1, <2>2, <2>4, <2>5
<1> HIDE DEF T
<1>4. Seq(D) \subseteq T
  BY <1>2, <1>3, SeqInduct
<1> QED
  BY <1>4 DEF T

\* What becomes of one element of a text.
PieceAt(text, matches, i) ==
  IF \E m \in matches : m.first = i THEN (CHOOSE m \in matches : m.first = i).by
  ELSE IF \E m \in matches : i \in m.first..m.last THEN <<>> ELSE <<text[i]>>

\* Matches of a pattern with what replaces them, and the pieces a replacement leaves.
Matches(C) == [first : Nat, last : Nat, by : Seq(C)]
OneEach(matches) == \A m, n \in matches : m.first = n.first => m = n

PiecesOf(text, matches) == [i \in DOMAIN text |-> PieceAt(text, matches, i)]

\* What a replacement leaves at each place of a text.
LEMMA PiecesOfAre ==
  ASSUME NEW C, NEW text \in Seq(C), NEW matches \in SUBSET Matches(C)
  PROVE  /\ Replaced(text, matches) = FlattenSeq(PiecesOf(text, matches))
         /\ PiecesOf(text, matches) \in Seq(Seq(C)) /\ Len(PiecesOf(text, matches)) = Len(text)
         /\ \A i \in 1..Len(text) : PiecesOf(text, matches)[i] = PieceAt(text, matches, i) /\
              PieceAt(text, matches, i) \in Seq(C)
<1>1. Len(text) \in Nat /\ DOMAIN text = 1..Len(text) /\ \A i \in 1..Len(text) : text[i] \in C
  BY LenProperties, ElementOfSeq
<1>2. ASSUME NEW i \in 1..Len(text) PROVE PieceAt(text, matches, i) \in Seq(C)
  <2>1. CASE \E m \in matches : m.first = i
    <3>1. PICK m : m = CHOOSE n \in matches : n.first = i
      OBVIOUS
    <3>2. m \in matches
      BY <2>1, <3>1
    <3>3. m.by \in Seq(C)
      BY <3>2 DEF Matches
    <3> QED
      BY <2>1, <3>1, <3>3, Zenon DEF PieceAt
  <2>2. CASE ~\E m \in matches : m.first = i
    <3>1. <<>> \in Seq(C) /\ <<text[i]>> \in Seq(C)
      BY <1>1, EmptySeq
    <3> QED
      BY <2>2, <3>1, Zenon DEF PieceAt
  <2> QED
    BY <2>1, <2>2
<1>3. PICK m : m = PiecesOf(text, matches)
  OBVIOUS
<1>4. m \in [1..Len(text) -> Seq(C)]
  BY <1>1, <1>2, <1>3 DEF PiecesOf
<1>5. m \in Seq(Seq(C)) /\ Len(m) = Len(text)
  BY <1>1, <1>4, SeqDef
<1>6. Replaced(text, matches) = FlattenSeq(PiecesOf(text, matches))
  BY Zenon DEF Replaced, PiecesOf, PieceAt
<1>7. \A i \in 1..Len(text) : m[i] = PieceAt(text, matches, i)
  BY <1>1, <1>3, Zenon DEF PiecesOf
<1> QED
  BY <1>2, <1>3, <1>5, <1>6, <1>7, Zenon

\* A text whose matches are replaced is a text.
LEMMA ReplacedTyped ==
  ASSUME NEW C, NEW text \in Seq(C), NEW matches \in SUBSET Matches(C)
  PROVE  Replaced(text, matches) \in Seq(C)
BY PiecesOfAre, FlatTyped

\* A match found behind n symbols of other text, and the matches of two joined texts.
Later(m, n) == [first |-> m.first + n, last |-> m.last + n, by |-> m.by]

Adjoined(C, a, b, A, B, M) ==
  /\ a \in Seq(C) /\ b \in Seq(C) /\ A \in SUBSET Matches(C) /\ B \in SUBSET Matches(C)
  /\ (\A m \in A : m.first <= Len(a) /\ m.last <= Len(a)) /\ (\A m \in B : m.first >= 1)
  /\ M = A \cup {Later(m, Len(a)) : m \in B} /\ OneEach(M)

\* No match reaches from one text into the next: each is replaced on its own.
LEMMA ReplacedJoined ==
  ASSUME NEW C, NEW a, NEW b, NEW A, NEW B, NEW M, Adjoined(C, a, b, A, B, M)
  PROVE  Replaced(a \o b, M) = Replaced(a, A) \o Replaced(b, B)
<1>0. /\ a \in Seq(C) /\ b \in Seq(C) /\ A \in SUBSET Matches(C) /\ B \in SUBSET Matches(C)
      /\ (\A m \in A : m.first <= Len(a) /\ m.last <= Len(a)) /\ (\A m \in B : m.first >= 1)
      /\ M = A \cup {Later(m, Len(a)) : m \in B} /\ OneEach(M)
  BY DEF Adjoined
<1> USE <1>0
<1>1. /\ a \o b \in Seq(C) /\ Len(a \o b) = Len(a) + Len(b) /\ Len(a) \in Nat /\ Len(b) \in Nat
      /\ \A i \in 1..Len(a) + Len(b) : (a \o b)[i] = IF i <= Len(a) THEN a[i] ELSE b[i - Len(a)]
  BY ConcatProperties, LenProperties
<1>2. M \in SUBSET Matches(C)
  <2>1. \A m \in B : Later(m, Len(a)) \in Matches(C)
    BY <1>1 DEF Later, Matches
  <2> QED
    BY <2>1
<1>3. PICK p, q, r : p = PiecesOf(a, A) /\ q = PiecesOf(b, B) /\ r = PiecesOf(a \o b, M)
  OBVIOUS
<1>4. ASSUME NEW i \in 1..Len(a) PROVE PieceAt(a \o b, M, i) = PieceAt(a, A, i)
  <2>0. \A m \in B : Later(m, Len(a)).first > i
    BY <1>1 DEF Later, Matches
  <2>1. \A m \in A : m \in M
    OBVIOUS
  <2>2. \A m \in M : m \in A \/ m.first > i
    <3>1. \A m \in M : m \in A \/ \E n \in B : m = Later(n, Len(a))
      OBVIOUS
    <3> QED
      BY <2>0, <3>1, Zenon
  <2>3. (a \o b)[i] = a[i]
    BY <1>1
  <2>4. CASE \E m \in A : m.first = i
    <3>1. PICK x, y : x = (CHOOSE m \in A : m.first = i) /\ y = (CHOOSE m \in M : m.first = i)
      OBVIOUS
    <3>2. x \in A /\ x.first = i /\ \E m \in M : m.first = i
      BY <2>1, <2>4, <3>1
    <3>3. y \in M /\ y.first = i
      BY <3>1, <3>2
    <3>4. x = y
      BY <2>1, <3>2, <3>3 DEF OneEach
    <3> QED
      BY <2>4, <3>1, <3>2, <3>4, Zenon DEF PieceAt
  <2>5. CASE ~\E m \in A : m.first = i
    <3>1. ~\E m \in M : m.first = i
      BY <2>2, <2>5, <1>1, <1>2 DEF Matches
    <3>2. (\E m \in M : i \in m.first..m.last) <=> \E m \in A : i \in m.first..m.last
      BY <2>1, <2>2, <1>1, <1>2 DEF Matches
    <3> QED
      BY <2>3, <2>5, <3>1, <3>2, Zenon DEF PieceAt
  <2> QED
    BY <2>4, <2>5
<1>5. ASSUME NEW i \in 1..Len(b) PROVE PieceAt(a \o b, M, Len(a) + i) = PieceAt(b, B, i)
  <2>0. \A m \in B : /\ Later(m, Len(a)) \in M /\ Later(m, Len(a)).first = m.first + Len(a) /\ m.first \in Nat /\ m.last \in Nat
                     /\ Later(m, Len(a)).last = m.last + Len(a) /\ Later(m, Len(a)).by = m.by
    BY <1>1 DEF Later, Matches
  <2>1. \A m \in M : (m.first <= Len(a) /\ m.last <= Len(a) /\ m.first \in Nat /\ m.last \in Nat) \/ \E n \in B :
          m = Later(n, Len(a))
    BY DEF Matches
  <2>2. PICK k : k = Len(a) + i
    OBVIOUS
  <2>3. k \in Nat /\ k > Len(a) /\ k - Len(a) = i /\ (a \o b)[k] = b[i] /\ i \in Nat
    BY <1>1, <2>2
  <2>4. \A m \in M : m.first = k => \E n \in B : m = Later(n, Len(a)) /\ n.first = i
    BY <1>1, <2>0, <2>1, <2>3
  <2>5. \A n \in B : n.first = i => Later(n, Len(a)).first = k
    BY <1>1, <2>0, <2>2, <2>3
  <2>6. (\E m \in M : k \in m.first..m.last) <=> \E n \in B : i \in n.first..n.last
    <3>1. ASSUME NEW m \in M, k \in m.first..m.last PROVE \E n \in B : i \in n.first..n.last
      <4>1. ~(m.first <= Len(a) /\ m.last <= Len(a) /\ m.first \in Nat /\ m.last \in Nat)
        BY <1>1, <2>3, <3>1
      <4>2. PICK n \in B : m = Later(n, Len(a))
        BY <2>1, <4>1, Zenon
      <4>3. m.first = n.first + Len(a) /\ m.last = n.last + Len(a) /\ n.first \in Nat /\ n.last \in Nat
        BY <2>0, <4>2, Zenon
      <4>4. i \in n.first..n.last
        BY <1>1, <2>2, <2>3, <3>1, <4>3
      <4> QED
        BY <4>4
    <3>2. ASSUME NEW n \in B, i \in n.first..n.last PROVE \E m \in M : k \in m.first..m.last
      <4>1. k \in Later(n, Len(a)).first..Later(n, Len(a)).last
        BY <1>1, <2>0, <2>3, <3>2
      <4> QED
        BY <2>0, <4>1, Zenon
    <3> QED
      BY <3>1, <3>2
  <2>7. CASE \E n \in B : n.first = i
    <3>1. PICK x, y : x = (CHOOSE m \in B : m.first = i) /\ y = (CHOOSE m \in M : m.first = k)
      OBVIOUS
    <3>2. x \in B /\ x.first = i
      BY <2>7, <3>1
    <3>3. Later(x, Len(a)) \in M /\ Later(x, Len(a)).first = k
      BY <2>0, <2>5, <3>2
    <3>4. y \in M /\ y.first = k
      BY <3>1, <3>3
    <3>5. y = Later(x, Len(a))
      BY <3>3, <3>4, Zenon DEF OneEach
    <3>6. y.by = x.by
      BY <2>0, <3>2, <3>5
    <3> QED
      BY <2>2, <2>7, <3>1, <3>4, <3>6, Zenon DEF PieceAt
  <2>8. CASE ~\E n \in B : n.first = i
    <3>1. ~\E m \in M : m.first = k
      BY <2>4, <2>8
    <3> QED
      BY <2>2, <2>3, <2>6, <2>8, <3>1, Zenon DEF PieceAt
  <2> QED
    BY <2>7, <2>8
<1>6. p \in Seq(Seq(C)) /\ Len(p) = Len(a) /\ (\A i \in 1..Len(a) : p[i] = PieceAt(a, A, i)) /\ Replaced(a, A) = FlattenSeq(p)
  BY <1>3, PiecesOfAre, Zenon
<1>7. q \in Seq(Seq(C)) /\ Len(q) = Len(b) /\ (\A i \in 1..Len(b) : q[i] = PieceAt(b, B, i)) /\ Replaced(b, B) = FlattenSeq(q)
  BY <1>3, PiecesOfAre, Zenon
<1>8. r \in Seq(Seq(C)) /\ Len(r) = Len(a \o b) /\ (\A i \in 1..Len(a \o b) : r[i] = PieceAt(a \o b, M, i))
      /\ Replaced(a \o b, M) = FlattenSeq(r)
  BY <1>1, <1>2, <1>3, PiecesOfAre, ZenonT(60)
<1>9. r = p \o q
  <2>1. p \o q \in Seq(Seq(C)) /\ Len(p \o q) = Len(p) + Len(q)
        /\ \A i \in 1..Len(p) + Len(q) : (p \o q)[i] = IF i <= Len(p) THEN p[i] ELSE q[i - Len(p)]
    <3>1. p \in Seq(Seq(C)) /\ q \in Seq(Seq(C))
      BY <1>6, <1>7
    <3> QED
      BY <3>1, ConcatProperties, ZenonT(60)
  <2>2. ASSUME NEW i \in 1..Len(r) PROVE r[i] = (p \o q)[i]
    <3>0. i \in 1..Len(a) + Len(b) /\ i \in 1..Len(a \o b) /\ i \in 1..Len(p) + Len(q)
      BY <1>1, <1>6, <1>7, <1>8
    <3>1. CASE i <= Len(a)
      <4>1. i \in 1..Len(a)
        BY <1>1, <3>0, <3>1
      <4>2. (p \o q)[i] = p[i]
        BY <1>6, <2>1, <3>0, <3>1
      <4> QED
        BY <1>4, <1>6, <1>8, <3>0, <4>1, <4>2, Zenon
    <3>2. CASE ~(i <= Len(a))
      <4>1. i - Len(a) \in 1..Len(b) /\ Len(a) + (i - Len(a)) = i
        BY <1>1, <3>0, <3>2
      <4>2. (p \o q)[i] = q[i - Len(a)]
        BY <1>6, <2>1, <3>0, <3>2
      <4>3. PieceAt(a \o b, M, Len(a) + (i - Len(a))) = PieceAt(b, B, i - Len(a))
        BY <1>5, <4>1, Zenon
      <4> QED
        BY <1>7, <1>8, <3>0, <4>1, <4>2, <4>3, Zenon
    <3> QED
      BY <3>1, <3>2
  <2>3. Len(r) = Len(p \o q)
    BY <1>1, <1>6, <1>7, <1>8, <2>1
  <2> QED
    BY <1>8, <2>1, <2>2, <2>3, SeqEqual
<1>10. FlattenSeq(p \o q) = FlattenSeq(p) \o FlattenSeq(q)
  BY <1>6, <1>7, FlatJoined
<1> QED
  BY <1>2, <1>6, <1>7, <1>8, <1>9, <1>10, Zenon

\* To spread every element into itself alone changes nothing.
LEMMA SpreadSame ==
  ASSUME NEW D, NEW g \in [D -> Seq(D)], \A x \in D : g[x] = <<x>>, NEW s \in Seq(D)
  PROVE  Spread(s, g) = s
<1> DEFINE T == {t \in Seq(D) : Spread(t, g) = t}
<1>1. <<>> \in T
  BY SpreadNone, EmptySeq
<1>2. ASSUME NEW t \in Seq(D), NEW x \in D, t \in T PROVE t \o <<x>> \in T
  <2>1. <<x>> \in Seq(D) /\ t \o <<x>> \in Seq(D)
    BY ConcatProperties
  <2>2. Spread(t \o <<x>>, g) = Spread(t, g) \o Spread(<<x>>, g)
    BY <2>1, SpreadJoined, Zenon
  <2>3. Spread(<<x>>, g) = g[x]
    BY SpreadOne, Zenon
  <2> QED
    BY <1>2, <2>1, <2>2, <2>3
<1> HIDE DEF T
<1>3. Seq(D) \subseteq T
  BY <1>1, <1>2, SeqInduct
<1> QED
  BY <1>3 DEF T

\* Two functions that agree spread alike.
LEMMA SpreadAlike ==
  ASSUME NEW D, NEW g, NEW h, \A x \in D : g[x] = h[x], NEW s \in Seq(D)
  PROVE  Spread(s, g) = Spread(s, h)
<1>1. DOMAIN s = 1..Len(s) /\ \A i \in 1..Len(s) : s[i] \in D
  BY LenProperties, ElementOfSeq
<1>2. Pieces(s, g) = Pieces(s, h)
  BY <1>1 DEF Pieces
<1> QED
  BY <1>2 DEF Spread

\* What is left of each symbol when those in K are taken out.
Ridding(D, K) == [x \in D |-> IF x \in K THEN <<>> ELSE <<x>>]

\* Taking symbols out is a replacement by nothing.
LEMMA RidIs ==
  ASSUME NEW D, NEW K, NEW s \in Seq(D)
  PROVE  RidOf(s, K) = Spread(s, Ridding(D, K)) /\ Ridding(D, K) \in [D -> Seq(D)] /\ Ridding(D, K) \in [D -> Seq(D \ K)]
<1>1. DOMAIN s = 1..Len(s) /\ \A i \in 1..Len(s) : s[i] \in D
  BY LenProperties, ElementOfSeq
<1>2. Pieces(s, Ridding(D, K)) = [i \in DOMAIN s |-> IF s[i] \in K THEN <<>> ELSE <<s[i]>>]
  BY <1>1, Zenon DEF Pieces, Ridding
<1>3. \A x \in D : (IF x \in K THEN <<>> ELSE <<x>>) \in Seq(D) /\ (IF x \in K THEN <<>> ELSE <<x>>) \in Seq(D \ K)
  <2>1. ASSUME NEW x \in D PROVE /\ (IF x \in K THEN <<>> ELSE <<x>>) \in Seq(D)
                                 /\ (IF x \in K THEN <<>> ELSE <<x>>) \in Seq(D \ K)
    <3>1. CASE x \in K
      <4>1. <<>> \in Seq(D) /\ <<>> \in Seq(D \ K)
        BY EmptySeq
      <4> QED
        BY <3>1, <4>1
    <3>2. CASE x \notin K
      <4>1. x \in D \ K
        BY <3>2
      <4>2. <<x>> \in Seq(D) /\ <<x>> \in Seq(D \ K)
        BY <4>1
      <4> QED
        BY <3>2, <4>2
    <3> QED
      BY <3>1, <3>2
  <2> QED
    BY <2>1
<1>4. Ridding(D, K) \in [D -> Seq(D)] /\ Ridding(D, K) \in [D -> Seq(D \ K)]
  BY <1>3 DEF Ridding
<1> QED
  BY <1>2, <1>4 DEF RidOf, Spread

\* What is left once symbols are taken out has none of them.
LEMMA RidTyped ==
  ASSUME NEW D, NEW K, NEW s \in Seq(D)
  PROVE  RidOf(s, K) \in Seq(D) /\ RidOf(s, K) \in Seq(D \ K)
<1>1. PICK g : g = Ridding(D, K)
  OBVIOUS
<1>2. RidOf(s, K) = Spread(s, g) /\ g \in [D -> Seq(D)] /\ g \in [D -> Seq(D \ K)]
  BY <1>1, RidIs
<1>3. Spread(s, g) \in Seq(D)
  BY <1>2, SpreadTyped
<1>4. PICK E : E = D \ K
  OBVIOUS
<1>5. g \in [D -> Seq(E)]
  BY <1>2, <1>4
<1>6. Spread(s, g) \in Seq(E)
  BY <1>5, SpreadTyped
<1> QED
  BY <1>2, <1>3, <1>4, <1>6

\* There is nothing to take out of no text.
LEMMA RidNone == ASSUME NEW K PROVE RidOf(<<>>, K) = <<>>
<1>1. <<>> \in Seq({})
  BY EmptySeq
<1>2. RidOf(<<>>, K) = Spread(<<>>, Ridding({}, K))
  BY <1>1, RidIs
<1> QED
  BY <1>2, SpreadNone

\* Symbols are taken out part by part.
LEMMA RidJoined ==
  ASSUME NEW D, NEW K, NEW s \in Seq(D), NEW t \in Seq(D)
  PROVE  RidOf(s \o t, K) = RidOf(s, K) \o RidOf(t, K)
<1>1. s \o t \in Seq(D)
  BY ConcatProperties
<1>2. PICK g : g = Ridding(D, K)
  OBVIOUS
<1>3. g \in [D -> Seq(D)] /\ RidOf(s, K) = Spread(s, g) /\ RidOf(t, K) = Spread(t, g)
  BY <1>2, RidIs
<1>4. RidOf(s \o t, K) = Spread(s \o t, g)
  BY <1>1, <1>2, RidIs
<1>5. Spread(s \o t, g) = Spread(s, g) \o Spread(t, g)
  BY <1>3, SpreadJoined, Zenon
<1> QED
  BY <1>3, <1>4, <1>5, Zenon

\* Taking symbols out of a single one.
LEMMA RidOne == ASSUME NEW K, NEW x PROVE RidOf(<<x>>, K) = IF x \in K THEN <<>> ELSE <<x>>
<1>1. <<x>> \in Seq({x}) /\ x \in {x}
  OBVIOUS
<1>2. PICK g : g = Ridding({x}, K)
  OBVIOUS
<1>3. RidOf(<<x>>, K) = Spread(<<x>>, g) /\ g \in [{x} -> Seq({x})]
  BY <1>1, <1>2, RidIs
<1>4. Spread(<<x>>, g) = g[x]
  BY <1>1, <1>3, SpreadOne, Zenon
<1>5. g[x] = IF x \in K THEN <<>> ELSE <<x>>
  BY <1>1, <1>2, Zenon DEF Ridding
<1> QED
  BY <1>3, <1>4, <1>5, Zenon

\* A text without the symbols keeps all its own.
LEMMA RidKept ==
  ASSUME NEW D, NEW K, D \cap K = {}, NEW s \in Seq(D)
  PROVE  RidOf(s, K) = s
<1>1. PICK g : g = Ridding(D, K)
  OBVIOUS
<1>2. RidOf(s, K) = Spread(s, g) /\ g \in [D -> Seq(D)]
  BY <1>1, RidIs
<1>3. \A x \in D : g[x] = <<x>>
  BY <1>1 DEF Ridding
<1>4. Spread(s, g) = s
  BY <1>2, <1>3, SpreadSame, Zenon
<1> QED
  BY <1>2, <1>4

\* Taking symbols out twice is taking them out once.
LEMMA RidAgain ==
  ASSUME NEW D, NEW K, NEW s \in Seq(D)
  PROVE  RidOf(RidOf(s, K), K) = RidOf(s, K)
<1>1. RidOf(s, K) \in Seq(D \ K) /\ (D \ K) \cap K = {}
  BY RidTyped
<1> QED
  BY <1>1, RidKept

\* What is removed from the parts is removed from the whole.
LEMMA RidFlat ==
  ASSUME NEW D, NEW K, NEW ss \in Seq(Seq(D))
  PROVE  RidOf(FlattenSeq(ss), K) = FlattenSeq([k \in DOMAIN ss |-> RidOf(ss[k], K)])
<1>1. PICK g : g = [s \in Seq(D) |-> RidOf(s, K)]
  OBVIOUS
<1>2. g \in [Seq(D) -> Seq(D)]
  BY <1>1, RidTyped
<1>3. DOMAIN ss = 1..Len(ss) /\ \A k \in 1..Len(ss) : ss[k] \in Seq(D)
  BY LenProperties, ElementOfSeq
<1>4. Spread(ss, g) = FlattenSeq([k \in DOMAIN ss |-> RidOf(ss[k], K)])
  <2>1. Pieces(ss, g) = [k \in DOMAIN ss |-> RidOf(ss[k], K)]
    BY <1>1, <1>3, Zenon DEF Pieces
  <2> QED
    BY <2>1 DEF Spread
<1> DEFINE T == {t \in Seq(Seq(D)) : RidOf(FlattenSeq(t), K) = Spread(t, g)}
<1>5. <<>> \in T
  BY RidNone, FlatNone, SpreadNone, EmptySeq
<1>6. ASSUME NEW t \in Seq(Seq(D)), NEW x \in Seq(D), t \in T PROVE t \o <<x>> \in T
  <2>1. <<x>> \in Seq(Seq(D)) /\ t \o <<x>> \in Seq(Seq(D))
    BY ConcatProperties
  <2>2. FlattenSeq(t \o <<x>>) = FlattenSeq(t) \o x /\ FlattenSeq(t) \in Seq(D)
    BY FlatAppend, FlatTyped
  <2>3. RidOf(FlattenSeq(t) \o x, K) = RidOf(FlattenSeq(t), K) \o RidOf(x, K)
    BY <2>2, RidJoined
  <2>4. Spread(t \o <<x>>, g) = Spread(t, g) \o Spread(<<x>>, g)
    BY <1>2, <2>1, SpreadJoined, Zenon
  <2>5. Spread(<<x>>, g) = g[x] /\ g[x] = RidOf(x, K)
    <3>1. Spread(<<x>>, g) = g[x]
      BY <1>2, SpreadOne, Zenon
    <3> QED
      BY <1>1, <3>1
  <2> QED
    BY <1>6, <2>1, <2>2, <2>3, <2>4, <2>5
<1> HIDE DEF T
<1>7. Seq(Seq(D)) \subseteq T
  BY <1>5, <1>6, SeqInduct
<1> QED
  BY <1>4, <1>7 DEF T

\* Where nothing matches, nothing changes.
LEMMA ReplacedNone ==
  ASSUME NEW C, NEW text \in Seq(C)
  PROVE  Replaced(text, {}) = text
<1>1. PICK g : g = [x \in C |-> <<x>>]
  OBVIOUS
<1>2. g \in [C -> Seq(C)] /\ \A x \in C : g[x] = <<x>>
  BY <1>1
<1>3. DOMAIN text = 1..Len(text) /\ \A i \in 1..Len(text) : text[i] \in C
  BY LenProperties, ElementOfSeq
<1>4. Pieces(text, g) = PiecesOf(text, {})
  <2>1. \A i \in DOMAIN text : PieceAt(text, {}, i) = g[text[i]]
    BY <1>2, <1>3 DEF PieceAt
  <2> QED
    BY <2>1 DEF Pieces, PiecesOf
<1>5. {} \in SUBSET Matches(C)
  OBVIOUS
<1>6. Replaced(text, {}) = FlattenSeq(PiecesOf(text, {}))
  BY <1>5, PiecesOfAre
<1>7. Spread(text, g) = text
  BY <1>2, SpreadSame, Zenon
<1> QED
  BY <1>4, <1>6, <1>7 DEF Spread

\* Where the whole text matches, what comes instead is all.
LEMMA ReplacedAll ==
  ASSUME NEW C, NEW text \in Seq(C), NEW m \in Matches(C), m.first = 1, m.last = Len(text), text # <<>>
  PROVE  Replaced(text, {m}) = m.by
<1>1. Len(text) \in Nat \ {0} /\ {m} \in SUBSET Matches(C) /\ m.by \in Seq(C)
  BY EmptySeq DEF Matches
<1>2. PICK p : p = PiecesOf(text, {m})
  OBVIOUS
<1>3. p \in Seq(Seq(C)) /\ Len(p) = Len(text) /\ (\A i \in 1..Len(text) : p[i] = PieceAt(text, {m}, i))
      /\ Replaced(text, {m}) = FlattenSeq(p)
  BY <1>1, <1>2, PiecesOfAre, Zenon
<1>4. PICK f : /\ f \in [0..Len(p) -> Seq(C)] /\ f[0] = <<>>
               /\ (\A k \in 1..Len(p) : f[k] = f[k - 1] \o p[k]) /\ FlattenSeq(p) = f[Len(p)]
  BY <1>3, FlattenSteps
<1>5. p[1] = m.by
  <2>1. (CHOOSE x \in {m} : x.first = 1) = m /\ 1 \in 1..Len(text)
    BY <1>1
  <2> QED
    BY <1>3, <2>1 DEF PieceAt
<1>6. \A i \in 1..Len(text) : i # 1 => p[i] = <<>>
  BY <1>1, <1>3 DEF PieceAt
<1> DEFINE T == {k \in Nat : k # 0 => f[k] = m.by}
<1>7. 0 \in T
  OBVIOUS
<1>8. ASSUME NEW k \in 1..Len(text), k - 1 \in T PROVE k \in T
  <2>0. k \in Nat /\ k \in 1..Len(p)
    BY <1>1, <1>3
  <2>1. f[k] = f[k - 1] \o p[k] /\ k \in Nat
    BY <1>4, <2>0, Zenon
  <2>2. CASE k = 1
    <3>0. k - 1 = 0
      BY <2>2
    <3>1. f[k] = <<>> \o m.by
      BY <1>4, <1>5, <2>1, <2>2, <3>0, Zenon
    <3> QED
      BY <1>1, <2>1, <3>1, ConcatEmptySeq
  <2>3. CASE k # 1
    <3>1. f[k - 1] = m.by /\ p[k] = <<>>
      BY <1>6, <1>8, <2>1, <2>3
    <3> QED
      BY <1>1, <2>1, <3>1, ConcatEmptySeq
  <2> QED
    BY <2>2, <2>3
<1>9. Len(text) \in T
  <2> HIDE DEF T
  <2>1. \A k \in 0..Len(text) : k \in T
    BY <1>1, <1>7, <1>8, UpTo
  <2> QED
    BY <1>1, <2>1
<1> QED
  BY <1>1, <1>3, <1>4, <1>9

\* The places strictly between two others.
LEMMA Inner == ASSUME NEW f \in Nat, NEW l \in Nat PROVE \A j : j \in f + 1..l - 1 <=> j \in Nat /\ f < j /\ j < l
OBVIOUS

\* Where the symbols of two joined texts are.
LEMMA Joined ==
  ASSUME NEW C, NEW a \in Seq(C), NEW b \in Seq(C)
  PROVE  /\ a \o b \in Seq(C) /\ Len(a \o b) = Len(a) + Len(b) /\ Len(a) \in Nat /\ Len(b) \in Nat
         /\ \A i \in Nat : 1 <= i /\ i <= Len(a) => (a \o b)[i] = a[i]
         /\ \A i \in Nat : 1 <= i /\ i <= Len(b) => (a \o b)[i + Len(a)] = b[i]
         /\ \A i \in Nat : Len(a) < i /\ i <= Len(a) + Len(b) => (a \o b)[i] = b[i - Len(a)]
OBVIOUS

\* The positions of a placeholder in a text.
Ordered(text, f, n, l) == f \in Nat /\ n \in Nat /\ l \in Nat /\ 1 <= f /\ f < n /\ n < l /\ l <= Len(text)
Spelled(text, f, n, l) ==
  /\ text[f] = "{{" /\ text[n] \in MergeNames /\ text[l] = "}}"
  /\ \A j \in Nat : f < j /\ j < l /\ j # n => text[j] = Blank
Span(f, n, l) == [first |-> f, name |-> n, last |-> l]

\* What a placeholder is: opened, perhaps spaced, named and closed in this order.
LEMMA PlaceholderIs ==
  ASSUME NEW C, NEW text \in Seq(C), NEW p \in Placeholders(text)
  PROVE  Ordered(text, p.first, p.name, p.last) /\ Spelled(text, p.first, p.name, p.last) /\ p = Span(p.first, p.name, p.last)
<1>1. Len(text) \in Nat /\ DOMAIN text = 1..Len(text)
  BY LenProperties
<1>2. /\ p \in [first : Where(text, {"{{"}), name : Where(text, MergeNames), last : Where(text, {"}}"})]
      /\ p.first < p.name /\ p.name < p.last
      /\ \A j \in p.first + 1..p.last - 1 : j # p.name => text[j] = Blank
  BY DEF Placeholders
<1>3. /\ p.first \in 1..Len(text) /\ p.name \in 1..Len(text) /\ p.last \in 1..Len(text)
      /\ text[p.first] = "{{" /\ text[p.name] \in MergeNames /\ text[p.last] = "}}"
  BY <1>1, <1>2 DEF Where
<1>4. p = Span(p.first, p.name, p.last)
  BY <1>2 DEF Span
<1>5. PICK f, n, l, w : f = p.first /\ n = p.name /\ l = p.last /\ w = Len(text)
  OBVIOUS
<1>6. w \in Nat /\ f \in 1..w /\ n \in 1..w /\ l \in 1..w
  BY <1>1, <1>3, <1>5, Zenon
<1>7. f \in Nat /\ n \in Nat /\ l \in Nat /\ 1 <= f /\ l <= w
  BY <1>6
<1>8. Ordered(text, p.first, p.name, p.last)
  BY <1>2, <1>5, <1>7, Zenon DEF Ordered
<1>9. \A j \in Nat : f < j /\ j < l => j \in f + 1..l - 1
  BY <1>7, Inner, Zenon
<1>10. \A j \in Nat : p.first < j /\ j < p.last /\ j # p.name => text[j] = Blank
  BY <1>2, <1>5, <1>9, Zenon
<1> QED
  BY <1>3, <1>4, <1>8, <1>10, Zenon DEF Spelled

\* Whatever has a placeholder's shape is one.
LEMMA IsPlaceholder ==
  ASSUME NEW C, NEW text \in Seq(C), NEW f, NEW n, NEW l, Ordered(text, f, n, l), Spelled(text, f, n, l)
  PROVE  Span(f, n, l) \in Placeholders(text)
<1>1. Len(text) \in Nat /\ DOMAIN text = 1..Len(text)
  BY LenProperties
<1>2. f \in Nat /\ n \in Nat /\ l \in Nat /\ 1 <= f /\ f < n /\ n < l /\ l <= Len(text)
  BY DEF Ordered
<1>3. f \in DOMAIN text /\ n \in DOMAIN text /\ l \in DOMAIN text
  <2>1. f \in 1..Len(text) /\ n \in 1..Len(text) /\ l \in 1..Len(text)
    BY <1>1, <1>2
  <2> QED
    BY <1>1, <2>1
<1>4. f \in Where(text, {"{{"}) /\ n \in Where(text, MergeNames) /\ l \in Where(text, {"}}"})
  BY <1>3, Zenon DEF Where, Spelled
<1>5. \A j \in f + 1..l - 1 : j # n => text[j] = Blank
  BY <1>2, Inner, Zenon DEF Spelled
<1>6. PICK p : p = Span(f, n, l)
  OBVIOUS
<1>7. p.first = f /\ p.name = n /\ p.last = l
      /\ p \in [first : Where(text, {"{{"}), name : Where(text, MergeNames), last : Where(text, {"}}"})]
  BY <1>4, <1>6 DEF Span
<1> QED
  BY <1>2, <1>5, <1>6, <1>7, Zenon DEF Placeholders

\* No merge name is one of the marks of a placeholder.
NoNames == MergeNames \cap {"{{", "}}", Blank} = {}

\* No merge name is a brace or a blank.
LEMMA NamesAreNoMarks == NoNames
BY SymbolsAssumption DEF NoNames, Marks

\* Two placeholders do not begin at the same brace.
LEMMA OneSpelling ==
  ASSUME NEW text, NEW f, NEW n, NEW l, NEW m, NEW k,
         Ordered(text, f, n, l), Ordered(text, f, m, k), Spelled(text, f, n, l), Spelled(text, f, m, k)
  PROVE  n = m /\ l = k
<1>1. /\ f \in Nat /\ n \in Nat /\ l \in Nat /\ m \in Nat /\ k \in Nat /\ f < n /\ n < l /\ f < m /\ m < k
  BY DEF Ordered
<1>2. n < m => FALSE
  <2>1. n < m => f < n /\ n < k /\ n # m
    BY <1>1
  <2>2. n < m => text[n] = Blank /\ text[n] \in MergeNames
    BY <1>1, <2>1, Zenon DEF Spelled
  <2> QED
    BY <2>2, NamesAreNoMarks, Zenon DEF NoNames
<1>3. m < n => FALSE
  <2>1. m < n => f < m /\ m < l /\ m # n
    BY <1>1
  <2>2. m < n => text[m] = Blank /\ text[m] \in MergeNames
    BY <1>1, <2>1, Zenon DEF Spelled
  <2> QED
    BY <2>2, NamesAreNoMarks, Zenon DEF NoNames
<1>4. n = m
  BY <1>1, <1>2, <1>3
<1>5. l < k => FALSE
  <2>1. l < k => f < l /\ l < k /\ l # m
    BY <1>1, <1>4
  <2>2. l < k => text[l] = Blank /\ text[l] = "}}"
    BY <1>1, <2>1, Zenon DEF Spelled
  <2> QED
    BY <2>2 DEF Blank
<1>6. k < l => FALSE
  <2>1. k < l => f < k /\ k < l /\ k # n
    BY <1>1, <1>4
  <2>2. k < l => text[k] = Blank /\ text[k] = "}}"
    BY <1>1, <2>1, Zenon DEF Spelled
  <2> QED
    BY <2>2 DEF Blank
<1> QED
  BY <1>1, <1>4, <1>5, <1>6

\* At most one placeholder starts at a place.
LEMMA OnePlaceholder ==
  ASSUME NEW C, NEW text \in Seq(C), NEW p \in Placeholders(text), NEW q \in Placeholders(text), p.first = q.first
  PROVE  p = q
<1>1. /\ Ordered(text, p.first, p.name, p.last) /\ Spelled(text, p.first, p.name, p.last) /\ p = Span(p.first, p.name, p.last)
      /\ Ordered(text, q.first, q.name, q.last) /\ Spelled(text, q.first, q.name, q.last) /\ q = Span(q.first, q.name, q.last)
  BY PlaceholderIs
<1>2. p.name = q.name /\ p.last = q.last
  BY <1>1, OneSpelling, Zenon
<1> QED
  BY <1>1, <1>2, Zenon

\* A placeholder behind n symbols of other text; one that two joined texts make between them.
Moved(p, n) == [first |-> p.first + n, name |-> p.name + n, last |-> p.last + n]
Straddles(a, b) == \E p \in Placeholders(a \o b) : ~(p.last <= Len(a)) /\ ~(p.first > Len(a))

\* What is spelled in a text is spelled in the longer one, and the other way round.
LEMMA SpelledBefore ==
  ASSUME NEW C, NEW a \in Seq(C), NEW b \in Seq(C), NEW f, NEW n, NEW l
  PROVE  /\ Ordered(a, f, n, l) => Ordered(a \o b, f, n, l) /\ (Spelled(a, f, n, l) <=> Spelled(a \o b, f, n, l))
         /\ Ordered(a \o b, f, n, l) /\ l <= Len(a) => Ordered(a, f, n, l)
<1>1. Len(a \o b) = Len(a) + Len(b) /\ Len(a) \in Nat /\ Len(b) \in Nat
  BY Joined
<1>2. \A i \in Nat : 1 <= i /\ i <= Len(a) => (a \o b)[i] = a[i]
  BY Joined
<1>3. ASSUME Ordered(a, f, n, l)
      PROVE  Ordered(a \o b, f, n, l) /\ (Spelled(a, f, n, l) <=> Spelled(a \o b, f, n, l))
  <2>1. f \in Nat /\ n \in Nat /\ l \in Nat /\ 1 <= f /\ f < n /\ n < l /\ l <= Len(a)
    BY <1>3 DEF Ordered
  <2>2. Ordered(a \o b, f, n, l)
    BY <1>1, <2>1 DEF Ordered
  <2>3. 1 <= n /\ 1 <= l /\ f <= Len(a) /\ n <= Len(a)
    BY <1>1, <2>1
  <2>4. \A j \in Nat : f < j /\ j < l => 1 <= j /\ j <= Len(a)
    BY <1>1, <2>1
  <2>5. (a \o b)[f] = a[f] /\ (a \o b)[n] = a[n] /\ (a \o b)[l] = a[l]
    BY <1>2, <2>1, <2>3, Zenon
  <2>6. \A j \in Nat : f < j /\ j < l => (a \o b)[j] = a[j]
    BY <1>2, <2>4, Zenon
  <2> QED
    BY <2>2, <2>5, <2>6, Zenon DEF Spelled
<1>4. Ordered(a \o b, f, n, l) /\ l <= Len(a) => Ordered(a, f, n, l)
  BY DEF Ordered
<1> QED
  BY <1>3, <1>4

\* A placeholder's shape does not depend on the text before it.
LEMMA SpelledAfter ==
  ASSUME NEW C, NEW a \in Seq(C), NEW b \in Seq(C), NEW f, NEW n, NEW l, Ordered(b, f, n, l)
  PROVE  /\ Ordered(a \o b, f + Len(a), n + Len(a), l + Len(a))
         /\ Spelled(b, f, n, l) <=> Spelled(a \o b, f + Len(a), n + Len(a), l + Len(a))
<1>1. Len(a \o b) = Len(a) + Len(b) /\ Len(a) \in Nat /\ Len(b) \in Nat
  BY Joined
<1>2. \A i \in Nat : 1 <= i /\ i <= Len(b) => (a \o b)[i + Len(a)] = b[i]
  BY Joined
<1>3. f \in Nat /\ n \in Nat /\ l \in Nat /\ 1 <= f /\ f < n /\ n < l /\ l <= Len(b)
  BY DEF Ordered
<1>4. PICK u, w : u = Len(a) /\ w = Len(b)
  OBVIOUS
<1>5. /\ f + u \in Nat /\ n + u \in Nat /\ l + u \in Nat /\ 1 <= f + u /\ f + u < n + u /\ n + u < l + u /\ l + u <= u + w
      /\ 1 <= n /\ 1 <= l /\ f <= w /\ n <= w
  BY <1>1, <1>3, <1>4
<1>6. Ordered(a \o b, f + Len(a), n + Len(a), l + Len(a))
  BY <1>1, <1>4, <1>5, Zenon DEF Ordered
<1>7. (a \o b)[f + u] = b[f] /\ (a \o b)[n + u] = b[n] /\ (a \o b)[l + u] = b[l]
  BY <1>2, <1>3, <1>4, <1>5, Zenon
<1>8. ASSUME Spelled(b, f, n, l) PROVE Spelled(a \o b, f + u, n + u, l + u)
  <2>1. ASSUME NEW j \in Nat, f + u < j, j < l + u, j # n + u PROVE (a \o b)[j] = Blank
    <3>1. PICK i : i = j - u
      OBVIOUS
    <3>2. i \in Nat /\ f < i /\ i < l /\ i # n /\ 1 <= i /\ i <= w /\ i + u = j
      BY <1>1, <1>3, <1>4, <2>1, <3>1
    <3>3. b[i] = Blank
      BY <1>8, <3>2, Zenon DEF Spelled
    <3>4. (a \o b)[i + u] = b[i]
      BY <1>2, <1>4, <3>2, Zenon
    <3> QED
      BY <3>2, <3>3, <3>4, Zenon
  <2> QED
    BY <1>7, <1>8, <2>1, Zenon DEF Spelled
<1>9. ASSUME Spelled(a \o b, f + u, n + u, l + u) PROVE Spelled(b, f, n, l)
  <2>1. ASSUME NEW j \in Nat, f < j, j < l, j # n PROVE b[j] = Blank
    <3>1. j + u \in Nat /\ f + u < j + u /\ j + u < l + u /\ j + u # n + u /\ 1 <= j /\ j <= w
      BY <1>1, <1>3, <1>4, <2>1
    <3>2. (a \o b)[j + u] = Blank
      BY <1>9, <3>1, Zenon DEF Spelled
    <3> QED
      BY <1>2, <1>4, <2>1, <3>1, <3>2, Zenon
  <2> QED
    BY <1>7, <1>9, <2>1, Zenon DEF Spelled
<1> QED
  BY <1>4, <1>6, <1>8, <1>9, Zenon

\* The placeholders of a text are placeholders of the longer one.
LEMMA PlaceholdersKept ==
  ASSUME NEW C, NEW a \in Seq(C), NEW b \in Seq(C), NEW p \in Placeholders(a)
  PROVE  p \in Placeholders(a \o b)
<1>1. a \o b \in Seq(C)
  BY Joined
<1>2. Ordered(a, p.first, p.name, p.last) /\ Spelled(a, p.first, p.name, p.last) /\ p = Span(p.first, p.name, p.last)
  BY PlaceholderIs
<1>3. Ordered(a \o b, p.first, p.name, p.last) /\ Spelled(a \o b, p.first, p.name, p.last)
  BY <1>2, SpelledBefore, Zenon
<1>4. Span(p.first, p.name, p.last) \in Placeholders(a \o b)
  BY <1>1, <1>3, IsPlaceholder, Zenon
<1> QED
  BY <1>2, <1>4, Zenon

\* The placeholders of a text are found behind any other text.
LEMMA PlaceholdersMoved ==
  ASSUME NEW C, NEW a \in Seq(C), NEW b \in Seq(C), NEW p \in Placeholders(b)
  PROVE  Moved(p, Len(a)) \in Placeholders(a \o b)
<1>1. a \o b \in Seq(C)
  BY Joined
<1>2. Ordered(b, p.first, p.name, p.last) /\ Spelled(b, p.first, p.name, p.last)
  BY PlaceholderIs
<1>3. PICK f, n, l : f = p.first + Len(a) /\ n = p.name + Len(a) /\ l = p.last + Len(a)
  OBVIOUS
<1>4. Ordered(a \o b, f, n, l) /\ Spelled(a \o b, f, n, l)
  BY <1>2, <1>3, SpelledAfter, Zenon
<1>5. Span(f, n, l) \in Placeholders(a \o b)
  BY <1>1, <1>4, IsPlaceholder, Zenon
<1> QED
  BY <1>3, <1>5, Zenon DEF Span, Moved

\* Two joined texts have the placeholders of both, if none straddles them.
LEMMA PlaceholdersOfJoined ==
  ASSUME NEW C, NEW a \in Seq(C), NEW b \in Seq(C), ~Straddles(a, b)
  PROVE  Placeholders(a \o b) = Placeholders(a) \cup {Moved(p, Len(a)) : p \in Placeholders(b)}
<1>1. a \o b \in Seq(C) /\ Len(a \o b) = Len(a) + Len(b) /\ Len(a) \in Nat /\ Len(b) \in Nat
  BY Joined
<1>2. ASSUME NEW p \in Placeholders(a \o b) PROVE p \in Placeholders(a) \/ \E q \in Placeholders(b) : p = Moved(q, Len(a))
  <2>1. Ordered(a \o b, p.first, p.name, p.last) /\ Spelled(a \o b, p.first, p.name, p.last) /\
          p = Span(p.first, p.name, p.last)
    BY <1>1, PlaceholderIs
  <2>2. CASE p.last <= Len(a)
    <3>1. Ordered(a, p.first, p.name, p.last) /\ Spelled(a, p.first, p.name, p.last)
      BY <2>1, <2>2, SpelledBefore, Zenon
    <3>2. Span(p.first, p.name, p.last) \in Placeholders(a)
      BY <3>1, IsPlaceholder, Zenon
    <3> QED
      BY <2>1, <3>2, Zenon
  <2>3. CASE p.first > Len(a)
    <3>1. PICK x, y, z, u, w : x = p.first /\ y = p.name /\ z = p.last /\ u = Len(a) /\ w = Len(b)
      OBVIOUS
    <3>2. x \in Nat /\ y \in Nat /\ z \in Nat /\ u \in Nat /\ w \in Nat /\ x > u /\ x < y /\ y < z /\ z <= u + w
      BY <1>1, <2>1, <2>3, <3>1, Zenon DEF Ordered
    <3>3. PICK f, n, l : f = x - u /\ n = y - u /\ l = z - u
      OBVIOUS
    <3>4. f \in Nat /\ n \in Nat /\ l \in Nat /\ 1 <= f /\ f < n /\ n < l /\ l <= w /\ f + u = x /\ n + u = y /\ l + u = z
      BY <3>2, <3>3
    <3>5. Ordered(b, f, n, l)
      BY <3>1, <3>4, Zenon DEF Ordered
    <3>6. Spelled(a \o b, f + Len(a), n + Len(a), l + Len(a))
      BY <2>1, <3>1, <3>4, Zenon
    <3>7. Spelled(b, f, n, l)
      BY <3>5, <3>6, SpelledAfter, Zenon
    <3>8. PICK q : q = Span(f, n, l)
      OBVIOUS
    <3>9. q \in Placeholders(b)
      BY <3>5, <3>7, <3>8, IsPlaceholder, Zenon
    <3>10. q.first = f /\ q.name = n /\ q.last = l
      BY <3>8 DEF Span
    <3>11. p = Moved(q, Len(a))
      BY <2>1, <3>1, <3>4, <3>10, Zenon DEF Span, Moved
    <3> QED
      BY <3>9, <3>11
  <2> QED
    BY <2>2, <2>3 DEF Straddles
<1>3. \A p \in Placeholders(a) : p \in Placeholders(a \o b)
  BY PlaceholdersKept
<1>4. \A p \in Placeholders(b) : Moved(p, Len(a)) \in Placeholders(a \o b)
  BY PlaceholdersMoved
<1> QED
  BY <1>2, <1>3, <1>4

\* What a template's placeholders are replaced by.
Fill(value, text, p) == [first |-> p.first, last |-> p.last, by |-> value[text[p.name]]]
Fills(value, text) == {Fill(value, text, p) : p \in Placeholders(text)}

\* What a template's placeholders are replaced by are matches.
LEMMA FillsTyped ==
  ASSUME NEW C, NEW text \in Seq(C), NEW value \in [MergeNames -> Seq(C)]
  PROVE  Fills(value, text) \in SUBSET Matches(C) /\ RenderWith(value, text) = Replaced(text, Fills(value, text))
<1>1. \A p \in Placeholders(text) : p.first \in Nat /\ p.last \in Nat /\ text[p.name] \in MergeNames
  BY PlaceholderIs, Zenon DEF Ordered, Spelled
<1>2. \A p \in Placeholders(text) : p.first \in Nat /\ p.last \in Nat /\ value[text[p.name]] \in Seq(C)
  BY <1>1
<1>3. \A p \in Placeholders(text) : Fill(value, text, p) \in Matches(C)
  BY <1>2 DEF Fill, Matches
<1> QED
  BY <1>3, Zenon DEF Fills, Fill, RenderWith

\* A rendered template is a text.
LEMMA RenderTyped ==
  ASSUME NEW C, NEW text \in Seq(C), NEW value \in [MergeNames -> Seq(C)]
  PROVE  RenderWith(value, text) \in Seq(C)
BY FillsTyped, ReplacedTyped

\* Where no placeholder reaches from one text into the next, each is rendered on its own.
LEMMA RenderJoined ==
  ASSUME NEW C, NEW a \in Seq(C), NEW b \in Seq(C), NEW value \in [MergeNames -> Seq(C)], ~Straddles(a, b)
  PROVE  RenderWith(value, a \o b) = RenderWith(value, a) \o RenderWith(value, b)
<1>1. a \o b \in Seq(C) /\ Len(a \o b) = Len(a) + Len(b) /\ Len(a) \in Nat /\ Len(b) \in Nat
  BY Joined
<1>a. \A i \in Nat : 1 <= i /\ i <= Len(a) => (a \o b)[i] = a[i]
  BY Joined
<1>b. \A i \in Nat : 1 <= i /\ i <= Len(b) => (a \o b)[i + Len(a)] = b[i]
  BY Joined
<1>2. PICK A, B, M : A = Fills(value, a) /\ B = Fills(value, b) /\ M = Fills(value, a \o b)
  OBVIOUS
<1>3. A \in SUBSET Matches(C) /\ B \in SUBSET Matches(C) /\ M \in SUBSET Matches(C)
  BY <1>1, <1>2, FillsTyped
<1>c. ASSUME NEW p \in Placeholders(a)
      PROVE p.name \in Nat /\ 1 <= p.name /\ p.name <= Len(a) /\ p.first <= Len(a) /\ p.last <= Len(a)
  <2>1. PICK x, y, z, w : x = p.first /\ y = p.name /\ z = p.last /\ w = Len(a)
    OBVIOUS
  <2>2. x \in Nat /\ y \in Nat /\ z \in Nat /\ w \in Nat /\ 1 <= x /\ x < y /\ y < z /\ z <= w
    BY <1>1, <2>1, PlaceholderIs, Zenon DEF Ordered
  <2>3. 1 <= y /\ y <= w /\ x <= w /\ z <= w
    BY <2>2
  <2> QED
    BY <2>1, <2>2, <2>3, Zenon
<1>d. ASSUME NEW p \in Placeholders(b)
      PROVE p.name \in Nat /\ 1 <= p.name /\ p.name <= Len(b) /\ p.first >= 1
  <2>1. PICK x, y, z, w : x = p.first /\ y = p.name /\ z = p.last /\ w = Len(b)
    OBVIOUS
  <2>2. x \in Nat /\ y \in Nat /\ z \in Nat /\ w \in Nat /\ 1 <= x /\ x < y /\ y < z /\ z <= w
    BY <1>1, <2>1, PlaceholderIs, Zenon DEF Ordered
  <2>3. 1 <= y /\ y <= w /\ x >= 1
    BY <2>2
  <2> QED
    BY <2>1, <2>2, <2>3, Zenon
<1>4. (\A m \in A : m.first <= Len(a) /\ m.last <= Len(a)) /\ \A m \in B : m.first >= 1
  BY <1>2, <1>c, <1>d DEF Fills, Fill
<1>5. \A p \in Placeholders(a) : Fill(value, a \o b, p) = Fill(value, a, p)
  <2>1. \A p \in Placeholders(a) : (a \o b)[p.name] = a[p.name]
    BY <1>a, <1>c, Zenon
  <2> QED
    BY <2>1 DEF Fill
<1>6. \A p \in Placeholders(b) : Fill(value, a \o b, Moved(p, Len(a))) = Later(Fill(value, b, p), Len(a))
  <2>1. \A p \in Placeholders(b) : (a \o b)[p.name + Len(a)] = b[p.name]
    BY <1>b, <1>d, Zenon
  <2> QED
    BY <2>1 DEF Fill, Later, Moved
<1>7. M = A \cup {Later(m, Len(a)) : m \in B}
  <2>1. Placeholders(a \o b) = Placeholders(a) \cup {Moved(p, Len(a)) : p \in Placeholders(b)}
    BY PlaceholdersOfJoined
  <2>2. ASSUME NEW m \in M PROVE m \in A \cup {Later(n, Len(a)) : n \in B}
    <3>1. PICK p \in Placeholders(a \o b) : m = Fill(value, a \o b, p)
      BY <1>2 DEF Fills
    <3>2. CASE p \in Placeholders(a)
      BY <1>2, <1>5, <3>1, <3>2, Zenon DEF Fills
    <3>3. CASE \E q \in Placeholders(b) : p = Moved(q, Len(a))
      <4>1. PICK q \in Placeholders(b) : p = Moved(q, Len(a))
        BY <3>3
      <4>2. m = Later(Fill(value, b, q), Len(a))
        BY <1>6, <3>1, <4>1, Zenon
      <4>3. Fill(value, b, q) \in B
        BY <1>2 DEF Fills
      <4> QED
        BY <4>2, <4>3
    <3> QED
      BY <2>1, <3>1, <3>2, <3>3
  <2>3. ASSUME NEW m \in A PROVE m \in M
    <3>1. PICK p \in Placeholders(a) : m = Fill(value, a, p)
      BY <1>2 DEF Fills
    <3>2. p \in Placeholders(a \o b) /\ m = Fill(value, a \o b, p)
      BY <1>5, <2>1, <3>1
    <3> QED
      BY <1>2, <3>2, Zenon DEF Fills
  <2>4. ASSUME NEW n \in B PROVE Later(n, Len(a)) \in M
    <3>1. PICK q \in Placeholders(b) : n = Fill(value, b, q)
      BY <1>2 DEF Fills
    <3>2. Moved(q, Len(a)) \in Placeholders(a \o b)
      BY PlaceholdersMoved
    <3>3. Later(n, Len(a)) = Fill(value, a \o b, Moved(q, Len(a)))
      BY <1>6, <3>1
    <3> QED
      BY <1>2, <3>2, <3>3, Zenon DEF Fills
  <2> QED
    BY <2>2, <2>3, <2>4
<1>8. OneEach(M)
  <2>1. ASSUME NEW m \in M, NEW n \in M, m.first = n.first PROVE m = n
    <3>1. PICK p \in Placeholders(a \o b) : m = Fill(value, a \o b, p)
      BY <1>2 DEF Fills
    <3>2. PICK q \in Placeholders(a \o b) : n = Fill(value, a \o b, q)
      BY <1>2 DEF Fills
    <3>3. p.first = q.first
      BY <2>1, <3>1, <3>2 DEF Fill
    <3>4. p = q
      BY <1>1, <3>3, OnePlaceholder
    <3> QED
      BY <3>1, <3>2, <3>4
  <2> QED
    BY <2>1 DEF OneEach
<1>9. Replaced(a \o b, M) = Replaced(a, A) \o Replaced(b, B)
  <2>1. Adjoined(C, a, b, A, B, M)
    BY <1>3, <1>4, <1>7, <1>8, Zenon DEF Adjoined
  <2> QED
    BY <2>1, ReplacedJoined
<1>10. /\ RenderWith(value, a) = Replaced(a, A) /\ RenderWith(value, b) = Replaced(b, B)
       /\ RenderWith(value, a \o b) = Replaced(a \o b, M)
  BY <1>1, <1>2, FillsTyped
<1> QED
  BY <1>9, <1>10

\* A sequence of two.
LEMMA SeqOfTwo == ASSUME NEW S, NEW a \in S, NEW b \in S PROVE <<a, b>> \in Seq(S)
OBVIOUS

\* A sequence of three.
LEMMA SeqOfThree == ASSUME NEW S, NEW a \in S, NEW b \in S, NEW c \in S PROVE <<a, b, c>> \in Seq(S)
OBVIOUS

\* A sequence of five.
LEMMA SeqOfFive ==
  ASSUME NEW S, NEW a \in S, NEW b \in S, NEW c \in S, NEW d \in S, NEW e \in S PROVE <<a, b, c, d, e>> \in Seq(S)
OBVIOUS

\* A text without placeholders is rendered as it is.
LEMMA RenderNone ==
  ASSUME NEW C, NEW text \in Seq(C), NEW value, Placeholders(text) = {}
  PROVE  RenderWith(value, text) = text
<1>1. RenderWith(value, text) = Replaced(text, {})
  BY DEF RenderWith
<1> QED
  BY <1>1, ReplacedNone

\* A placeholder that reaches from one text into the next has what is between its braces there.
LEMMA StraddleAcross ==
  ASSUME NEW C, NEW a \in Seq(C), NEW b \in Seq(C), Straddles(a, b)
  PROVE  /\ a # <<>> /\ b # <<>> /\ a[Len(a)] \in C /\ b[1] \in C
         /\ a[Len(a)] \in MergeNames \cup {Blank, "{{"} /\ b[1] \in MergeNames \cup {Blank, "}}"}
<1>1. a \o b \in Seq(C) /\ Len(a \o b) = Len(a) + Len(b) /\ Len(a) \in Nat /\ Len(b) \in Nat
  BY Joined
<1>2. PICK p \in Placeholders(a \o b) : ~(p.last <= Len(a)) /\ ~(p.first > Len(a))
  BY DEF Straddles
<1>3. Ordered(a \o b, p.first, p.name, p.last) /\ Spelled(a \o b, p.first, p.name, p.last)
  BY <1>1, PlaceholderIs
<1>4. PICK x, y, z, u, w : x = p.first /\ y = p.name /\ z = p.last /\ u = Len(a) /\ w = Len(b)
  OBVIOUS
<1>5. x \in Nat /\ y \in Nat /\ z \in Nat /\ u \in Nat /\ w \in Nat /\ 1 <= x /\ x < y /\ y < z /\ z <= u + w /\
        ~(z <= u) /\ ~(x > u)
  BY <1>1, <1>2, <1>3, <1>4, Zenon DEF Ordered
<1>6. u >= 1 /\ w >= 1 /\ u \in 1..u /\ 1 \in 1..w /\ u + 1 \in Nat /\ x < u + 1 /\ u < z /\ 1 + u \in Nat /\ x < 1 + u
  BY <1>5
<1>7. a # <<>> /\ b # <<>>
  BY <1>4, <1>6
<1>8. a[u] \in C /\ b[1] \in C
  BY <1>4, <1>6, ElementOfSeq, Zenon
<1>9. (a \o b)[u] = a[u] /\ (a \o b)[1 + u] = b[1]
  <2>1. \A i \in Nat : 1 <= i /\ i <= Len(a) => (a \o b)[i] = a[i]
    BY Joined
  <2>2. \A i \in Nat : 1 <= i /\ i <= Len(b) => (a \o b)[i + Len(a)] = b[i]
    BY Joined
  <2>3. u \in Nat /\ 1 <= u /\ u <= u /\ 1 \in Nat /\ 1 <= 1 /\ 1 <= w
    BY <1>5, <1>6
  <2> QED
    BY <1>4, <2>1, <2>2, <2>3, Zenon
<1>10. (a \o b)[u] \in MergeNames \cup {Blank, "{{"}
  <2>1. CASE u = x
    BY <1>3, <1>4, <2>1, Zenon DEF Spelled
  <2>2. CASE u = y
    BY <1>3, <1>4, <2>2, Zenon DEF Spelled
  <2>3. CASE u # x /\ u # y
    <3>1. x < u
      BY <1>5, <2>3
    <3> QED
      BY <1>3, <1>4, <1>5, <1>6, <2>3, <3>1, Zenon DEF Spelled
  <2> QED
    BY <2>1, <2>2, <2>3
<1>11. (a \o b)[1 + u] \in MergeNames \cup {Blank, "}}"}
  <2>1. CASE 1 + u = z
    BY <1>3, <1>4, <2>1, Zenon DEF Spelled
  <2>2. CASE 1 + u = y
    BY <1>3, <1>4, <2>2, Zenon DEF Spelled
  <2>3. CASE 1 + u # z /\ 1 + u # y
    <3>1. 1 + u < z
      BY <1>5, <2>3
    <3> QED
      BY <1>3, <1>4, <1>5, <1>6, <2>3, <3>1, Zenon DEF Spelled
  <2> QED
    BY <2>1, <2>2, <2>3
<1> QED
  BY <1>4, <1>7, <1>8, <1>9, <1>10, <1>11, Zenon

\* The two spellings of a placeholder.
LEMMA RenderShort ==
  ASSUME NEW name \in MergeNames
  PROVE  Placeholders(<<"{{", name, "}}">>) = {Span(1, 2, 3)}
<1>1. PICK text : text = <<"{{", name, "}}">>
  OBVIOUS
<1>2. text \in Seq({"{{", name, "}}"}) /\ Len(text) = 3 /\ text[1] = "{{" /\ text[2] = name /\ text[3] = "}}"
  <2>1. PICK S : S = {"{{", name, "}}"}
    OBVIOUS
  <2>2. "{{" \in S /\ name \in S /\ "}}" \in S
    BY <2>1
  <2>3. text \in Seq(S)
    BY <1>1, <2>2, SeqOfThree, Zenon
  <2>4. Len(text) = 3 /\ text[1] = "{{" /\ text[2] = name /\ text[3] = "}}"
    BY <1>1
  <2> QED
    BY <2>1, <2>3, <2>4, Zenon
<1>3. name # "{{" /\ name # "}}" /\ name # Blank
  BY NamesAreNoMarks DEF NoNames
<1>4. Span(1, 2, 3) \in Placeholders(text)
  <2>0. 1 \in Nat /\ 2 \in Nat /\ 3 \in Nat /\ 1 <= 1 /\ 1 < 2 /\ 2 < 3 /\ 3 <= 3
    OBVIOUS
  <2>1. Ordered(text, 1, 2, 3)
    BY <1>2, <2>0, Zenon DEF Ordered
  <2>2. \A j \in Nat : 1 < j /\ j < 3 => j = 2
    OBVIOUS
  <2>3. Spelled(text, 1, 2, 3)
    BY <1>2, <2>2, Zenon DEF Spelled
  <2> QED
    BY <1>2, <2>1, <2>3, IsPlaceholder, Zenon
<1>5. ASSUME NEW p \in Placeholders(text) PROVE p = Span(1, 2, 3)
  <2>1. Ordered(text, p.first, p.name, p.last) /\ Spelled(text, p.first, p.name, p.last) /\ p = Span(p.first, p.name, p.last)
    BY <1>2, PlaceholderIs
  <2>2. PICK x, y, z : x = p.first /\ y = p.name /\ z = p.last
    OBVIOUS
  <2>3. x \in Nat /\ y \in Nat /\ z \in Nat /\ 1 <= x /\ x < y /\ y < z /\ z <= 3
    BY <1>2, <2>1, <2>2, Zenon DEF Ordered
  <2>4. x = 1 /\ y = 2 /\ z = 3
    BY <2>3
  <2> QED
    BY <2>1, <2>2, <2>4, Zenon
<1> QED
  BY <1>1, <1>4, <1>5

\* A placeholder written with blanks is one placeholder.
LEMMA RenderLong ==
  ASSUME NEW name \in MergeNames
  PROVE  Placeholders(<<"{{", Blank, name, Blank, "}}">>) = {Span(1, 3, 5)}
<1>1. PICK text : text = <<"{{", Blank, name, Blank, "}}">>
  OBVIOUS
<1>2. text \in Seq({"{{", name, "}}", Blank}) /\ Len(text) = 5
      /\ text[1] = "{{" /\ text[2] = Blank /\ text[3] = name /\ text[4] = Blank /\ text[5] = "}}"
  <2>1. PICK S : S = {"{{", name, "}}", Blank}
    OBVIOUS
  <2>2. "{{" \in S /\ name \in S /\ "}}" \in S /\ Blank \in S
    BY <2>1
  <2>3. text \in Seq(S)
    BY <1>1, <2>2, SeqOfFive, Zenon
  <2>4. Len(text) = 5 /\ text[1] = "{{" /\ text[2] = Blank /\ text[3] = name /\ text[4] = Blank /\ text[5] = "}}"
    BY <1>1
  <2> QED
    BY <2>1, <2>3, <2>4, Zenon
<1>3. name # "{{" /\ name # "}}" /\ name # Blank /\ "{{" # Blank /\ "}}" # Blank /\ "{{" # "}}" /\ Blank \notin MergeNames
  BY NamesAreNoMarks DEF NoNames, Blank
<1>4. Span(1, 3, 5) \in Placeholders(text)
  <2>0. 1 \in Nat /\ 3 \in Nat /\ 5 \in Nat /\ 1 <= 1 /\ 1 < 3 /\ 3 < 5 /\ 5 <= 5
    OBVIOUS
  <2>1. Ordered(text, 1, 3, 5)
    BY <1>2, <2>0, Zenon DEF Ordered
  <2>2. \A j \in Nat : 1 < j /\ j < 5 => j = 2 \/ j = 3 \/ j = 4
    OBVIOUS
  <2>3. Spelled(text, 1, 3, 5)
    BY <1>2, <2>2, Zenon DEF Spelled
  <2> QED
    BY <1>2, <2>1, <2>3, IsPlaceholder, Zenon
<1>5. ASSUME NEW p \in Placeholders(text) PROVE p = Span(1, 3, 5)
  <2>1. Ordered(text, p.first, p.name, p.last) /\ Spelled(text, p.first, p.name, p.last) /\ p = Span(p.first, p.name, p.last)
    BY <1>2, PlaceholderIs
  <2>2. PICK x, y, z : x = p.first /\ y = p.name /\ z = p.last
    OBVIOUS
  <2>3. x \in Nat /\ y \in Nat /\ z \in Nat /\ 1 <= x /\ x < y /\ y < z /\ z <= 5
    BY <1>2, <2>1, <2>2, Zenon DEF Ordered
  <2>4. (x = 1 \/ x = 2 \/ x = 3) /\ (y = 2 \/ y = 3 \/ y = 4) /\ (z = 3 \/ z = 4 \/ z = 5)
    BY <2>3
  <2>5. text[x] = "{{" /\ text[y] \in MergeNames /\ text[z] = "}}"
    BY <2>1, <2>2, Zenon DEF Spelled
  <2>6. x # 2 /\ y # 2 /\ y # 4 /\ z # 4
    BY <1>2, <1>3, <2>5, Zenon
  <2>7. x # 3
    BY <1>2, <1>3, <2>5, Zenon
  <2>8. x = 1 /\ y = 3 /\ z = 5
    BY <2>3, <2>4, <2>6, <2>7
  <2> QED
    BY <2>1, <2>2, <2>8, Zenon
<1> QED
  BY <1>1, <1>4, <1>5

\* A placeholder alone, spaced or not, is rendered to its value.
LEMMA RenderSpelled ==
  ASSUME NEW C, NEW text \in Seq(C), NEW name \in MergeNames, NEW value \in [MergeNames -> Seq(C)],
         text \in {<<"{{", name, "}}">>, <<"{{", Blank, name, Blank, "}}">>}
  PROVE  RenderWith(value, text) = value[name]
<1>1. PICK n, l : /\ Placeholders(text) = {Span(1, n, l)} /\ text[n] = name /\ l = Len(text) /\ l \in Nat /\ text # <<>>
  <2>1. CASE text = <<"{{", name, "}}">>
    <3>1. text[2] = name /\ Len(text) = 3 /\ text # <<>>
      BY <2>1
    <3> QED
      BY <2>1, <3>1, RenderShort
  <2>2. CASE text = <<"{{", Blank, name, Blank, "}}">>
    <3>1. text[3] = name /\ Len(text) = 5 /\ text # <<>>
      BY <2>2
    <3> QED
      BY <2>2, <3>1, RenderLong
  <2> QED
    BY <2>1, <2>2
<1>2. PICK m : m = Fill(value, text, Span(1, n, l))
  OBVIOUS
<1>3. Fills(value, text) = {m}
  BY <1>1, <1>2 DEF Fills
<1>4. m.first = 1 /\ m.last = l /\ m.by = value[name]
  BY <1>1, <1>2 DEF Fill, Span
<1>5. m \in Matches(C) /\ RenderWith(value, text) = Replaced(text, {m})
  BY <1>3, FillsTyped
<1>6. Replaced(text, {m}) = m.by
  BY <1>1, <1>4, <1>5, ReplacedAll, ZenonT(60)
<1> QED
  BY <1>4, <1>5, <1>6

\* The beginnings of a longer sequence.
LEMMA SubSeqJoined ==
  ASSUME NEW S, NEW t \in Seq(S), NEW x \in S
  PROVE  /\ \A k \in 1..Len(t) : SubSeq(t \o <<x>>, 1, k) = SubSeq(t, 1, k) /\ k \in DOMAIN (t \o <<x>>)
         /\ DOMAIN t = 1..Len(t)
OBVIOUS

\* Where no placeholder reaches from one of several texts into another, each is rendered on its own.
LEMMA ApartShorter ==
  ASSUME NEW C, NEW t \in Seq(Seq(C)), NEW x \in Seq(C), Apart(t \o <<x>>)
  PROVE  Apart(t) /\ ~Straddles(FlattenSeq(t), x)
<1>1. t \o <<x>> \in Seq(Seq(C)) /\ FlattenSeq(t \o <<x>>) = FlattenSeq(t) \o x /\ FlattenSeq(t) \in Seq(C)
  <2>1. <<x>> \in Seq(Seq(C))
    OBVIOUS
  <2> QED
    BY <2>1, ConcatProperties, FlatAppend, FlatTyped
<1>2. /\ \A k \in 1..Len(t) : SubSeq(t \o <<x>>, 1, k) = SubSeq(t, 1, k) /\ k \in DOMAIN (t \o <<x>>)
      /\ DOMAIN t = 1..Len(t)
  BY SubSeqJoined
<1>3. \A p \in Placeholders(FlattenSeq(t)) : p \in Placeholders(FlattenSeq(t \o <<x>>))
  BY <1>1, PlaceholdersKept
<1>4. Apart(t)
  BY <1>2, <1>3, Zenon DEF Apart
<1>5. ~Straddles(FlattenSeq(t), x)
  <2>1. CASE t = <<>>
    <3>1. FlattenSeq(t) = <<>>
      BY <2>1, FlatNone
    <3> QED
      BY <1>1, <3>1, StraddleAcross
  <2>2. CASE t # <<>>
    <3>1. Len(t) \in 1..Len(t) /\ SubSeq(t, 1, Len(t)) = t
      BY <2>2
    <3>2. SubSeq(t \o <<x>>, 1, Len(t)) = t /\ Len(t) \in DOMAIN (t \o <<x>>)
      BY <1>2, <3>1, Zenon
    <3>3. \A p \in Placeholders(FlattenSeq(t) \o x) : p.last <= Len(FlattenSeq(t)) \/ p.first > Len(FlattenSeq(t))
      BY <1>1, <3>2, Zenon DEF Apart
    <3> QED
      BY <3>3, Zenon DEF Straddles
  <2> QED
    BY <2>1, <2>2
<1> QED
  BY <1>4, <1>5

\* What each text is rendered to.
Rendered(C, value) == [text \in Seq(C) |-> RenderWith(value, text)]

\* A template is rendered part by part, if no placeholder straddles two of them.
LEMMA RenderParts ==
  ASSUME NEW C, NEW texts \in Seq(Seq(C)), NEW value \in [MergeNames -> Seq(C)], Apart(texts)
  PROVE  RenderWith(value, FlattenSeq(texts)) = Spread(texts, Rendered(C, value))
<1>1. PICK g : g = Rendered(C, value)
  OBVIOUS
<1>2. g \in [Seq(C) -> Seq(C)] /\ \A x \in Seq(C) : g[x] = RenderWith(value, x)
  BY <1>1, RenderTyped DEF Rendered
<1> DEFINE T == {t \in Seq(Seq(C)) : Apart(t) => RenderWith(value, FlattenSeq(t)) = Spread(t, g)}
<1>3. <<>> \in T
  <2>1. Placeholders(<<>>) = {}
    BY DEF Placeholders, Where
  <2>2. RenderWith(value, <<>>) = <<>>
    BY <2>1, RenderNone, EmptySeq
  <2> QED
    BY <2>2, FlatNone, SpreadNone, EmptySeq
<1>4. ASSUME NEW t \in Seq(Seq(C)), NEW x \in Seq(C), t \in T PROVE t \o <<x>> \in T
  <2>1. <<x>> \in Seq(Seq(C)) /\ t \o <<x>> \in Seq(Seq(C))
    BY ConcatProperties
  <2>2. FlattenSeq(t \o <<x>>) = FlattenSeq(t) \o x /\ FlattenSeq(t) \in Seq(C)
    BY FlatAppend, FlatTyped
  <2>3. Spread(t \o <<x>>, g) = Spread(t, g) \o g[x]
    <3>1. Spread(t \o <<x>>, g) = Spread(t, g) \o Spread(<<x>>, g)
      BY <1>2, <2>1, SpreadJoined, ZenonT(60)
    <3>2. Spread(<<x>>, g) = g[x]
      BY <1>2, SpreadOne, Zenon
    <3> QED
      BY <3>1, <3>2
  <2>4. ASSUME Apart(t \o <<x>>) PROVE RenderWith(value, FlattenSeq(t \o <<x>>)) = Spread(t \o <<x>>, g)
    <3>1. Apart(t) /\ ~Straddles(FlattenSeq(t), x)
      BY <2>4, ApartShorter
    <3>2. RenderWith(value, FlattenSeq(t) \o x) = RenderWith(value, FlattenSeq(t)) \o RenderWith(value, x)
      BY <2>2, <3>1, RenderJoined
    <3> QED
      BY <1>2, <1>4, <2>2, <2>3, <3>1, <3>2
  <2> QED
    BY <2>1, <2>4
<1> HIDE DEF T
<1>5. Seq(Seq(C)) \subseteq T
  BY <1>3, <1>4, SeqInduct
<1> QED
  BY <1>1, <1>5 DEF T

\* A sequence and its last element.
LEMMA LastOf ==
  ASSUME NEW S, NEW s \in Seq(S), s # <<>>
  PROVE  \E r \in Seq(S), x \in S : s = r \o <<x>> /\ x = s[Len(s)] /\ Len(r) = Len(s) - 1
<1>1. Len(s) \in Nat /\ Len(s) # 0 /\ Len(s) \in 1..Len(s)
  OBVIOUS
<1>2. SubSeq(s, 1, Len(s)) = s /\ SubSeq(s, 1, Len(s) - 1) \in Seq(S) /\ s[Len(s)] \in S
      /\ SubSeq(s, 1, Len(s)) = Append(SubSeq(s, 1, Len(s) - 1), s[Len(s)])
  BY <1>1, Beginnings
<1>3. PICK r, x : r = SubSeq(s, 1, Len(s) - 1) /\ x = s[Len(s)]
  OBVIOUS
<1>4. r \in Seq(S) /\ x \in S /\ s = Append(r, x)
  BY <1>2, <1>3
<1>5. s = r \o <<x>> /\ Len(s) = Len(r) + 1 /\ Len(r) \in Nat
  BY <1>4
<1>6. Len(r) = Len(s) - 1
  BY <1>1, <1>5
<1> QED
  BY <1>3, <1>4, <1>5, <1>6

\* The escape of one symbol, and the symbols that escaping brings in.
Escape1(x) ==
  IF x = "&" THEN <<"&", "amp;">> ELSE IF x = "<" THEN <<"&", "lt;">> ELSE IF x = "'" THEN <<"&", "#39;">> ELSE <<x>>
Escaping(C) == [x \in C |-> Escape1(x)]
HasEscapes(C) == {"&", "amp;", "lt;", "#39;", "'", "<"} \subseteq C

\* Escaping replaces symbol by symbol.
LEMMA EscapeIs ==
  ASSUME NEW C, HasEscapes(C), NEW v \in Seq(C)
  PROVE  EscapeHtml(v) = Spread(v, Escaping(C)) /\ Escaping(C) \in [C -> Seq(C)]
<1>1. DOMAIN v = 1..Len(v) /\ \A i \in 1..Len(v) : v[i] \in C
  BY LenProperties, ElementOfSeq
<1>2. Pieces(v, Escaping(C)) = [k \in DOMAIN v |-> Escape1(v[k])]
  BY <1>1, Zenon DEF Pieces, Escaping
<1>3. EscapeHtml(v) = FlattenSeq([k \in DOMAIN v |-> Escape1(v[k])])
  BY Zenon DEF EscapeHtml, Escape1
<1>4. ASSUME NEW x \in C PROVE Escape1(x) \in Seq(C)
  <2>0. "&" \in C /\ "amp;" \in C /\ "lt;" \in C /\ "#39;" \in C
    BY DEF HasEscapes
  <2>1. /\ <<"&", "amp;">> \in Seq(C) /\ <<"&", "lt;">> \in Seq(C) /\ <<"&", "#39;">> \in Seq(C)
    BY <2>0, SeqOfTwo, Zenon
  <2>2. <<x>> \in Seq(C)
    OBVIOUS
  <2> QED
    BY <2>1, <2>2, Zenon DEF Escape1
<1>5. Escaping(C) \in [C -> Seq(C)]
  BY <1>4 DEF Escaping
<1> QED
  BY <1>2, <1>3, <1>5 DEF Spread

\* An escaped text is a text.
LEMMA EscapeTyped ==
  ASSUME NEW C, HasEscapes(C), NEW v \in Seq(C)
  PROVE  EscapeHtml(v) \in Seq(C)
<1>1. PICK g : g = Escaping(C)
  OBVIOUS
<1>2. EscapeHtml(v) = Spread(v, g) /\ g \in [C -> Seq(C)]
  BY <1>1, EscapeIs
<1> QED
  BY <1>2, SpreadTyped

\* There is nothing to escape in no text.
LEMMA EscapeNone == EscapeHtml(<<>>) = <<>>
<1>1. PICK C : C = {"&", "amp;", "lt;", "#39;", "'", "<"}
  OBVIOUS
<1>2. HasEscapes(C) /\ <<>> \in Seq(C)
  BY <1>1, EmptySeq DEF HasEscapes
<1>3. EscapeHtml(<<>>) = Spread(<<>>, Escaping(C))
  BY <1>2, EscapeIs
<1> QED
  BY <1>3, SpreadNone

\* A text with one more symbol is escaped as that symbol's escape after the text's.
LEMMA EscapeAppend ==
  ASSUME NEW C, HasEscapes(C), NEW v \in Seq(C), NEW x \in C
  PROVE  EscapeHtml(v \o <<x>>) = EscapeHtml(v) \o Escape1(x) /\ Escape1(x) \in Seq(C)
<1>1. PICK g : g = Escaping(C)
  OBVIOUS
<1>2. <<x>> \in Seq(C) /\ v \o <<x>> \in Seq(C)
  BY ConcatProperties
<1>3. EscapeHtml(v) = Spread(v, g) /\ g \in [C -> Seq(C)] /\ EscapeHtml(v \o <<x>>) = Spread(v \o <<x>>, g)
  BY <1>1, <1>2, EscapeIs
<1>4. Spread(v \o <<x>>, g) = Spread(v, g) \o Spread(<<x>>, g)
  BY <1>2, <1>3, SpreadJoined, Zenon
<1>5. Spread(<<x>>, g) = g[x]
  BY <1>3, SpreadOne, Zenon
<1>6. g[x] = Escape1(x) /\ g[x] \in Seq(C)
  BY <1>1, <1>3 DEF Escaping
<1> QED
  BY <1>3, <1>4, <1>5, <1>6, Zenon

\* The character references of a text that one table decodes, and one that two texts make between them.
Ref(text, table, i) == [first |-> i, last |-> i + 1, by |-> <<table[text[i + 1]]>>]
Refs(text, table) == {i \in Where(text, {"&"}) : i + 1 \in Where(text, DOMAIN table)}
RefsOf(text, table) == {Ref(text, table, i) : i \in Refs(text, table)}
Splits(a, b, table) == a # <<>> /\ b # <<>> /\ a[Len(a)] = "&" /\ b[1] \in DOMAIN table

\* Decoding replaces the character references of one table.
LEMMA RefIs ==
  ASSUME NEW C, NEW text \in Seq(C), NEW N, NEW table \in [N -> C]
  PROVE  /\ Decoded(text, table) = Replaced(text, RefsOf(text, table)) /\ RefsOf(text, table) \in SUBSET Matches(C)
         /\ \A i : i \in Refs(text, table) <=>
                     i \in Nat /\ 1 <= i /\ i + 1 <= Len(text) /\ text[i] = "&" /\ text[i + 1] \in N
<1>1. Len(text) \in Nat /\ DOMAIN text = 1..Len(text) /\ DOMAIN table = N
  BY LenProperties
<1>2. Decoded(text, table) = Replaced(text, RefsOf(text, table))
  BY Zenon DEF Decoded, RefsOf, Refs, Ref
<1>3. \A i : i \in Refs(text, table) <=> i \in 1..Len(text) /\ i + 1 \in 1..Len(text) /\ text[i] = "&" /\ text[i + 1] \in N
  BY <1>1, Zenon DEF Refs, Where
<1>4. PICK w : w = Len(text)
  OBVIOUS
<1>5. \A i : i \in 1..w /\ i + 1 \in 1..w <=> i \in Nat /\ 1 <= i /\ i + 1 <= w
  <2>1. w \in Nat
    BY <1>1, <1>4
  <2> QED
    BY <2>1
<1>6. \A i : i \in Refs(text, table) <=> i \in Nat /\ 1 <= i /\ i + 1 <= Len(text) /\ text[i] = "&" /\ text[i + 1] \in N
  BY <1>3, <1>4, <1>5, Zenon
<1>7. \A i \in Refs(text, table) : Ref(text, table, i) \in Matches(C)
  <2>1. ASSUME NEW i \in Refs(text, table) PROVE Ref(text, table, i) \in Matches(C)
    <3>1. i \in Nat /\ text[i + 1] \in N
      BY <1>6
    <3>2. table[text[i + 1]] \in C
      BY <3>1
    <3>3. <<table[text[i + 1]]>> \in Seq(C)
      BY <3>2
    <3> QED
      BY <3>1, <3>3 DEF Ref, Matches
  <2> QED
    BY <2>1
<1> QED
  BY <1>2, <1>6, <1>7 DEF RefsOf

\* A decoded text is a text.
LEMMA DecodedTyped ==
  ASSUME NEW C, NEW text \in Seq(C), NEW N, NEW table \in [N -> C]
  PROVE  Decoded(text, table) \in Seq(C)
BY RefIs, ReplacedTyped

\* A reference to a character that is not cut in two is decoded where it stands.
LEMMA DecodedJoined ==
  ASSUME NEW C, NEW a \in Seq(C), NEW b \in Seq(C), NEW N, NEW table \in [N -> C], ~Splits(a, b, table)
  PROVE  Decoded(a \o b, table) = Decoded(a, table) \o Decoded(b, table)
<1>1. a \o b \in Seq(C) /\ Len(a \o b) = Len(a) + Len(b) /\ Len(a) \in Nat /\ Len(b) \in Nat
  BY Joined
<1>a. \A i \in Nat : 1 <= i /\ i <= Len(a) => (a \o b)[i] = a[i]
  BY Joined
<1>b. \A i \in Nat : 1 <= i /\ i <= Len(b) => (a \o b)[i + Len(a)] = b[i]
  BY Joined
<1>2. PICK A, B, M, u, w : /\ A = RefsOf(a, table) /\ B = RefsOf(b, table) /\ M = RefsOf(a \o b, table)
                           /\ u = Len(a) /\ w = Len(b)
  OBVIOUS
<1>3. A \in SUBSET Matches(C) /\ B \in SUBSET Matches(C) /\ M \in SUBSET Matches(C)
  BY <1>1, <1>2, RefIs
<1>4. u \in Nat /\ w \in Nat /\ Len(a \o b) = u + w
  BY <1>1, <1>2
<1>5. /\ \A i : i \in Refs(a, table) <=> i \in Nat /\ 1 <= i /\ i + 1 <= u /\ a[i] = "&" /\ a[i + 1] \in N
      /\ \A i : i \in Refs(b, table) <=> i \in Nat /\ 1 <= i /\ i + 1 <= w /\ b[i] = "&" /\ b[i + 1] \in N
      /\ \A i : i \in Refs(a \o b, table) <=> i \in Nat /\ 1 <= i /\ i + 1 <= u + w /\ (a \o b)[i] = "&" /\
           (a \o b)[i + 1] \in N
  <2>1. PICK c : c = a \o b
    OBVIOUS
  <2>2. \A i : i \in Refs(c, table) <=> i \in Nat /\ 1 <= i /\ i + 1 <= Len(c) /\ c[i] = "&" /\ c[i + 1] \in N
    BY <1>1, <2>1, RefIs, Zenon
  <2>3. /\ \A i : i \in Refs(a, table) <=> i \in Nat /\ 1 <= i /\ i + 1 <= u /\ a[i] = "&" /\ a[i + 1] \in N
        /\ \A i : i \in Refs(b, table) <=> i \in Nat /\ 1 <= i /\ i + 1 <= w /\ b[i] = "&" /\ b[i + 1] \in N
    BY <1>2, RefIs, Zenon
  <2> QED
    BY <1>4, <2>1, <2>2, <2>3, Zenon
<1>6. ASSUME NEW i \in Nat, 1 <= i, i + 1 <= u
      PROVE  (a \o b)[i] = a[i] /\ (a \o b)[i + 1] = a[i + 1] /\ i + 1 <= u + w
  <2>1. i <= u /\ i + 1 \in Nat /\ 1 <= i + 1 /\ i + 1 <= u + w
    BY <1>4, <1>6
  <2> QED
    BY <1>a, <1>2, <1>6, <2>1, Zenon
<1>7. ASSUME NEW i \in Nat, 1 <= i, i + 1 <= w
      PROVE  /\ (a \o b)[i + u] = b[i] /\ (a \o b)[(i + u) + 1] = b[i + 1] /\ i + u \in Nat /\ 1 <= i + u
             /\ (i + u) + 1 <= u + w
             /\ (i + 1) + u = (i + u) + 1
  <2>1. i <= w /\ i + 1 \in Nat /\ 1 <= i + 1 /\ (i + 1) + u = (i + u) + 1 /\ i + u \in Nat /\ 1 <= i + u /\
          (i + u) + 1 <= u + w
    BY <1>4, <1>7
  <2>2. (a \o b)[(i + 1) + u] = b[i + 1] /\ (a \o b)[i + u] = b[i]
    BY <1>b, <1>2, <1>7, <2>1, Zenon
  <2> QED
    BY <2>1, <2>2
<1>8. (\A m \in A : m.first <= Len(a) /\ m.last <= Len(a)) /\ \A m \in B : m.first >= 1
  <2>1. \A i \in Refs(a, table) : i \in Nat /\ i <= u /\ i + 1 <= u
    BY <1>4, <1>5
  <2>2. \A i \in Refs(b, table) : i >= 1
    BY <1>4, <1>5
  <2> QED
    BY <1>2, <2>1, <2>2 DEF RefsOf, Ref
<1>9. M = A \cup {Later(m, Len(a)) : m \in B}
  <2>1. ASSUME NEW i \in Refs(a, table) PROVE i \in Refs(a \o b, table) /\ Ref(a \o b, table, i) = Ref(a, table, i)
    <3>1. i \in Nat /\ 1 <= i /\ i + 1 <= u /\ a[i] = "&" /\ a[i + 1] \in N
      BY <1>5, Zenon
    <3>2. (a \o b)[i] = a[i] /\ (a \o b)[i + 1] = a[i + 1] /\ i + 1 <= u + w
      BY <1>6, <3>1
    <3> QED
      BY <1>5, <3>1, <3>2, Zenon DEF Ref
  <2>2. ASSUME NEW i \in Refs(b, table) PROVE i + u \in Refs(a \o b, table) /\
                 Ref(a \o b, table, i + u) = Later(Ref(b, table, i), u)
    <3>1. i \in Nat /\ 1 <= i /\ i + 1 <= w /\ b[i] = "&" /\ b[i + 1] \in N
      BY <1>5, Zenon
    <3>2. /\ (a \o b)[i + u] = b[i] /\ (a \o b)[(i + u) + 1] = b[i + 1] /\ i + u \in Nat /\ 1 <= i + u /\ (i + u) + 1 <= u + w
          /\ (i + 1) + u = (i + u) + 1
      BY <1>7, <3>1
    <3>3. i + u \in Refs(a \o b, table)
      BY <1>5, <3>1, <3>2, Zenon
    <3>4. Ref(a \o b, table, i + u) = Later(Ref(b, table, i), u)
      BY <3>2 DEF Ref, Later
    <3> QED
      BY <3>3, <3>4
  <2>3. ASSUME NEW i \in Refs(a \o b, table) PROVE i \in Refs(a, table) \/ \E j \in Refs(b, table) : i = j + u
    <3>1. i \in Nat /\ 1 <= i /\ i + 1 <= u + w /\ (a \o b)[i] = "&" /\ (a \o b)[i + 1] \in N
      BY <1>5, Zenon
    <3>2. CASE i + 1 <= u
      <4>1. (a \o b)[i] = a[i] /\ (a \o b)[i + 1] = a[i + 1]
        BY <1>6, <3>1, <3>2
      <4> QED
        BY <1>5, <3>1, <3>2, <4>1, Zenon
    <3>3. CASE i > u
      <4>1. PICK j : j = i - u
        OBVIOUS
      <4>2. j \in Nat /\ 1 <= j /\ j + 1 <= w /\ j + u = i /\ (j + u) + 1 = i + 1
        BY <1>4, <3>1, <3>3, <4>1
      <4>3. (a \o b)[j + u] = b[j] /\ (a \o b)[(j + u) + 1] = b[j + 1]
        BY <1>7, <4>2
      <4>4. b[j] = "&" /\ b[j + 1] \in N
        BY <3>1, <4>2, <4>3, Zenon
      <4>5. j \in Refs(b, table)
        BY <1>5, <4>2, <4>4, Zenon
      <4> QED
        BY <4>2, <4>5
    <3>4. CASE i = u
      <4>1. 1 <= u /\ 1 <= w /\ u <= u /\ u + 1 = 1 + u /\ 1 \in Nat /\ 1 <= 1
        BY <1>4, <3>1, <3>4
      <4>2. (a \o b)[u] = a[u] /\ (a \o b)[1 + u] = b[1]
        BY <1>a, <1>b, <1>2, <1>4, <4>1, Zenon
      <4>3. a[u] = "&" /\ b[1] \in N
        BY <3>1, <3>4, <4>1, <4>2, Zenon
      <4>4. a # <<>> /\ b # <<>> /\ DOMAIN table = N
        BY <1>2, <4>1
      <4> QED
        BY <1>2, <4>3, <4>4, Zenon DEF Splits
    <3>5. i + 1 <= u \/ i > u \/ i = u
      BY <1>4, <3>1
    <3> QED
      BY <3>2, <3>3, <3>4, <3>5
  <2>4. ASSUME NEW m \in M PROVE m \in A \cup {Later(n, Len(a)) : n \in B}
    <3>1. PICK i \in Refs(a \o b, table) : m = Ref(a \o b, table, i)
      BY <1>2 DEF RefsOf
    <3>2. CASE i \in Refs(a, table)
      <4>1. m = Ref(a, table, i)
        BY <2>1, <3>1, <3>2, Zenon
      <4> QED
        BY <1>2, <3>2, <4>1, Zenon DEF RefsOf
    <3>3. CASE \E j \in Refs(b, table) : i = j + u
      <4>1. PICK j \in Refs(b, table) : i = j + u
        BY <3>3
      <4>2. m = Later(Ref(b, table, j), u) /\ Ref(b, table, j) \in B
        BY <1>2, <2>2, <3>1, <4>1, Zenon DEF RefsOf
      <4> QED
        BY <1>2, <4>2
    <3> QED
      BY <2>3, <3>2, <3>3
  <2>5. ASSUME NEW m \in A PROVE m \in M
    <3>1. PICK i \in Refs(a, table) : m = Ref(a, table, i)
      BY <1>2 DEF RefsOf
    <3> QED
      BY <1>2, <2>1, <3>1, Zenon DEF RefsOf
  <2>6. ASSUME NEW m \in B PROVE Later(m, Len(a)) \in M
    <3>1. PICK i \in Refs(b, table) : m = Ref(b, table, i)
      BY <1>2 DEF RefsOf
    <3> QED
      BY <1>2, <2>2, <3>1, Zenon DEF RefsOf
  <2> QED
    BY <2>4, <2>5, <2>6
<1>10. OneEach(M)
  <2>1. ASSUME NEW m \in M, NEW n \in M, m.first = n.first PROVE m = n
    <3>1. PICK i \in Refs(a \o b, table) : m = Ref(a \o b, table, i)
      BY <1>2 DEF RefsOf
    <3>2. PICK j \in Refs(a \o b, table) : n = Ref(a \o b, table, j)
      BY <1>2 DEF RefsOf
    <3>3. i = j
      BY <2>1, <3>1, <3>2 DEF Ref
    <3> QED
      BY <3>1, <3>2, <3>3
  <2> QED
    BY <2>1 DEF OneEach
<1>11. Replaced(a \o b, M) = Replaced(a, A) \o Replaced(b, B)
  <2>1. Adjoined(C, a, b, A, B, M)
    BY <1>3, <1>8, <1>9, <1>10, Zenon DEF Adjoined
  <2> QED
    BY <2>1, ReplacedJoined
<1>12. /\ Decoded(a, table) = Replaced(a, A) /\ Decoded(b, table) = Replaced(b, B)
       /\ Decoded(a \o b, table) = Replaced(a \o b, M)
  <2>1. \A c \in Seq(C) : Decoded(c, table) = Replaced(c, RefsOf(c, table))
    BY RefIs
  <2> QED
    BY <1>1, <1>2, <2>1
<1> QED
  BY <1>11, <1>12

\* A table of character references over C.
Tabled(C, N, table) == table \in [N -> C]

\* Two joined texts are decoded part by part, if no reference straddles them.
LEMMA DecodedIs ==
  ASSUME NEW C, NEW a \in Seq(C), NEW b \in Seq(C), NEW N, NEW table, Tabled(C, N, table), ~Splits(a, b, table)
  PROVE  Decoded(a \o b, table) = Decoded(a, table) \o Decoded(b, table)
<1>1. table \in [N -> C]
  BY DEF Tabled
<1> QED
  BY <1>1, DecodedJoined

\* Where there is no reference to decode, nothing changes.
LEMMA DecodedSame ==
  ASSUME NEW C, NEW text \in Seq(C), NEW N, NEW table \in [N -> C],
         \A i \in Nat : 1 <= i /\ i + 1 <= Len(text) => ~(text[i] = "&" /\ text[i + 1] \in N)
  PROVE  Decoded(text, table) = text
<1>1. Refs(text, table) = {}
  BY RefIs, Zenon
<1>2. RefsOf(text, table) = {}
  BY <1>1 DEF RefsOf
<1>3. Decoded(text, table) = Replaced(text, RefsOf(text, table))
  BY RefIs
<1> QED
  BY <1>2, <1>3, ReplacedNone

\* A reference alone is decoded to its character.
LEMMA DecodedPair ==
  ASSUME NEW C, NEW N, NEW n \in N, NEW table \in [N -> C], "&" \in C, n \in C
  PROVE  Decoded(<<"&", n>>, table) = <<table[n]>>
<1>1. PICK text : text = <<"&", n>>
  OBVIOUS
<1>2. text \in Seq(C) /\ Len(text) = 2 /\ text[1] = "&" /\ text[2] = n /\ text # <<>>
  BY <1>1, SeqOfTwo
<1>3. \A i : i \in Refs(text, table) <=> i \in Nat /\ 1 <= i /\ i + 1 <= 2 /\ text[i] = "&" /\ text[i + 1] \in N
  <2>1. \A i : i \in Refs(text, table) <=> i \in Nat /\ 1 <= i /\ i + 1 <= Len(text) /\ text[i] = "&" /\ text[i + 1] \in N
    BY <1>2, RefIs, Zenon
  <2> QED
    BY <1>2, <2>1, Zenon
<1>4. \A i \in Nat : 1 <= i /\ i + 1 <= 2 => i = 1 /\ i + 1 = 2
  OBVIOUS
<1>5. 1 \in Nat /\ 1 <= 1 /\ 1 + 1 <= 2 /\ 1 + 1 = 2
  OBVIOUS
<1>6. Refs(text, table) = {1}
  BY <1>2, <1>3, <1>4, <1>5, Zenon
<1>7. PICK m : m = Ref(text, table, 1)
  OBVIOUS
<1>8. RefsOf(text, table) = {m}
  BY <1>6, <1>7 DEF RefsOf
<1>9. m.first = 1 /\ m.last = 2 /\ m.by = <<table[n]>>
  BY <1>2, <1>5, <1>7 DEF Ref
<1>10. Decoded(text, table) = Replaced(text, {m}) /\ m \in Matches(C)
  <2>1. Decoded(text, table) = Replaced(text, RefsOf(text, table)) /\ RefsOf(text, table) \in SUBSET Matches(C)
    BY <1>2, RefIs, ZenonT(60)
  <2> QED
    BY <1>8, <2>1
<1>11. Replaced(text, {m}) = m.by
  BY <1>2, <1>9, <1>10, ReplacedAll
<1> QED
  BY <1>1, <1>9, <1>10, <1>11

\* Half a reference: "&" at the end.
Whole(u) == u = <<>> \/ u[Len(u)] # "&"

\* Two single symbols joined.
LEMMA TwoIs == ASSUME NEW y, NEW x PROVE <<y>> \o <<x>> = <<y, x>>
<1>1. PICK s, t : s = <<y>> \o <<x>> /\ t = <<y, x>>
  OBVIOUS
<1>2. Len(s) = 2 /\ Len(t) = 2 /\ s[1] = y /\ s[2] = x /\ t[1] = y /\ t[2] = x
  BY <1>1
<1>3. s \in Seq({y, x}) /\ t \in Seq({y, x})
  BY <1>1
<1>4. \A i \in 1..2 : i = 1 \/ i = 2
  OBVIOUS
<1>5. \A i \in 1..Len(s) : s[i] = t[i]
  BY <1>2, <1>4, Zenon
<1> QED
  BY <1>1, <1>2, <1>3, <1>5, SeqEqual

\* Two symbols added one by one.
LEMMA OneAndOne ==
  ASSUME NEW C, NEW q \in Seq(C), NEW y \in C, NEW x \in C
  PROVE  (q \o <<y>>) \o <<x>> = q \o (<<y>> \o <<x>>) /\ <<y>> \o <<x>> = <<y, x>>
<1>1. <<y>> \in Seq(C) /\ <<x>> \in Seq(C)
  OBVIOUS
<1>2. (q \o <<y>>) \o <<x>> = q \o (<<y>> \o <<x>>)
  BY <1>1, ConcatAssociative
<1>3. <<y>> \o <<x>> = <<y, x>>
  BY TwoIs
<1> QED
  BY <1>2, <1>3

\* The last symbol of a text that one was added to.
LEMMA WholeLast ==
  ASSUME NEW C, NEW r \in Seq(C), NEW x \in C
  PROVE  r \o <<x>> # <<>> /\ (r \o <<x>>)[Len(r \o <<x>>)] = x
<1>1. r \o <<x>> = Append(r, x)
  OBVIOUS
<1>2. Append(r, x) # <<>> /\ Append(r, x)[Len(Append(r, x))] = x
  BY AppendProperties
<1> QED
  BY <1>1, <1>2

\* A text that does not end in an ampersand cannot be the start of a reference.
LEMMA WholeEnd ==
  ASSUME NEW C, NEW r \in Seq(C), NEW x \in C, x # "&"
  PROVE  Whole(r \o <<x>>)
<1>1. (r \o <<x>>)[Len(r \o <<x>>)] = x
  BY WholeLast
<1> QED
  BY <1>1, Zenon DEF Whole

\* Of two joined texts the last one decides whether the end is whole.
LEMMA WholeJoined ==
  ASSUME NEW C, NEW a \in Seq(C), NEW b \in Seq(C), Whole(b), Whole(a) \/ b # <<>>
  PROVE  Whole(a \o b)
<1>1. CASE b = <<>>
  <2>1. a \o b = a
    BY <1>1
  <2> QED
    BY <1>1, <2>1
<1>2. CASE b # <<>>
  <2>1. PICK r \in Seq(C), x \in C : b = r \o <<x>> /\ x = b[Len(b)]
    BY <1>2, LastOf
  <2>2. <<x>> \in Seq(C) /\ a \o r \in Seq(C) /\ a \o b = (a \o r) \o <<x>>
    BY <2>1
  <2>3. x # "&"
    BY <1>2, <2>1 DEF Whole
  <2> QED
    BY <2>2, <2>3, WholeLast DEF Whole
<1> QED
  BY <1>1, <1>2

\* Decoding one table leaves an end whole for the next.
LEMMA DecodedWhole ==
  ASSUME NEW C, NEW u \in Seq(C), NEW N, NEW table \in [N -> C], "&" \notin N, \A n \in N : table[n] # "&",
           N \subseteq C, Whole(u)
  PROVE  Whole(Decoded(u, table))
<1>0. Tabled(C, N, table)
  BY DEF Tabled
<1>1. CASE u = <<>>
  <2>1. \A i \in Nat : ~(1 <= i /\ i + 1 <= Len(u))
    BY <1>1
  <2>2. Decoded(u, table) = u
    BY <2>1, DecodedSame, Zenon
  <2> QED
    BY <2>2
<1>2. CASE u # <<>>
  <2>1. PICK r \in Seq(C), x \in C : u = r \o <<x>> /\ x = u[Len(u)]
    BY <1>2, LastOf
  <2>2. x # "&" /\ <<x>> \in Seq(C)
    BY <1>2, <2>1 DEF Whole
  <2>3. CASE ~Splits(r, <<x>>, table)
    <3>0. PICK e : e = <<x>>
      OBVIOUS
    <3>4. e \in Seq(C) /\ u = r \o e /\ ~Splits(r, e, table)
      BY <2>1, <2>2, <2>3, <3>0
    <3>5. Decoded(u, table) = Decoded(r, table) \o Decoded(e, table)
      BY <1>0, <3>4, DecodedIs
    <3>1. Decoded(u, table) = Decoded(r, table) \o Decoded(<<x>>, table)
      BY <3>0, <3>5, Zenon
    <3>2. Decoded(<<x>>, table) = <<x>>
      <4>1. \A i \in Nat : ~(1 <= i /\ i + 1 <= Len(<<x>>))
        OBVIOUS
      <4> QED
        BY <2>2, <4>1, DecodedSame, Zenon
    <3>3. Decoded(r, table) \in Seq(C)
      BY DecodedTyped
    <3> QED
      BY <2>2, <3>1, <3>2, <3>3, WholeEnd
  <2>4. CASE Splits(r, <<x>>, table)
    <3>1. r # <<>> /\ r[Len(r)] = "&" /\ x \in N
      BY <2>4 DEF Splits
    <3>2. PICK q \in Seq(C), y \in C : r = q \o <<y>> /\ y = r[Len(r)]
      BY <3>1, LastOf
    <3>3. y = "&" /\ <<y, x>> \in Seq(C) /\ <<y>> \in Seq(C)
      BY <3>1, <3>2, SeqOfTwo
    <3>4. u = q \o <<y, x>>
      <4>1. (q \o <<y>>) \o <<x>> = q \o (<<y>> \o <<x>>) /\ <<y>> \o <<x>> = <<y, x>>
        BY OneAndOne
      <4> QED
        BY <2>1, <3>2, <4>1
    <3>5. ~Splits(q, <<y, x>>, table)
      <4>1. <<y, x>>[1] = y
        OBVIOUS
      <4> QED
        BY <3>3, <4>1 DEF Splits
    <3>6. Decoded(u, table) = Decoded(q, table) \o Decoded(<<y, x>>, table)
      <4>0. PICK e : e = <<y, x>>
        OBVIOUS
      <4>1. e \in Seq(C) /\ u = q \o e /\ ~Splits(q, e, table)
        BY <3>3, <3>4, <3>5, <4>0, Zenon
      <4>2. Decoded(u, table) = Decoded(q, table) \o Decoded(e, table)
        BY <1>0, <4>1, DecodedIs
      <4> QED
        BY <4>0, <4>2, Zenon
    <3>7. Decoded(<<y, x>>, table) = <<table[x]>> /\ table[x] \in C /\ table[x] # "&"
      BY <3>1, <3>3, DecodedPair
    <3>8. Decoded(q, table) \in Seq(C)
      BY DecodedTyped
    <3> QED
      BY <3>6, <3>7, <3>8, WholeEnd
  <2> QED
    BY <2>3, <2>4
<1> QED
  BY <1>1, <1>2

\* How the text of a page is read: references decoded, numeric ones first, and blanks taken out.
Read(text) == RidOf(Decoded(Decoded(text, Numeric), Named), {Blank})
NumericNames == {"#39;"}
NamedNames == {"amp;", "lt;"}

\* The two tables of character references, numeric and named.
LEMMA TablesAre ==
  ASSUME NEW C, HasEscapes(C)
  PROVE  /\ Tabled(C, NumericNames, Numeric) /\ Tabled(C, NamedNames, Named) /\ Numeric["#39;"] = "'"
         /\ Named["amp;"] = "&" /\ Named["lt;"] = "<"
         /\ DOMAIN Numeric = NumericNames /\ DOMAIN Named = NamedNames
BY DEF Tabled, NumericNames, NamedNames, Numeric, Named, HasEscapes

\* A text decoded with either table is a text.
LEMMA DecodedIn ==
  ASSUME NEW C, NEW N, NEW table, Tabled(C, N, table), NEW text \in Seq(C)
  PROVE  Decoded(text, table) \in Seq(C)
<1>1. table \in [N -> C]
  BY DEF Tabled
<1> QED
  BY <1>1, DecodedTyped

\* A text read back is a text.
LEMMA ReadTyped ==
  ASSUME NEW C, HasEscapes(C), NEW text \in Seq(C)
  PROVE  Read(text) \in Seq(C)
<1>1. Decoded(text, Numeric) \in Seq(C)
  BY TablesAre, DecodedIn
<1>2. Decoded(Decoded(text, Numeric), Named) \in Seq(C)
  BY <1>1, TablesAre, DecodedIn
<1> QED
  BY <1>2, RidTyped DEF Read

\* What is read of two texts, when no reference begins in the one and ends in the other.
LEMMA ReadBoth ==
  ASSUME NEW C, HasEscapes(C), NEW a \in Seq(C), NEW b \in Seq(C), Whole(a)
  PROVE  Read(a \o b) = Read(a) \o Read(b)
<1>1. Tabled(C, NumericNames, Numeric) /\ Tabled(C, NamedNames, Named)
  BY TablesAre
<1>2. PICK p, q : p = Decoded(a, Numeric) /\ q = Decoded(b, Numeric)
  OBVIOUS
<1>3. p \in Seq(C) /\ q \in Seq(C)
  BY <1>1, <1>2, DecodedIn
<1>4. Decoded(a \o b, Numeric) = p \o q
  <2>1. ~Splits(a, b, Numeric)
    BY DEF Splits, Whole
  <2>2. Decoded(a \o b, Numeric) = Decoded(a, Numeric) \o Decoded(b, Numeric)
    BY <1>1, <2>1, DecodedIs
  <2> QED
    BY <1>2, <2>2
<1>5. Whole(p)
  <2>1. Numeric \in [NumericNames -> C]
    BY <1>1 DEF Tabled
  <2>2. "&" \notin NumericNames /\ (\A n \in NumericNames : Numeric[n] # "&") /\ NumericNames \subseteq C
    BY TablesAre DEF NumericNames, HasEscapes
  <2> QED
    BY <1>2, <2>1, <2>2, DecodedWhole
<1>6. Decoded(p \o q, Named) = Decoded(p, Named) \o Decoded(q, Named)
  <2>1. ~Splits(p, q, Named)
    BY <1>5 DEF Splits, Whole
  <2> QED
    BY <1>1, <1>3, <2>1, DecodedIs
<1>7. Decoded(p, Named) \in Seq(C) /\ Decoded(q, Named) \in Seq(C)
  BY <1>1, <1>3, DecodedIn
<1>8. RidOf(Decoded(p, Named) \o Decoded(q, Named), {Blank}) = RidOf(Decoded(p, Named),
        {Blank}) \o RidOf(Decoded(q, Named), {Blank})
  BY <1>7, RidJoined
<1> QED
  BY <1>2, <1>4, <1>6, <1>8 DEF Read

\* What holds no reference is read as it is.
LEMMA ReadSame ==
  ASSUME NEW C, HasEscapes(C), NEW text \in Seq(C), \A i \in 1..Len(text) : text[i] # "&" \/ i = Len(text)
  PROVE  Read(text) = RidOf(text, {Blank})
<1>1. Tabled(C, NumericNames, Numeric) /\ Tabled(C, NamedNames, Named)
  BY TablesAre
<1>2. \A i \in Nat : 1 <= i /\ i + 1 <= Len(text) => text[i] # "&"
  <2>1. PICK w : w = Len(text)
    OBVIOUS
  <2>2. w \in Nat
    BY <2>1
  <2>3. \A i \in Nat : 1 <= i /\ i + 1 <= w => i \in 1..w /\ i # w
    BY <2>2
  <2> QED
    BY <2>1, <2>3, Zenon
<1>3. Decoded(text, Numeric) = text
  <2>1. Numeric \in [NumericNames -> C]
    BY <1>1 DEF Tabled
  <2> QED
    BY <1>2, <2>1, DecodedSame
<1>4. Decoded(text, Named) = text
  <2>1. Named \in [NamedNames -> C]
    BY <1>1 DEF Tabled
  <2> QED
    BY <1>2, <2>1, DecodedSame
<1> QED
  BY <1>3, <1>4 DEF Read

\* There is nothing to read in no text.
LEMMA ReadNothing == ASSUME NEW C, HasEscapes(C) PROVE Read(<<>>) = <<>>
<1>1. <<>> \in Seq(C) /\ \A i \in 1..Len(<<>>) : FALSE
  OBVIOUS
<1>2. Read(<<>>) = RidOf(<<>>, {Blank})
  BY <1>1, ReadSame
<1> QED
  BY <1>2, RidNone

\* A single symbol is read as itself, a blank as nothing.
LEMMA ReadSymbol == ASSUME NEW C, HasEscapes(C), NEW x \in C PROVE Read(<<x>>) = RidOf(<<x>>, {Blank})
<1>1. <<x>> \in Seq(C) /\ \A i \in 1..Len(<<x>>) : i = Len(<<x>>)
  OBVIOUS
<1> QED
  BY <1>1, ReadSame

\* The escape of a character is read as that character.
LEMMA ReadEscape ==
  ASSUME NEW C, HasEscapes(C), NEW x \in C
  PROVE  Whole(Escape1(x)) /\ Escape1(x) # <<>> /\ Read(Escape1(x)) = RidOf(<<x>>, {Blank})
<1>1. Tabled(C, NumericNames, Numeric) /\ Tabled(C, NamedNames, Named)
  BY TablesAre
<1>2. "&" \in C /\ "amp;" \in C /\ "lt;" \in C /\ "#39;" \in C /\ "'" \in C /\ "<" \in C
  BY DEF HasEscapes
<1>3. Numeric \in [NumericNames -> C] /\ Named \in [NamedNames -> C]
  BY <1>1 DEF Tabled
<1>4. \A n : n # "&" => Whole(<<"&", n>>) /\ <<"&", n>> # <<>>
  BY DEF Whole
<1>5. ASSUME NEW n \in NamedNames PROVE Read(<<"&", n>>) = RidOf(<<Named[n]>>, {Blank})
  <2>1. n \in C /\ n \notin NumericNames
    BY <1>2, <1>5 DEF NamedNames, NumericNames
  <2>2. Decoded(<<"&", n>>, Named) = <<Named[n]>>
    BY <1>2, <1>3, <2>1, DecodedPair
  <2>3. Decoded(<<"&", n>>, Numeric) = <<"&", n>>
    <3>1. PICK t : t = <<"&", n>>
      OBVIOUS
    <3>2. t \in Seq(C) /\ Len(t) = 2 /\ t[2] = n
      BY <1>2, <2>1, <3>1, SeqOfTwo
    <3>3. \A i \in Nat : 1 <= i /\ i + 1 <= 2 => i + 1 = 2
      OBVIOUS
    <3>4. \A i \in Nat : 1 <= i /\ i + 1 <= Len(t) => ~(t[i] = "&" /\ t[i + 1] \in NumericNames)
      BY <2>1, <3>2, <3>3, Zenon
    <3>5. Decoded(t, Numeric) = t
      BY <1>3, <3>2, <3>4, DecodedSame
    <3> QED
      BY <3>1, <3>5, Zenon
  <2> QED
    BY <2>2, <2>3, Zenon DEF Read
<1>6. Read(<<"&", "#39;">>) = RidOf(<<"'">>, {Blank})
  <2>1. Decoded(<<"&", "#39;">>, Numeric) = <<"'">>
    <3>1. "#39;" \in NumericNames /\ Numeric["#39;"] = "'"
      BY TablesAre DEF NumericNames
    <3>2. Decoded(<<"&", "#39;">>, Numeric) = <<Numeric["#39;"]>>
      BY <1>2, <1>3, <3>1, DecodedPair
    <3> QED
      BY <3>1, <3>2
  <2>2. Decoded(<<"'">>, Named) = <<"'">>
    <3>0. PICK x1 : x1 = "'"
      OBVIOUS
    <3>1. PICK t : t = <<x1>>
      OBVIOUS
    <3>2. t \in Seq(C) /\ Len(t) = 1
      <4>1. x1 \in C
        BY <1>2, <3>0, Zenon
      <4> QED
        BY <4>1, <3>1
    <3>3. \A i \in Nat : ~(1 <= i /\ i + 1 <= 1)
      OBVIOUS
    <3>5. \A i \in Nat : 1 <= i /\ i + 1 <= Len(t) => ~(t[i] = "&" /\ t[i + 1] \in NamedNames)
      BY <3>2, <3>3, Zenon
    <3>4. Decoded(t, Named) = t
      BY <1>3, <3>2, <3>5, DecodedSame
    <3> QED
      BY <3>0, <3>1, <3>4, Zenon
  <2> QED
    BY <2>1, <2>2, Zenon DEF Read
<1>7. CASE x = "&"
  <2>1. Escape1(x) = <<"&", "amp;">> /\ "amp;" \in NamedNames /\ Named["amp;"] = x
    BY <1>7, TablesAre DEF Escape1, NamedNames
  <2>2. Read(<<"&", "amp;">>) = RidOf(<<x>>, {Blank})
    BY <1>5, <2>1, Zenon
  <2> QED
    BY <1>4, <2>1, <2>2
<1>8. CASE x = "<"
  <2>1. Escape1(x) = <<"&", "lt;">> /\ "lt;" \in NamedNames /\ Named["lt;"] = x
    BY <1>8, TablesAre DEF Escape1, NamedNames
  <2>2. Read(<<"&", "lt;">>) = RidOf(<<x>>, {Blank})
    BY <1>5, <2>1, Zenon
  <2> QED
    BY <1>4, <2>1, <2>2
<1>9. CASE x = "'"
  <2>1. Escape1(x) = <<"&", "#39;">>
    BY <1>9 DEF Escape1
  <2> QED
    BY <1>4, <1>6, <1>9, <2>1
<1>10. CASE x # "&" /\ x # "<" /\ x # "'"
  <2>1. Escape1(x) = <<x>>
    BY <1>10 DEF Escape1
  <2>2. Whole(<<x>>) /\ <<x>> # <<>>
    BY <1>10 DEF Whole
  <2> QED
    BY <2>1, <2>2, ReadSymbol
<1> QED
  BY <1>7, <1>8, <1>9, <1>10

\* What is escaped is read as it was.
LEMMA ReadEscaped ==
  ASSUME NEW C, HasEscapes(C), NEW v \in Seq(C)
  PROVE  Whole(EscapeHtml(v)) /\ Read(EscapeHtml(v)) = RidOf(v, {Blank})
<1> DEFINE T == {t \in Seq(C) : Whole(EscapeHtml(t)) /\ Read(EscapeHtml(t)) = RidOf(t, {Blank})}
<1>1. <<>> \in T
  <2>1. Whole(<<>>)
    BY DEF Whole
  <2> QED
    BY <2>1, EscapeNone, ReadNothing, RidNone, EmptySeq
<1>2. ASSUME NEW t \in Seq(C), NEW x \in C, t \in T PROVE t \o <<x>> \in T
  <2>1. <<x>> \in Seq(C) /\ t \o <<x>> \in Seq(C)
    BY ConcatProperties
  <2>2. EscapeHtml(t \o <<x>>) = EscapeHtml(t) \o Escape1(x) /\ Escape1(x) \in Seq(C) /\ EscapeHtml(t) \in Seq(C)
    BY EscapeAppend, EscapeTyped
  <2>3. Whole(Escape1(x)) /\ Escape1(x) # <<>> /\ Read(Escape1(x)) = RidOf(<<x>>, {Blank})
    BY ReadEscape
  <2>4. Whole(EscapeHtml(t) \o Escape1(x))
    BY <2>2, <2>3, WholeJoined
  <2>5. Read(EscapeHtml(t) \o Escape1(x)) = Read(EscapeHtml(t)) \o Read(Escape1(x))
    BY <1>2, <2>2, ReadBoth
  <2>6. RidOf(t \o <<x>>, {Blank}) = RidOf(t, {Blank}) \o RidOf(<<x>>, {Blank})
    BY <2>1, RidJoined
  <2> QED
    BY <1>2, <2>1, <2>2, <2>3, <2>4, <2>5, <2>6
<1> HIDE DEF T
<1>3. Seq(C) \subseteq T
  BY <1>1, <1>2, SeqInduct
<1> QED
  BY <1>3 DEF T

\* Escaping leaves no text empty that was not.
LEMMA EscapeNonempty ==
  ASSUME NEW C, HasEscapes(C), NEW v \in Seq(C), v # <<>>
  PROVE  EscapeHtml(v) # <<>>
<1>1. PICK r \in Seq(C), x \in C : v = r \o <<x>>
  BY LastOf
<1>2. EscapeHtml(v) = EscapeHtml(r) \o Escape1(x) /\ Escape1(x) \in Seq(C) /\ EscapeHtml(r) \in Seq(C)
  BY <1>1, EscapeAppend, EscapeTyped
<1>3. Escape1(x) # <<>>
  BY ReadEscape
<1> QED
  BY <1>2, <1>3

\* Where the symbols of a part of a text are.
LEMMA Piece ==
  ASSUME NEW S, NEW s \in Seq(S), NEW m \in Nat, NEW n \in Nat, 1 <= m, n <= Len(s), m <= n + 1
  PROVE  /\ SubSeq(s, m, n) \in Seq(S) /\ Len(SubSeq(s, m, n)) = (n + 1) - m
         /\ \A i \in 1..(n + 1) - m : SubSeq(s, m, n)[i] = s[(m + i) - 1]
OBVIOUS

\* A part of a text is known by its symbols.
LEMMA Cut ==
  ASSUME NEW S, NEW s \in Seq(S), NEW t \in Seq(S), NEW m \in Nat, NEW n \in Nat, 1 <= m, n <= Len(s), m <= n + 1,
         Len(t) = (n + 1) - m, \A i \in 1..(n + 1) - m : t[i] = s[(m + i) - 1]
  PROVE  SubSeq(s, m, n) = t
OBVIOUS

\* A piece of one of two texts is that piece of both together.
LEMMA PieceBefore ==
  ASSUME NEW S, NEW a \in Seq(S), NEW b \in Seq(S), NEW m \in Nat, NEW n \in Nat, 1 <= m, n <= Len(a), m <= n + 1
  PROVE  SubSeq(a \o b, m, n) = SubSeq(a, m, n)
<1>1. a \o b \in Seq(S) /\ Len(a \o b) = Len(a) + Len(b) /\ Len(a) \in Nat /\ Len(b) \in Nat
  BY Joined
<1>a. \A i \in Nat : 1 <= i /\ i <= Len(a) => (a \o b)[i] = a[i]
  BY Joined
<1>2. PICK t, c : t = SubSeq(a, m, n) /\ c = a \o b
  OBVIOUS
<1>3. t \in Seq(S) /\ Len(t) = (n + 1) - m /\ \A i \in 1..(n + 1) - m : t[i] = a[(m + i) - 1]
  BY <1>2, Piece
<1>4. n <= Len(c) /\ c \in Seq(S)
  BY <1>1, <1>2
<1>5. \A i \in 1..(n + 1) - m : (m + i) - 1 \in Nat /\ 1 <= (m + i) - 1 /\ (m + i) - 1 <= Len(a)
  BY <1>1
<1>6. \A i \in 1..(n + 1) - m : t[i] = c[(m + i) - 1]
  BY <1>a, <1>2, <1>3, <1>5, Zenon
<1>7. SubSeq(c, m, n) = t
  BY <1>3, <1>4, <1>6, Cut
<1> QED
  BY <1>2, <1>7

\* A part of a text is the same behind any other text.
LEMMA PieceAfter ==
  ASSUME NEW S, NEW a \in Seq(S), NEW b \in Seq(S), NEW m \in Nat, NEW n \in Nat, 1 <= m, n <= Len(b), m <= n + 1
  PROVE  SubSeq(a \o b, m + Len(a), n + Len(a)) = SubSeq(b, m, n)
<1>1. a \o b \in Seq(S) /\ Len(a \o b) = Len(a) + Len(b) /\ Len(a) \in Nat /\ Len(b) \in Nat
  BY Joined
<1>b. \A i \in Nat : 1 <= i /\ i <= Len(b) => (a \o b)[i + Len(a)] = b[i]
  BY Joined
<1>2. PICK t, c, u, w : t = SubSeq(b, m, n) /\ c = a \o b /\ u = Len(a) /\ w = Len(b)
  OBVIOUS
<1>0. u \in Nat /\ w \in Nat /\ n <= w /\ Len(c) = u + w /\ c \in Seq(S)
  BY <1>1, <1>2
<1>3. t \in Seq(S) /\ Len(t) = (n + 1) - m /\ \A i \in 1..(n + 1) - m : t[i] = b[(m + i) - 1]
  BY <1>2, Piece
<1>4. PICK p, q : p = m + u /\ q = n + u
  OBVIOUS
<1>5. p \in Nat /\ q \in Nat /\ 1 <= p /\ q <= Len(c) /\ p <= q + 1 /\ (q + 1) - p = (n + 1) - m
  BY <1>0, <1>4
<1>6. \A i \in 1..(n + 1) - m : /\ (m + i) - 1 \in Nat /\ 1 <= (m + i) - 1 /\ (m + i) - 1 <= w
                                /\ ((m + i) - 1) + u = (p + i) - 1
  BY <1>0, <1>4
<1>7. \A i \in 1..(n + 1) - m : t[i] = c[(p + i) - 1]
  <2>1. ASSUME NEW i \in 1..(n + 1) - m PROVE t[i] = c[(p + i) - 1]
    <3>1. PICK j : j = (m + i) - 1
      OBVIOUS
    <3>2. j \in Nat /\ 1 <= j /\ j <= w /\ j + u = (p + i) - 1 /\ t[i] = b[j]
      BY <1>3, <1>6, <3>1, Zenon
    <3>3. (a \o b)[j + u] = b[j]
      BY <1>b, <1>2, <3>2, Zenon
    <3> QED
      BY <1>2, <3>2, <3>3, Zenon
  <2> QED
    BY <2>1
<1>8. SubSeq(c, p, q) = t
  BY <1>0, <1>3, <1>5, <1>7, Cut
<1> QED
  BY <1>2, <1>4, <1>8, Zenon

\* The three marks of a link, and what a link is.
Kinds == {"<a href=", "'>", "</a>"}
LinkOrdered(html, f, q, l) == f \in Nat /\ q \in Nat /\ l \in Nat /\ 1 <= f /\ f + 1 < q /\ q < l /\ l <= Len(html)
LinkSpelled(html, f, q, l) ==
  /\ html[f] = "<a href=" /\ html[q] = "'>" /\ html[l] = "</a>"
  /\ \A j \in Nat : f < j /\ j < l /\ html[j] \in Kinds => j = q
LinkAt(f, q, l) == [first |-> f, quote |-> q, last |-> l]

\* What a link is: opened, quoted and closed in this order.
LEMMA AnchorIs ==
  ASSUME NEW C, NEW html \in Seq(C), NEW p \in Anchors(html)
  PROVE  LinkOrdered(html, p.first, p.quote, p.last) /\ LinkSpelled(html, p.first, p.quote, p.last) /\
           p = LinkAt(p.first, p.quote, p.last)
<1>1. Len(html) \in Nat /\ DOMAIN html = 1..Len(html)
  BY LenProperties
<1>2. /\ p \in [first : Where(html, {"<a href="}), quote : Where(html, {"'>"}), last : Where(html, {"</a>"})]
      /\ p.first + 1 < p.quote /\ p.quote < p.last
      /\ \A j \in p.first + 1..p.last - 1 : html[j] \in Kinds => j = p.quote
  BY DEF Anchors, Kinds
<1>3. /\ p.first \in 1..Len(html) /\ p.quote \in 1..Len(html) /\ p.last \in 1..Len(html)
      /\ html[p.first] = "<a href=" /\ html[p.quote] = "'>" /\ html[p.last] = "</a>"
  BY <1>1, <1>2 DEF Where
<1>4. p = LinkAt(p.first, p.quote, p.last)
  BY <1>2 DEF LinkAt
<1>5. PICK f, q, l, w : f = p.first /\ q = p.quote /\ l = p.last /\ w = Len(html)
  OBVIOUS
<1>6. w \in Nat /\ f \in 1..w /\ q \in 1..w /\ l \in 1..w
  BY <1>1, <1>3, <1>5, Zenon
<1>7. f \in Nat /\ q \in Nat /\ l \in Nat /\ 1 <= f /\ l <= w
  BY <1>6
<1>8. LinkOrdered(html, p.first, p.quote, p.last)
  BY <1>2, <1>5, <1>7, Zenon DEF LinkOrdered
<1>9. \A j \in Nat : f < j /\ j < l => j \in f + 1..l - 1
  BY <1>7, Inner, Zenon
<1>10. \A j \in Nat : p.first < j /\ j < p.last /\ html[j] \in Kinds => j = p.quote
  BY <1>2, <1>5, <1>9, Zenon
<1> QED
  BY <1>3, <1>4, <1>8, <1>10, Zenon DEF LinkSpelled

\* Whatever has a link's shape is one.
LEMMA IsAnchor ==
  ASSUME NEW C, NEW html \in Seq(C), NEW f, NEW q, NEW l, LinkOrdered(html, f, q, l), LinkSpelled(html, f, q, l)
  PROVE  LinkAt(f, q, l) \in Anchors(html)
<1>1. Len(html) \in Nat /\ DOMAIN html = 1..Len(html)
  BY LenProperties
<1>2. f \in Nat /\ q \in Nat /\ l \in Nat /\ 1 <= f /\ f + 1 < q /\ q < l /\ l <= Len(html)
  BY DEF LinkOrdered
<1>3. f \in DOMAIN html /\ q \in DOMAIN html /\ l \in DOMAIN html
  <2>1. f \in 1..Len(html) /\ q \in 1..Len(html) /\ l \in 1..Len(html)
    BY <1>1, <1>2
  <2> QED
    BY <1>1, <2>1
<1>4. f \in Where(html, {"<a href="}) /\ q \in Where(html, {"'>"}) /\ l \in Where(html, {"</a>"})
  BY <1>3, Zenon DEF Where, LinkSpelled
<1>5. \A j \in f + 1..l - 1 : html[j] \in Kinds => j = q
  BY <1>2, Inner, Zenon DEF LinkSpelled
<1>6. PICK p : p = LinkAt(f, q, l)
  OBVIOUS
<1>7. p.first = f /\ p.quote = q /\ p.last = l
      /\ p \in [first : Where(html, {"<a href="}), quote : Where(html, {"'>"}), last : Where(html, {"</a>"})]
  BY <1>4, <1>6 DEF LinkAt
<1> QED
  BY <1>2, <1>5, <1>6, <1>7, Zenon DEF Anchors, Kinds

\* Two links do not begin at the same place.
LEMMA OneLink ==
  ASSUME NEW html, NEW f, NEW q, NEW l, NEW r, NEW k,
         LinkOrdered(html, f, q, l), LinkOrdered(html, f, r, k), LinkSpelled(html, f, q, l), LinkSpelled(html, f, r, k)
  PROVE  q = r /\ l = k
<1>1. /\ f \in Nat /\ q \in Nat /\ l \in Nat /\ r \in Nat /\ k \in Nat /\ f + 1 < q /\ q < l /\ f + 1 < r /\ r < k
  BY DEF LinkOrdered
<1>2. html[q] \in Kinds /\ html[r] \in Kinds /\ html[l] \in Kinds /\ html[k] \in Kinds
  BY DEF LinkSpelled, Kinds
<1>3. q < r => FALSE
  <2>1. q < r => f < q /\ q < k /\ q # r
    BY <1>1
  <2> QED
    BY <1>1, <1>2, <2>1, Zenon DEF LinkSpelled
<1>4. r < q => FALSE
  <2>1. r < q => f < r /\ r < l /\ r # q
    BY <1>1
  <2> QED
    BY <1>1, <1>2, <2>1, Zenon DEF LinkSpelled
<1>5. q = r
  BY <1>1, <1>3, <1>4
<1>6. l < k => FALSE
  <2>1. l < k => f < l /\ l < k /\ l # r
    BY <1>1, <1>5
  <2> QED
    BY <1>1, <1>2, <2>1, Zenon DEF LinkSpelled
<1>7. k < l => FALSE
  <2>1. k < l => f < k /\ k < l /\ k # q
    BY <1>1, <1>5
  <2> QED
    BY <1>1, <1>2, <2>1, Zenon DEF LinkSpelled
<1> QED
  BY <1>1, <1>5, <1>6, <1>7

\* At most one link starts at a place.
LEMMA OneAnchor ==
  ASSUME NEW C, NEW html \in Seq(C), NEW p \in Anchors(html), NEW r \in Anchors(html), p.first = r.first
  PROVE  p = r
<1>1. /\ LinkOrdered(html, p.first, p.quote, p.last) /\ LinkSpelled(html, p.first, p.quote, p.last)
      /\ p = LinkAt(p.first, p.quote, p.last)
      /\ LinkOrdered(html, r.first, r.quote, r.last) /\ LinkSpelled(html, r.first, r.quote, r.last)
      /\ r = LinkAt(r.first, r.quote, r.last)
  BY AnchorIs
<1>2. p.quote = r.quote /\ p.last = r.last
  BY <1>1, OneLink, Zenon
<1> QED
  BY <1>1, <1>2, Zenon

\* A link's shape does not depend on the text after it.
LEMMA LinkBefore ==
  ASSUME NEW C, NEW a \in Seq(C), NEW b \in Seq(C), NEW f, NEW q, NEW l
  PROVE  /\ LinkOrdered(a, f, q, l) => LinkOrdered(a \o b, f, q, l) /\
              (LinkSpelled(a, f, q, l) <=> LinkSpelled(a \o b, f, q, l))
         /\ LinkOrdered(a \o b, f, q, l) /\ l <= Len(a) => LinkOrdered(a, f, q, l)
<1>1. Len(a \o b) = Len(a) + Len(b) /\ Len(a) \in Nat /\ Len(b) \in Nat
  BY Joined
<1>2. \A i \in Nat : 1 <= i /\ i <= Len(a) => (a \o b)[i] = a[i]
  BY Joined
<1>3. ASSUME LinkOrdered(a, f, q, l)
      PROVE  LinkOrdered(a \o b, f, q, l) /\ (LinkSpelled(a, f, q, l) <=> LinkSpelled(a \o b, f, q, l))
  <2>1. f \in Nat /\ q \in Nat /\ l \in Nat /\ 1 <= f /\ f + 1 < q /\ q < l /\ l <= Len(a)
    BY <1>3 DEF LinkOrdered
  <2>2. LinkOrdered(a \o b, f, q, l)
    BY <1>1, <2>1 DEF LinkOrdered
  <2>3. 1 <= q /\ 1 <= l /\ f <= Len(a) /\ q <= Len(a)
    BY <1>1, <2>1
  <2>4. \A j \in Nat : f < j /\ j < l => 1 <= j /\ j <= Len(a)
    BY <1>1, <2>1
  <2>5. (a \o b)[f] = a[f] /\ (a \o b)[q] = a[q] /\ (a \o b)[l] = a[l]
    BY <1>2, <2>1, <2>3, Zenon
  <2>6. \A j \in Nat : f < j /\ j < l => (a \o b)[j] = a[j]
    BY <1>2, <2>4, Zenon
  <2> QED
    BY <2>2, <2>5, <2>6, Zenon DEF LinkSpelled
<1>4. LinkOrdered(a \o b, f, q, l) /\ l <= Len(a) => LinkOrdered(a, f, q, l)
  BY DEF LinkOrdered
<1> QED
  BY <1>3, <1>4

\* A link's shape does not depend on the text before it.
LEMMA LinkAfter ==
  ASSUME NEW C, NEW a \in Seq(C), NEW b \in Seq(C), NEW f, NEW q, NEW l, LinkOrdered(b, f, q, l)
  PROVE  /\ LinkOrdered(a \o b, f + Len(a), q + Len(a), l + Len(a))
         /\ LinkSpelled(b, f, q, l) <=> LinkSpelled(a \o b, f + Len(a), q + Len(a), l + Len(a))
<1>1. Len(a \o b) = Len(a) + Len(b) /\ Len(a) \in Nat /\ Len(b) \in Nat
  BY Joined
<1>2. \A i \in Nat : 1 <= i /\ i <= Len(b) => (a \o b)[i + Len(a)] = b[i]
  BY Joined
<1>3. f \in Nat /\ q \in Nat /\ l \in Nat /\ 1 <= f /\ f + 1 < q /\ q < l /\ l <= Len(b)
  BY DEF LinkOrdered
<1>4. PICK u, w : u = Len(a) /\ w = Len(b)
  OBVIOUS
<1>5. /\ f + u \in Nat /\ q + u \in Nat /\ l + u \in Nat /\ 1 <= f + u /\ (f + u) + 1 < q + u /\ q + u < l + u /\ l + u <= u + w
      /\ 1 <= q /\ 1 <= l /\ f <= w /\ q <= w
  BY <1>1, <1>3, <1>4
<1>6. LinkOrdered(a \o b, f + Len(a), q + Len(a), l + Len(a))
  BY <1>1, <1>4, <1>5, Zenon DEF LinkOrdered
<1>7. (a \o b)[f + u] = b[f] /\ (a \o b)[q + u] = b[q] /\ (a \o b)[l + u] = b[l]
  BY <1>2, <1>3, <1>4, <1>5, Zenon
<1>8. ASSUME LinkSpelled(b, f, q, l) PROVE LinkSpelled(a \o b, f + u, q + u, l + u)
  <2>1. ASSUME NEW j \in Nat, f + u < j, j < l + u, (a \o b)[j] \in Kinds PROVE j = q + u
    <3>1. PICK i : i = j - u
      OBVIOUS
    <3>2. i \in Nat /\ f < i /\ i < l /\ 1 <= i /\ i <= w /\ i + u = j
      BY <1>1, <1>3, <1>4, <2>1, <3>1
    <3>3. (a \o b)[i + u] = b[i]
      BY <1>2, <1>4, <3>2, Zenon
    <3>4. b[i] \in Kinds
      BY <2>1, <3>2, <3>3, Zenon
    <3>5. i = q
      BY <1>8, <3>2, <3>4, Zenon DEF LinkSpelled
    <3> QED
      BY <3>2, <3>5, Zenon
  <2> QED
    BY <1>7, <1>8, <2>1, Zenon DEF LinkSpelled
<1>9. ASSUME LinkSpelled(a \o b, f + u, q + u, l + u) PROVE LinkSpelled(b, f, q, l)
  <2>1. ASSUME NEW j \in Nat, f < j, j < l, b[j] \in Kinds PROVE j = q
    <3>1. j + u \in Nat /\ f + u < j + u /\ j + u < l + u /\ 1 <= j /\ j <= w
      BY <1>1, <1>3, <1>4, <2>1
    <3>2. (a \o b)[j + u] \in Kinds
      BY <1>2, <1>4, <2>1, <3>1, Zenon
    <3>3. j + u = q + u
      BY <1>9, <3>1, <3>2, Zenon DEF LinkSpelled
    <3> QED
      BY <1>1, <1>3, <1>4, <3>3
  <2> QED
    BY <1>7, <1>9, <2>1, Zenon DEF LinkSpelled
<1> QED
  BY <1>4, <1>6, <1>8, <1>9, Zenon

\* Every <a> of a text is closed in it.
AllClosed(html) == \A i \in 1..Len(html) : html[i] = "<a href=" => \E j \in 1..Len(html) : i < j /\ html[j] = "</a>"

\* Two texts that close their links are joined to one that does.
LEMMA ClosedJoined ==
  ASSUME NEW C, NEW a \in Seq(C), NEW b \in Seq(C), AllClosed(a), AllClosed(b)
  PROVE  AllClosed(a \o b)
<1>1. Len(a \o b) = Len(a) + Len(b) /\ Len(a) \in Nat /\ Len(b) \in Nat
  BY Joined
<1>a. \A i \in Nat : 1 <= i /\ i <= Len(a) => (a \o b)[i] = a[i]
  BY Joined
<1>b. \A i \in Nat : 1 <= i /\ i <= Len(b) => (a \o b)[i + Len(a)] = b[i]
  BY Joined
<1>2. PICK u, w : u = Len(a) /\ w = Len(b)
  OBVIOUS
<1>3. u \in Nat /\ w \in Nat /\ Len(a \o b) = u + w
  BY <1>1, <1>2
<1>4. ASSUME NEW i \in 1..Len(a \o b), (a \o b)[i] = "<a href=" PROVE \E j \in 1..Len(a \o b) : i < j /\ (a \o b)[j] = "</a>"
  <2>0. i \in Nat /\ 1 <= i /\ i <= u + w
    BY <1>3
  <2>1. CASE i <= u
    <3>1. i \in 1..u /\ a[i] = "<a href="
      <4>1. i \in 1..u
        BY <1>3, <2>0, <2>1
      <4>2. (a \o b)[i] = a[i]
        BY <1>a, <1>2, <2>0, <2>1, Zenon
      <4> QED
        BY <1>4, <4>1, <4>2, Zenon
    <3>2. PICK j \in 1..u : i < j /\ a[j] = "</a>"
      BY <1>2, <3>1, Zenon DEF AllClosed
    <3>3. j \in Nat /\ 1 <= j /\ j <= u /\ j \in 1..u + w
      BY <1>3
    <3>4. (a \o b)[j] = "</a>"
      BY <1>a, <1>2, <3>2, <3>3, Zenon
    <3> QED
      BY <1>3, <3>2, <3>3, <3>4, Zenon
  <2>2. CASE ~(i <= u)
    <3>0. PICK k : k = i - u
      OBVIOUS
    <3>1. k \in Nat /\ 1 <= k /\ k <= w /\ k \in 1..w /\ k + u = i
      BY <1>3, <2>0, <2>2, <3>0
    <3>2. b[k] = "<a href="
      BY <1>4, <1>b, <1>2, <3>1, Zenon
    <3>3. PICK j \in 1..w : k < j /\ b[j] = "</a>"
      BY <1>2, <3>1, <3>2, Zenon DEF AllClosed
    <3>4. j \in Nat /\ 1 <= j /\ j <= w /\ j + u \in 1..u + w /\ i < j + u
      BY <1>3, <3>1, <3>3
    <3>5. (a \o b)[j + u] = "</a>"
      BY <1>b, <1>2, <3>3, <3>4, Zenon
    <3> QED
      BY <1>3, <3>4, <3>5, Zenon
  <2> QED
    BY <2>1, <2>2
<1> QED
  BY <1>4 DEF AllClosed

\* A text without the start of a link closes its links.
LEMMA ClosedPlain ==
  ASSUME NEW C, "<a href=" \notin C, NEW a \in Seq(C)
  PROVE  AllClosed(a)
<1>1. \A i \in 1..Len(a) : a[i] \in C
  BY ElementOfSeq
<1> QED
  BY <1>1 DEF AllClosed

\* What the links of a page are replaced by.
Expansion(html, p) ==
  [first |-> p.first, last |-> p.last,
   by |-> Expanded(SubSeq(html, p.first + 1, p.quote - 1), SubSeq(html, p.quote + 1, p.last - 1))]
Expansions(html) == {Expansion(html, p) : p \in Anchors(html)}
MovedLink(p, n) == [first |-> p.first + n, quote |-> p.quote + n, last |-> p.last + n]
HasBrackets(C) == "(" \in C /\ ")" \in C

\* A link written out for the plain text is a text.
LEMMA ExpandedTyped ==
  ASSUME NEW C, HasBrackets(C), NEW href \in Seq(C), NEW label \in Seq(C)
  PROVE  Expanded(href, label) \in Seq(C)
<1>1. PICK words, o, c : words = RidOf(label, Tags) /\ o = "(" /\ c = ")"
  OBVIOUS
<1>2. words \in Seq(C) /\ o \in C /\ c \in C
  BY <1>1, RidTyped DEF HasBrackets
<1>3. <<o>> \in Seq(C) /\ <<c>> \in Seq(C)
  BY <1>2
<1>4. ((words \o <<o>>) \o href) \o <<c>> \in Seq(C)
  BY <1>2, <1>3
<1> QED
  BY <1>1, <1>4, Zenon DEF Expanded

\* Where the pieces of a link are.
LEMMA LinkPieces ==
  ASSUME NEW f \in Nat, NEW q \in Nat, NEW l \in Nat, NEW w \in Nat, 1 <= f, f + 1 < q, q < l, l <= w
  PROVE  /\ f + 1 \in Nat /\ q - 1 \in Nat /\ 1 <= f + 1 /\ q - 1 <= w /\ f + 1 <= (q - 1) + 1
         /\ q + 1 \in Nat /\ l - 1 \in Nat /\ 1 <= q + 1 /\ l - 1 <= w /\ q + 1 <= (l - 1) + 1
         /\ f <= w /\ l <= w
OBVIOUS

\* What the links of a page are replaced by are matches within it.
LEMMA ExpansionsTyped ==
  ASSUME NEW C, HasBrackets(C), NEW html \in Seq(C)
  PROVE  /\ Expansions(html) \in SUBSET Matches(C) /\ LinksExpanded(html) = Replaced(html, Expansions(html))
         /\ \A m \in Expansions(html) : 1 <= m.first /\ m.first <= Len(html) /\ m.last <= Len(html)
<1>1. ASSUME NEW p \in Anchors(html)
      PROVE  Expansion(html, p) \in Matches(C) /\ 1 <= p.first /\ p.first <= Len(html) /\ p.last <= Len(html)
  <2>0. LinkOrdered(html, p.first, p.quote, p.last)
    BY AnchorIs
  <2>1. PICK f, q, l, w : f = p.first /\ q = p.quote /\ l = p.last /\ w = Len(html)
    OBVIOUS
  <2>2. f \in Nat /\ q \in Nat /\ l \in Nat /\ w \in Nat /\ 1 <= f /\ f + 1 < q /\ q < l /\ l <= w
    <3>1. Len(html) \in Nat
      OBVIOUS
    <3> QED
      BY <2>0, <2>1, <3>1, Zenon DEF LinkOrdered
  <2>3. /\ f + 1 \in Nat /\ q - 1 \in Nat /\ 1 <= f + 1 /\ q - 1 <= w /\ f + 1 <= (q - 1) + 1
        /\ q + 1 \in Nat /\ l - 1 \in Nat /\ 1 <= q + 1 /\ l - 1 <= w /\ q + 1 <= (l - 1) + 1
        /\ f <= w /\ l <= w
    BY <2>2, LinkPieces
  <2>4. SubSeq(html, f + 1, q - 1) \in Seq(C) /\ SubSeq(html, q + 1, l - 1) \in Seq(C)
    BY <2>1, <2>3, Piece
  <2>5. PICK e : e = Expanded(SubSeq(html, f + 1, q - 1), SubSeq(html, q + 1, l - 1))
    OBVIOUS
  <2>6. e \in Seq(C)
    BY <2>4, <2>5, ExpandedTyped
  <2>7. Expansion(html, p) = [first |-> f, last |-> l, by |-> e]
    BY <2>1, <2>5, Zenon DEF Expansion
  <2>8. [first |-> f, last |-> l, by |-> e] \in Matches(C)
    BY <2>2, <2>6 DEF Matches
  <2> QED
    BY <2>1, <2>2, <2>3, <2>7, <2>8, Zenon
<1>2. LinksExpanded(html) = Replaced(html, Expansions(html))
  BY Zenon DEF LinksExpanded, Expansions, Expansion
<1>3. \A p \in Anchors(html) : Expansion(html, p).first = p.first /\ Expansion(html, p).last = p.last
  BY DEF Expansion
<1> QED
  BY <1>1, <1>2, <1>3 DEF Expansions

\* A page with its links written out is a text.
LEMMA LinksTyped ==
  ASSUME NEW C, HasBrackets(C), NEW html \in Seq(C)
  PROVE  LinksExpanded(html) \in Seq(C)
BY ExpansionsTyped, ReplacedTyped

\* Where every <a> is closed, what comes after it does not change what becomes of it.
LEMMA LinksJoined ==
  ASSUME NEW C, HasBrackets(C), NEW a \in Seq(C), NEW b \in Seq(C), AllClosed(a)
  PROVE  LinksExpanded(a \o b) = LinksExpanded(a) \o LinksExpanded(b)
<1>1. a \o b \in Seq(C) /\ Len(a \o b) = Len(a) + Len(b) /\ Len(a) \in Nat /\ Len(b) \in Nat
  BY Joined
<1>a. \A i \in Nat : 1 <= i /\ i <= Len(a) => (a \o b)[i] = a[i]
  BY Joined
<1>2. PICK A, B, M, u, w : /\ A = Expansions(a) /\ B = Expansions(b) /\ M = Expansions(a \o b)
                           /\ u = Len(a) /\ w = Len(b)
  OBVIOUS
<1>3. u \in Nat /\ w \in Nat
  BY <1>1, <1>2
<1>4. ASSUME NEW p \in Anchors(a) PROVE p \in Anchors(a \o b) /\ Expansion(a \o b, p) = Expansion(a, p)
  <2>0. LinkOrdered(a, p.first, p.quote, p.last) /\ LinkSpelled(a, p.first, p.quote, p.last) /\
          p = LinkAt(p.first, p.quote, p.last)
    BY AnchorIs
  <2>1. LinkOrdered(a \o b, p.first, p.quote, p.last) /\ LinkSpelled(a \o b, p.first, p.quote, p.last)
    BY <2>0, LinkBefore, Zenon
  <2>2. p \in Anchors(a \o b)
    BY <1>1, <2>0, <2>1, IsAnchor
  <2>3. PICK f, q, l : f = p.first /\ q = p.quote /\ l = p.last
    OBVIOUS
  <2>4. f \in Nat /\ q \in Nat /\ l \in Nat /\ 1 <= f /\ f + 1 < q /\ q < l /\ l <= u
    BY <1>2, <2>0, <2>3, Zenon DEF LinkOrdered
  <2>5. /\ f + 1 \in Nat /\ q - 1 \in Nat /\ 1 <= f + 1 /\ q - 1 <= u /\ f + 1 <= (q - 1) + 1
        /\ q + 1 \in Nat /\ l - 1 \in Nat /\ 1 <= q + 1 /\ l - 1 <= u /\ q + 1 <= (l - 1) + 1
    BY <1>3, <2>4, LinkPieces
  <2>6. SubSeq(a \o b, f + 1, q - 1) = SubSeq(a, f + 1, q - 1) /\ SubSeq(a \o b, q + 1, l - 1) = SubSeq(a, q + 1, l - 1)
    BY <1>2, <2>5, PieceBefore, ZenonT(60)
  <2>7. Expansion(a \o b, p) = Expansion(a, p)
    BY <2>3, <2>6, Zenon DEF Expansion
  <2> QED
    BY <2>2, <2>7
<1>5. ASSUME NEW p \in Anchors(b)
      PROVE  MovedLink(p, u) \in Anchors(a \o b) /\ Expansion(a \o b, MovedLink(p, u)) = Later(Expansion(b, p), u)
  <2>0. LinkOrdered(b, p.first, p.quote, p.last) /\ LinkSpelled(b, p.first, p.quote, p.last)
    BY AnchorIs
  <2>1. PICK f, q, l : f = p.first /\ q = p.quote /\ l = p.last
    OBVIOUS
  <2>2. PICK x, y, z : x = f + u /\ y = q + u /\ z = l + u
    OBVIOUS
  <2>3. LinkOrdered(a \o b, x, y, z) /\ LinkSpelled(a \o b, x, y, z)
    BY <1>2, <2>0, <2>1, <2>2, LinkAfter, Zenon
  <2>4. LinkAt(x, y, z) \in Anchors(a \o b)
    BY <1>1, <2>3, IsAnchor, Zenon
  <2>5. MovedLink(p, u) = LinkAt(x, y, z)
    BY <2>1, <2>2, Zenon DEF LinkAt, MovedLink
  <2>6. f \in Nat /\ q \in Nat /\ l \in Nat /\ 1 <= f /\ f + 1 < q /\ q < l /\ l <= w
    BY <1>2, <2>0, <2>1, Zenon DEF LinkOrdered
  <2>7. /\ f + 1 \in Nat /\ q - 1 \in Nat /\ 1 <= f + 1 /\ q - 1 <= w /\ f + 1 <= (q - 1) + 1
        /\ q + 1 \in Nat /\ l - 1 \in Nat /\ 1 <= q + 1 /\ l - 1 <= w /\ q + 1 <= (l - 1) + 1
    BY <1>3, <2>6, LinkPieces
  <2>8. /\ SubSeq(a \o b, (f + 1) + u, (q - 1) + u) = SubSeq(b, f + 1, q - 1)
        /\ SubSeq(a \o b, (q + 1) + u, (l - 1) + u) = SubSeq(b, q + 1, l - 1)
    <3>1. \A m, n \in Nat : 1 <= m /\ n <= w /\ m <= n + 1 => SubSeq(a \o b, m + u, n + u) = SubSeq(b, m, n)
      BY <1>2, PieceAfter
    <3> QED
      BY <2>7, <3>1, Zenon
  <2>9. (f + 1) + u = x + 1 /\ (q - 1) + u = y - 1 /\ (q + 1) + u = y + 1 /\ (l - 1) + u = z - 1
    BY <1>3, <2>2, <2>6
  <2>10. PICK e : e = Expanded(SubSeq(b, f + 1, q - 1), SubSeq(b, q + 1, l - 1))
    OBVIOUS
  <2>11. Expanded(SubSeq(a \o b, x + 1, y - 1), SubSeq(a \o b, y + 1, z - 1)) = e
    BY <2>8, <2>9, <2>10, Zenon
  <2>12. Expansion(b, p) = [first |-> f, last |-> l, by |-> e]
    BY <2>1, <2>10, Zenon DEF Expansion
  <2>13. PICK r : r = MovedLink(p, u)
    OBVIOUS
  <2>14. r.first = x /\ r.quote = y /\ r.last = z
    BY <2>5, <2>13 DEF LinkAt
  <2>15. Expansion(a \o b, r) = [first |-> x, last |-> z, by |-> e]
    BY <2>11, <2>14, Zenon DEF Expansion
  <2>16. Later([first |-> f, last |-> l, by |-> e], u) = [first |-> x, last |-> z, by |-> e]
    BY <2>2 DEF Later
  <2> QED
    BY <2>4, <2>5, <2>12, <2>13, <2>15, <2>16, Zenon
<1>6. ASSUME NEW p \in Anchors(a \o b) PROVE p \in Anchors(a) \/ \E r \in Anchors(b) : p = MovedLink(r, u)
  <2>0. LinkOrdered(a \o b, p.first, p.quote, p.last) /\ LinkSpelled(a \o b, p.first, p.quote, p.last) /\
          p = LinkAt(p.first, p.quote, p.last)
    BY <1>1, AnchorIs
  <2>1. PICK x, y, z : x = p.first /\ y = p.quote /\ z = p.last
    OBVIOUS
  <2>2. x \in Nat /\ y \in Nat /\ z \in Nat /\ 1 <= x /\ x + 1 < y /\ y < z /\ z <= u + w
    BY <1>1, <1>2, <2>0, <2>1, Zenon DEF LinkOrdered
  <2>3. CASE z <= u
    <3>1. LinkOrdered(a, p.first, p.quote, p.last) /\ LinkSpelled(a, p.first, p.quote, p.last)
      BY <1>2, <2>0, <2>1, <2>3, LinkBefore, Zenon
    <3> QED
      BY <2>0, <3>1, IsAnchor, Zenon
  <2>4. CASE x > u
    <3>1. PICK f, q, l : f = x - u /\ q = y - u /\ l = z - u
      OBVIOUS
    <3>2. f \in Nat /\ q \in Nat /\ l \in Nat /\ 1 <= f /\ f + 1 < q /\ q < l /\ l <= w /\ f + u = x /\ q + u = y /\ l + u = z
      BY <1>3, <2>2, <2>4, <3>1
    <3>3. LinkOrdered(b, f, q, l)
      BY <1>2, <3>2, Zenon DEF LinkOrdered
    <3>4. LinkSpelled(a \o b, f + Len(a), q + Len(a), l + Len(a))
      BY <1>2, <2>0, <2>1, <3>2, Zenon
    <3>5. LinkSpelled(b, f, q, l)
      BY <3>3, <3>4, LinkAfter, Zenon
    <3>6. PICK r : r = LinkAt(f, q, l)
      OBVIOUS
    <3>7. r \in Anchors(b)
      BY <3>3, <3>5, <3>6, IsAnchor, Zenon
    <3>8. r.first = f /\ r.quote = q /\ r.last = l
      BY <3>6 DEF LinkAt
    <3>9. p = MovedLink(r, u)
      BY <2>0, <2>1, <3>2, <3>8, Zenon DEF LinkAt, MovedLink
    <3> QED
      BY <3>7, <3>9
  <2>5. CASE x <= u /\ u < z
    <3>1. x \in 1..u /\ a[x] = "<a href="
      <4>1. x \in 1..u
        BY <1>3, <2>2, <2>5
      <4>2. (a \o b)[x] = "<a href="
        BY <2>0, <2>1, Zenon DEF LinkSpelled
      <4> QED
        BY <1>a, <1>2, <2>2, <2>5, <4>1, <4>2, Zenon
    <3>2. PICK j \in 1..u : x < j /\ a[j] = "</a>"
      BY <1>2, <3>1, Zenon DEF AllClosed
    <3>3. j \in Nat /\ 1 <= j /\ j <= u /\ j < z
      BY <1>3, <2>2, <2>5
    <3>4. (a \o b)[j] = "</a>"
      BY <1>a, <1>2, <3>2, <3>3, Zenon
    <3>5. (a \o b)[j] \in Kinds
      BY <3>4 DEF Kinds
    <3>6. j = y
      BY <2>0, <2>1, <3>2, <3>3, <3>5, Zenon DEF LinkSpelled
    <3>7. (a \o b)[y] = "'>"
      BY <2>0, <2>1, Zenon DEF LinkSpelled
    <3> QED
      BY <3>4, <3>6, <3>7
  <2>6. z <= u \/ x > u \/ (x <= u /\ u < z)
    BY <1>3, <2>2
  <2> QED
    BY <2>3, <2>4, <2>5, <2>6
<1>7. /\ A \in SUBSET Matches(C) /\ B \in SUBSET Matches(C)
      /\ (\A m \in A : m.first <= Len(a) /\ m.last <= Len(a)) /\ (\A m \in B : m.first >= 1)
  <2>1. \A m \in B : 1 <= m.first /\ m.first \in Nat
    BY <1>2, ExpansionsTyped DEF Matches
  <2> QED
    BY <1>2, <2>1, ExpansionsTyped
<1>8. M = A \cup {Later(m, Len(a)) : m \in B}
  <2>1. ASSUME NEW m \in M PROVE m \in A \cup {Later(n, Len(a)) : n \in B}
    <3>1. PICK p \in Anchors(a \o b) : m = Expansion(a \o b, p)
      BY <1>2 DEF Expansions
    <3>2. CASE p \in Anchors(a)
      <4>1. m = Expansion(a, p)
        BY <1>4, <3>1, <3>2, Zenon
      <4> QED
        BY <1>2, <3>2, <4>1, Zenon DEF Expansions
    <3>3. CASE \E r \in Anchors(b) : p = MovedLink(r, u)
      <4>1. PICK r \in Anchors(b) : p = MovedLink(r, u)
        BY <3>3
      <4>2. m = Later(Expansion(b, r), u) /\ Expansion(b, r) \in B
        BY <1>2, <1>5, <3>1, <4>1, Zenon DEF Expansions
      <4> QED
        BY <1>2, <4>2
    <3> QED
      BY <1>6, <3>2, <3>3
  <2>2. ASSUME NEW m \in A PROVE m \in M
    <3>1. PICK p \in Anchors(a) : m = Expansion(a, p)
      BY <1>2 DEF Expansions
    <3> QED
      BY <1>2, <1>4, <3>1, Zenon DEF Expansions
  <2>3. ASSUME NEW m \in B PROVE Later(m, Len(a)) \in M
    <3>1. PICK p \in Anchors(b) : m = Expansion(b, p)
      BY <1>2 DEF Expansions
    <3> QED
      BY <1>2, <1>5, <3>1, Zenon DEF Expansions
  <2> QED
    BY <2>1, <2>2, <2>3
<1>9. OneEach(M)
  <2>1. ASSUME NEW m \in M, NEW n \in M, m.first = n.first PROVE m = n
    <3>1. PICK p \in Anchors(a \o b) : m = Expansion(a \o b, p)
      BY <1>2 DEF Expansions
    <3>2. PICK r \in Anchors(a \o b) : n = Expansion(a \o b, r)
      BY <1>2 DEF Expansions
    <3>3. p.first = r.first
      BY <2>1, <3>1, <3>2 DEF Expansion
    <3>4. p = r
      BY <1>1, <3>3, OneAnchor
    <3> QED
      BY <3>1, <3>2, <3>4
  <2> QED
    BY <2>1 DEF OneEach
<1>10. Adjoined(C, a, b, A, B, M)
  BY <1>7, <1>8, <1>9, Zenon DEF Adjoined
<1>11. Replaced(a \o b, M) = Replaced(a, A) \o Replaced(b, B)
  BY <1>10, ReplacedJoined
<1>12. /\ LinksExpanded(a) = Replaced(a, A) /\ LinksExpanded(b) = Replaced(b, B)
       /\ LinksExpanded(a \o b) = Replaced(a \o b, M)
  <2>1. \A c \in Seq(C) : LinksExpanded(c) = Replaced(c, Expansions(c))
    BY ExpansionsTyped
  <2> QED
    BY <1>1, <1>2, <2>1
<1> QED
  BY <1>11, <1>12

\* A page without links is left as it is.
LEMMA LinksNone ==
  ASSUME NEW C, "<a href=" \notin C, NEW html \in Seq(C)
  PROVE  LinksExpanded(html) = html
<1>1. \A i \in 1..Len(html) : html[i] \in C
  BY ElementOfSeq
<1>2. DOMAIN html = 1..Len(html)
  BY LenProperties
<1>3. Anchors(html) = {}
  BY <1>1, <1>2 DEF Anchors, Where
<1>4. LinksExpanded(html) = Replaced(html, {})
  BY <1>3 DEF LinksExpanded
<1> QED
  BY <1>4, ReplacedNone

\* The symbols of a written link, place by place.
Shaped(C, o, x, q, w, c, h) ==
  /\ h \in Seq(C) /\ Len(h) = Len(x) + Len(w) + 3
  /\ h[1] = o /\ h[Len(x) + 2] = q /\ h[Len(x) + Len(w) + 3] = c
  /\ \A i \in 1..Len(x) : h[i + 1] = x[i]
  /\ \A i \in 1..Len(w) : h[i + (Len(x) + 2)] = w[i]

\* The elements of a link.
LEMMA LinkShape ==
  ASSUME NEW C, NEW o \in C, NEW x \in Seq(C), NEW q \in C, NEW w \in Seq(C), NEW c \in C
  PROVE  Shaped(C, o, x, q, w, c, ((<<o>> \o x) \o (<<q>> \o w)) \o <<c>>)
BY DEF Shaped

\* Whatever is no mark of a link, and a link from x that says w.
Outside == Symbols \ Kinds
Anchor(x, w) == ((<<"<a href=">> \o x) \o (<<"'>">> \o w)) \o <<"</a>">>

\* The marks the code looks for are symbols, and none is a merge name.
LEMMA MarksAreSymbols ==
  /\ HasEscapes(Symbols) /\ HasBrackets(Symbols) /\ Kinds \subseteq Symbols /\ Tags \subseteq Symbols
  /\ MergeNames \subseteq Symbols
  /\ Kinds \subseteq Tags /\ MergeNames \cap Marks = {}
  /\ "{{" \in Symbols /\ "}}" \in Symbols /\ Blank \in Symbols
<1>1. Marks \subseteq Symbols /\ MergeNames \subseteq Symbols /\ MergeNames \cap Marks = {}
  BY SymbolsAssumption
<1>2. Tags \subseteq Marks /\ "{{" \in Marks /\ "}}" \in Marks /\ Blank \in Marks /\ "&" \in Marks /\ "<" \in Marks /\
        "'" \in Marks /\ "(" \in Marks /\ ")" \in Marks
  BY DEF Marks
<1>3. "#39;" \in Marks /\ "amp;" \in Marks /\ "lt;" \in Marks
  BY DEF Marks, Numeric, Named
<1>4. Kinds \subseteq Tags
  BY DEF Kinds, Tags
<1> QED
  BY <1>1, <1>2, <1>3, <1>4 DEF HasEscapes, HasBrackets

\* Where the symbols of a written link are.
LEMMA AnchorShape ==
  ASSUME NEW x \in Seq(Outside), NEW w \in Seq(Outside)
  PROVE  /\ Anchor(x, w) \in Seq(Symbols) /\ Len(Anchor(x, w)) = Len(x) + Len(w) + 3 /\ Len(x) \in Nat /\ Len(w) \in Nat
         /\ Anchor(x, w)[1] = "<a href=" /\ Anchor(x, w)[Len(x) + 2] = "'>" /\ Anchor(x, w)[Len(x) + Len(w) + 3] = "</a>"
         /\ \A i \in 1..Len(x) : Anchor(x, w)[i + 1] = x[i]
         /\ \A i \in 1..Len(w) : Anchor(x, w)[i + (Len(x) + 2)] = w[i]
         /\ \A j \in 1..Len(x) + Len(w) + 3 : Anchor(x, w)[j] \in Kinds => j = 1 \/ j = Len(x) + 2 \/ j = Len(x) + Len(w) + 3
<1>1. PICK o, q, c : o = "<a href=" /\ q = "'>" /\ c = "</a>"
  OBVIOUS
<1>2. o \in Symbols /\ q \in Symbols /\ c \in Symbols /\ x \in Seq(Symbols) /\ w \in Seq(Symbols)
  <2>1. o \in Symbols /\ q \in Symbols /\ c \in Symbols
    BY <1>1, MarksAreSymbols DEF Kinds
  <2>2. x \in Seq(Symbols) /\ w \in Seq(Symbols)
    BY DEF Outside
  <2> QED
    BY <2>1, <2>2
<1>3. PICK h : h = ((<<o>> \o x) \o (<<q>> \o w)) \o <<c>>
  OBVIOUS
<1>4. /\ h \in Seq(Symbols) /\ Len(h) = Len(x) + Len(w) + 3
      /\ h[1] = o /\ h[Len(x) + 2] = q /\ h[Len(x) + Len(w) + 3] = c
      /\ \A i \in 1..Len(x) : h[i + 1] = x[i]
      /\ \A i \in 1..Len(w) : h[i + (Len(x) + 2)] = w[i]
  <2>1. Shaped(Symbols, o, x, q, w, c, h)
    BY <1>2, <1>3, LinkShape, Zenon
  <2> QED
    BY <2>1, Zenon DEF Shaped
<1>5. Anchor(x, w) = h
  BY <1>1, <1>3, Zenon DEF Anchor
<1>6. PICK n, m : n = Len(x) /\ m = Len(w)
  OBVIOUS
<1>7. n \in Nat /\ m \in Nat
  BY <1>6
<1>8. (\A i \in 1..n : x[i] \notin Kinds) /\ \A i \in 1..m : w[i] \notin Kinds
  BY <1>6, ElementOfSeq DEF Outside
<1>9. ASSUME NEW j \in 1..n + m + 3, h[j] \in Kinds PROVE j = 1 \/ j = n + 2 \/ j = n + m + 3
  <2>1. ASSUME j # 1, j < n + 2 PROVE FALSE
    <3>1. PICK i : i = j - 1
      OBVIOUS
    <3>2. i \in 1..n /\ i + 1 = j
      BY <1>7, <2>1, <3>1
    <3> QED
      BY <1>4, <1>6, <1>8, <1>9, <3>2, Zenon
  <2>2. ASSUME j > n + 2, j # n + m + 3 PROVE FALSE
    <3>1. PICK i : i = j - (n + 2)
      OBVIOUS
    <3>2. i \in 1..m /\ i + (n + 2) = j
      BY <1>7, <2>2, <3>1
    <3> QED
      BY <1>4, <1>6, <1>8, <1>9, <3>2, Zenon
  <2>3. j < n + 2 \/ j = n + 2 \/ j > n + 2
    BY <1>7
  <2> QED
    BY <2>1, <2>2, <2>3
<1> QED
  BY <1>1, <1>4, <1>5, <1>6, <1>7, <1>9, Zenon

\* A written link is closed.
LEMMA AnchorClosed ==
  ASSUME NEW x \in Seq(Outside), NEW w \in Seq(Outside)
  PROVE  AllClosed(Anchor(x, w))
<1>1. PICK h, n, m : h = Anchor(x, w) /\ n = Len(x) /\ m = Len(w)
  OBVIOUS
<1>2. /\ Len(h) = n + m + 3 /\ n \in Nat /\ m \in Nat /\ h[n + 2] = "'>" /\ h[n + m + 3] = "</a>"
      /\ \A j \in 1..n + m + 3 : h[j] \in Kinds => j = 1 \/ j = n + 2 \/ j = n + m + 3
  BY <1>1, AnchorShape, Zenon
<1>3. n + m + 3 \in 1..n + m + 3 /\ 1 < n + m + 3
  BY <1>2
<1>4. ASSUME NEW i \in 1..n + m + 3, h[i] = "<a href=" PROVE i = 1
  <2>1. h[i] \in Kinds /\ h[i] # "'>" /\ h[i] # "</a>"
    BY <1>4 DEF Kinds
  <2> QED
    BY <1>2, <2>1, Zenon
<1>5. \A i \in 1..Len(h) : h[i] = "<a href=" => \E j \in 1..Len(h) : i < j /\ h[j] = "</a>"
  BY <1>2, <1>3, <1>4, Zenon
<1> QED
  BY <1>1, <1>5, Zenon DEF AllClosed

\* A link with an address becomes its words and the address; one without stays as it is.
LEMMA LinkAlone ==
  ASSUME NEW x \in Seq(Outside), NEW w \in Seq(Outside)
  PROVE  LinksExpanded(Anchor(x, w)) = IF x = <<>> THEN Anchor(x, w) ELSE Expanded(x, w)
<1>1. PICK h, n, m : h = Anchor(x, w) /\ n = Len(x) /\ m = Len(w)
  OBVIOUS
<1>2. /\ h \in Seq(Symbols) /\ Len(h) = n + m + 3 /\ n \in Nat /\ m \in Nat
      /\ h[1] = "<a href=" /\ h[n + 2] = "'>" /\ h[n + m + 3] = "</a>"
      /\ \A j \in 1..n + m + 3 : h[j] \in Kinds => j = 1 \/ j = n + 2 \/ j = n + m + 3
  BY <1>1, AnchorShape, Zenon
<1>n. n \in Nat /\ m \in Nat
  BY <1>2
<1>l. Len(h) = n + m + 3
  BY <1>2
<1>3. /\ \A i \in 1..n : h[i + 1] = x[i]
      /\ \A i \in 1..m : h[i + (n + 2)] = w[i]
  BY <1>1, AnchorShape, ZenonT(60)
<1>4. ASSUME NEW p \in Anchors(h) PROVE p = LinkAt(1, n + 2, n + m + 3) /\ n # 0
  <2>0. LinkOrdered(h, p.first, p.quote, p.last) /\ LinkSpelled(h, p.first, p.quote, p.last) /\
          p = LinkAt(p.first, p.quote, p.last)
    BY <1>2, AnchorIs
  <2>1. PICK f, q, l : f = p.first /\ q = p.quote /\ l = p.last
    OBVIOUS
  <2>2. f \in Nat /\ q \in Nat /\ l \in Nat /\ 1 <= f /\ f + 1 < q /\ q < l /\ l <= n + m + 3
    BY <1>2, <2>0, <2>1, Zenon DEF LinkOrdered
  <2>3. f \in 1..n + m + 3 /\ q \in 1..n + m + 3 /\ l \in 1..n + m + 3
    BY <1>n, <2>2
  <2>4. h[f] = "<a href=" /\ h[q] = "'>" /\ h[l] = "</a>"
    BY <2>0, <2>1, Zenon DEF LinkSpelled
  <2>5. h[f] \in Kinds /\ h[q] \in Kinds /\ h[l] \in Kinds
    BY <2>4 DEF Kinds
  <2>6. (f = 1 \/ f = n + 2 \/ f = n + m + 3) /\ (q = 1 \/ q = n + 2 \/ q = n + m + 3) /\ (l = 1 \/ l = n + 2 \/ l = n + m + 3)
    BY <1>2, <2>3, <2>5, Zenon
  <2>7. f = 1 /\ q = n + 2 /\ l = n + m + 3 /\ n # 0
    BY <1>n, <2>2, <2>6
  <2> QED
    BY <2>0, <2>1, <2>7, Zenon
<1>5. CASE x = <<>>
  <2>1. n = 0
    BY <1>1, <1>5
  <2>2. Anchors(h) = {}
    BY <1>4, <2>1
  <2>3. LinksExpanded(h) = Replaced(h, {})
    BY <2>2 DEF LinksExpanded
  <2> QED
    BY <1>1, <1>2, <1>5, <2>3, ReplacedNone
<1>6. CASE x # <<>>
  <2>1. n # 0
    BY <1>1, <1>6
  <2>2. PICK q, l : q = n + 2 /\ l = n + m + 3
    OBVIOUS
  <2>3. q \in Nat /\ l \in Nat /\ 1 \in Nat /\ 1 <= 1 /\ 1 + 1 < q /\ q < l /\ l <= n + m + 3
    BY <1>n, <2>1, <2>2
  <2>4. LinkOrdered(h, 1, q, l)
    BY <1>2, <2>3, Zenon DEF LinkOrdered
  <2>5. LinkSpelled(h, 1, q, l)
    <3>1. ASSUME NEW j \in Nat, 1 < j, j < l, h[j] \in Kinds PROVE j = q
      <4>1. j \in 1..n + m + 3 /\ j # 1 /\ j # n + m + 3
        BY <1>n, <2>2, <3>1
      <4> QED
        BY <1>2, <2>2, <3>1, <4>1, Zenon
    <3> QED
      BY <1>2, <2>2, <3>1, Zenon DEF LinkSpelled
  <2>6. PICK p : p = LinkAt(1, q, l)
    OBVIOUS
  <2>7. p \in Anchors(h)
    BY <1>2, <2>4, <2>5, <2>6, IsAnchor, Zenon
  <2>8. Anchors(h) = {p}
    BY <1>4, <2>2, <2>6, <2>7, Zenon
  <2>9. p.first = 1 /\ p.quote = q /\ p.last = l
    BY <2>6 DEF LinkAt
  <2>10. SubSeq(h, 1 + 1, q - 1) = x
    <3>1. 1 + 1 \in Nat /\ q - 1 \in Nat /\ 1 <= 1 + 1 /\ q - 1 <= Len(h) /\ 1 + 1 <= (q - 1) + 1 /\ ((q - 1) + 1) - (1 + 1) = n
      BY <1>n, <1>l, <2>2
    <3>2. \A i \in 1..n : ((1 + 1) + i) - 1 = i + 1
      BY <1>n
    <3>3. \A i \in 1..n : x[i] = h[((1 + 1) + i) - 1]
      BY <1>3, <3>2, Zenon
    <3>4. x \in Seq(Symbols)
      BY DEF Outside
    <3>5. PICK s, t : s = 1 + 1 /\ t = q - 1
      OBVIOUS
    <3>6. SubSeq(h, s, t) = x
      BY <1>1, <1>2, <3>1, <3>3, <3>4, <3>5, Cut
    <3> QED
      BY <3>5, <3>6, Zenon
  <2>11. SubSeq(h, q + 1, l - 1) = w
    <3>1. q + 1 \in Nat /\ l - 1 \in Nat /\ 1 <= q + 1 /\ l - 1 <= Len(h) /\ q + 1 <= (l - 1) + 1 /\ ((l - 1) + 1) - (q + 1) = m
      BY <1>n, <1>l, <2>2
    <3>2. \A i \in 1..m : ((q + 1) + i) - 1 = i + (n + 2)
      BY <1>n, <2>2
    <3>3. \A i \in 1..m : w[i] = h[((q + 1) + i) - 1]
      BY <1>3, <3>2, Zenon
    <3>4. w \in Seq(Symbols)
      BY DEF Outside
    <3>5. PICK s, t : s = q + 1 /\ t = l - 1
      OBVIOUS
    <3>6. SubSeq(h, s, t) = w
      BY <1>1, <1>2, <3>1, <3>3, <3>4, <3>5, Cut
    <3> QED
      BY <3>5, <3>6, Zenon
  <2>12. PICK e : e = Expansion(h, p)
    OBVIOUS
  <2>13. e.first = 1 /\ e.last = l /\ e.by = Expanded(x, w)
    <3>1. e = [first |-> 1, last |-> l, by |-> Expanded(x, w)]
      BY <2>9, <2>10, <2>11, <2>12, Zenon DEF Expansion
    <3> QED
      BY <3>1
  <2>14. Expansions(h) = {e}
    BY <2>8, <2>12 DEF Expansions
  <2>15. e \in Matches(Symbols) /\ LinksExpanded(h) = Replaced(h, {e})
    BY <1>2, <2>14, MarksAreSymbols, ExpansionsTyped
  <2>16. h # <<>> /\ e.last = Len(h)
    <3>1. n + m + 3 # 0
      BY <1>n
    <3> QED
      BY <1>l, <2>2, <2>13, <3>1
  <2>17. Replaced(h, {e}) = e.by
    BY <1>2, <2>13, <2>15, <2>16, ReplacedAll
  <2> QED
    BY <1>1, <1>6, <2>13, <2>15, <2>17
<1> QED
  BY <1>5, <1>6

\* What a value is made of, and what the words around a placeholder are.
Values == Plain \cup Links
Words == Symbols \ (Links \cup Pixels \cup Kinds)

\* How the sets of symbols lie: values hold no tag and no pixel, words and values lie outside the marks of a link.
LEMMA ValuesAreSymbols ==
  /\ Values \subseteq Outside /\ Values \subseteq Symbols /\ Outside \subseteq Symbols /\ Values \cap Tags = {}
  /\ Values \cap Pixels = {}
  /\ HasEscapes(Values) /\ HasBrackets(Values) /\ {"{{", "}}", Blank} \subseteq Values /\ MergeNames \subseteq Values
  /\ Words \subseteq Outside /\ Words \subseteq Symbols /\ Links \subseteq Values /\ Plain \subseteq Values
  /\ Plain \cap Links = {}
<1>1. /\ Tags \subseteq Marks /\ MergeNames \subseteq Symbols /\ Marks \subseteq Symbols /\ Links \subseteq Symbols
      /\ (Links \cup Pixels) \cap (Marks \cup MergeNames) = {} /\ Links \cap Pixels = {} /\ MergeNames \cap Marks = {}
  BY SymbolsAssumption DEF Marks
<1>2. Kinds \subseteq Tags
  BY DEF Kinds, Tags
<1>3. Plain = Symbols \ (Tags \cup Links \cup Pixels)
  BY DEF Plain
<1>4. /\ "&" \in Marks /\ "amp;" \in Marks /\ "lt;" \in Marks /\ "#39;" \in Marks /\ "'" \in Marks /\ "<" \in Marks
      /\ "(" \in Marks /\ ")" \in Marks /\ "{{" \in Marks /\ "}}" \in Marks /\ Blank \in Marks
  BY DEF Marks, Numeric, Named
<1>5. /\ "&" \notin Tags /\ "amp;" \notin Tags /\ "lt;" \notin Tags /\ "#39;" \notin Tags /\ "'" \notin Tags /\ "<" \notin Tags
      /\ "(" \notin Tags /\ ")" \notin Tags /\ "{{" \notin Tags /\ "}}" \notin Tags /\ Blank \notin Tags
  BY DEF Tags, Blank
<1>6. HasEscapes(Plain) /\ HasBrackets(Plain) /\ {"{{", "}}", Blank} \subseteq Plain /\ MergeNames \subseteq Plain
  BY <1>1, <1>3, <1>4, <1>5 DEF HasEscapes, HasBrackets
<1>7. HasEscapes(Values) /\ HasBrackets(Values) /\ {"{{", "}}", Blank} \subseteq Values /\ MergeNames \subseteq Values /\
        Plain \subseteq Values
  BY <1>6 DEF HasEscapes, HasBrackets, Values
<1>8. Values \subseteq Symbols /\ Values \cap Tags = {} /\ Values \cap Pixels = {}
  BY <1>1, <1>3 DEF Values
<1>9. Values \subseteq Outside /\ Outside \subseteq Symbols
  BY <1>2, <1>8 DEF Outside
<1>10. Words \subseteq Outside /\ Words \subseteq Symbols /\ Links \subseteq Values /\ Plain \cap Links = {}
  BY <1>3 DEF Words, Outside, Values
<1> QED
  BY <1>7, <1>8, <1>9, <1>10

\* The kinds of parts.
IsVar(p) ==
  /\ p.name \in MergeNames /\ p.before = <<>> /\ p.words = <<>> /\ p.after = <<>> /\ p.shown = <<>>
  /\ p.spelled \in {<<"{{", p.name, "}}">>, <<"{{", Blank, p.name, Blank, "}}">>}
IsLiteral(p) == p.name = Missing /\ p.before = <<>> /\ p.after = <<>> /\ p.spelled = <<>> /\ Says(p.words, p.shown)
IsLink(p, w) ==
  /\ p.name \in MergeNames /\ p.before = <<"<a href=">> /\ p.words = <<"'>">> \o w /\ p.after = <<"</a>">>
  /\ p.spelled = <<"{{", p.name, "}}">> /\ Says(w, p.shown)

\* Two symbols and one more.
LEMMA TwoAndOne == ASSUME NEW x, NEW y, NEW z PROVE <<x, y>> \o <<z>> = <<x, y, z>>
<1>1. PICK s, t : s = <<x, y>> \o <<z>> /\ t = <<x, y, z>>
  OBVIOUS
<1>2. s \in Seq({x, y, z}) /\ Len(s) = 3 /\ s[1] = x /\ s[2] = y /\ s[3] = z
  BY <1>1
<1>3. t \in Seq({x, y, z}) /\ Len(t) = 3 /\ t[1] = x /\ t[2] = y /\ t[3] = z
  BY <1>1
<1>4. \A i \in 1..3 : i = 1 \/ i = 2 \/ i = 3
  OBVIOUS
<1>5. \A i \in 1..Len(s) : s[i] = t[i]
  BY <1>2, <1>3, <1>4, Zenon
<1> QED
  BY <1>1, <1>2, <1>3, <1>5, SeqEqual

\* Three symbols and one more.
LEMMA ThreeAndOne == ASSUME NEW x, NEW y, NEW o, NEW z PROVE <<x, y, o>> \o <<z>> = <<x, y, o, z>>
<1>1. PICK s, t : s = <<x, y, o>> \o <<z>> /\ t = <<x, y, o, z>>
  OBVIOUS
<1>2. s \in Seq({x, y, o, z}) /\ Len(s) = 4 /\ s[1] = x /\ s[2] = y /\ s[3] = o /\ s[4] = z
  BY <1>1
<1>3. t \in Seq({x, y, o, z}) /\ Len(t) = 4 /\ t[1] = x /\ t[2] = y /\ t[3] = o /\ t[4] = z
  BY <1>1
<1>4. \A i \in 1..4 : i = 1 \/ i = 2 \/ i = 3 \/ i = 4
  OBVIOUS
<1>5. \A i \in 1..Len(s) : s[i] = t[i]
  BY <1>2, <1>3, <1>4, Zenon
<1> QED
  BY <1>1, <1>2, <1>3, <1>5, SeqEqual

\* Four symbols and one more.
LEMMA FourAndOne == ASSUME NEW x, NEW y, NEW o, NEW u, NEW z PROVE <<x, y, o, u>> \o <<z>> = <<x, y, o, u, z>>
<1>1. PICK s, t : s = <<x, y, o, u>> \o <<z>> /\ t = <<x, y, o, u, z>>
  OBVIOUS
<1>2. s \in Seq({x, y, o, u, z}) /\ Len(s) = 5 /\ s[1] = x /\ s[2] = y /\ s[3] = o /\ s[4] = u /\ s[5] = z
  BY <1>1
<1>3. t \in Seq({x, y, o, u, z}) /\ Len(t) = 5 /\ t[1] = x /\ t[2] = y /\ t[3] = o /\ t[4] = u /\ t[5] = z
  BY <1>1
<1>4. \A i \in 1..5 : i = 1 \/ i = 2 \/ i = 3 \/ i = 4 \/ i = 5
  OBVIOUS
<1>5. \A i \in 1..Len(s) : s[i] = t[i]
  BY <1>2, <1>3, <1>4, Zenon
<1> QED
  BY <1>1, <1>2, <1>3, <1>5, SeqEqual

\* No text joined to a text leaves it.
LEMMA AloneIs == ASSUME NEW C, NEW s \in Seq(C) PROVE s \o <<>> = s /\ <<>> \o s = s
OBVIOUS

\* A placeholder's three symbols written one after the other.
LEMMA ThreeIs == ASSUME NEW x, NEW y, NEW z PROVE <<x>> \o <<>> \o <<y>> \o <<>> \o <<z>> = <<x, y, z>>
<1>1. <<x>> \in Seq({x, y, z}) /\ <<x, y>> \in Seq({x, y, z})
  OBVIOUS
<1>2. <<x>> \o <<>> = <<x>> /\ <<x, y>> \o <<>> = <<x, y>>
  BY <1>1, AloneIs
<1> QED
  BY <1>2, TwoIs, TwoAndOne, ZenonT(60)

\* A spaced placeholder's five symbols written one after the other.
LEMMA FiveIs == ASSUME NEW x, NEW y, NEW o, NEW z PROVE <<x>> \o <<o>> \o <<y>> \o <<o>> \o <<z>> = <<x, o, y, o, z>>
<1>0. <<x>> \o <<o>> = <<x, o>>
  BY TwoIs, Zenon
<1>1. <<x>> \o <<o>> \o <<y>> = <<x, o, y>>
  BY <1>0, TwoAndOne, Zenon
<1>2. <<x>> \o <<o>> \o <<y>> \o <<o>> = <<x, o, y, o>>
  BY <1>1, ThreeAndOne, Zenon
<1> QED
  BY <1>2, FourAndOne, Zenon

\* A variable's placeholder is written in one of two ways.
LEMMA VarSpelled ==
  ASSUME NEW name, NEW spaces \in {<<>>, <<Blank>>}
  PROVE  <<"{{">> \o spaces \o <<name>> \o spaces \o <<"}}">> \in {<<"{{", name, "}}">>, <<"{{", Blank, name, Blank, "}}">>}
<1>1. PICK a, b, o : a = "{{" /\ b = "}}" /\ o = Blank
  OBVIOUS
<1>2. PICK S : S = {a, b, o, name}
  OBVIOUS
<1>3. CASE spaces = <<>>
  <2>1. <<a>> \o <<>> \o <<name>> \o <<>> \o <<b>> = <<a, name, b>>
    BY ThreeIs
  <2> QED
    BY <1>1, <1>3, <2>1
<1>4. CASE spaces = <<o>>
  <2>1. <<a>> \o <<o>> \o <<name>> \o <<o>> \o <<b>> = <<a, o, name, o, b>>
    BY FiveIs
  <2> QED
    BY <1>1, <1>4, <2>1
<1> QED
  BY <1>1, <1>3, <1>4

\* A part of a template is a variable, a literal or a link.
LEMMA PartIs ==
  ASSUME NEW p \in Parts
  PROVE  IsVar(p) \/ IsLiteral(p) \/ \E w : IsLink(p, w)
<1>1. CASE p.name \in MergeNames /\ \E spaces \in {<<>>, <<Blank>>} : p = Var(p.name, spaces)
  <2>0. PICK n : n = p.name
    OBVIOUS
  <2>1. PICK spaces \in {<<>>, <<Blank>>} : p = Var(n, spaces)
    BY <1>1, <2>0
  <2>2. PICK sp : sp = <<"{{">> \o spaces \o <<n>> \o spaces \o <<"}}">>
    OBVIOUS
  <2>3. sp \in {<<"{{", n, "}}">>, <<"{{", Blank, n, Blank, "}}">>}
    BY <2>2, VarSpelled
  <2>4. p = [name |-> n, spelled |-> sp, before |-> <<>>, words |-> <<>>, after |-> <<>>, shown |-> <<>>]
    BY <2>1, <2>2, Zenon DEF Var, Part
  <2>5. p.spelled = sp /\ p.before = <<>> /\ p.words = <<>> /\ p.after = <<>> /\ p.shown = <<>>
    BY <2>4
  <2> QED
    BY <1>1, <2>0, <2>3, <2>5, Zenon DEF IsVar
<1>2. CASE p = Literal(p.words, p.shown) /\ Says(p.words, p.shown)
  <2>1. PICK w, s : w = p.words /\ s = p.shown
    OBVIOUS
  <2>2. p = [name |-> Missing, spelled |-> <<>>, before |-> <<>>, words |-> w, after |-> <<>>, shown |-> s]
    BY <1>2, <2>1, Zenon DEF Literal, Part
  <2>3. p.name = Missing /\ p.spelled = <<>> /\ p.before = <<>> /\ p.after = <<>>
    BY <2>2
  <2> QED
    BY <1>2, <2>3, Zenon DEF IsLiteral
<1>3. CASE p.name \in MergeNames /\ p = Link(p.name, Tail(p.words), p.shown) /\ Says(Tail(p.words), p.shown)
  <2>1. PICK n, w, s, ww : n = p.name /\ w = Tail(p.words) /\ s = p.shown /\ ww = <<"'>">> \o w
    OBVIOUS
  <2>2. p = [name |-> n, spelled |-> <<"{{", n, "}}">>, before |-> <<"<a href=">>, words |-> ww, after |-> <<"</a>">>,
          shown |-> s]
    BY <1>3, <2>1, Zenon DEF Link, Part
  <2>3. p.spelled = <<"{{", n, "}}">> /\ p.before = <<"<a href=">> /\ p.words = ww /\ p.after = <<"</a>">>
    BY <2>2
  <2> QED
    BY <1>3, <2>1, <2>3, Zenon DEF IsLink
<1> QED
  BY <1>1, <1>2, <1>3, PartsAssumption

\* A text is a text over more symbols.
LEMMA SeqWider == ASSUME NEW S, NEW T, S \subseteq T, NEW s \in Seq(S) PROVE s \in Seq(T)
OBVIOUS

\* What it means that words show a text.
LEMMA SaysIs ==
  ASSUME NEW w, NEW s, Says(w, s)
  PROVE  /\ w \in Seq(Words) /\ w \in Seq(Outside) /\ w \in Seq(Symbols) /\ s \in Seq(Plain) /\ Placeholders(w) = {}
         /\ Placeholders(RidOf(s, {Blank})) = {}
         /\ HtmlToText(w) = RidOf(s, {Blank}) /\ (Trimmed(RidOf(w, Tags)) = <<>> <=> s = <<>>)
         /\ (RidOf(w, Tags) # <<>> => Last(RidOf(w, Tags)) # "&")
<1>1. w \in Seq(Words)
  BY DEF Says, Words, Kinds
<1>2. w \in Seq(Outside) /\ w \in Seq(Symbols)
  BY <1>1, ValuesAreSymbols, SeqWider, Zenon
<1> QED
  BY <1>1, <1>2, Zenon DEF Says

\* What each kind of part is filled to.
LEMMA FilledIs ==
  ASSUME NEW p, NEW x \in Seq(Symbols)
  PROVE  /\ IsVar(p) => FilledWith(p, x) = x
         /\ IsLiteral(p) /\ x = <<>> => FilledWith(p, x) = p.words
         /\ \A w : IsLink(p, w) => FilledWith(p, x) = Anchor(x, w)
<1>1. ASSUME IsVar(p) PROVE FilledWith(p, x) = x
  <2>1. FilledWith(p, x) = <<>> \o x \o <<>> \o <<>>
    BY <1>1, Zenon DEF IsVar, FilledWith
  <2> QED
    BY <2>1
<1>2. ASSUME IsLiteral(p), x = <<>> PROVE FilledWith(p, x) = p.words
  <2>1. FilledWith(p, x) = <<>> \o <<>> \o p.words \o <<>>
    BY <1>2, Zenon DEF IsLiteral, FilledWith
  <2>2. p.words \in Seq(Symbols)
    BY <1>2, SaysIs, Zenon DEF IsLiteral
  <2>3. <<>> \o <<>> = <<>>
    OBVIOUS
  <2> QED
    BY <2>1, <2>2, <2>3
<1>3. ASSUME NEW w, IsLink(p, w) PROVE FilledWith(p, x) = Anchor(x, w)
  BY <1>3, Zenon DEF IsLink, FilledWith, Anchor
<1> QED
  BY <1>1, <1>2, <1>3, Zenon

\* A text of one symbol holds no placeholder.
LEMMA OneIsNone == ASSUME NEW C, NEW x \in C PROVE Placeholders(<<x>>) = {} /\ <<x>> \in Seq(C)
<1>1. <<x>> \in Seq(C) /\ Len(<<x>>) = 1
  OBVIOUS
<1>2. ASSUME NEW p \in Placeholders(<<x>>) PROVE FALSE
  <2>1. Ordered(<<x>>, p.first, p.name, p.last)
    BY <1>1, PlaceholderIs
  <2> QED
    BY <1>1, <2>1 DEF Ordered
<1> QED
  BY <1>1, <1>2

\* Texts that do not touch at a symbol a placeholder may hold.
LEMMA NotAcross ==
  ASSUME NEW C, NEW a \in Seq(C), NEW b \in Seq(C),
         \/ a # <<>> /\ a[Len(a)] \notin MergeNames \cup {Blank, "{{"}
         \/ b # <<>> /\ b[1] \notin MergeNames \cup {Blank, "}}"}
  PROVE  ~Straddles(a, b)
BY StraddleAcross, Zenon

\* A symbol before a text.
LEMMA OneThen ==
  ASSUME NEW C, NEW x \in C, NEW s \in Seq(C)
  PROVE  /\ <<x>> \in Seq(C) /\ <<x>> # <<>> /\ Len(<<x>>) = 1 /\ <<x>>[1] = x /\ <<x>>[Len(<<x>>)] = x
         /\ <<x>> \o s \in Seq(C) /\ <<x>> \o s # <<>> /\ (<<x>> \o s)[1] = x
OBVIOUS

\* The tags are no merge names, braces or blanks.
LEMMA KindsAreNoNames == \A x \in Kinds : x \notin MergeNames \cup {Blank, "{{", "}}"} /\ x \in Symbols
<1>1. Kinds \subseteq Marks
  BY DEF Kinds, Marks, Tags
<1>2. \A x \in Kinds : x \notin MergeNames /\ x \in Symbols
  BY <1>1, SymbolsAssumption
<1> QED
  BY <1>2 DEF Kinds, Blank

\* A link is rendered in its address and nowhere else.
LEMMA RenderLink ==
  ASSUME NEW x \in Seq(Symbols), NEW w \in Seq(Symbols), NEW value \in [MergeNames -> Seq(Symbols)], Placeholders(w) = {}
  PROVE  RenderWith(value, Anchor(x, w)) = Anchor(RenderWith(value, x), w)
<1>1. PICK o, q, c : o = "<a href=" /\ q = "'>" /\ c = "</a>"
  OBVIOUS
<1>2. o \in Symbols /\ q \in Symbols /\ c \in Symbols
  BY <1>1, KindsAreNoNames DEF Kinds
<1>3. /\ o \notin MergeNames \cup {Blank, "{{"} /\ q \notin MergeNames \cup {Blank, "{{"}
      /\ q \notin MergeNames \cup {Blank, "}}"} /\ c \notin MergeNames \cup {Blank, "}}"}
  BY <1>1, KindsAreNoNames DEF Kinds
<1>4. PICK a, b, d : a = <<o>> \o x /\ b = <<q>> \o w /\ d = a \o b
  OBVIOUS
<1>5. /\ a \in Seq(Symbols) /\ b \in Seq(Symbols) /\ b # <<>> /\ b[1] = q /\ <<o>> \in Seq(Symbols)
      /\ <<q>> \in Seq(Symbols) /\ <<c>> \in Seq(Symbols)
      /\ <<o>> # <<>> /\ <<q>> # <<>> /\ <<c>> # <<>> /\ <<o>>[Len(<<o>>)] = o /\ <<q>>[Len(<<q>>)] = q /\ <<c>>[1] = c
  BY <1>2, <1>4, OneThen
<1>6. d \in Seq(Symbols)
  BY <1>4, <1>5, Joined
<1>7. ~Straddles(<<o>>, x) /\ ~Straddles(<<q>>, w) /\ ~Straddles(a, b) /\ ~Straddles(d, <<c>>)
  BY <1>3, <1>5, <1>6, NotAcross
<1>8. RenderWith(value, <<o>>) = <<o>> /\ RenderWith(value, <<q>>) = <<q>> /\ RenderWith(value, <<c>>) = <<c>> /\
        RenderWith(value, w) = w
  BY <1>2, <1>5, OneIsNone, RenderNone
<1>9. RenderWith(value, a) = <<o>> \o RenderWith(value, x)
  <2>1. RenderWith(value, <<o>> \o x) = RenderWith(value, <<o>>) \o RenderWith(value, x)
    BY <1>5, <1>7, RenderJoined, ZenonT(60)
  <2> QED
    BY <1>4, <1>8, <2>1
<1>10. RenderWith(value, b) = <<q>> \o w
  <2>1. RenderWith(value, <<q>> \o w) = RenderWith(value, <<q>>) \o RenderWith(value, w)
    BY <1>5, <1>7, RenderJoined, ZenonT(60)
  <2> QED
    BY <1>4, <1>8, <2>1
<1>11. RenderWith(value, d) = RenderWith(value, a) \o RenderWith(value, b)
  BY <1>4, <1>5, <1>7, RenderJoined, ZenonT(60)
<1>12. RenderWith(value, d \o <<c>>) = RenderWith(value, d) \o RenderWith(value, <<c>>)
  <2>1. PICK e : e = <<c>>
    OBVIOUS
  <2>2. e \in Seq(Symbols) /\ ~Straddles(d, e)
    BY <1>5, <1>7, <2>1, Zenon
  <2>3. RenderWith(value, d \o e) = RenderWith(value, d) \o RenderWith(value, e)
    BY <1>6, <2>2, RenderJoined
  <2> QED
    BY <2>1, <2>3, Zenon
<1>13. Anchor(x, w) = d \o <<c>> /\ Anchor(RenderWith(value, x), w) = ((<<o>> \o RenderWith(value, x)) \o (<<q>> \o w)) \o <<c>>
  BY <1>1, <1>4, Zenon DEF Anchor
<1> QED
  BY <1>8, <1>9, <1>10, <1>11, <1>12, <1>13

\* Both spellings of a placeholder are values.
LEMMA SpelledIs ==
  ASSUME NEW name \in MergeNames
  PROVE  <<"{{", name, "}}">> \in Seq(Values) /\ <<"{{", Blank, name, Blank, "}}">> \in Seq(Values)
<1>1. "{{" \in Values /\ "}}" \in Values /\ Blank \in Values /\ name \in Values
  BY ValuesAreSymbols
<1> QED
  BY <1>1, SeqOfThree, SeqOfFive

\* What a part's spelling, shown text and name are.
LEMMA PartTyped ==
  ASSUME NEW p \in Parts
  PROVE  /\ p.spelled \in Seq(Values) /\ p.spelled \in Seq(Symbols) /\ p.spelled \in Seq(Outside)
         /\ (p.name = Missing => p.spelled = <<>>)
         /\ p.shown \in Seq(Plain) /\ p.name \in MergeNames \cup {Missing}
<1>0. Missing \notin MergeNames /\ <<>> \in Seq(Values) /\ <<>> \in Seq(Plain)
  BY SymbolsAssumption
<1>1. p.spelled \in Seq(Values) /\ (p.name = Missing => p.spelled = <<>>) /\ p.shown \in Seq(Plain) /\
        p.name \in MergeNames \cup {Missing}
  <2>1. CASE IsVar(p)
    BY <1>0, <2>1, SpelledIs, Zenon DEF IsVar
  <2>2. CASE IsLiteral(p)
    BY <1>0, <2>2, SaysIs, Zenon DEF IsLiteral
  <2>3. ASSUME NEW w, IsLink(p, w)
        PROVE  p.spelled \in Seq(Values) /\ (p.name = Missing => p.spelled = <<>>) /\ p.shown \in Seq(Plain) /\
                 p.name \in MergeNames \cup {Missing}
    BY <1>0, <2>3, SaysIs, SpelledIs, Zenon DEF IsLink
  <2> QED
    BY <2>1, <2>2, <2>3, PartIs, Zenon
<1>2. p.spelled \in Seq(Symbols) /\ p.spelled \in Seq(Outside)
  BY <1>1, ValuesAreSymbols, SeqWider, Zenon
<1> QED
  BY <1>1, <1>2, Zenon

\* What is put in the place of a part's placeholder.
Given(p, value) == IF p.name = Missing THEN <<>> ELSE value[p.name]

\* Rendering a part's own spelling fills it with the value of its name.
LEMMA RenderPart ==
  ASSUME NEW p \in Parts, NEW value \in [MergeNames -> Seq(Symbols)]
  PROVE  /\ RenderWith(value, FilledWith(p, p.spelled)) = FilledWith(p, Given(p, value))
         /\ Given(p, value) \in Seq(Symbols)
<1>0. Missing \notin MergeNames /\ <<>> \in Seq(Symbols)
  BY SymbolsAssumption
<1>1. p.name \in MergeNames => value[p.name] \in Seq(Symbols)
  OBVIOUS
<1>2. CASE IsVar(p)
  <2>1. p.name \in MergeNames /\ p.name # Missing /\
          p.spelled \in {<<"{{", p.name, "}}">>, <<"{{", Blank, p.name, Blank, "}}">>}
    BY <1>0, <1>2, Zenon DEF IsVar
  <2>2. Given(p, value) = value[p.name] /\ value[p.name] \in Seq(Symbols)
    BY <1>1, <2>1 DEF Given
  <2>3. PICK t, n : t = p.spelled /\ n = p.name
    OBVIOUS
  <2>4. t \in Seq(Symbols)
    BY <2>3, PartTyped
  <2>5. RenderWith(value, t) = value[n]
    BY <2>1, <2>3, <2>4, RenderSpelled
  <2>6. FilledWith(p, p.spelled) = p.spelled
    BY <1>2, <2>3, <2>4, FilledIs, Zenon
  <2>7. FilledWith(p, Given(p, value)) = Given(p, value)
    BY <1>2, <2>2, FilledIs, Zenon
  <2> QED
    BY <2>2, <2>3, <2>5, <2>6, <2>7
<1>3. CASE IsLiteral(p)
  <2>1. p.name = Missing /\ p.spelled = <<>> /\ Says(p.words, p.shown)
    BY <1>3, Zenon DEF IsLiteral
  <2>2. Given(p, value) = <<>>
    BY <2>1 DEF Given
  <2>3. FilledWith(p, p.spelled) = p.words /\ FilledWith(p, <<>>) = p.words
    BY <1>0, <1>3, <2>1, FilledIs, Zenon
  <2>4. p.words \in Seq(Symbols) /\ Placeholders(p.words) = {}
    BY <2>1, SaysIs, Zenon
  <2>5. RenderWith(value, p.words) = p.words
    BY <2>4, RenderNone
  <2> QED
    BY <1>0, <2>2, <2>3, <2>5
<1>4. ASSUME NEW w, IsLink(p, w)
      PROVE  RenderWith(value, FilledWith(p, p.spelled)) = FilledWith(p, Given(p, value)) /\ Given(p, value) \in Seq(Symbols)
  <2>1. p.name \in MergeNames /\ p.name # Missing /\ p.spelled = <<"{{", p.name, "}}">> /\ Says(w, p.shown)
    BY <1>0, <1>4, Zenon DEF IsLink
  <2>2. Given(p, value) = value[p.name] /\ value[p.name] \in Seq(Symbols)
    BY <1>1, <2>1 DEF Given
  <2>3. PICK t, n : t = p.spelled /\ n = p.name
    OBVIOUS
  <2>4. t \in Seq(Symbols)
    BY <2>3, PartTyped
  <2>5. RenderWith(value, t) = value[n]
    BY <2>1, <2>3, <2>4, RenderSpelled
  <2>6. FilledWith(p, t) = Anchor(t, w)
    BY <1>4, <2>4, FilledIs, Zenon
  <2>7. FilledWith(p, Given(p, value)) = Anchor(Given(p, value), w)
    BY <1>4, <2>2, FilledIs, Zenon
  <2>8. w \in Seq(Symbols) /\ Placeholders(w) = {}
    BY <2>1, SaysIs, Zenon
  <2>9. RenderWith(value, Anchor(t, w)) = Anchor(RenderWith(value, t), w)
    BY <2>4, <2>8, RenderLink
  <2> QED
    BY <2>2, <2>3, <2>5, <2>6, <2>7, <2>9
<1> QED
  BY <1>2, <1>3, <1>4, PartIs, Zenon

\* What a part with a value in it is made of.
LEMMA FilledTyped ==
  ASSUME NEW p \in Parts, NEW D, Words \cup Kinds \subseteq D, D \subseteq Symbols, NEW x \in Seq(D),
           p.name = Missing => x = <<>>
  PROVE  FilledWith(p, x) \in Seq(D)
<1>0. x \in Seq(Symbols)
  BY SeqWider, Zenon
<1>1. CASE IsVar(p)
  BY <1>0, <1>1, FilledIs, Zenon
<1>2. CASE IsLiteral(p)
  <2>1. x = <<>> /\ Says(p.words, p.shown)
    BY <1>2, Zenon DEF IsLiteral
  <2>2. p.words \in Seq(Words)
    BY <2>1, SaysIs, Zenon
  <2>3. p.words \in Seq(D)
    BY <2>2
  <2> QED
    BY <1>0, <1>2, <2>1, <2>3, FilledIs, Zenon
<1>3. ASSUME NEW w, IsLink(p, w) PROVE FilledWith(p, x) \in Seq(D)
  <2>1. Says(w, p.shown)
    BY <1>3, Zenon DEF IsLink
  <2>2. w \in Seq(Words)
    BY <2>1, SaysIs, Zenon
  <2>3. w \in Seq(D)
    BY <2>2
  <2>4. PICK o, q, c : o = "<a href=" /\ q = "'>" /\ c = "</a>"
    OBVIOUS
  <2>5. o \in D /\ q \in D /\ c \in D
    BY <2>4 DEF Kinds
  <2>6. ((<<o>> \o x) \o (<<q>> \o w)) \o <<c>> \in Seq(D)
    BY <2>3, <2>5
  <2>7. FilledWith(p, x) = Anchor(x, w)
    BY <1>0, <1>3, FilledIs, Zenon
  <2> QED
    BY <2>4, <2>6, <2>7, Zenon DEF Anchor
<1> QED
  BY <1>1, <1>2, <1>3, PartIs, Zenon

\* Html without its tags, its links spelled out.
TextOf(html) == RidOf(LinksExpanded(html), Tags)

\* Making text of a page: its links written out, its tags taken out, its references decoded.
LEMMA ToTextIs == ASSUME NEW html PROVE HtmlToText(html) = Read(TextOf(html))
BY Zenon DEF HtmlToText, Read, TextOf

\* A page without its tags is a text.
LEMMA TextOfTyped == ASSUME NEW html \in Seq(Symbols) PROVE TextOf(html) \in Seq(Symbols)
BY LinksTyped, RidTyped, MarksAreSymbols DEF TextOf

\* Words by themselves are read as what is shown of them.
LEMMA WordsRead ==
  ASSUME NEW w, NEW s, Says(w, s)
  PROVE  /\ LinksExpanded(w) = w /\ TextOf(w) = RidOf(w, Tags) /\ RidOf(w, Tags) \in Seq(Symbols) /\ AllClosed(w)
         /\ Whole(RidOf(w, Tags)) /\ Read(RidOf(w, Tags)) = RidOf(s, {Blank})
<1>1. w \in Seq(Words) /\ w \in Seq(Symbols) /\ HtmlToText(w) = RidOf(s, {Blank})
  BY SaysIs, Zenon
<1>2. RidOf(w, Tags) # <<>> => Last(RidOf(w, Tags)) # "&"
  BY SaysIs, Zenon
<1>3. "<a href=" \notin Words
  BY DEF Words, Kinds
<1>4. LinksExpanded(w) = w /\ AllClosed(w)
  BY <1>1, <1>3, LinksNone, ClosedPlain
<1>5. TextOf(w) = RidOf(w, Tags)
  BY <1>4 DEF TextOf
<1>6. Whole(RidOf(w, Tags))
  BY <1>2 DEF Whole, Last
<1>7. Read(RidOf(w, Tags)) = RidOf(s, {Blank})
  BY <1>1, <1>5, ToTextIs
<1> QED
  BY <1>1, <1>4, <1>5, <1>6, <1>7, RidTyped

\* Of a link without its tags its address and its words remain.
LEMMA RidAnchor ==
  ASSUME NEW x \in Seq(Values), NEW w \in Seq(Symbols)
  PROVE  RidOf(Anchor(x, w), Tags) = x \o RidOf(w, Tags) /\ RidOf(<<"'>">> \o w, Tags) = RidOf(w, Tags) /\ RidOf(x, Tags) = x
<1>1. PICK o, q, c : o = "<a href=" /\ q = "'>" /\ c = "</a>"
  OBVIOUS
<1>2. o \in Symbols /\ q \in Symbols /\ c \in Symbols /\ o \in Tags /\ q \in Tags /\ c \in Tags
  BY <1>1, KindsAreNoNames DEF Kinds, Tags
<1>3. PICK a, b, d, e, f, g : a = <<o>> \o x /\ b = <<q>> \o w /\ d = a \o b /\ e = <<o>> /\ f = <<q>> /\ g = <<c>>
  OBVIOUS
<1>4. x \in Seq(Symbols) /\ RidOf(x, Tags) = x
  BY ValuesAreSymbols, SeqWider, RidKept
<1>5. a \in Seq(Symbols) /\ b \in Seq(Symbols) /\ e \in Seq(Symbols) /\ f \in Seq(Symbols) /\ g \in Seq(Symbols)
  BY <1>2, <1>3, <1>4, OneThen
<1>6. d \in Seq(Symbols)
  BY <1>3, <1>5, Joined
<1>7. RidOf(e, Tags) = <<>> /\ RidOf(f, Tags) = <<>> /\ RidOf(g, Tags) = <<>>
  BY <1>2, <1>3, RidOne
<1>8. RidOf(a, Tags) = RidOf(e, Tags) \o RidOf(x, Tags) /\ RidOf(b, Tags) = RidOf(f, Tags) \o RidOf(w, Tags)
  BY <1>3, <1>4, <1>5, RidJoined, ZenonT(60)
<1>9. RidOf(d, Tags) = RidOf(a, Tags) \o RidOf(b, Tags) /\ RidOf(d \o g, Tags) = RidOf(d, Tags) \o RidOf(g, Tags)
  <2>1. RidOf(a \o b, Tags) = RidOf(a, Tags) \o RidOf(b, Tags)
    BY <1>5, RidJoined
  <2>2. RidOf(d \o g, Tags) = RidOf(d, Tags) \o RidOf(g, Tags)
    BY <1>5, <1>6, RidJoined
  <2> QED
    BY <1>3, <2>1, <2>2
<1>10. RidOf(w, Tags) \in Seq(Symbols) /\ RidOf(x, Tags) \in Seq(Symbols) /\ x \o RidOf(w, Tags) \in Seq(Symbols)
  BY <1>4, RidTyped, Joined
<1>11. RidOf(a, Tags) = x /\ RidOf(b, Tags) = RidOf(w, Tags)
  BY <1>4, <1>7, <1>8, <1>10, AloneIs
<1>12. RidOf(d \o g, Tags) = x \o RidOf(w, Tags)
  BY <1>7, <1>9, <1>10, <1>11, AloneIs
<1>13. Anchor(x, w) = d \o g /\ b = <<"'>">> \o w
  BY <1>1, <1>3, Zenon DEF Anchor
<1> QED
  BY <1>4, <1>11, <1>12, <1>13

\* x is what stands in a part's place for the value v: v with its characters escaped, or a placeholder itself.
StandsFor(x, v) ==
  /\ x \in Seq(Values) /\ v \in Seq(Values) /\ Whole(x) /\ Read(x) = RidOf(v, {Blank})
  /\ x = <<>> => v = <<>>

\* What a filled part shows: its own text, its text and the link in brackets, or the link alone.
LEMMA AppearsIs ==
  ASSUME NEW p, NEW v, NEW x
  PROVE  /\ p.before = <<>> => Appears(p, v, x) = p.shown \o v
         /\ p.shown = <<>> => Appears(p, v, x) = p.shown \o v
         /\ x = <<>> => Appears(p, v, x) = p.shown \o v
         /\ p.before # <<>> /\ p.shown # <<>> /\ x # <<>> /\ Trimmed(RidOf(p.words, Tags)) = x => Appears(p, v, x) = v
         /\ p.before # <<>> /\ p.shown # <<>> /\ x # <<>> /\ Trimmed(RidOf(p.words, Tags)) # x
              => Appears(p, v, x) = p.shown \o <<"(">> \o v \o <<")">>
BY Zenon DEF Appears

\* Blanks are taken out part by part.
LEMMA RidBoth ==
  ASSUME NEW C, NEW s \in Seq(C), NEW v \in Seq(C)
  PROVE  RidOf(s \o v, {Blank}) = RidOf(s, {Blank}) \o RidOf(v, {Blank}) /\ s \o <<>> = s /\ <<>> \o s = s
BY RidJoined, AloneIs

\* Tags and blanks are taken out part by part.
LEMMA RidOfBoth ==
  ASSUME NEW a \in Seq(Symbols), NEW b \in Seq(Symbols), NEW c, c = a \o b
  PROVE  /\ RidOf(c, Tags) = RidOf(a, Tags) \o RidOf(b, Tags)
         /\ RidOf(c, {Blank}) = RidOf(a, {Blank}) \o RidOf(b, {Blank})
BY RidJoined

\* A text without tags.
Tagless(text) == RidOf(text, Tags) = text

\* Words and an address in brackets.
LEMMA BracketsRead ==
  ASSUME NEW r \in Seq(Symbols), NEW s \in Seq(Values), Whole(r), Read(r) = RidOf(s, {Blank}), Tagless(r),
         NEW x, NEW v, StandsFor(x, v)
  PROVE  LET t == RidOf(r \o <<"(">> \o x \o <<")">>, Tags)
         IN  Whole(t) /\ Read(t) = RidOf(s \o <<"(">> \o v \o <<")">>, {Blank})
<1>1. PICK l, g, t : l = <<"(">> /\ g = <<")">> /\ t = r \o l \o x \o g
  OBVIOUS
<1>2. "(" \in Values /\ ")" \in Values /\ "(" \notin Tags /\ ")" \notin Tags /\ "(" # "&" /\ ")" # "&" /\
        "(" # Blank /\ ")" # Blank
  BY ValuesAreSymbols DEF HasBrackets, Tags, Blank
<1>3. /\ l \in Seq(Values) /\ g \in Seq(Values) /\ l # <<>> /\ g # <<>> /\ Whole(l) /\ Whole(g)
      /\ RidOf(l, Tags) = l /\ RidOf(g, Tags) = g /\ RidOf(l, {Blank}) = l /\ RidOf(g, {Blank}) = g
  <2>1. PICK y, z : y = "(" /\ z = ")"
    OBVIOUS
  <2>2. y \in Values /\ z \in Values /\ y # "&" /\ z # "&" /\ y \notin Tags /\ z \notin Tags /\ y \notin {Blank} /\
          z \notin {Blank}
    BY <1>2, <2>1
  <2>3. l = <<y>> /\ g = <<z>>
    BY <1>1, <2>1
  <2>4. l \in Seq(Values) /\ g \in Seq(Values) /\ l # <<>> /\ g # <<>> /\ Whole(l) /\ Whole(g)
    BY <2>2, <2>3 DEF Whole
  <2> QED
    BY <2>2, <2>3, <2>4, RidOne
<1>4. x \in Seq(Values) /\ v \in Seq(Values) /\ Whole(x) /\ Read(x) = RidOf(v, {Blank}) /\ RidOf(x, Tags) = x
  BY ValuesAreSymbols, RidKept DEF StandsFor
<1>5. l \in Seq(Symbols) /\ g \in Seq(Symbols) /\ x \in Seq(Symbols) /\ HasEscapes(Symbols)
  BY <1>3, <1>4, ValuesAreSymbols, MarksAreSymbols, SeqWider, Zenon
<1>6. PICK a, b : a = r \o l /\ b = a \o x
  OBVIOUS
<1>r. r \in Seq(Symbols) /\ l \in Seq(Symbols)
  BY <1>5
<1>a. a = r \o l
  BY <1>6
<1>b. b = a \o x
  BY <1>6
<1>7. a \in Seq(Symbols) /\ b \in Seq(Symbols)
  BY <1>5, <1>6, Joined
<1>c. a \in Seq(Symbols) /\ x \in Seq(Symbols)
  BY <1>5, <1>7
<1>d. b \in Seq(Symbols) /\ g \in Seq(Symbols)
  BY <1>5, <1>7
<1>8. t = b \o g
  BY <1>1, <1>6
<1>9. RidOf(t, Tags) = t
  <2>1. RidOf(a, Tags) = RidOf(r, Tags) \o RidOf(l, Tags)
    BY <1>r, <1>a, RidOfBoth, ZenonT(30)
  <2>2. RidOf(b, Tags) = RidOf(a, Tags) \o RidOf(x, Tags)
    BY <1>c, <1>b, RidOfBoth, ZenonT(30)
  <2>3. RidOf(t, Tags) = RidOf(b, Tags) \o RidOf(g, Tags)
    BY <1>d, <1>8, RidOfBoth, ZenonT(30)
  <2> QED
    BY <1>3, <1>4, <1>6, <1>8, <2>1, <2>2, <2>3 DEF Tagless
<1>10. Whole(a) /\ Whole(b) /\ Whole(t)
  <2>1. Whole(a)
    BY <1>3, <1>5, <1>6, WholeJoined
  <2>2. Whole(b)
    BY <1>4, <1>5, <1>6, <1>7, <2>1, WholeJoined
  <2>3. Whole(t)
    BY <1>3, <1>5, <1>7, <1>8, WholeJoined
  <2> QED
    BY <2>1, <2>2, <2>3
<1>11. Read(l) = l /\ Read(g) = g
  <2>1. PICK y, z : y = "(" /\ z = ")"
    OBVIOUS
  <2>2. y \in Symbols /\ z \in Symbols /\ l = <<y>> /\ g = <<z>>
    BY <1>1, <1>2, <2>1, ValuesAreSymbols
  <2> QED
    BY <1>3, <1>5, <2>2, ReadSymbol
<1>12. Read(t) = ((Read(r) \o Read(l)) \o Read(x)) \o Read(g)
  <2>1. Read(a) = Read(r) \o Read(l)
    BY <1>5, <1>6, ReadBoth
  <2>2. Read(b) = Read(a) \o Read(x)
    BY <1>5, <1>6, <1>7, <1>10, ReadBoth
  <2>3. Read(t) = Read(b) \o Read(g)
    BY <1>5, <1>7, <1>8, <1>10, ReadBoth
  <2> QED
    BY <2>1, <2>2, <2>3
<1>13. RidOf(s \o l \o v \o g, {Blank}) = ((RidOf(s, {Blank}) \o l) \o RidOf(v, {Blank})) \o g
  <2>1. PICK d : d = s \o l
    OBVIOUS
  <2>a. PICK e : e = d \o v
    OBVIOUS
  <2>0. s \in Seq(Symbols) /\ v \in Seq(Symbols)
    BY <1>4, ValuesAreSymbols, SeqWider, Zenon
  <2>2. d \in Seq(Symbols) /\ e \in Seq(Symbols)
    BY <1>5, <2>0, <2>1, <2>a, Joined
  <2>3. RidOf(d, {Blank}) = RidOf(s, {Blank}) \o RidOf(l, {Blank})
    BY <1>5, <2>0, <2>1, RidOfBoth, ZenonT(60)
  <2>4. RidOf(e, {Blank}) = RidOf(d, {Blank}) \o RidOf(v, {Blank})
    BY <2>0, <2>a, <2>2, RidOfBoth, ZenonT(60)
  <2>5. RidOf(e \o g, {Blank}) = RidOf(e, {Blank}) \o RidOf(g, {Blank})
    BY <1>5, <2>2, RidOfBoth, ZenonT(60)
  <2> QED
    BY <1>3, <2>1, <2>a, <2>3, <2>4, <2>5
<1> QED
  BY <1>1, <1>4, <1>9, <1>10, <1>11, <1>12, <1>13

\* What an escaped value stands for, and that it is plain: no link, no tag, whole at its end.
LEMMA StandsIs ==
  ASSUME NEW x, NEW v, StandsFor(x, v)
  PROVE  /\ x \in Seq(Values) /\ v \in Seq(Values) /\ x \in Seq(Symbols) /\ v \in Seq(Symbols) /\ x \in Seq(Outside)
         /\ Whole(x) /\ Read(x) = RidOf(v, {Blank}) /\ (x = <<>> => v = <<>>)
         /\ LinksExpanded(x) = x /\ AllClosed(x) /\ TextOf(x) = x /\ RidOf(x, Tags) = x
<1>1. x \in Seq(Values) /\ v \in Seq(Values) /\ Whole(x) /\ Read(x) = RidOf(v, {Blank}) /\ (x = <<>> => v = <<>>)
  BY DEF StandsFor
<1>2. x \in Seq(Symbols) /\ v \in Seq(Symbols) /\ x \in Seq(Outside)
  BY <1>1, ValuesAreSymbols, SeqWider, Zenon
<1>3. "<a href=" \notin Values
  BY ValuesAreSymbols DEF Tags
<1>4. LinksExpanded(x) = x /\ AllClosed(x) /\ RidOf(x, Tags) = x
  BY <1>1, <1>3, LinksNone, ClosedPlain, RidKept, ValuesAreSymbols
<1> QED
  BY <1>1, <1>2, <1>4, Zenon DEF TextOf

\* A part's html is read as what is seen of it.
LEMMA PartIsRead ==
  ASSUME NEW p \in Parts, NEW x, NEW v, StandsFor(x, v), p.name = Missing => x = <<>>
  PROVE  /\ FilledWith(p, x) \in Seq(Symbols) /\ AllClosed(FilledWith(p, x)) /\ Whole(TextOf(FilledWith(p, x)))
         /\ Read(TextOf(FilledWith(p, x))) = RidOf(Appears(p, v, x), {Blank})
         /\ Appears(p, v, x) \in Seq(Values)
<1>1. /\ x \in Seq(Values) /\ v \in Seq(Values) /\ x \in Seq(Symbols) /\ v \in Seq(Symbols) /\ x \in Seq(Outside)
      /\ Whole(x) /\ Read(x) = RidOf(v, {Blank}) /\ (x = <<>> => v = <<>>)
      /\ AllClosed(x) /\ TextOf(x) = x /\ RidOf(x, Tags) = x
  BY StandsIs, Zenon
<1>2. /\ p.shown \in Seq(Values) /\ <<>> \in Seq(Values) /\ p.shown \in Seq(Symbols)
  <2>1. p.shown \in Seq(Plain) /\ Plain \subseteq Values /\ Values \subseteq Symbols
    BY PartTyped, ValuesAreSymbols, Zenon
  <2> QED
    BY <2>1
<1>3. p.shown \o v \in Seq(Values) /\ (v = <<>> => p.shown \o v = p.shown) /\ (p.shown = <<>> => p.shown \o v = v)
  BY <1>1, <1>2, Joined, AloneIs, ZenonT(60)
<1>4. FilledWith(p, x) \in Seq(Symbols)
  BY <1>1, FilledTyped, ValuesAreSymbols, MarksAreSymbols
<1>5. CASE IsVar(p)
  <2>1. FilledWith(p, x) = x /\ p.before = <<>> /\ p.shown = <<>>
    BY <1>1, <1>5, FilledIs, Zenon DEF IsVar
  <2>2. Appears(p, v, x) = v
    BY <1>3, <2>1, AppearsIs
  <2> QED
    BY <1>1, <2>1, <2>2, Zenon
<1>6. CASE IsLiteral(p)
  <2>1. x = <<>> /\ v = <<>> /\ Says(p.words, p.shown) /\ p.before = <<>>
    BY <1>1, <1>6, Zenon DEF IsLiteral
  <2>2. FilledWith(p, x) = p.words
    BY <1>1, <1>6, <2>1, FilledIs, Zenon
  <2>3. Appears(p, v, x) = p.shown
    BY <1>3, <2>1, AppearsIs
  <2>4. /\ TextOf(p.words) = RidOf(p.words, Tags) /\ AllClosed(p.words) /\ Whole(RidOf(p.words, Tags))
        /\ Read(RidOf(p.words, Tags)) = RidOf(p.shown, {Blank})
    BY <2>1, WordsRead, Zenon
  <2> QED
    BY <1>2, <1>4, <2>2, <2>3, <2>4
<1>7. ASSUME NEW w, IsLink(p, w)
      PROVE  /\ AllClosed(FilledWith(p, x)) /\ Whole(TextOf(FilledWith(p, x)))
             /\ Read(TextOf(FilledWith(p, x))) = RidOf(Appears(p, v, x), {Blank})
             /\ Appears(p, v, x) \in Seq(Values)
  <2>1. Says(w, p.shown) /\ p.before = <<"<a href=">> /\ p.words = <<"'>">> \o w /\ FilledWith(p, x) = Anchor(x, w)
    BY <1>1, <1>7, FilledIs, Zenon DEF IsLink
  <2>2. w \in Seq(Outside) /\ w \in Seq(Symbols) /\ (Trimmed(RidOf(w, Tags)) = <<>> <=> p.shown = <<>>)
    BY <2>1, SaysIs, Zenon
  <2>3. /\ RidOf(w, Tags) \in Seq(Symbols) /\ Whole(RidOf(w, Tags)) /\ Read(RidOf(w, Tags)) = RidOf(p.shown, {Blank})
    BY <2>1, WordsRead, Zenon
  <2>4. RidOf(Anchor(x, w), Tags) = x \o RidOf(w, Tags) /\ RidOf(p.words, Tags) = RidOf(w, Tags)
    BY <1>1, <2>1, <2>2, RidAnchor, Zenon
  <2>5. LinksExpanded(Anchor(x, w)) = IF x = <<>> THEN Anchor(x, w) ELSE Expanded(x, w)
    BY <1>1, <2>2, LinkAlone
  <2>6. AllClosed(FilledWith(p, x))
    BY <1>1, <2>1, <2>2, AnchorClosed, Zenon
  <2>7. p.before # <<>>
    <3>1. PICK o : o = "<a href="
      OBVIOUS
    <3>2. p.before = <<o>> /\ <<o>> # <<>>
      BY <2>1, <3>1
    <3> QED
      BY <3>2
  <2>8. CASE x = <<>>
    <3>1. TextOf(FilledWith(p, x)) = RidOf(w, Tags)
      BY <2>1, <2>3, <2>4, <2>5, <2>8, AloneIs DEF TextOf
    <3>2. Appears(p, v, x) = p.shown
      BY <1>1, <1>3, <2>8, AppearsIs
    <3> QED
      BY <1>2, <2>3, <2>6, <3>1, <3>2
  <2>9. CASE x # <<>> /\ Trimmed(RidOf(w, Tags)) \in {<<>>, x}
    <3>1. Expanded(x, w) = x
      BY <2>9 DEF Expanded
    <3>2. TextOf(FilledWith(p, x)) = x
      BY <1>1, <2>1, <2>5, <2>9, <3>1 DEF TextOf
    <3>3. Appears(p, v, x) = v
      <4>1. CASE Trimmed(RidOf(w, Tags)) = <<>>
        BY <1>3, <2>2, <4>1, AppearsIs
      <4>2. CASE Trimmed(RidOf(w, Tags)) = x
        BY <2>2, <2>4, <2>7, <2>9, <4>2, AppearsIs
      <4> QED
        BY <2>9, <4>1, <4>2
    <3> QED
      BY <1>1, <2>6, <3>2, <3>3
  <2>10. CASE x # <<>> /\ Trimmed(RidOf(w, Tags)) \notin {<<>>, x}
    <3>1. Expanded(x, w) = RidOf(w, Tags) \o <<"(">> \o x \o <<")">>
      BY <2>10 DEF Expanded
    <3>2. TextOf(FilledWith(p, x)) = RidOf(RidOf(w, Tags) \o <<"(">> \o x \o <<")">>, Tags)
      BY <2>1, <2>5, <2>10, <3>1 DEF TextOf
    <3>3. Appears(p, v, x) = p.shown \o <<"(">> \o v \o <<")">>
      <4>1. p.shown # <<>> /\ Trimmed(RidOf(p.words, Tags)) # x
        BY <2>2, <2>4, <2>10
      <4> QED
        BY <2>7, <2>10, <4>1, AppearsIs
    <3>4. Tagless(RidOf(w, Tags))
      BY <2>2, RidAgain DEF Tagless
    <3>5. /\ Whole(RidOf(RidOf(w, Tags) \o <<"(">> \o x \o <<")">>, Tags))
          /\ Read(RidOf(RidOf(w, Tags) \o <<"(">> \o x \o <<")">>, Tags)) = RidOf(p.shown \o <<"(">> \o v \o <<")">>, {Blank})
      <4>1. PICK r, s : r = RidOf(w, Tags) /\ s = p.shown
        OBVIOUS
      <4>2. r \in Seq(Symbols) /\ s \in Seq(Values) /\ Whole(r) /\ Read(r) = RidOf(s, {Blank}) /\ Tagless(r)
        BY <1>2, <2>3, <3>4, <4>1, Zenon
      <4>3. /\ Whole(RidOf(r \o <<"(">> \o x \o <<")">>, Tags))
            /\ Read(RidOf(r \o <<"(">> \o x \o <<")">>, Tags)) = RidOf(s \o <<"(">> \o v \o <<")">>, {Blank})
        BY <4>2, BracketsRead
      <4> QED
        BY <4>1, <4>3, Zenon
    <3>6. p.shown \o <<"(">> \o v \o <<")">> \in Seq(Values)
      <4>1. PICK y, z, s : y = "(" /\ z = ")" /\ s = p.shown
        OBVIOUS
      <4>2. y \in Values /\ z \in Values /\ s \in Seq(Values)
        BY <1>2, <4>1, ValuesAreSymbols DEF HasBrackets
      <4>3. s \o <<y>> \o v \o <<z>> \in Seq(Values)
        BY <1>1, <4>2
      <4> QED
        BY <4>1, <4>3
    <3> QED
      BY <2>6, <3>2, <3>3, <3>5, <3>6, Zenon
  <2> QED
    BY <2>8, <2>9, <2>10, Zenon
<1> QED
  BY <1>4, <1>5, <1>6, <1>7, PartIs, Zenon

\* Html that can be read by itself, wherever it stands.
Readable == {h \in Seq(Symbols) : AllClosed(h) /\ Whole(TextOf(h))}
Reading == [h \in Readable |-> Read(TextOf(h))]

\* What a readable page is.
LEMMA ReadableIs ==
  ASSUME NEW h \in Readable
  PROVE  h \in Seq(Symbols) /\ AllClosed(h) /\ Whole(TextOf(h)) /\ TextOf(h) \in Seq(Symbols) /\
           Reading[h] = Read(TextOf(h)) /\ Reading[h] \in Seq(Symbols)
BY TextOfTyped, ReadTyped, MarksAreSymbols DEF Readable, Reading

\* Two readable pages are joined to one, read part by part.
LEMMA ReadableJoined ==
  ASSUME NEW a \in Readable, NEW b \in Readable
  PROVE  a \o b \in Readable /\ Read(TextOf(a \o b)) = Read(TextOf(a)) \o Read(TextOf(b))
<1>1. /\ a \in Seq(Symbols) /\ AllClosed(a) /\ Whole(TextOf(a)) /\ TextOf(a) \in Seq(Symbols)
      /\ b \in Seq(Symbols) /\ AllClosed(b) /\ Whole(TextOf(b)) /\ TextOf(b) \in Seq(Symbols)
  BY ReadableIs
<1>2. LinksExpanded(a) \in Seq(Symbols) /\ LinksExpanded(b) \in Seq(Symbols)
  BY <1>1, LinksTyped, MarksAreSymbols
<1>3. TextOf(a \o b) = TextOf(a) \o TextOf(b)
  <2>1. PICK c : c = LinksExpanded(a \o b)
    OBVIOUS
  <2>2. c = LinksExpanded(a) \o LinksExpanded(b)
    BY <1>1, <2>1, LinksJoined, MarksAreSymbols
  <2>3. RidOf(c, Tags) = RidOf(LinksExpanded(a), Tags) \o RidOf(LinksExpanded(b), Tags)
    BY <1>2, <2>2, RidOfBoth, Zenon
  <2> QED
    BY <2>1, <2>3, Zenon DEF TextOf
<1>4. a \o b \in Seq(Symbols) /\ AllClosed(a \o b)
  BY <1>1, Joined, ClosedJoined
<1>5. Whole(TextOf(a) \o TextOf(b)) /\ Read(TextOf(a) \o TextOf(b)) = Read(TextOf(a)) \o Read(TextOf(b))
  <2>1. PICK s, t : s = TextOf(a) /\ t = TextOf(b)
    OBVIOUS
  <2>2. Whole(s \o t) /\ Read(s \o t) = Read(s) \o Read(t)
    BY <1>1, <2>1, WholeJoined, ReadBoth, MarksAreSymbols
  <2> QED
    BY <2>1, <2>2, Zenon
<1> QED
  BY <1>3, <1>4, <1>5, Zenon DEF Readable

\* An empty page is readable.
LEMMA ReadableNone == <<>> \in Readable /\ Read(TextOf(<<>>)) = <<>> /\ FlattenSeq(<<>>) = <<>>
<1>0. <<>> \in Seq(Values) /\ <<>> \in Seq(Symbols)
  OBVIOUS
<1>1. "<a href=" \notin Values
  BY ValuesAreSymbols DEF Tags
<1>2. LinksExpanded(<<>>) = <<>> /\ AllClosed(<<>>)
  BY <1>0, <1>1, LinksNone, ClosedPlain
<1>3. TextOf(<<>>) = <<>>
  BY <1>2, RidNone DEF TextOf
<1>4. Whole(<<>>)
  BY DEF Whole
<1> QED
  BY <1>0, <1>2, <1>3, <1>4, ReadNothing, MarksAreSymbols, FlatNone, Zenon DEF Readable

\* What is read of html pieces together is what is read of each.
LEMMA ReadPieces ==
  ASSUME NEW hs \in Seq(Readable)
  PROVE  HtmlToText(FlattenSeq(hs)) = Spread(hs, Reading)
<1> DEFINE T == {s \in Seq(Readable) : FlattenSeq(s) \in Readable /\ Read(TextOf(FlattenSeq(s))) = Spread(s, Reading)}
<1>0. Reading \in [Readable -> Seq(Symbols)] /\ Readable \subseteq Seq(Symbols)
  BY ReadableIs DEF Reading, Readable
<1>1. <<>> \in T
  BY ReadableNone, SpreadNone
<1>2. ASSUME NEW s \in Seq(Readable), NEW e \in Readable, s \in T PROVE s \o <<e>> \in T
  <2>1. FlattenSeq(s) \in Readable /\ Read(TextOf(FlattenSeq(s))) = Spread(s, Reading)
    BY <1>2
  <2>2. s \in Seq(Seq(Symbols)) /\ e \in Seq(Symbols) /\ <<e>> \in Seq(Readable)
    BY <1>0
  <2>3. FlattenSeq(s \o <<e>>) = FlattenSeq(s) \o e
    BY <2>2, FlatAppend
  <2>4. Spread(s \o <<e>>, Reading) = Spread(s, Reading) \o Spread(<<e>>, Reading)
    BY <1>0, <2>2, SpreadJoined
  <2>5. Spread(<<e>>, Reading) = Reading[e] /\ Reading[e] = Read(TextOf(e))
    BY <1>0, SpreadOne, ReadableIs
  <2>6. PICK f : f = FlattenSeq(s)
    OBVIOUS
  <2>7. f \o e \in Readable /\ Read(TextOf(f \o e)) = Read(TextOf(f)) \o Read(TextOf(e))
    BY <2>1, <2>6, ReadableJoined
  <2>8. s \o <<e>> \in Seq(Readable)
    BY <2>2, Joined
  <2> QED
    BY <2>1, <2>3, <2>4, <2>5, <2>6, <2>7, <2>8, Zenon
<1>3. T \subseteq Seq(Readable)
  OBVIOUS
<1> HIDE DEF T
<1>4. Seq(Readable) \subseteq T
  BY <1>1, <1>2, SeqInduct
<1> QED
  BY <1>4, ToTextIs, Zenon DEF T

\* Whom messages are built for, and what what is said of them is made of.
Persons == People \cup {Sample}
Own(person) == Plain \cup {LinkOf(person)}

\* Whose values a person's message may hold: the plain ones and this person's own link.
LEMMA PersonIs ==
  ASSUME NEW person \in Persons
  PROVE  /\ LinkOf(person) \in Links /\ Own(person) \subseteq Values /\ Plain \subseteq Own(person)
         /\ LinkOf(person) \in Own(person)
         /\ HasEscapes(Own(person)) /\ HasBrackets(Own(person))
         /\ (person.link = Missing \/ person.link = LinkOf(person)) /\ Missing \notin Links
<1>1. LinkOf(person) \in Links /\ (person.link = Missing \/ person.link = LinkOf(person)) /\ Missing \notin Links
  BY PeopleAssumption, SymbolsAssumption DEF LinkOf, Persons
<1>2. HasEscapes(Plain) /\ HasBrackets(Plain)
  <2>1. /\ "&" \in Marks /\ "amp;" \in Marks /\ "lt;" \in Marks /\ "#39;" \in Marks /\ "'" \in Marks /\ "<" \in Marks
        /\ "(" \in Marks /\ ")" \in Marks
    BY DEF Marks, Numeric, Named
  <2>2. /\ "&" \notin Tags /\ "amp;" \notin Tags /\ "lt;" \notin Tags /\ "#39;" \notin Tags /\ "'" \notin Tags
        /\ "<" \notin Tags
        /\ "(" \notin Tags /\ ")" \notin Tags
    BY DEF Tags
  <2>3. Marks \subseteq Symbols /\ (Links \cup Pixels) \cap Marks = {}
    BY SymbolsAssumption
  <2> QED
    BY <2>1, <2>2, <2>3 DEF HasEscapes, HasBrackets, Plain
<1> QED
  BY <1>1, <1>2 DEF Own, Values, HasEscapes, HasBrackets

\* A merge value: a name and what it stands for, the server's own only under the link's name.
Fields == {f \in [name : MergeNames, value : Seq(Plain \cup Links)] : f.name # "unsubscribeUrl" => f.value \in Seq(Plain)}
FieldsOf(person) == [name : MergeNames, value : Seq(Own(person))]

\* Which fields may stand for a person: every field, and for the link only this person's.
LEMMA FieldIs ==
  ASSUME NEW person \in Persons
  PROVE  /\ \A f \in Fields : f.name # "unsubscribeUrl" => f \in FieldsOf(person)
         /\ Pair("unsubscribeUrl", <<LinkOf(person)>>) \in FieldsOf(person)
         /\ Pair("unsubscribeUrl", <<LinkOf(person)>>).name = "unsubscribeUrl"
<1>1. Plain \subseteq Own(person) /\ LinkOf(person) \in Own(person)
  BY PersonIs
<1>2. \A v \in Seq(Plain) : v \in Seq(Own(person))
  BY <1>1
<1>3. ASSUME NEW f \in Fields, f.name # "unsubscribeUrl" PROVE f \in FieldsOf(person)
  <2>1. f \in [name : MergeNames, value : Seq(Plain \cup Links)] /\ f.value \in Seq(Plain)
    BY <1>3 DEF Fields
  <2>2. f = [name |-> f.name, value |-> f.value] /\ f.name \in MergeNames /\ f.value \in Seq(Own(person))
    BY <1>2, <2>1
  <2> QED
    BY <2>2 DEF FieldsOf
<1>4. PICK n : n = "unsubscribeUrl"
  OBVIOUS
<1>5. n \in MergeNames
  BY <1>4, SymbolsAssumption
<1>6. <<LinkOf(person)>> \in Seq(Own(person))
  BY <1>1
<1>7. Pair(n, <<LinkOf(person)>>) \in FieldsOf(person) /\ Pair(n, <<LinkOf(person)>>).name = n
  BY <1>5, <1>6 DEF FieldsOf, Pair
<1> QED
  BY <1>3, <1>4, <1>7

\* A full name is plain.
LEMMA FullNameTyped ==
  ASSUME NEW known \in [email : Seq(Plain), firstName : Seq(Plain), lastName : Seq(Plain)]
  PROVE  FullName(known) \in Seq(Plain)
<1>1. PICK f, l : f = known.firstName /\ l = known.lastName
  OBVIOUS
<1>2. f \in Seq(Plain) /\ l \in Seq(Plain)
  BY <1>1
<1>3. Blank \in Plain
  <2>1. Blank \in Marks /\ Blank \notin Tags
    BY DEF Marks, Tags, Blank
  <2> QED
    BY <2>1, SymbolsAssumption DEF Plain
<1>4. PICK s : s = IF f # <<>> /\ l # <<>> THEN <<Blank>> ELSE <<>>
  OBVIOUS
<1>5. s \in Seq(Plain)
  BY <1>3, <1>4
<1>6. f \o s \o l \in Seq(Plain)
  BY <1>2, <1>5, Joined
<1> QED
  BY <1>1, <1>4, <1>6, Zenon DEF FullName

\* A sequence of four.
LEMMA SeqOfFour == ASSUME NEW S, NEW a \in S, NEW b \in S, NEW c \in S, NEW d \in S PROVE <<a, b, c, d>> \in Seq(S)
OBVIOUS

\* A name with a plain value is a field.
LEMMA PairTyped == ASSUME NEW n \in MergeNames, NEW v \in Seq(Plain) PROVE Pair(n, v) \in Fields
<1>1. v \in Seq(Plain \cup Links)
  OBVIOUS
<1> QED
  BY <1>1 DEF Pair, Fields

\* The built-in values are fields.
LEMMA BuiltInTyped ==
  ASSUME NEW known \in [email : Seq(Plain), firstName : Seq(Plain), lastName : Seq(Plain)]
  PROVE  BuiltIn(known) \in Seq(Fields)
<1>1. known.email \in Seq(Plain) /\ known.firstName \in Seq(Plain) /\ known.lastName \in Seq(Plain) /\
        FullName(known) \in Seq(Plain)
  BY FullNameTyped
<1>2. "email" \in MergeNames /\ "firstName" \in MergeNames /\ "lastName" \in MergeNames /\ "fullName" \in MergeNames
  BY SymbolsAssumption
<1>3. /\ Pair("email", known.email) \in Fields /\ Pair("firstName", known.firstName) \in Fields
      /\ Pair("lastName", known.lastName) \in Fields
      /\ Pair("fullName", FullName(known)) \in Fields
  BY <1>1, <1>2, PairTyped, Zenon
<1> QED
  BY <1>3, SeqOfFour DEF BuiltIn

\* The merge values of a person are fields that may stand for this person.
LEMMA MergeValuesTyped ==
  ASSUME NEW person \in Persons
  PROVE  MergeValues(person) \in Seq(FieldsOf(person))
<1>1. PICK u, values, link : u = "unsubscribeUrl" /\
                               values = BuiltIn(person.known) \o RidOf(person.own, Hidden(person)) /\
                                 link = Pair(u, <<LinkOf(person)>>)
  OBVIOUS
<1>2. person.known \in [email : Seq(Plain), firstName : Seq(Plain), lastName : Seq(Plain)]
  BY PeopleAssumption DEF Persons
<1>3. person.own \in Seq(Fields)
  <2>1. /\ person.own \in Seq([name : MergeNames, value : Seq(Plain \cup Links)])
        /\ \A f \in ToSet(person.own) : f.name # "unsubscribeUrl" => f.value \in Seq(Plain)
    BY PeopleAssumption DEF Persons
  <2>2. PICK own : own = person.own
    OBVIOUS
  <2>3. \A k \in 1..Len(own) : own[k] \in [name : MergeNames, value : Seq(Plain \cup Links)] /\ own[k] \in ToSet(own)
    <3>1. PICK S : S = [name : MergeNames, value : Seq(Plain \cup Links)]
      OBVIOUS
    <3>2. own \in Seq(S)
      BY <2>1, <2>2, <3>1
    <3>3. \A k \in 1..Len(own) : own[k] \in S /\ k \in DOMAIN own
      BY <3>2
    <3> QED
      BY <3>1, <3>3, Zenon DEF ToSet
  <2>4. \A k \in 1..Len(own) : own[k] \in Fields
    BY <2>1, <2>2, <2>3, Zenon DEF Fields
  <2> QED
    BY <2>1, <2>2, <2>4
<1>4. BuiltIn(person.known) \in Seq(Fields) /\ RidOf(person.own, Hidden(person)) \in Seq(Fields)
  BY <1>2, <1>3, BuiltInTyped, RidTyped
<1>5. values \in Seq(Fields)
  BY <1>1, <1>4, Joined
<1>6. \A f \in Fields : f.name # u => f \in FieldsOf(person)
  BY <1>1, FieldIs
<1>7. link \in FieldsOf(person) /\ link.name = u
  BY <1>1, FieldIs
<1>8. DOMAIN values = 1..Len(values) /\ Len(values) \in Nat /\ \A k \in 1..Len(values) : values[k] \in Fields /\
        values[k] \in ToSet(values)
  BY <1>5 DEF ToSet
<1>9. CASE \E f \in ToSet(values) : f.name = link.name
  <2>1. PICK r : r = [k \in DOMAIN values |-> IF values[k].name = link.name THEN link ELSE values[k]]
    OBVIOUS
  <2>2. MergeValues(person) = r
    BY <1>1, <1>9, <2>1, Zenon DEF MergeValues
  <2>3. \A k \in 1..Len(values) : values[k].name # link.name => values[k] \in FieldsOf(person)
    BY <1>6, <1>7, <1>8, Zenon
  <2>4. \A k \in 1..Len(values) : r[k] \in FieldsOf(person)
    BY <1>7, <1>8, <2>1, <2>3
  <2>5. r \in Seq(FieldsOf(person))
    BY <1>8, <2>1, <2>4
  <2> QED
    BY <2>2, <2>5
<1>10. CASE ~\E f \in ToSet(values) : f.name = link.name
  <2>1. MergeValues(person) = Append(values, link)
    BY <1>1, <1>10, Zenon DEF MergeValues
  <2>2. \A k \in 1..Len(values) : values[k] \in FieldsOf(person)
    BY <1>6, <1>7, <1>8, <1>10, Zenon
  <2>3. values \in Seq(FieldsOf(person))
    BY <1>5, <2>2
  <2>4. Append(values, link) \in Seq(FieldsOf(person))
    BY <1>7, <2>3
  <2> QED
    BY <2>1, <2>4
<1> QED
  BY <1>9, <1>10

\* Looking a name up gives a value that is this person's own.
LEMMA LookupTyped ==
  ASSUME NEW person \in Persons, NEW n \in MergeNames
  PROVE  Lookup(MergeValues(person), n) \in Seq(Own(person))
<1>1. PICK values : values = MergeValues(person)
  OBVIOUS
<1>2. values \in Seq(FieldsOf(person))
  BY <1>1, MergeValuesTyped
<1>3. DOMAIN values \subseteq Nat /\ \A k \in DOMAIN values : values[k].value \in Seq(Own(person))
  <2>1. PICK S : S = FieldsOf(person)
    OBVIOUS
  <2>2. values \in Seq(S)
    BY <1>2, <2>1
  <2>3. DOMAIN values \subseteq Nat /\ \A k \in DOMAIN values : values[k] \in S
    BY <2>2
  <2>4. \A f \in S : f.value \in Seq(Own(person))
    BY <2>1 DEF FieldsOf
  <2> QED
    BY <2>3, <2>4, Zenon
<1>4. PICK same, alike :
        /\ same = {k \in DOMAIN values : values[k].name = n}
        /\ alike = {k \in DOMAIN values : LowerCase[values[k].name] = LowerCase[n]}
  OBVIOUS
<1>5. same \subseteq Nat /\ alike \subseteq Nat /\ same \subseteq DOMAIN values /\ alike \subseteq DOMAIN values
  BY <1>3, <1>4
<1>6. (same # {} => Min(same) \in DOMAIN values) /\ (alike # {} => Min(alike) \in DOMAIN values)
  BY <1>5, MinIs
<1>7. Lookup(values, n) = IF same # {} THEN values[Min(same)].value ELSE IF alike # {} THEN values[Min(alike)].value ELSE <<>>
  BY <1>4, Zenon DEF Lookup
<1> QED
  BY <1>1, <1>3, <1>6, <1>7

\* What a placeholder stands for, in a subject and in html.
Answers(person) == [n \in MergeNames |-> Lookup(MergeValues(person), n)]
Escapes(person) == [n \in MergeNames |-> EscapeHtml(Lookup(MergeValues(person), n))]

\* The tables a body is rendered with give every name a value that is this person's own.
LEMMA AnswersTyped ==
  ASSUME NEW person \in Persons
  PROVE  /\ Answers(person) \in [MergeNames -> Seq(Own(person))] /\ Escapes(person) \in [MergeNames -> Seq(Own(person))]
         /\ Answers(person) \in [MergeNames -> Seq(Symbols)] /\ Escapes(person) \in [MergeNames -> Seq(Symbols)]
<1>1. Own(person) \subseteq Symbols /\ HasEscapes(Own(person))
  BY PersonIs, ValuesAreSymbols
<1>2. ASSUME NEW n \in MergeNames
      PROVE  Lookup(MergeValues(person), n) \in Seq(Own(person)) /\
               EscapeHtml(Lookup(MergeValues(person), n)) \in Seq(Own(person))
  BY <1>1, LookupTyped, EscapeTyped
<1>3. Answers(person) \in [MergeNames -> Seq(Own(person))] /\ Escapes(person) \in [MergeNames -> Seq(Own(person))]
  BY <1>2 DEF Answers, Escapes
<1>4. ASSUME NEW f \in [MergeNames -> Seq(Own(person))] PROVE f \in [MergeNames -> Seq(Symbols)]
  <2>1. \A n \in MergeNames : f[n] \in Seq(Symbols)
    BY <1>1, SeqWider
  <2> QED
    BY <2>1
<1> QED
  BY <1>3, <1>4

\* What a part is about, and that what html says of it is read as that.
LEMMA AboutIs ==
  ASSUME NEW person \in Persons, NEW p \in Parts
  PROVE  /\ Given(p, Answers(person)) = About(p, person) /\ Given(p, Escapes(person)) = EscapeHtml(About(p, person))
         /\ About(p, person) \in Seq(Own(person)) /\ EscapeHtml(About(p, person)) \in Seq(Own(person))
         /\ StandsFor(EscapeHtml(About(p, person)), About(p, person))
         /\ p.name = Missing => About(p, person) = <<>> /\ EscapeHtml(About(p, person)) = <<>>
<1>1. p.name \in MergeNames \cup {Missing}
  BY PartTyped
<1>2. Given(p, Answers(person)) = About(p, person) /\ Given(p, Escapes(person)) = EscapeHtml(About(p, person))
  BY <1>1, EscapeNone DEF Given, About, Answers, Escapes
<1>3. p.name = Missing => About(p, person) = <<>> /\ EscapeHtml(About(p, person)) = <<>>
  BY EscapeNone DEF About
<1>4. About(p, person) \in Seq(Own(person))
  <2>1. p.name # Missing => Lookup(MergeValues(person), p.name) \in Seq(Own(person))
    BY <1>1, LookupTyped
  <2>2. <<>> \in Seq(Own(person))
    OBVIOUS
  <2> QED
    BY <2>1, <2>2 DEF About
<1>5. PICK v : v = About(p, person)
  OBVIOUS
<1>6. v \in Seq(Own(person)) /\ v \in Seq(Values) /\ HasEscapes(Own(person)) /\ HasEscapes(Values)
  BY <1>4, <1>5, PersonIs, ValuesAreSymbols, SeqWider, Zenon
<1>7. EscapeHtml(v) \in Seq(Own(person)) /\ EscapeHtml(v) \in Seq(Values)
  BY <1>6, EscapeTyped
<1>8. Whole(EscapeHtml(v)) /\ Read(EscapeHtml(v)) = RidOf(v, {Blank}) /\ (EscapeHtml(v) = <<>> => v = <<>>)
  BY <1>6, ReadEscaped, EscapeNonempty
<1>9. StandsFor(EscapeHtml(v), v)
  BY <1>6, <1>7, <1>8, Zenon DEF StandsFor
<1> QED
  BY <1>2, <1>3, <1>5, <1>6, <1>7, <1>9, Zenon

\* A body with something in the place of its placeholders.
Bodied(parts, x) == [k \in DOMAIN parts |-> FilledWith(parts[k], x[k])]

\* What a saved template is.
LEMMA TemplateIs ==
  ASSUME NEW parts \in Templates
  PROVE  /\ parts \in Seq(Parts) /\ DOMAIN parts = 1..Len(parts) /\ Len(parts) \in Nat
         /\ \A k \in DOMAIN parts : parts[k] \in Parts
         /\ Apart([k \in DOMAIN parts |-> FilledWith(parts[k], parts[k].spelled)])
         /\ Apart([k \in DOMAIN parts |-> RidOf(Appears(parts[k], parts[k].spelled, parts[k].spelled), {Blank})])
<1>1. parts \in Seq(Parts)
  BY TemplatesAssumption
<1>2. DOMAIN parts = 1..Len(parts) /\ Len(parts) \in Nat /\ \A k \in DOMAIN parts : parts[k] \in Parts
  BY <1>1
<1> QED
  BY <1>1, <1>2, TemplatesAssumption

\* Each part of a body is rendered on its own.
LEMMA RenderWritten ==
  ASSUME NEW parts \in Templates, NEW value \in [MergeNames -> Seq(Symbols)]
  PROVE  RenderWith(value, Written(parts)) = FlattenSeq([k \in DOMAIN parts |-> FilledWith(parts[k], Given(parts[k], value))])
<1>1. PICK texts : texts = [k \in DOMAIN parts |-> FilledWith(parts[k], parts[k].spelled)]
  OBVIOUS
<1>2. Apart(texts) /\ Written(parts) = FlattenSeq(texts)
  BY <1>1, TemplateIs, Zenon DEF Written
<1>3. ASSUME NEW k \in DOMAIN parts
      PROVE  /\ FilledWith(parts[k], parts[k].spelled) \in Seq(Symbols)
             /\ RenderWith(value, FilledWith(parts[k], parts[k].spelled)) = FilledWith(parts[k], Given(parts[k], value))
  <2>1. PICK p : p = parts[k]
    OBVIOUS
  <2>2. p \in Parts
    BY <2>1, TemplateIs
  <2>3. p.spelled \in Seq(Symbols) /\ (p.name = Missing => p.spelled = <<>>)
    BY <2>2, PartTyped
  <2>4. FilledWith(p, p.spelled) \in Seq(Symbols)
    BY <2>2, <2>3, FilledTyped, ValuesAreSymbols, MarksAreSymbols
  <2>5. RenderWith(value, FilledWith(p, p.spelled)) = FilledWith(p, Given(p, value))
    BY <2>2, RenderPart
  <2> QED
    BY <2>1, <2>4, <2>5
<1>4. texts \in Seq(Seq(Symbols)) /\ DOMAIN texts = DOMAIN parts
  <2>1. DOMAIN parts = 1..Len(parts) /\ Len(parts) \in Nat
    BY TemplateIs
  <2> QED
    BY <1>1, <1>3, <2>1
<1>5. RenderWith(value, FlattenSeq(texts)) = Spread(texts, Rendered(Symbols, value))
  BY <1>2, <1>4, RenderParts
<1>6. Pieces(texts, Rendered(Symbols, value)) = [k \in DOMAIN parts |-> FilledWith(parts[k], Given(parts[k], value))]
  <2>1. \A k \in DOMAIN parts : Rendered(Symbols, value)[texts[k]] = FilledWith(parts[k], Given(parts[k], value))
    BY <1>1, <1>3 DEF Rendered
  <2>2. Pieces(texts, Rendered(Symbols, value)) = [k \in DOMAIN parts |-> Rendered(Symbols, value)[texts[k]]]
    BY <1>4 DEF Pieces
  <2> QED
    BY <2>1, <2>2
<1> QED
  BY <1>2, <1>5, <1>6, Zenon DEF Spread

\* The text a part shows has no placeholder of its own.
LEMMA ShownTight ==
  ASSUME NEW p \in Parts
  PROVE  Placeholders(RidOf(p.shown, {Blank})) = {} /\ RidOf(p.shown, {Blank}) \in Seq(Symbols) /\ p.shown \in Seq(Symbols)
<1>1. p.shown \in Seq(Plain) /\ Plain \subseteq Values /\ Values \subseteq Symbols
  BY PartTyped, ValuesAreSymbols, Zenon
<1>2. p.shown \in Seq(Symbols)
  BY <1>1
<1>3. RidOf(p.shown, {Blank}) \in Seq(Symbols)
  BY <1>2, RidTyped
<1>4. CASE p.shown = <<>>
  <2>1. RidOf(p.shown, {Blank}) = <<>>
    BY <1>4, RidNone
  <2>2. ASSUME NEW q \in Placeholders(<<>>) PROVE FALSE
    <3>1. <<>> \in Seq(Symbols) /\ Len(<<>>) = 0
      OBVIOUS
    <3>2. Ordered(<<>>, q.first, q.name, q.last)
      BY <3>1, PlaceholderIs
    <3> QED
      BY <3>1, <3>2 DEF Ordered
  <2> QED
    BY <1>2, <1>3, <2>1, <2>2
<1>5. CASE p.shown # <<>>
  <2>1. \E w : Says(w, p.shown)
    BY <1>5, PartIs, Zenon DEF IsVar, IsLiteral, IsLink
  <2> QED
    BY <1>2, <1>3, <2>1, SaysIs, Zenon
<1> QED
  BY <1>4, <1>5

\* A placeholder by itself is read as it stands.
LEMMA SpelledStands ==
  ASSUME NEW p \in Parts
  PROVE  StandsFor(p.spelled, p.spelled)
<1>0. HasEscapes(Values)
  BY ValuesAreSymbols
<1>1. p.spelled \in Seq(Values) /\ (p.name = Missing => p.spelled = <<>>)
  BY PartTyped
<1>2. CASE p.spelled = <<>>
  <2>1. Whole(<<>>) /\ Read(<<>>) = RidOf(<<>>, {Blank})
    BY <1>0, ReadNothing, RidNone DEF Whole
  <2> QED
    BY <1>1, <1>2, <2>1, Zenon DEF StandsFor
<1>3. CASE p.name \in MergeNames /\ p.spelled \in {<<"{{", p.name, "}}">>, <<"{{", Blank, p.name, Blank, "}}">>}
  <2>1. PICK n, s, a, b, o : n = p.name /\ s = p.spelled /\ a = "{{" /\ b = "}}" /\ o = Blank
    OBVIOUS
  <2>2. s \in {<<a, n, b>>, <<a, o, n, o, b>>} /\ s \in Seq(Values)
    BY <1>1, <1>3, <2>1, Zenon
  <2>3. n # "&" /\ a # "&" /\ b # "&" /\ o # "&"
    <3>1. "&" \in Marks /\ MergeNames \cap Marks = {}
      BY SymbolsAssumption DEF Marks
    <3> QED
      BY <1>3, <2>1, <3>1 DEF Blank
  <2>4. (\A i \in 1..Len(s) : s[i] # "&") /\ s[Len(s)] # "&"
    <3>1. CASE s = <<a, n, b>>
      BY <2>3, <3>1
    <3>2. CASE s = <<a, o, n, o, b>>
      <4>1. Len(s) = 5 /\ s[1] = a /\ s[2] = o /\ s[3] = n /\ s[4] = o /\ s[5] = b
        BY <3>2
      <4>2. \A i \in 1..5 : i = 1 \/ i = 2 \/ i = 3 \/ i = 4 \/ i = 5
        OBVIOUS
      <4> QED
        BY <2>3, <4>1, <4>2, Zenon
    <3> QED
      BY <2>2, <3>1, <3>2
  <2>5. Whole(s) /\ Read(s) = RidOf(s, {Blank})
    BY <1>0, <2>2, <2>4, ReadSame DEF Whole
  <2> QED
    BY <1>1, <2>1, <2>5, Zenon DEF StandsFor
<1>4. \/ p.spelled = <<>>
      \/ p.name \in MergeNames /\ p.spelled \in {<<"{{", p.name, "}}">>, <<"{{", Blank, p.name, Blank, "}}">>}
  <2>1. CASE IsVar(p)
    BY <2>1, Zenon DEF IsVar
  <2>2. CASE IsLiteral(p)
    <3>1. p.spelled = <<>>
      BY <2>2, Zenon DEF IsLiteral
    <3> QED
      BY <3>1, Zenon
  <2>3. ASSUME NEW w, IsLink(p, w) PROVE p.name \in MergeNames /\ p.spelled = <<"{{", p.name, "}}">>
    BY <2>3, Zenon DEF IsLink
  <2> QED
    BY <2>1, <2>2, <2>3, PartIs
<1> QED
  BY <1>2, <1>3, <1>4

\* A sequence of one.
LEMMA SeqOfOne == ASSUME NEW S, NEW a \in S PROVE <<a>> \in Seq(S)
OBVIOUS

\* A placeholder without its white space is still one.
LEMMA TightIs ==
  ASSUME NEW n \in MergeNames, NEW s \in {<<"{{", n, "}}">>, <<"{{", Blank, n, Blank, "}}">>}
  PROVE  RidOf(s, {Blank}) = <<"{{", n, "}}">>
<1>1. PICK a, b, o : a = "{{" /\ b = "}}" /\ o = Blank
  OBVIOUS
<1>2. a # o /\ b # o /\ n # o
  <2>1. Blank \in Marks /\ MergeNames \cap Marks = {}
    BY SymbolsAssumption DEF Marks
  <2> QED
    BY <1>1, <2>1 DEF Blank
<1>3. PICK S : S = {a, b, o, n}
  OBVIOUS
<1>4. /\ RidOf(<<a>>, {o}) = <<a>> /\ RidOf(<<b>>, {o}) = <<b>> /\ RidOf(<<n>>, {o}) = <<n>> /\ RidOf(<<o>>, {o}) = <<>>
  BY <1>2, RidOne
<1>5. /\ <<a>> \in Seq(S) /\ <<b>> \in Seq(S) /\ <<o>> \in Seq(S) /\ <<n>> \in Seq(S) /\ <<a, n>> \in Seq(S)
      /\ <<a, o>> \in Seq(S) /\ <<a, o, n>> \in Seq(S) /\ <<a, o, n, o>> \in Seq(S)
  <2>1. a \in S /\ b \in S /\ o \in S /\ n \in S
    BY <1>3
  <2>2. <<a>> \in Seq(S) /\ <<b>> \in Seq(S) /\ <<o>> \in Seq(S) /\ <<n>> \in Seq(S)
    BY <2>1, SeqOfOne, Zenon
  <2> QED
    BY <2>1, <2>2, SeqOfTwo, SeqOfThree, SeqOfFour
<1>6. RidOf(<<a, n>>, {o}) = <<a, n>> /\ RidOf(<<a, o>>, {o}) = <<a>>
  <2>1. RidOf(<<a>> \o <<n>>, {o}) = RidOf(<<a>>, {o}) \o RidOf(<<n>>, {o})
    BY <1>5, RidJoined
  <2>2. RidOf(<<a>> \o <<o>>, {o}) = RidOf(<<a>>, {o}) \o RidOf(<<o>>, {o})
    BY <1>5, RidJoined
  <2> QED
    BY <1>4, <1>5, <2>1, <2>2, TwoIs, AloneIs, ZenonT(60)
<1>7. RidOf(<<a, n, b>>, {o}) = <<a, n, b>>
  <2>1. RidOf(<<a, n>> \o <<b>>, {o}) = RidOf(<<a, n>>, {o}) \o RidOf(<<b>>, {o})
    BY <1>5, RidJoined
  <2> QED
    BY <1>4, <1>6, <2>1, TwoAndOne
<1>8. RidOf(<<a, o, n>>, {o}) = <<a, n>>
  <2>1. RidOf(<<a, o>> \o <<n>>, {o}) = RidOf(<<a, o>>, {o}) \o RidOf(<<n>>, {o})
    BY <1>5, RidJoined
  <2> QED
    BY <1>4, <1>6, <2>1, TwoAndOne, TwoIs
<1>9. RidOf(<<a, o, n, o>>, {o}) = <<a, n>>
  <2>1. RidOf(<<a, o, n>> \o <<o>>, {o}) = RidOf(<<a, o, n>>, {o}) \o RidOf(<<o>>, {o})
    BY <1>5, RidJoined
  <2> QED
    <3>1. <<a, o, n>> \o <<o>> = <<a, o, n, o>> /\ <<a, n>> \o <<>> = <<a, n>>
      <4>1. <<a, o, n>> \o <<o>> = <<a, o, n, o>>
        BY ThreeAndOne
      <4>2. <<a, n>> \o <<>> = <<a, n>>
        BY <1>5, AloneIs
      <4> QED
        BY <4>1, <4>2
    <3> QED
      BY <1>4, <1>8, <2>1, <3>1, Zenon
<1>10. RidOf(<<a, o, n, o, b>>, {o}) = <<a, n, b>>
  <2>1. RidOf(<<a, o, n, o>> \o <<b>>, {o}) = RidOf(<<a, o, n, o>>, {o}) \o RidOf(<<b>>, {o})
    BY <1>5, RidJoined
  <2> QED
    <3>1. <<a, o, n, o>> \o <<b>> = <<a, o, n, o, b>> /\ <<a, n>> \o <<b>> = <<a, n, b>>
      BY FourAndOne, TwoAndOne, ZenonT(60)
    <3> QED
      BY <1>4, <1>9, <2>1, <3>1, Zenon
<1> QED
  BY <1>1, <1>7, <1>10

\* A placeholder without its white space is rendered as what it stands for.
LEMMA TightRendered ==
  ASSUME NEW p \in Parts, NEW value \in [MergeNames -> Seq(Symbols)]
  PROVE  /\ RidOf(p.spelled, {Blank}) \in Seq(Symbols) /\ RenderWith(value, RidOf(p.spelled, {Blank})) = Given(p, value)
         /\ RidOf(p.spelled, {Blank}) = <<>> \/ RidOf(p.spelled, {Blank})[1] = "{{"
<1>0. Missing \notin MergeNames
  BY SymbolsAssumption
<1>1. p.spelled \in Seq(Symbols)
  BY PartTyped
<1>2. RidOf(p.spelled, {Blank}) \in Seq(Symbols)
  BY <1>1, RidTyped
<1>3. CASE IsLiteral(p)
  <2>1. p.spelled = <<>> /\ Given(p, value) = <<>>
    BY <1>3 DEF IsLiteral, Given
  <2>2. RidOf(p.spelled, {Blank}) = <<>>
    BY <2>1, RidNone
  <2>3. <<>> \in Seq(Symbols) /\ Len(<<>>) = 0
    OBVIOUS
  <2>4. ASSUME NEW q \in Placeholders(<<>>) PROVE FALSE
    <3>1. Ordered(<<>>, q.first, q.name, q.last)
      BY <2>3, PlaceholderIs
    <3> QED
      BY <2>3, <3>1 DEF Ordered
  <2>5. RenderWith(value, <<>>) = <<>>
    BY <2>3, <2>4, RenderNone
  <2> QED
    BY <2>1, <2>2, <2>3, <2>5, Zenon
<1>4. CASE p.name \in MergeNames /\ p.spelled \in {<<"{{", p.name, "}}">>, <<"{{", Blank, p.name, Blank, "}}">>}
  <2>1. PICK n, s, t : n = p.name /\ s = p.spelled /\ t = <<"{{", n, "}}">>
    OBVIOUS
  <2>2. n \in MergeNames /\ s \in {<<"{{", n, "}}">>, <<"{{", Blank, n, Blank, "}}">>}
    BY <1>4, <2>1, Zenon
  <2>3. RidOf(s, {Blank}) = t
    BY <2>1, <2>2, TightIs, Zenon
  <2>4. t \in Seq(Symbols)
    BY <1>2, <2>1, <2>3
  <2>5. RenderWith(value, t) = value[n]
    BY <2>1, <2>2, <2>4, RenderSpelled
  <2>6. Given(p, value) = value[n]
    BY <1>0, <2>1, <2>2 DEF Given
  <2>7. t[1] = "{{"
    BY <2>1
  <2> QED
    BY <1>2, <2>1, <2>3, <2>5, <2>6, <2>7, Zenon
<1>5. IsLiteral(p) \/ (p.name \in MergeNames /\ p.spelled \in {<<"{{", p.name, "}}">>, <<"{{", Blank, p.name, Blank, "}}">>})
  <2>1. CASE IsVar(p)
    BY <2>1, Zenon DEF IsVar
  <2>2. ASSUME NEW w, IsLink(p, w) PROVE p.name \in MergeNames /\ p.spelled = <<"{{", p.name, "}}">>
    BY <2>2, Zenon DEF IsLink
  <2> QED
    BY <2>1, <2>2, PartIs
<1> QED
  BY <1>3, <1>4, <1>5

\* No placeholder begins before the brackets of an address and ends behind them.
LEMMA NoneAcross ==
  ASSUME NEW q \in Seq(Symbols), NEW t \in Seq(Symbols), t = <<>> \/ t[1] = "{{"
  PROVE  ~Straddles(q, t)
<1>1. MergeNames \cap Marks = {} /\ "{{" \in Marks /\ "{{" # Blank
  BY SymbolsAssumption DEF Marks, Blank
<1>2. "{{" \notin MergeNames \cup {Blank, "}}"}
  BY <1>1
<1>3. t # <<>> => t[1] \notin MergeNames \cup {Blank, "}}"}
  BY <1>2
<1> QED
  BY <1>3, StraddleAcross, Zenon

\* Rendering a text followed by a placeholder, with or without brackets around it.
LEMMA Brackets ==
  ASSUME NEW q \in Seq(Symbols), NEW t \in Seq(Symbols),
           t = <<>> \/ t[1] = "{{", NEW value \in [MergeNames -> Seq(Symbols)], Placeholders(q) = {}
  PROVE  /\ q \o <<"(">> \o t \o <<")">> \in Seq(Symbols)
         /\ RenderWith(value, q \o t) = q \o RenderWith(value, t)
         /\ RenderWith(value, q \o <<"(">> \o t \o <<")">>) = q \o <<"(">> \o RenderWith(value, t) \o <<")">>
<1>1. PICK y, z, l, g : y = "(" /\ z = ")" /\ l = <<y>> /\ g = <<z>>
  OBVIOUS
<1>2. /\ y \in Symbols /\ z \in Symbols /\ y \notin MergeNames \cup {Blank, "{{"} /\ z \notin MergeNames \cup {Blank, "}}"}
      /\ y \notin MergeNames \cup {Blank, "}}"}
  <2>1. y \in Marks /\ z \in Marks /\ Marks \subseteq Symbols /\ MergeNames \cap Marks = {}
    BY <1>1, SymbolsAssumption DEF Marks
  <2> QED
    BY <1>1, <2>1 DEF Blank
<1>3. l \in Seq(Symbols) /\ g \in Seq(Symbols) /\ l # <<>> /\ g # <<>> /\ l[1] = y /\ g[1] = z
  <2>1. l = <<y>> /\ g = <<z>>
    BY <1>1
  <2>2. y \in Symbols /\ z \in Symbols
    BY <1>2
  <2>3. l \in Seq(Symbols) /\ l # <<>> /\ l[1] = y
    BY <2>1, <2>2, OneThen
  <2>4. g \in Seq(Symbols) /\ g # <<>> /\ g[1] = z
    BY <2>1, <2>2, OneThen
  <2> QED
    BY <2>3, <2>4
<1>4. PICK a : a = q \o l
  OBVIOUS
<1>5. PICK b : b = a \o t
  OBVIOUS
<1>6. a \in Seq(Symbols) /\ b \in Seq(Symbols)
  BY <1>3, <1>4, <1>5, Joined
<1>7. ~Straddles(q, l) /\ ~Straddles(b, g)
  BY <1>2, <1>3, <1>6, NotAcross
<1>8. ~Straddles(a, t) /\ ~Straddles(q, t)
  BY <1>6, NoneAcross
<1>9. RenderWith(value, l) = l /\ RenderWith(value, g) = g /\ RenderWith(value, q) = q
  BY <1>1, <1>2, <1>3, OneIsNone, RenderNone
<1>10. RenderWith(value, q \o t) = q \o RenderWith(value, t)
  <2>1. RenderWith(value, q \o t) = RenderWith(value, q) \o RenderWith(value, t)
    BY <1>8, RenderJoined, ZenonT(60)
  <2> QED
    BY <1>9, <2>1
<1>11. RenderWith(value, a) = a
  <2>1. RenderWith(value, q \o l) = RenderWith(value, q) \o RenderWith(value, l)
    BY <1>3, <1>7, RenderJoined, ZenonT(60)
  <2> QED
    BY <1>4, <1>9, <2>1
<1>12. RenderWith(value, b) = a \o RenderWith(value, t)
  <2>1. RenderWith(value, a \o t) = RenderWith(value, a) \o RenderWith(value, t)
    BY <1>6, <1>8, RenderJoined, ZenonT(60)
  <2> QED
    BY <1>5, <1>11, <2>1
<1>13. RenderWith(value, b \o g) = RenderWith(value, b) \o g
  <2>1. RenderWith(value, b \o g) = RenderWith(value, b) \o RenderWith(value, g)
    BY <1>3, <1>6, <1>7, RenderJoined, ZenonT(60)
  <2> QED
    BY <1>9, <2>1
<1>14. b \o g \in Seq(Symbols)
  BY <1>3, <1>6, Joined
<1> QED
  BY <1>1, <1>4, <1>5, <1>10, <1>12, <1>13, <1>14

\* A text with another in brackets after it; a text without its blanks.
Bracketed(s, v) == s \o <<"(">> \o v \o <<")">>
Tight(s) == RidOf(s, {Blank})

\* A text without blanks is a text, and taking them out again changes nothing.
LEMMA TightTyped == ASSUME NEW s \in Seq(Symbols) PROVE Tight(s) \in Seq(Symbols) /\ Tight(Tight(s)) = Tight(s)
BY RidTyped, RidAgain DEF Tight

\* Blanks are taken out part by part.
LEMMA TightJoined ==
  ASSUME NEW s \in Seq(Symbols), NEW v \in Seq(Symbols)
  PROVE  Tight(s \o v) = Tight(s) \o Tight(v) /\ s \o v \in Seq(Symbols)
BY RidJoined, Joined DEF Tight

\* Blanks are taken out of a bracketed text part by part.
LEMMA TightBrackets ==
  ASSUME NEW s \in Seq(Symbols), NEW v \in Seq(Symbols)
  PROVE  Tight(Bracketed(s, v)) = Bracketed(Tight(s), Tight(v)) /\ Bracketed(s, v) \in Seq(Symbols)
<1>1. PICK y, z : y = "(" /\ z = ")"
  OBVIOUS
<1>2. y \in Symbols /\ z \in Symbols /\ y \notin {Blank} /\ z \notin {Blank}
  <2>1. y \in Marks /\ z \in Marks /\ Marks \subseteq Symbols
    BY <1>1, SymbolsAssumption DEF Marks
  <2> QED
    BY <1>1, <2>1 DEF Blank
<1>3. PICK l, g : l = <<y>> /\ g = <<z>>
  OBVIOUS
<1>4. l \in Seq(Symbols) /\ g \in Seq(Symbols) /\ Tight(l) = l /\ Tight(g) = g
  BY <1>2, <1>3, SeqOfOne, RidOne DEF Tight
<1>5. Tight(s \o l) = Tight(s) \o l /\ s \o l \in Seq(Symbols)
  BY <1>4, TightJoined
<1>6. Tight((s \o l) \o v) = Tight(s \o l) \o Tight(v) /\ (s \o l) \o v \in Seq(Symbols)
  BY <1>5, TightJoined
<1>7. Tight(((s \o l) \o v) \o g) = Tight((s \o l) \o v) \o g /\ ((s \o l) \o v) \o g \in Seq(Symbols)
  BY <1>4, <1>6, TightJoined
<1>8. Bracketed(s, v) = ((s \o l) \o v) \o g /\ Bracketed(Tight(s), Tight(v)) = ((Tight(s) \o l) \o Tight(v)) \o g
  BY <1>1, <1>3, Zenon DEF Bracketed
<1> QED
  BY <1>5, <1>6, <1>7, <1>8

\* Rendering a text and a bracketed placeholder.
LEMMA RenderBrackets ==
  ASSUME NEW q \in Seq(Symbols), NEW t \in Seq(Symbols),
           t = <<>> \/ t[1] = "{{", NEW value \in [MergeNames -> Seq(Symbols)], Placeholders(q) = {}
  PROVE  /\ RenderWith(value, q \o t) = q \o RenderWith(value, t)
         /\ RenderWith(value, Bracketed(q, t)) = Bracketed(q, RenderWith(value, t))
BY Brackets, Zenon DEF Bracketed

\* Of a part that was saved as text the placeholder is rendered, and nothing else.
LEMMA SavedPart ==
  ASSUME NEW p \in Parts, NEW value \in [MergeNames -> Seq(Symbols)], NEW t, t = Tight(Appears(p, p.spelled, p.spelled))
  PROVE  /\ t \in Seq(Symbols) /\ RenderWith(value, t) \in Seq(Symbols)
         /\ Tight(RenderWith(value, t)) = Tight(Appears(p, Given(p, value), p.spelled))
<1>1. PICK x, v, s : x = p.spelled /\ v = Given(p, value) /\ s = p.shown
  OBVIOUS
<1>2. /\ x \in Seq(Symbols) /\ v \in Seq(Symbols) /\ s \in Seq(Symbols) /\ Tight(s) \in Seq(Symbols)
      /\ Tight(x) \in Seq(Symbols)
      /\ Tight(v) \in Seq(Symbols) /\ Placeholders(Tight(s)) = {}
      /\ RenderWith(value, Tight(x)) = v /\ (Tight(x) = <<>> \/ Tight(x)[1] = "{{") /\ Tight(Tight(s)) = Tight(s)
  <2>1. x \in Seq(Symbols)
    BY <1>1, PartTyped
  <2>2. v \in Seq(Symbols)
    BY <1>1, RenderPart
  <2>3. s \in Seq(Symbols) /\ Tight(s) \in Seq(Symbols) /\ Placeholders(Tight(s)) = {}
    BY <1>1, ShownTight DEF Tight
  <2>4. Tight(x) \in Seq(Symbols) /\ RenderWith(value, Tight(x)) = v /\ (Tight(x) = <<>> \/ Tight(x)[1] = "{{")
    BY <1>1, TightRendered, Zenon DEF Tight
  <2>5. Tight(v) \in Seq(Symbols) /\ Tight(Tight(s)) = Tight(s)
    BY <2>2, <2>3, TightTyped
  <2> QED
    BY <2>1, <2>2, <2>3, <2>4, <2>5, Zenon
<1>a. s \in Seq(Symbols) /\ x \in Seq(Symbols)
  BY <1>2
<1>b. PICK q, r : q = Tight(s) /\ r = Tight(x)
  OBVIOUS
<1>c. q \in Seq(Symbols) /\ r \in Seq(Symbols) /\ (r = <<>> \/ r[1] = "{{") /\ Placeholders(q) = {}
  BY <1>2, <1>b, Zenon
<1>4. \/ \A y : Appears(p, y, x) = s \o y
      \/ \A y : Appears(p, y, x) = y
      \/ \A y : Appears(p, y, x) = Bracketed(s, y)
  <2>1. CASE p.before = <<>> \/ p.shown = <<>> \/ x = <<>>
    BY <1>1, <2>1, AppearsIs
  <2>2. CASE ~(p.before = <<>> \/ p.shown = <<>> \/ x = <<>>) /\ Trimmed(RidOf(p.words, Tags)) = x
    BY <2>2, AppearsIs
  <2>3. CASE ~(p.before = <<>> \/ p.shown = <<>> \/ x = <<>>) /\ Trimmed(RidOf(p.words, Tags)) # x
    BY <1>1, <2>3, AppearsIs, Zenon DEF Bracketed
  <2> QED
    BY <2>1, <2>2, <2>3, Zenon
<1>5. t = Tight(Appears(p, x, x))
  BY <1>1
<1>6. CASE \A y : Appears(p, y, x) = s \o y
  <2>1. t = Tight(s) \o Tight(x)
    <3>1. Tight(s \o x) = Tight(s) \o Tight(x)
      BY <1>a, TightJoined
    <3> QED
      BY <1>5, <1>6, <3>1, Zenon
  <2>2. RenderWith(value, t) = Tight(s) \o v
    <3>1. RenderWith(value, q \o r) = q \o RenderWith(value, r)
      BY <1>c, RenderBrackets
    <3> QED
      BY <1>b, <1>2, <2>1, <3>1, Zenon
  <2>3. Tight(Tight(s) \o v) = Tight(Tight(s)) \o Tight(v) /\ Tight(s) \o v \in Seq(Symbols)
    BY <1>2, TightJoined
  <2>4. Tight(s \o v) = Tight(s) \o Tight(v)
    BY <1>2, TightJoined
  <2>5. t \in Seq(Symbols)
    <3>1. q \o r \in Seq(Symbols)
      BY <1>c, Joined
    <3> QED
      BY <1>b, <2>1, <3>1, Zenon
  <2> QED
    BY <1>1, <1>2, <1>6, <2>2, <2>3, <2>4, <2>5, Zenon
<1>7. CASE \A y : Appears(p, y, x) = y
  <2>1. t = Tight(x)
    BY <1>5, <1>7
  <2> QED
    BY <1>1, <1>2, <1>7, <2>1, Zenon
<1>8. CASE \A y : Appears(p, y, x) = Bracketed(s, y)
  <2>1. t = Bracketed(Tight(s), Tight(x))
    <3>1. Tight(Bracketed(s, x)) = Bracketed(Tight(s), Tight(x))
      BY <1>a, TightBrackets
    <3> QED
      BY <1>5, <1>8, <3>1, Zenon
  <2>2. RenderWith(value, t) = Bracketed(Tight(s), v)
    <3>1. RenderWith(value, Bracketed(q, r)) = Bracketed(q, RenderWith(value, r))
      BY <1>c, RenderBrackets
    <3> QED
      BY <1>b, <1>2, <2>1, <3>1, Zenon
  <2>3. Tight(Bracketed(Tight(s), v)) = Bracketed(Tight(Tight(s)), Tight(v)) /\ Bracketed(Tight(s), v) \in Seq(Symbols)
    BY <1>2, TightBrackets
  <2>4. Tight(Bracketed(s, v)) = Bracketed(Tight(s), Tight(v))
    BY <1>2, TightBrackets
  <2>5. t \in Seq(Symbols)
    <3>1. Bracketed(q, r) \in Seq(Symbols)
      BY <1>c, TightBrackets
    <3> QED
      BY <1>b, <2>1, <3>1, Zenon
  <2> QED
    BY <1>1, <1>2, <1>8, <2>2, <2>3, <2>4, <2>5, Zenon
<1> QED
  BY <1>4, <1>6, <1>7, <1>8, Zenon

\* Texts that differ by blanks, part by part, differ by blanks when joined.
LEMMA TightFlat ==
  ASSUME NEW ss \in Seq(Seq(Symbols)), NEW tt \in Seq(Seq(Symbols)), DOMAIN ss = DOMAIN tt,
           \A k \in DOMAIN ss : Tight(ss[k]) = Tight(tt[k])
  PROVE  Tight(FlattenSeq(ss)) = Tight(FlattenSeq(tt))
<1>1. Tight(FlattenSeq(ss)) = FlattenSeq([k \in DOMAIN ss |-> RidOf(ss[k], {Blank})])
  BY RidFlat, Zenon DEF Tight
<1>2. Tight(FlattenSeq(tt)) = FlattenSeq([k \in DOMAIN tt |-> RidOf(tt[k], {Blank})])
  BY RidFlat, Zenon DEF Tight
<1>3. [k \in DOMAIN ss |-> RidOf(ss[k], {Blank})] = [k \in DOMAIN tt |-> RidOf(tt[k], {Blank})]
  BY DEF Tight
<1> QED
  BY <1>1, <1>2, <1>3

\* A body's html is read as what is seen of its parts.
LEMMA BodyRead ==
  ASSUME NEW parts \in Seq(Parts), NEW x, NEW v,
         \A k \in DOMAIN parts : StandsFor(x[k], v[k]) /\ (parts[k].name = Missing => x[k] = <<>>)
  PROVE  /\ HtmlToText(FlattenSeq([k \in DOMAIN parts |-> FilledWith(parts[k], x[k])]))
              = FlattenSeq([k \in DOMAIN parts |-> Tight(Appears(parts[k], v[k], x[k]))])
         /\ FlattenSeq([k \in DOMAIN parts |-> Tight(Appears(parts[k], v[k], x[k]))])
              = Tight(FlattenSeq([k \in DOMAIN parts |-> Appears(parts[k], v[k], x[k])]))
         /\ [k \in DOMAIN parts |-> Appears(parts[k], v[k], x[k])] \in Seq(Seq(Symbols))
<1>1. PICK hs, as : /\ hs = [k \in DOMAIN parts |-> FilledWith(parts[k], x[k])]
                    /\ as = [k \in DOMAIN parts |-> Appears(parts[k], v[k], x[k])]
  OBVIOUS
<1>2. DOMAIN parts = 1..Len(parts) /\ Len(parts) \in Nat /\ DOMAIN hs = DOMAIN parts /\ DOMAIN as = DOMAIN parts
  BY <1>1
<1>3. ASSUME NEW k \in DOMAIN parts
      PROVE  hs[k] \in Readable /\ Reading[hs[k]] = Tight(as[k]) /\ as[k] \in Seq(Symbols)
  <2>1. PICK p, y, w : p = parts[k] /\ y = x[k] /\ w = v[k]
    OBVIOUS
  <2>2. p \in Parts /\ StandsFor(y, w) /\ (p.name = Missing => y = <<>>)
    BY <2>1
  <2>3. /\ FilledWith(p, y) \in Seq(Symbols) /\ AllClosed(FilledWith(p, y)) /\ Whole(TextOf(FilledWith(p, y)))
        /\ Read(TextOf(FilledWith(p, y))) = Tight(Appears(p, w, y)) /\ Appears(p, w, y) \in Seq(Values)
    BY <2>2, PartIsRead, Zenon DEF Tight
  <2>4. hs[k] = FilledWith(p, y) /\ as[k] = Appears(p, w, y)
    BY <1>1, <2>1, Zenon
  <2>5. hs[k] \in Readable
    BY <2>3, <2>4, Zenon DEF Readable
  <2>6. Reading[hs[k]] = Read(TextOf(hs[k]))
    BY <2>5, ReadableIs
  <2>7. Appears(p, w, y) \in Seq(Symbols)
    BY <2>3, ValuesAreSymbols, SeqWider, Zenon
  <2> QED
    BY <2>3, <2>4, <2>5, <2>6, <2>7, Zenon
<1>4. hs \in Seq(Readable) /\ as \in Seq(Seq(Symbols))
  BY <1>1, <1>2, <1>3
<1>5. HtmlToText(FlattenSeq(hs)) = FlattenSeq(Pieces(hs, Reading))
  BY <1>4, ReadPieces DEF Spread
<1>6. Pieces(hs, Reading) = [k \in DOMAIN parts |-> Tight(as[k])]
  BY <1>2, <1>3 DEF Pieces
<1>7. Tight(FlattenSeq(as)) = FlattenSeq([k \in DOMAIN as |-> RidOf(as[k], {Blank})])
  BY <1>4, RidFlat, ZenonT(60) DEF Tight
<1>8. [k \in DOMAIN as |-> RidOf(as[k], {Blank})] = [k \in DOMAIN parts |-> Tight(as[k])]
  BY <1>2 DEF Tight
<1>9. [k \in DOMAIN parts |-> Tight(as[k])] = [k \in DOMAIN parts |-> Tight(Appears(parts[k], v[k], x[k]))]
  BY <1>1
<1> QED
  BY <1>1, <1>4, <1>5, <1>6, <1>7, <1>8, <1>9, Zenon

\* The text made of a message's html.
LEMMA MadeOfHtml ==
  ASSUME NEW person \in Persons, NEW parts \in Templates
  PROVE  Tight(HtmlToText(FlattenSeq([k \in DOMAIN parts |-> FilledWith(parts[k], EscapeHtml(About(parts[k], person)))])))
           = Tight(FlattenSeq([k \in DOMAIN parts |-> Appears(parts[k], About(parts[k], person),
             EscapeHtml(About(parts[k], person)))]))
<1>1. PICK x, v : /\ x = [k \in DOMAIN parts |-> EscapeHtml(About(parts[k], person))]
                  /\ v = [k \in DOMAIN parts |-> About(parts[k], person)]
  OBVIOUS
<1>2. parts \in Seq(Parts) /\ \A k \in DOMAIN parts : parts[k] \in Parts
  BY TemplateIs
<1>3. \A k \in DOMAIN parts : x[k] = EscapeHtml(About(parts[k], person)) /\ v[k] = About(parts[k], person)
  BY <1>1
<1>4. \A k \in DOMAIN parts : StandsFor(x[k], v[k]) /\ (parts[k].name = Missing => x[k] = <<>>)
  <2>1. \A p \in Parts : StandsFor(EscapeHtml(About(p, person)), About(p, person)) /\
          (p.name = Missing => EscapeHtml(About(p, person)) = <<>>)
    BY AboutIs
  <2> QED
    BY <1>2, <1>3, <2>1
<1>5. /\ [k \in DOMAIN parts |-> FilledWith(parts[k], x[k])] =
           [k \in DOMAIN parts |-> FilledWith(parts[k], EscapeHtml(About(parts[k], person)))]
      /\ [k \in DOMAIN parts |-> Appears(parts[k], v[k], x[k])]
           = [k \in DOMAIN parts |-> Appears(parts[k], About(parts[k], person), EscapeHtml(About(parts[k], person)))]
  BY <1>3
<1>6. PICK as : as = [k \in DOMAIN parts |-> Appears(parts[k], v[k], x[k])]
  OBVIOUS
<1>7. HtmlToText(FlattenSeq([k \in DOMAIN parts |-> FilledWith(parts[k], x[k])])) = Tight(FlattenSeq(as)) /\
        as \in Seq(Seq(Symbols))
  BY <1>2, <1>4, <1>6, BodyRead
<1>8. Tight(Tight(FlattenSeq(as))) = Tight(FlattenSeq(as))
  BY <1>7, FlatTyped, TightTyped
<1> QED
  BY <1>5, <1>6, <1>7, <1>8, Zenon

\* The text made of a template, with the recipient's values in it.
LEMMA MadeOfTemplate ==
  ASSUME NEW person \in Persons, NEW parts \in Templates
  PROVE  /\ Tight(RenderWith(Answers(person), HtmlToText(Written(parts))))
              = Tight(FlattenSeq([k \in DOMAIN parts |-> Appears(parts[k], About(parts[k], person), parts[k].spelled)]))
         /\ Tight(HtmlToText(Written(parts))) = HtmlToText(Written(parts))
<1>1. PICK x : x = [k \in DOMAIN parts |-> parts[k].spelled]
  OBVIOUS
<1>2. /\ parts \in Seq(Parts) /\ DOMAIN parts = 1..Len(parts) /\ Len(parts) \in Nat
      /\ \A k \in DOMAIN parts : parts[k] \in Parts
      /\ Apart([k \in DOMAIN parts |-> RidOf(Appears(parts[k], parts[k].spelled, parts[k].spelled), {Blank})])
  BY TemplateIs
<1>3. \A k \in DOMAIN parts : x[k] = parts[k].spelled
  BY <1>1
<1>4. \A k \in DOMAIN parts : StandsFor(x[k], x[k]) /\ (parts[k].name = Missing => x[k] = <<>>)
  <2>1. \A p \in Parts : StandsFor(p.spelled, p.spelled) /\ (p.name = Missing => p.spelled = <<>>)
    BY SpelledStands, PartTyped
  <2> QED
    BY <1>2, <1>3, <2>1
<1>5. PICK ts : ts = [k \in DOMAIN parts |-> Tight(Appears(parts[k], x[k], x[k]))]
  OBVIOUS
<1>6. PICK ss : ss = [k \in DOMAIN parts |-> Appears(parts[k], x[k], x[k])]
  OBVIOUS
<1>7. HtmlToText(FlattenSeq([k \in DOMAIN parts |-> FilledWith(parts[k], x[k])])) = FlattenSeq(ts) /\
        FlattenSeq(ts) = Tight(FlattenSeq(ss))
      /\ ss \in Seq(Seq(Symbols))
  BY <1>2, <1>4, <1>5, <1>6, BodyRead
<1>8. HtmlToText(Written(parts)) = FlattenSeq(ts)
  <2>1. [k \in DOMAIN parts |-> FilledWith(parts[k], x[k])] = [k \in DOMAIN parts |-> FilledWith(parts[k], parts[k].spelled)]
    BY <1>3
  <2> QED
    BY <1>7, <2>1, Zenon DEF Written
<1>9. Tight(FlattenSeq(ts)) = FlattenSeq(ts)
  BY <1>7, FlatTyped, TightTyped
<1>10. Apart(ts)
  <2>1. ts = [k \in DOMAIN parts |-> RidOf(Appears(parts[k], parts[k].spelled, parts[k].spelled), {Blank})]
    BY <1>3, <1>5 DEF Tight
  <2> QED
    BY <1>2, <2>1, Zenon
<1>11. PICK value : value = Answers(person)
  OBVIOUS
<1>12. value \in [MergeNames -> Seq(Symbols)]
  BY <1>11, AnswersTyped
<1>13. ASSUME NEW k \in DOMAIN parts
       PROVE  /\ ts[k] \in Seq(Symbols) /\ RenderWith(value, ts[k]) \in Seq(Symbols)
              /\ Tight(RenderWith(value, ts[k])) = Tight(Appears(parts[k], About(parts[k], person), parts[k].spelled))
              /\ Appears(parts[k], About(parts[k], person), parts[k].spelled) \in Seq(Symbols)
  <2>1. PICK p, t : p = parts[k] /\ t = ts[k]
    OBVIOUS
  <2>2. p \in Parts /\ t = Tight(Appears(p, p.spelled, p.spelled))
    BY <1>2, <1>3, <1>5, <2>1
  <2>3. t \in Seq(Symbols) /\ RenderWith(value, t) \in Seq(Symbols) /\
          Tight(RenderWith(value, t)) = Tight(Appears(p, Given(p, value), p.spelled))
    BY <1>12, <2>2, SavedPart
  <2>4. Given(p, value) = About(p, person) /\ About(p, person) \in Seq(Own(person))
    BY <1>11, <2>2, AboutIs
  <2>5. About(p, person) \in Seq(Symbols)
    BY <2>4, PersonIs, ValuesAreSymbols, SeqWider
  <2>6. Appears(p, About(p, person), p.spelled) \in Seq(Symbols)
    <3>1. p.shown \in Seq(Symbols)
      BY <2>2, ShownTight
    <3>2. p.shown \o About(p, person) \in Seq(Symbols) /\ Bracketed(p.shown, About(p, person)) \in Seq(Symbols)
      BY <2>5, <3>1, TightJoined, TightBrackets
    <3> QED
      BY <2>5, <3>2, Zenon DEF Appears, Bracketed
  <2> QED
    BY <2>1, <2>3, <2>4, <2>6, Zenon
<1>14. ts \in Seq(Seq(Symbols)) /\ DOMAIN ts = DOMAIN parts
  BY <1>2, <1>5, <1>13
<1>15. RenderWith(value, FlattenSeq(ts)) = FlattenSeq(Pieces(ts, Rendered(Symbols, value)))
  BY <1>10, <1>12, <1>14, RenderParts DEF Spread
<1>16. PICK rs, as : /\ rs = [k \in DOMAIN parts |-> RenderWith(value, ts[k])]
                     /\ as = [k \in DOMAIN parts |-> Appears(parts[k], About(parts[k], person), parts[k].spelled)]
  OBVIOUS
<1>17. Pieces(ts, Rendered(Symbols, value)) = rs
  <2>1. \A k \in DOMAIN parts : Rendered(Symbols, value)[ts[k]] = RenderWith(value, ts[k])
    BY <1>13 DEF Rendered
  <2>2. Pieces(ts, Rendered(Symbols, value)) = [k \in DOMAIN parts |-> Rendered(Symbols, value)[ts[k]]]
    BY <1>14 DEF Pieces
  <2> QED
    BY <1>16, <2>1, <2>2
<1>18. /\ rs \in Seq(Seq(Symbols)) /\ as \in Seq(Seq(Symbols)) /\ DOMAIN rs = DOMAIN as
       /\ \A k \in DOMAIN rs : Tight(rs[k]) = Tight(as[k])
  BY <1>2, <1>13, <1>16
<1>19. Tight(FlattenSeq(rs)) = Tight(FlattenSeq(as))
  BY <1>18, TightFlat
<1> QED
  BY <1>8, <1>9, <1>11, <1>15, <1>16, <1>17, <1>19, Zenon

\* What may stand in a message: nobody else's address, and no pixel but the one that is added to it.
Theirs(person) == (Symbols \ (Links \cup Pixels)) \cup {LinkOf(person)}

\* Which symbols a person's page may hold: the words, the tags and that person's own values.
LEMMA TheirsIs ==
  ASSUME NEW person \in Persons
  PROVE  /\ Own(person) \subseteq Theirs(person) /\ Theirs(person) \subseteq Symbols
         /\ Words \cup Kinds \subseteq Theirs(person)
         /\ HasEscapes(Theirs(person)) /\ HasBrackets(Theirs(person))
         /\ Theirs(person) \cap Pixels = {} /\ Theirs(person) \cap Links = {LinkOf(person)}
         /\ {"{{", "}}", Blank} \subseteq Theirs(person) /\ MergeNames \subseteq Theirs(person)
<1>1. LinkOf(person) \in Links /\ HasEscapes(Own(person)) /\ HasBrackets(Own(person))
  BY PersonIs
<1>2. /\ Links \subseteq Symbols /\ Links \cap Pixels = {} /\ (Links \cup Pixels) \cap (Marks \cup MergeNames) = {}
      /\ Marks \subseteq Symbols
      /\ MergeNames \subseteq Symbols
  BY SymbolsAssumption
<1>3. Own(person) \subseteq Theirs(person)
  BY DEF Own, Theirs, Plain
<1>4. Kinds \subseteq Marks
  BY DEF Kinds, Marks, Tags
<1>5. Words \cup Kinds \subseteq Theirs(person)
  BY <1>2, <1>4 DEF Words, Theirs
<1>6. HasEscapes(Theirs(person)) /\ HasBrackets(Theirs(person))
  BY <1>1, <1>3 DEF HasEscapes, HasBrackets
<1>7. Theirs(person) \subseteq Symbols /\ Theirs(person) \cap Pixels = {} /\ Theirs(person) \cap Links = {LinkOf(person)}
  BY <1>1, <1>2 DEF Theirs
<1>8. {"{{", "}}", Blank} \subseteq Theirs(person) /\ MergeNames \subseteq Theirs(person)
  <2>1. {"{{", "}}", Blank} \subseteq Marks
    BY DEF Marks
  <2> QED
    BY <1>2, <2>1 DEF Theirs
<1> QED
  BY <1>3, <1>5, <1>6, <1>7, <1>8

\* A body filled with a person's own values holds no other person's.
LEMMA TheirsBody ==
  ASSUME NEW person \in Persons, NEW parts \in Templates, NEW y,
         \A k \in DOMAIN parts : y[k] \in Seq(Theirs(person)) /\ (parts[k].name = Missing => y[k] = <<>>)
  PROVE  FlattenSeq([k \in DOMAIN parts |-> FilledWith(parts[k], y[k])]) \in Seq(Theirs(person))
<1>1. DOMAIN parts = 1..Len(parts) /\ Len(parts) \in Nat /\ \A k \in DOMAIN parts : parts[k] \in Parts
  BY TemplateIs
<1>2. PICK D : D = Theirs(person)
  OBVIOUS
<1>3. Words \cup Kinds \subseteq D /\ D \subseteq Symbols
  BY <1>2, TheirsIs
<1>4. ASSUME NEW k \in DOMAIN parts PROVE FilledWith(parts[k], y[k]) \in Seq(D)
  <2>1. PICK p, x : p = parts[k] /\ x = y[k]
    OBVIOUS
  <2>2. p \in Parts /\ x \in Seq(D) /\ (p.name = Missing => x = <<>>)
    BY <1>1, <1>2, <2>1
  <2> QED
    BY <1>3, <2>1, <2>2, FilledTyped
<1>5. [k \in DOMAIN parts |-> FilledWith(parts[k], y[k])] \in Seq(Seq(D))
  BY <1>1, <1>4
<1> QED
  BY <1>2, <1>5, FlatTyped

\* The text made of a page is over the page's symbols.
LEMMA ToTextTyped ==
  ASSUME NEW C, HasEscapes(C), HasBrackets(C), NEW html \in Seq(C)
  PROVE  HtmlToText(html) \in Seq(C)
<1>1. TextOf(html) \in Seq(C)
  BY LinksTyped, RidTyped DEF TextOf
<1> QED
  BY <1>1, ReadTyped, ToTextIs

\* Both the body meant for a person and the template itself hold only that person's symbols.
LEMMA TheirsHtml ==
  ASSUME NEW person \in Persons, NEW parts \in Templates
  PROVE  /\ FlattenSeq([k \in DOMAIN parts |-> FilledWith(parts[k], EscapeHtml(About(parts[k], person)))]) \in Seq(Theirs(person))
         /\ Written(parts) \in Seq(Theirs(person))
<1>1. \A k \in DOMAIN parts : parts[k] \in Parts
  BY TemplateIs
<1>2. PICK D : D = Theirs(person)
  OBVIOUS
<1>3. Own(person) \subseteq D
  BY <1>2, TheirsIs
<1>4. ASSUME NEW p \in Parts
      PROVE  /\ EscapeHtml(About(p, person)) \in Seq(D) /\ (p.name = Missing => EscapeHtml(About(p, person)) = <<>>)
             /\ p.spelled \in Seq(D) /\ (p.name = Missing => p.spelled = <<>>)
  <2>1. EscapeHtml(About(p, person)) \in Seq(D) /\ (p.name = Missing => EscapeHtml(About(p, person)) = <<>>)
    BY <1>3, AboutIs, SeqWider
  <2>2. p.spelled \in Seq(D)
    <3>1. CASE p.spelled = <<>>
      BY <3>1
    <3>2. CASE p.name \in MergeNames /\ p.spelled \in {<<"{{", p.name, "}}">>, <<"{{", Blank, p.name, Blank, "}}">>}
      <4>1. "{{" \in D /\ "}}" \in D /\ Blank \in D /\ p.name \in D
        BY <1>2, <3>2, TheirsIs
      <4> QED
        BY <3>2, <4>1, SeqOfThree, SeqOfFive, Zenon
    <3>3. \/ p.spelled = <<>>
          \/ p.name \in MergeNames /\ p.spelled \in {<<"{{", p.name, "}}">>, <<"{{", Blank, p.name, Blank, "}}">>}
      <4>1. CASE IsVar(p)
        BY <4>1, Zenon DEF IsVar
      <4>2. CASE IsLiteral(p)
        BY <4>2, Zenon DEF IsLiteral
      <4>3. ASSUME NEW w, IsLink(p, w) PROVE p.name \in MergeNames /\ p.spelled = <<"{{", p.name, "}}">>
        BY <4>3, Zenon DEF IsLink
      <4> QED
        BY <4>1, <4>2, <4>3, PartIs
    <3> QED
      BY <3>1, <3>2, <3>3
  <2> QED
    BY <2>1, <2>2, PartTyped
<1>5. PICK x, y : x = [k \in DOMAIN parts |-> EscapeHtml(About(parts[k], person))] /\
                    y = [k \in DOMAIN parts |-> parts[k].spelled]
  OBVIOUS
<1>6. \A k \in DOMAIN parts : x[k] = EscapeHtml(About(parts[k], person)) /\ y[k] = parts[k].spelled
  BY <1>5
<1>7. \A k \in DOMAIN parts : x[k] \in Seq(D) /\ (parts[k].name = Missing => x[k] = <<>>)
  BY <1>1, <1>4, <1>6
<1>8. \A k \in DOMAIN parts : y[k] \in Seq(D) /\ (parts[k].name = Missing => y[k] = <<>>)
  BY <1>1, <1>4, <1>6
<1>9. FlattenSeq([k \in DOMAIN parts |-> FilledWith(parts[k], x[k])]) \in Seq(D) /\
        FlattenSeq([k \in DOMAIN parts |-> FilledWith(parts[k], y[k])]) \in Seq(D)
  BY <1>2, <1>7, <1>8, TheirsBody, Zenon
<1>10. /\ [k \in DOMAIN parts |-> FilledWith(parts[k], x[k])] =
            [k \in DOMAIN parts |-> FilledWith(parts[k], EscapeHtml(About(parts[k], person)))]
       /\ [k \in DOMAIN parts |-> FilledWith(parts[k], y[k])] = [k \in DOMAIN parts |-> FilledWith(parts[k], parts[k].spelled)]
  BY <1>6
<1> QED
  BY <1>2, <1>9, <1>10, Zenon DEF Written

\* The symbols of a text, of one symbol and of none.
LEMMA ToSetIs ==
  /\ \A D : \A s \in Seq(D) : ToSet(s) \subseteq D
  /\ \A x : ToSet(<<x>>) = {x}
  /\ ToSet(<<>>) = {}
BY DEF ToSet

\* The symbols of two joined texts.
LEMMA ToSetJoined ==
  ASSUME NEW C, NEW a \in Seq(C), NEW b \in Seq(C)
  PROVE  ToSet(a \o b) = ToSet(a) \cup ToSet(b)
<1>1. /\ Len(a \o b) = Len(a) + Len(b) /\ Len(a) \in Nat /\ Len(b) \in Nat
      /\ \A i \in Nat : 1 <= i /\ i <= Len(a) => (a \o b)[i] = a[i]
      /\ \A i \in Nat : 1 <= i /\ i <= Len(b) => (a \o b)[i + Len(a)] = b[i]
      /\ \A i \in Nat : Len(a) < i /\ i <= Len(a) + Len(b) => (a \o b)[i] = b[i - Len(a)]
  BY Joined
<1>2. DOMAIN (a \o b) = 1..Len(a) + Len(b) /\ DOMAIN a = 1..Len(a) /\ DOMAIN b = 1..Len(b)
  BY <1>1, Joined
<1>3. ASSUME NEW i \in 1..Len(a) + Len(b) PROVE (a \o b)[i] \in ToSet(a) \cup ToSet(b)
  <2>1. CASE i <= Len(a)
    <3>1. (a \o b)[i] = a[i] /\ i \in DOMAIN a
      BY <1>1, <1>2, <2>1
    <3> QED
      BY <3>1 DEF ToSet
  <2>2. CASE i > Len(a)
    <3>1. (a \o b)[i] = b[i - Len(a)] /\ i - Len(a) \in DOMAIN b
      BY <1>1, <1>2, <2>2
    <3> QED
      BY <3>1 DEF ToSet
  <2> QED
    BY <1>1, <2>1, <2>2
<1>4. ASSUME NEW i \in 1..Len(a) PROVE a[i] \in ToSet(a \o b)
  <2>1. (a \o b)[i] = a[i] /\ i \in DOMAIN (a \o b)
    BY <1>1, <1>2
  <2> QED
    BY <2>1 DEF ToSet
<1>5. ASSUME NEW i \in 1..Len(b) PROVE b[i] \in ToSet(a \o b)
  <2>1. (a \o b)[i + Len(a)] = b[i] /\ i + Len(a) \in DOMAIN (a \o b)
    BY <1>1, <1>2
  <2> QED
    BY <2>1 DEF ToSet
<1>6. ToSet(a \o b) \subseteq ToSet(a) \cup ToSet(b)
  BY <1>2, <1>3 DEF ToSet
<1>7. ToSet(a) \subseteq ToSet(a \o b)
  <2>1. ASSUME NEW z \in ToSet(a) PROVE z \in ToSet(a \o b)
    <3>1. PICK i \in 1..Len(a) : z = a[i]
      BY <1>2 DEF ToSet
    <3> QED
      BY <1>4, <3>1
  <2> QED
    BY <2>1
<1>8. ToSet(b) \subseteq ToSet(a \o b)
  <2>1. ASSUME NEW z \in ToSet(b) PROVE z \in ToSet(a \o b)
    <3>1. PICK i \in 1..Len(b) : z = b[i]
      BY <1>2 DEF ToSet
    <3> QED
      BY <1>5, <3>1
  <2> QED
    BY <2>1
<1> QED
  BY <1>6, <1>7, <1>8

\* The html of a message, what is added to it, and its text.
MainOf(b, person) == RenderWith(Escapes(person), Written(b.parts))
FooterOf(b, person) == IF LinkOf(person) \in ToSet(MainOf(b, person)) THEN <<>> ELSE <<LinkOf(person)>>
PixelOf(person, preview) == IF ~preview /\ person.pixel # Missing THEN <<person.pixel>> ELSE <<>>
TextFor(b, person) ==
  IF RidOf(b.text, {Blank}) # <<>> THEN RenderWith(Answers(person), b.text) ELSE HtmlToText(MainOf(b, person))

IsBuilt(b, person, preview, m) ==
  /\ m.to = person /\ m.preview = preview /\ m.subject = RenderWith(Answers(person), Written(b.parts))
  /\ m.main = MainOf(b, person)
  /\ m.html = MainOf(b, person) \o FooterOf(b, person) \o PixelOf(person, preview)
  /\ m.text = TextFor(b, person) \o <<LinkOf(person)>>
  /\ m.listUnsubscribe = IF person.link = Missing THEN {} ELSE {person.link}

\* What a built message is, field by field.
LEMMA BuildIs ==
  ASSUME NEW b, NEW person, NEW preview, NEW m, m = BuildMessage(b, person, preview)
  PROVE  IsBuilt(b, person, preview, m)
<1>1. PICK yes, s, h, f, p, t, l, h2, t2 :
        /\ yes = TRUE /\ s = RenderWith(Answers(person), Written(b.parts)) /\ h = MainOf(b, person) /\ f = FooterOf(b, person)
        /\ p = PixelOf(person, preview) /\ t = TextFor(b, person) /\ l = IF person.link = Missing THEN {} ELSE {person.link}
        /\ h2 = h \o f \o p /\ t2 = t \o <<LinkOf(person)>>
  OBVIOUS
<1>2. m = [built |-> yes, to |-> person, preview |-> preview, subject |-> s, main |-> h, html |-> h2, text |-> t2,
        listUnsubscribe |-> l]
  BY <1>1, Zenon DEF BuildMessage, MainOf, FooterOf, PixelOf, TextFor, RenderTemplate, RenderTemplateHtml, Answers, Escapes
<1>3. m.to = person /\ m.preview = preview /\ m.subject = s /\ m.main = h /\ m.html = h2 /\ m.text = t2 /\ m.listUnsubscribe = l
  BY <1>2
<1> QED
  BY <1>1, <1>3, Zenon DEF IsBuilt

\* A body as it is saved.
Saved(b) == b.parts \in Templates /\ b.text \in {HtmlToText(Written(b.parts)), <<>>}

\* The main part of the page is the saved body filled with the person's escaped values.
LEMMA MainIs ==
  ASSUME NEW person \in Persons, NEW b, Saved(b)
  PROVE  /\ MainOf(b, person) = FlattenSeq([k \in DOMAIN b.parts |-> FilledWith(b.parts[k], EscapeHtml(About(b.parts[k], person)))])
         /\ RenderWith(Answers(person), Written(b.parts)) =
              FlattenSeq([k \in DOMAIN b.parts |-> FilledWith(b.parts[k], About(b.parts[k], person))])
         /\ MainOf(b, person) \in Seq(Theirs(person))
<1>1. PICK parts : parts = b.parts
  OBVIOUS
<1>2. parts \in Templates
  BY <1>1 DEF Saved
<1>3. \A k \in DOMAIN parts : parts[k] \in Parts
  BY <1>2, TemplateIs
<1>4. Answers(person) \in [MergeNames -> Seq(Symbols)] /\ Escapes(person) \in [MergeNames -> Seq(Symbols)]
  BY AnswersTyped
<1>5. /\ RenderWith(Answers(person), Written(parts)) =
           FlattenSeq([k \in DOMAIN parts |-> FilledWith(parts[k], Given(parts[k], Answers(person)))])
      /\ RenderWith(Escapes(person), Written(parts)) =
           FlattenSeq([k \in DOMAIN parts |-> FilledWith(parts[k], Given(parts[k], Escapes(person)))])
  BY <1>2, <1>4, RenderWritten, Zenon
<1>6. \A k \in DOMAIN parts : /\ Given(parts[k], Answers(person)) = About(parts[k], person)
                              /\ Given(parts[k], Escapes(person)) = EscapeHtml(About(parts[k], person))
  BY <1>3, AboutIs
<1>7. /\ [k \in DOMAIN parts |-> FilledWith(parts[k], Given(parts[k], Answers(person)))] =
           [k \in DOMAIN parts |-> FilledWith(parts[k], About(parts[k], person))]
      /\ [k \in DOMAIN parts |-> FilledWith(parts[k], Given(parts[k], Escapes(person)))]
           = [k \in DOMAIN parts |-> FilledWith(parts[k], EscapeHtml(About(parts[k], person)))]
  BY <1>6
<1>8. FlattenSeq([k \in DOMAIN parts |-> FilledWith(parts[k], EscapeHtml(About(parts[k], person)))]) \in Seq(Theirs(person))
  BY <1>2, TheirsHtml
<1> QED
  BY <1>1, <1>5, <1>7, <1>8, Zenon DEF MainOf

\* The plain text of a message holds only its person's symbols.
LEMMA TextTyped ==
  ASSUME NEW person \in Persons, NEW b, Saved(b)
  PROVE  TextFor(b, person) \in Seq(Theirs(person))
<1>1. PICK D : D = Theirs(person)
  OBVIOUS
<1>2. HasEscapes(D) /\ HasBrackets(D) /\ Own(person) \subseteq D
  BY <1>1, TheirsIs
<1>3. HtmlToText(MainOf(b, person)) \in Seq(D)
  BY <1>1, <1>2, MainIs, ToTextTyped
<1>4. Written(b.parts) \in Seq(D)
  BY <1>1, TheirsHtml DEF Saved
<1>5. HtmlToText(Written(b.parts)) \in Seq(D) /\ <<>> \in Seq(D)
  BY <1>2, <1>4, ToTextTyped
<1>6. b.text \in Seq(D)
  BY <1>5 DEF Saved
<1>7. Answers(person) \in [MergeNames -> Seq(D)]
  <2>1. Answers(person) \in [MergeNames -> Seq(Own(person))]
    BY AnswersTyped
  <2>2. \A s \in Seq(Own(person)) : s \in Seq(D)
    BY <1>2, SeqWider
  <2> QED
    BY <2>1, <2>2
<1>8. RenderWith(Answers(person), b.text) \in Seq(D)
  BY <1>6, <1>7, RenderTyped
<1> QED
  BY <1>1, <1>3, <1>8 DEF TextFor

\* The links and pixels of a message.
LEMMA LinksMeant ==
  ASSUME NEW person \in Persons, NEW preview \in BOOLEAN, NEW b, Saved(b), preview => person = Sample,
           preview \/ person \in People
  PROVE  /\ ToSet(MainOf(b, person) \o FooterOf(b, person) \o PixelOf(person, preview)) \cap Links = {LinkOf(person)}
         /\ ToSet(TextFor(b, person) \o <<LinkOf(person)>>) \cap Links = {LinkOf(person)}
         /\ (IF person.link = Missing THEN {} ELSE {person.link}) = {person.link} \ {Missing}
         /\ ToSet(MainOf(b, person) \o FooterOf(b, person) \o PixelOf(person, preview)) \cap Pixels = (IF preview THEN {}
              ELSE {person.pixel})
<1>1. PICK link, main, footer, pixel, text, T :
        /\ link = LinkOf(person) /\ main = MainOf(b, person) /\ footer = FooterOf(b, person) /\ pixel = PixelOf(person, preview)
        /\ text = TextFor(b, person) /\ T = Theirs(person)
  OBVIOUS
<1>2. link \in Links /\ T \subseteq Symbols /\ T \cap Pixels = {} /\ T \cap Links = {link} /\ link \in T
  BY <1>1, PersonIs, TheirsIs DEF Theirs
<1>3. main \in Seq(T) /\ text \in Seq(T)
  BY <1>1, MainIs, TextTyped
<1>4. footer = (IF link \in ToSet(main) THEN <<>> ELSE <<link>>)
  BY <1>1, Zenon DEF FooterOf
<1>5. footer \in Seq(T) /\ <<link>> \in Seq(T)
  BY <1>2, <1>4
<1>6. Links \cap Pixels = {} /\ Missing \notin Pixels /\ Pixels \subseteq Symbols
  BY SymbolsAssumption
<1>7. (preview => person.pixel = Missing) /\ (~preview => person.pixel \in Pixels)
  BY PeopleAssumption
<1>8. pixel = IF preview THEN <<>> ELSE <<person.pixel>>
  BY <1>1, <1>6, <1>7 DEF PixelOf
<1>9. ToSet(pixel) = IF preview THEN {} ELSE {person.pixel}
  BY <1>8, ToSetIs
<1>10. main \in Seq(Symbols) /\ footer \in Seq(Symbols) /\ pixel \in Seq(Symbols)
  <2>1. main \in Seq(Symbols) /\ footer \in Seq(Symbols)
    BY <1>2, <1>3, <1>5, SeqWider, Zenon
  <2>2. pixel \in Seq(Symbols)
    BY <1>6, <1>7, <1>8
  <2> QED
    BY <2>1, <2>2
<1>11. ToSet(main \o footer) = ToSet(main) \cup ToSet(footer) /\ main \o footer \in Seq(Symbols)
  BY <1>10, ToSetJoined, Joined
<1>12. PICK mf : mf = main \o footer
  OBVIOUS
<1>13. ToSet(mf \o pixel) = ToSet(mf) \cup ToSet(pixel)
  <2>1. mf \in Seq(Symbols) /\ pixel \in Seq(Symbols)
    BY <1>10, <1>11, <1>12
  <2> QED
    BY <2>1, ToSetJoined
<1>14. ToSet(main) \subseteq T /\ ToSet(text) \subseteq T /\ ToSet(<<link>>) = {link}
  BY <1>3, ToSetIs
<1>15. ToSet(footer) = IF link \in ToSet(main) THEN {} ELSE {link}
  BY <1>4, ToSetIs
<1>16. ToSet(text \o <<link>>) = ToSet(text) \cup ToSet(<<link>>)
  BY <1>3, <1>5, ToSetJoined
<1>17. ToSet(mf \o pixel) \cap Links = {link}
  BY <1>2, <1>6, <1>7, <1>9, <1>11, <1>12, <1>13, <1>14, <1>15
<1>18. ToSet(mf \o pixel) \cap Pixels = (IF preview THEN {} ELSE {person.pixel})
  BY <1>2, <1>6, <1>7, <1>9, <1>11, <1>12, <1>13, <1>14, <1>15
<1>19. ToSet(text \o <<link>>) \cap Links = {link}
  BY <1>2, <1>14, <1>16
<1>20. (IF person.link = Missing THEN {} ELSE {person.link}) = {person.link} \ {Missing}
  OBVIOUS
<1> QED
  BY <1>1, <1>12, <1>17, <1>18, <1>19, <1>20

\* A function over 1..n is a sequence.
LEMMA FunctionIsSeq ==
  ASSUME NEW S, NEW n \in Nat, NEW f, f = [k \in 1..n |-> f[k]], \A k \in 1..n : f[k] \in S
  PROVE  f \in Seq(S)
<1>1. f \in [1..n -> S]
  OBVIOUS
<1> QED
  BY <1>1

\* What the text of a message says, without white space.
LEMMA TextMeant ==
  ASSUME NEW person \in Persons, NEW b, Saved(b)
  PROVE  RidOf(TextFor(b, person) \o <<LinkOf(person)>>, {Blank}) =
           RidOf(FlattenSeq([k \in DOMAIN b.parts |->
                               LET value == About(b.parts[k], person)
                               IN Appears(b.parts[k], value, IF b.text = <<>> THEN EscapeHtml(value) ELSE b.parts[k].spelled)])
                   \o <<LinkOf(person)>>, {Blank})
<1>1. PICK parts, link, text : parts = b.parts /\ link = LinkOf(person) /\ text = TextFor(b, person)
  OBVIOUS
<1>2. parts \in Templates /\ b.text \in {HtmlToText(Written(parts)), <<>>}
  BY <1>1 DEF Saved
<1>3. PICK as : as = [k \in DOMAIN parts |->
                        LET value == About(parts[k], person)
                        IN Appears(parts[k], value, IF b.text = <<>> THEN EscapeHtml(value) ELSE parts[k].spelled)]
  OBVIOUS
<1>4. link \in Links /\ Theirs(person) \subseteq Symbols
  BY <1>1, PersonIs, TheirsIs
<1>5. text \in Seq(Symbols) /\ <<link>> \in Seq(Symbols)
  <2>1. text \in Seq(Theirs(person)) /\ link \in Symbols
    BY <1>1, <1>4, TextTyped, SymbolsAssumption
  <2> QED
    BY <1>4, <2>1, SeqWider, SeqOfOne, Zenon
<1>6. as \in Seq(Seq(Symbols))
  <2>1. DOMAIN parts = 1..Len(parts) /\ Len(parts) \in Nat /\ \A k \in DOMAIN parts : parts[k] \in Parts
    BY <1>2, TemplateIs
  <2>2. ASSUME NEW p \in Parts, NEW met PROVE Appears(p, About(p, person), met) \in Seq(Symbols)
    <3>1. About(p, person) \in Seq(Own(person)) /\ Own(person) \subseteq Symbols
      BY AboutIs, PersonIs, ValuesAreSymbols
    <3>2. p.shown \in Seq(Symbols) /\ About(p, person) \in Seq(Symbols)
      BY <3>1, ShownTight, SeqWider, Zenon
    <3>3. p.shown \o About(p, person) \in Seq(Symbols) /\ Bracketed(p.shown, About(p, person)) \in Seq(Symbols)
      BY <3>2, TightJoined, TightBrackets
    <3> QED
      BY <3>2, <3>3, Zenon DEF Appears, Bracketed
  <2>3. \A k \in DOMAIN parts : as[k] = Appears(parts[k], About(parts[k], person),
                                               IF b.text = <<>> THEN EscapeHtml(About(parts[k], person)) ELSE parts[k].spelled)
    BY <1>3
  <2>4. \A k \in 1..Len(parts) : as[k] \in Seq(Symbols)
    <3>1. ASSUME NEW k \in 1..Len(parts) PROVE as[k] \in Seq(Symbols)
      <4>1. k \in DOMAIN parts /\ parts[k] \in Parts
        BY <2>1
      <4>2. PICK p, met : p = parts[k] /\ met = IF b.text = <<>> THEN EscapeHtml(About(parts[k], person)) ELSE parts[k].spelled
        OBVIOUS
      <4>3. as[k] = Appears(p, About(p, person), met) /\ p \in Parts
        BY <2>3, <4>1, <4>2, Zenon
      <4> QED
        BY <2>2, <4>3
    <3> QED
      BY <3>1
  <2>5. as = [k \in DOMAIN parts |-> as[k]]
    BY <1>3
  <2> QED
    BY <2>1, <2>4, <2>5, FunctionIsSeq
<1>7. Tight(text) = Tight(FlattenSeq(as))
  <2>1. CASE b.text = <<>>
    <3>1. RidOf(b.text, {Blank}) = <<>>
      BY <2>1, RidNone
    <3>2. text = HtmlToText(FlattenSeq([k \in DOMAIN parts |-> FilledWith(parts[k], EscapeHtml(About(parts[k], person)))]))
      BY <1>1, <3>1, MainIs, Zenon DEF TextFor
    <3>3. as = [k \in DOMAIN parts |-> Appears(parts[k], About(parts[k], person), EscapeHtml(About(parts[k], person)))]
      BY <1>3, <2>1
    <3> QED
      BY <1>2, <3>2, <3>3, MadeOfHtml, Zenon
  <2>2. CASE b.text # <<>>
    <3>1. b.text = HtmlToText(Written(parts))
      BY <1>2, <2>2
    <3>2. Tight(HtmlToText(Written(parts))) = HtmlToText(Written(parts))
      BY <1>2, MadeOfTemplate
    <3>3. RidOf(b.text, {Blank}) # <<>>
      BY <2>2, <3>1, <3>2 DEF Tight
    <3>4. text = RenderWith(Answers(person), HtmlToText(Written(parts)))
      BY <1>1, <3>1, <3>3, Zenon DEF TextFor
    <3>5. as = [k \in DOMAIN parts |-> Appears(parts[k], About(parts[k], person), parts[k].spelled)]
      BY <1>3, <2>2
    <3> QED
      BY <1>2, <3>4, <3>5, MadeOfTemplate, Zenon
  <2> QED
    BY <2>1, <2>2
<1>8. PICK f : f = FlattenSeq(as)
  OBVIOUS
<1>9. f \in Seq(Symbols)
  BY <1>6, <1>8, FlatTyped
<1>10. Tight(text \o <<link>>) = Tight(text) \o Tight(<<link>>)
  BY <1>5, TightJoined
<1>11. Tight(f \o <<link>>) = Tight(f) \o Tight(<<link>>)
  BY <1>5, <1>9, TightJoined
<1>12. Tight(text \o <<link>>) = Tight(FlattenSeq(as) \o <<link>>)
  BY <1>7, <1>8, <1>10, <1>11, Zenon
<1> QED
  BY <1>1, <1>3, <1>12, Zenon DEF Tight

-----------------------------------------------------------------------------
\* A message is what the body and its recipient make it.
MessageInv ==
  /\ Saved(body)
  /\ Built => \E person \in Persons, preview \in BOOLEAN :
                /\ preview => person = Sample
                /\ preview \/ person \in People
                /\ message = BuildMessage(body, person, preview)

\* A message that the invariant describes is the one its author meant.
LEMMA MeantByInv == MessageInv => MessageIsMeant
<1> SUFFICES ASSUME MessageInv, Built PROVE MessageIsMeant
  BY Zenon DEF MessageIsMeant, RenderedAsMeant, LinksAreTheRecipients, TextSaysWhatIsShown
<1>1. PICK person \in Persons, preview \in BOOLEAN :
        (preview => person = Sample) /\ (preview \/ person \in People) /\ message = BuildMessage(body, person, preview)
  BY Zenon DEF MessageInv
<1>2. Saved(body)
  BY DEF MessageInv
<1>3. PICK m : m = message
  OBVIOUS
<1>4. /\ m.to = person /\ m.preview = preview /\ m.subject = RenderWith(Answers(person), Written(body.parts))
      /\ m.main = MainOf(body, person)
      /\ m.html = MainOf(body, person) \o FooterOf(body, person) \o PixelOf(person, preview)
      /\ m.text = TextFor(body, person) \o <<LinkOf(person)>>
      /\ m.listUnsubscribe = IF person.link = Missing THEN {} ELSE {person.link}
  <2>0. PICK b : b = body
    OBVIOUS
  <2>1. m = BuildMessage(b, person, preview)
    BY <1>1, <1>3, <2>0
  <2>2. IsBuilt(b, person, preview, m)
    BY <2>1, BuildIs, Zenon
  <2> QED
    BY <2>0, <2>2, Zenon DEF IsBuilt
<1>5. RenderedAsMeant
  BY <1>2, <1>3, <1>4, MainIs, Zenon DEF RenderedAsMeant
<1>6. LinksAreTheRecipients
  <2>0. PICK b : b = body
    OBVIOUS
  <2>1. /\ ToSet(MainOf(b, person) \o FooterOf(b, person) \o PixelOf(person, preview)) \cap Links = {LinkOf(person)}
        /\ ToSet(TextFor(b, person) \o <<LinkOf(person)>>) \cap Links = {LinkOf(person)}
        /\ (IF person.link = Missing THEN {} ELSE {person.link}) = {person.link} \ {Missing}
        /\ ToSet(MainOf(b, person) \o FooterOf(b, person) \o PixelOf(person, preview)) \cap Pixels = (IF preview THEN {}
             ELSE {person.pixel})
    BY <1>1, <1>2, <2>0, LinksMeant
  <2> QED
    BY <1>3, <1>4, <2>0, <2>1, Zenon DEF LinksAreTheRecipients
<1>7. TextSaysWhatIsShown
  <2>0. PICK b : b = body
    OBVIOUS
  <2>1. RidOf(TextFor(b, person) \o <<LinkOf(person)>>, {Blank}) =
           RidOf(FlattenSeq([k \in DOMAIN b.parts |->
                               LET value == About(b.parts[k], person)
                               IN Appears(b.parts[k], value, IF b.text = <<>> THEN EscapeHtml(value) ELSE b.parts[k].spelled)])
                   \o <<LinkOf(person)>>, {Blank})
    BY <1>2, <2>0, TextMeant
  <2> QED
    BY <1>3, <1>4, <2>0, <2>1, Zenon DEF TextSaysWhatIsShown
<1> QED
  BY <1>5, <1>6, <1>7 DEF MessageIsMeant

\* The invariant holds before a message is built.
LEMMA MessageStarts == MessageInit => MessageInv
<1> SUFFICES ASSUME MessageInit PROVE MessageInv
  OBVIOUS
<1>0. PICK parts \in Templates : \E text \in {HtmlToText(Written(parts)), <<>>} : MessageStart(parts, text)
  BY Zenon DEF MessageInit
<1>1. PICK text \in {HtmlToText(Written(parts)), <<>>} : MessageStart(parts, text)
  BY <1>0
<1>2. PICK no : no = FALSE
  OBVIOUS
<1>3. body = [parts |-> parts, text |-> text] /\ message = [built |-> no]
  BY <1>1, <1>2, Zenon DEF MessageStart
<1>4. body.parts = parts /\ body.text = text /\ message.built = no
  BY <1>3
<1>5. ~Built
  BY <1>2, <1>4, Zenon DEF Built
<1> QED
  BY <1>4, <1>5, Zenon DEF MessageInv, Saved

\* Delivering or previewing a message keeps the invariant.
LEMMA MessageSteps == MessageInv /\ [MessageNext]_messageVars => MessageInv'
<1> SUFFICES ASSUME MessageInv, [MessageNext]_messageVars PROVE MessageInv'
  OBVIOUS
<1>1. Saved(body)
  BY DEF MessageInv
<1>2. CASE Deliver
  <2>1. PICK person \in People : message' = BuildMessage(body, person, FALSE) /\ body' = body
    BY <1>2, Zenon DEF Deliver
  <2>2. person \in Persons /\ FALSE \in BOOLEAN
    BY DEF Persons
  <2>3. Saved(body')
    BY <1>1, <2>1, Zenon
  <2> QED
    BY <2>1, <2>2, <2>3, Zenon DEF MessageInv, Saved
<1>3. CASE ShowPreview
  <2>1. message' = BuildMessage(body, Sample, TRUE) /\ body' = body
    BY <1>3, Zenon DEF ShowPreview
  <2>2. Sample \in Persons /\ TRUE \in BOOLEAN
    BY DEF Persons
  <2>3. Saved(body')
    BY <1>1, <2>1, Zenon
  <2> QED
    BY <2>1, <2>2, <2>3, Zenon DEF MessageInv, Saved
<1>4. CASE UNCHANGED messageVars
  <2>1. body' = body /\ message' = message
    BY <1>4 DEF messageVars
  <2> QED
    BY <2>1, Zenon DEF MessageInv, Built, Saved
<1> QED
  BY <1>2, <1>3, <1>4, Zenon DEF MessageNext

\* A message says, in html and in text, what its template means to its recipient, with that
\* recipient's links and nobody else's (personalize.ts, html.ts, message-builder.ts).
THEOREM MessageIsAlwaysMeant == MessageSpec => []MessageIsMeant
<1>1. MessageInit => MessageInv
  BY MessageStarts
<1>2. MessageInv /\ [MessageNext]_messageVars => MessageInv'
  BY MessageSteps
<1>3. MessageInv => MessageIsMeant
  BY MeantByInv
<1> QED
  BY <1>1, <1>2, <1>3, PTL DEF MessageSpec
================================================================================
