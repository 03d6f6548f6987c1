---------------------------- MODULE ParserProofs ----------------------------
(***************************************************************************)
(* Proofs about Parser: worker::parse and read_loop hand over exactly the  *)
(* messages that sertop has terminated, for every size of the buffer.      *)
(*                                                                         *)
(* The terminators of a stream are counted by their marks: e[k] is the     *)
(* position of the k-th one, and e[0] = 0.  What parse computes is stated  *)
(* with the marks of its input, and proved by induction on their number,   *)
(* for which the induction principle is stated with sets.                  *)
(***************************************************************************)
EXTENDS Parser, SequenceTheorems, FiniteSetTheorems, WellFoundedInduction, TLAPS

(***************************************************************************)
(* Induction.                                                              *)
(***************************************************************************)

\* A set that holds 0, and the successor of each of its members below m, holds all
\* numbers up to m.
LEMMA SetInduction ==
  ASSUME NEW m \in Nat, NEW P, 0 \in P, \A k \in 0 .. m - 1 : k \in P => k + 1 \in P
  PROVE  0 .. m \subseteq P
<1> SUFFICES ASSUME ~(0 .. m \subseteq P) PROVE FALSE
  OBVIOUS
<1> DEFINE R == {p \in Nat \X Nat : p[1] < p[2]}
           T == 0 .. m \ P
<1>1. IsWellFoundedOn(R, Nat)
  BY NatLessThanWellFounded DEF OpToRel
<1>2. T \subseteq Nat /\ T # {}
  OBVIOUS
<1>3. PICK x \in T : \A y \in T : <<y, x>> \notin R
  <2> HIDE DEF R, T
  <2> QED
    BY <1>1, <1>2, WFMin
<1>4. x \in Nat /\ x # 0 /\ x <= m /\ x \notin P
  OBVIOUS
<1>5. x - 1 \in Nat /\ <<x - 1, x>> \in R
  BY <1>4
<1>6. x - 1 \notin T
  BY <1>3, <1>5
<1>7. x - 1 \in 0 .. m - 1 /\ x - 1 \in P
  BY <1>4, <1>6
<1>8. (x - 1) + 1 \in P
  BY <1>7
<1>9. (x - 1) + 1 = x
  BY <1>4
<1> QED
  BY <1>4, <1>8, <1>9

(***************************************************************************)
(* Sequences and their parts.                                              *)
(***************************************************************************)

\* What SubSeq returns, for a part that may be empty.
LEMMA PartOf ==
  ASSUME NEW S, NEW s \in Seq(S), NEW a \in Nat, NEW b \in Nat, 1 <= a, a <= b + 1, b <= Len(s)
  PROVE  /\ SubSeq(s, a, b) \in Seq(S)
         /\ Len(SubSeq(s, a, b)) = b + 1 - a
         /\ \A p \in 1 .. b + 1 - a : SubSeq(s, a, b)[p] = s[a + p - 1]
<1>1. Len(s) \in Nat
  BY LenProperties
<1>2. \A p \in a .. b : s[p] \in S
  BY <1>1, ElementOfSeq
<1>3. /\ SubSeq(s, a, b) \in Seq(S)
      /\ Len(SubSeq(s, a, b)) = IF a <= b THEN b - a + 1 ELSE 0
      /\ \A p \in 1 .. b - a + 1 : SubSeq(s, a, b)[p] = s[a + p - 1]
  BY <1>2, SubSeqProperties
<1> QED
  BY <1>3

\* t holds the len elements of s that follow the d-th one.
Agrees(t, s, d, len) ==
  /\ s \in Seq(Char) /\ t \in Seq(Char) /\ d \in Nat /\ len \in Nat
  /\ d + len <= Len(s) /\ len <= Len(t) /\ \A p \in 1 .. len : t[p] = s[d + p]

\* A part of t is the part of s that lies d further on.
SameParts(t, s, d, len) ==
  \A a, b \in Nat : 1 <= a /\ a <= b + 1 /\ b <= len =>
    SubSeq(t, a, b) = SubSeq(s, d + a, d + b)

\* Sequences that agree have the same parts.
LEMMA PartMoved ==
  ASSUME NEW s, NEW t, NEW d \in Nat, NEW len \in Nat, Agrees(t, s, d, len)
  PROVE  SameParts(t, s, d, len)
<1> SUFFICES ASSUME NEW a \in Nat, NEW b \in Nat, 1 <= a, a <= b + 1, b <= len
             PROVE  SubSeq(t, a, b) = SubSeq(s, d + a, d + b)
  BY DEF SameParts
<1>1. /\ s \in Seq(Char) /\ t \in Seq(Char) /\ d \in Nat /\ len \in Nat
      /\ d + len <= Len(s) /\ len <= Len(t)
  BY DEF Agrees
<1>2. Len(s) \in Nat /\ Len(t) \in Nat /\ b <= Len(t)
  BY <1>1, LenProperties
<1> DEFINE n == b + 1 - a
<1>3. n \in Nat /\ d + a \in Nat /\ d + b \in Nat /\ 1 <= d + a /\ d + a <= d + b + 1
      /\ d + b <= Len(s) /\ d + b + 1 - (d + a) = n
  BY <1>1, <1>2
<1>4. /\ SubSeq(t, a, b) \in Seq(Char) /\ Len(SubSeq(t, a, b)) = n
      /\ \A p \in 1 .. n : SubSeq(t, a, b)[p] = t[a + p - 1]
  BY <1>1, <1>2, PartOf
<1>5. /\ SubSeq(s, d + a, d + b) \in Seq(Char) /\ Len(SubSeq(s, d + a, d + b)) = n
      /\ \A p \in 1 .. n : SubSeq(s, d + a, d + b)[p] = s[d + a + p - 1]
  BY <1>1, <1>3, PartOf
<1>6. ASSUME NEW p \in 1 .. n PROVE SubSeq(t, a, b)[p] = SubSeq(s, d + a, d + b)[p]
  <2>1. a + p - 1 \in 1 .. len /\ d + (a + p - 1) = d + a + p - 1
    BY <1>1, <1>2
  <2>2. t[a + p - 1] = s[d + (a + p - 1)]
    BY <2>1 DEF Agrees
  <2> QED
    BY <1>4, <1>5, <2>1, <2>2
<1> HIDE DEF n
<1> QED
  BY <1>4, <1>5, <1>6, SeqEqual

(***************************************************************************)
(* The marks of a stream.                                                  *)
(***************************************************************************)

\* e[1] to e[n] are the positions of the terminators among the first len characters.
Marks(e, n, s, len) ==
  /\ n \in Nat /\ e \in [0 .. n -> Nat] /\ e[0] = 0
  /\ \A j, k \in 0 .. n : j < k => e[j] < e[k]
  /\ \A k \in 1 .. n : e[k] \in 1 .. len /\ s[e[k]] = NUL
  /\ \A p \in 1 .. len : s[p] = NUL => \E k \in 1 .. n : e[k] = p

\* The messages between the marks.
Cut(s, e, n) == [k \in 1 .. n |-> SubSeq(s, e[k - 1] + 1, e[k] - 1)]

\* f marks what e marks, and maybe more.
Extends(f, m, e, n) == n <= m /\ \A k \in 0 .. n : f[k] = e[k]

\* A longer part of a stream has marks that extend those of a shorter one.
LEMMA MarksExtend ==
  ASSUME NEW s, NEW len \in Nat, NEW more \in Nat, NEW n, NEW e, Marks(e, n, s, len)
  PROVE  \E m, f : Marks(f, m, s, len + more) /\ Extends(f, m, e, n)
<1> DEFINE P == {k \in Nat : \E m, f : Marks(f, m, s, len + k) /\ Extends(f, m, e, n)}
<1>1. 0 \in P
  <2>1. len + 0 = len
    OBVIOUS
  <2>2. Extends(e, n, e, n)
    BY DEF Extends, Marks
  <2> QED
    BY <2>1, <2>2
<1>2. ASSUME NEW k \in Nat, k \in P PROVE k + 1 \in P
  <2>1. PICK m, f : Marks(f, m, s, len + k) /\ Extends(f, m, e, n)
    BY <1>2
  <2> DEFINE q == len + (k + 1)
  <2>2. q = len + k + 1 /\ q \in Nat /\ m \in Nat /\ n \in Nat /\ n <= m
    BY <2>1 DEF Marks, Extends
  <2>3. /\ \A p \in 1 .. q : p = q \/ p \in 1 .. len + k
        /\ \A p \in 1 .. len + k : p \in 1 .. q /\ p < q
        /\ 0 < q
    OBVIOUS
  <2> HIDE DEF q
  <2>4. CASE s[q] # NUL
    <3>1. /\ \A j \in 1 .. m : f[j] \in 1 .. q /\ s[f[j]] = NUL
          /\ \A p \in 1 .. q : s[p] = NUL => \E j \in 1 .. m : f[j] = p
      BY <2>3, <2>1, <2>4 DEF Marks
    <3>2. Marks(f, m, s, q)
      BY <2>1, <3>1 DEF Marks
    <3> QED
      BY <2>1, <3>2 DEF q
  <2>5. CASE s[q] = NUL
    <3> DEFINE g == [j \in 0 .. m + 1 |-> IF j = m + 1 THEN q ELSE f[j]]
    <3>1. \A j \in 0 .. m : f[j] \in Nat /\ f[j] < q
      <4> SUFFICES ASSUME NEW j \in 0 .. m PROVE f[j] \in Nat /\ f[j] < q
        OBVIOUS
      <4>1. CASE j = 0
        BY <2>3, <2>1, <4>1 DEF Marks
      <4>2. CASE j \in 1 .. m
        BY <2>3, <2>1, <4>2 DEF Marks
      <4> QED
        BY <2>2, <4>1, <4>2
    <3>2. /\ \A j \in 0 .. m : g[j] = f[j] /\ f[j] \in Nat /\ f[j] < q
          /\ g[m + 1] = q /\ g \in [0 .. m + 1 -> Nat]
      BY <2>2, <3>1
    <3> HIDE DEF g
    <3>3. g[0] = 0
      BY <2>1, <2>2, <3>2 DEF Marks
    <3>4. \A i, j \in 0 .. m + 1 : i < j => g[i] < g[j]
      <4> SUFFICES ASSUME NEW i \in 0 .. m + 1, NEW j \in 0 .. m + 1, i < j
                   PROVE  g[i] < g[j]
        OBVIOUS
      <4>1. i \in 0 .. m
        BY <2>2
      <4>2. CASE j = m + 1
        BY <3>2, <4>1, <4>2
      <4>3. CASE j \in 0 .. m
        BY <2>1, <3>2, <4>1, <4>3 DEF Marks
      <4> QED
        BY <2>2, <4>2, <4>3
    <3>5. \A j \in 1 .. m + 1 : g[j] \in 1 .. q /\ s[g[j]] = NUL
      <4> SUFFICES ASSUME NEW j \in 1 .. m + 1 PROVE g[j] \in 1 .. q /\ s[g[j]] = NUL
        OBVIOUS
      <4>1. CASE j = m + 1
        BY <2>2, <2>5, <3>2, <4>1
      <4>2. CASE j \in 1 .. m
        BY <2>1, <2>2, <3>2, <4>2 DEF Marks
      <4> QED
        BY <2>2, <4>1, <4>2
    <3>6. \A p \in 1 .. q : s[p] = NUL => \E j \in 1 .. m + 1 : g[j] = p
      <4> SUFFICES ASSUME NEW p \in 1 .. q, s[p] = NUL PROVE \E j \in 1 .. m + 1 : g[j] = p
        OBVIOUS
      <4>1. CASE p = q
        BY <2>2, <3>2, <4>1
      <4>2. CASE p \in 1 .. len + k
        <5>1. PICK j \in 1 .. m : f[j] = p
          BY <2>1, <4>2 DEF Marks
        <5> QED
          BY <2>2, <3>2, <5>1
      <4> QED
        BY <2>2, <4>1, <4>2
    <3>7. Marks(g, m + 1, s, q)
      BY <2>2, <3>2, <3>3, <3>4, <3>5, <3>6 DEF Marks
    <3>8. Extends(g, m + 1, e, n)
      BY <2>1, <2>2, <3>2 DEF Extends
    <3> QED
      BY <3>7, <3>8 DEF q
  <2> QED
    BY <2>4, <2>5
<1> HIDE DEF P
<1>3. \A k \in 0 .. more - 1 : k \in P => k + 1 \in P
  BY <1>2
<1>4. 0 .. more \subseteq P
  BY <1>1, <1>3, SetInduction, Zenon
<1>5. more \in P
  BY <1>4
<1> QED
  BY <1>5 DEF P

\* The marks count the terminators up to each of them.
LEMMA MarksCount ==
  ASSUME NEW S, NEW s \in Seq(S), NEW n, NEW e, Marks(e, n, s, Len(s)), NEW k \in 0 .. n
  PROVE  Cardinality({q \in {p \in DOMAIN s : s[p] = NUL} : q <= e[k]}) = k
<1> DEFINE Q == {q \in {p \in DOMAIN s : s[p] = NUL} : q <= e[k]}
           f == [j \in 1 .. k |-> e[j]]
<1>1. n \in Nat /\ k \in Nat /\ DOMAIN s = 1 .. Len(s) /\ e \in [0 .. n -> Nat]
  BY LenProperties DEF Marks
<1>2. ASSUME NEW j \in 1 .. k PROVE e[j] \in Q
  <2>1. j \in 1 .. n /\ j \in 0 .. n /\ k \in 0 .. n /\ (j < k \/ j = k)
    BY <1>1
  <2>2. e[j] \in 1 .. Len(s) /\ s[e[j]] = NUL
    BY <2>1 DEF Marks
  <2>3. e[j] < e[k] \/ e[j] = e[k]
    BY <2>1 DEF Marks
  <2>4. e[j] \in Nat /\ e[k] \in Nat
    BY <1>1, <2>1
  <2>5. e[j] <= e[k]
    BY <2>3, <2>4
  <2> QED
    BY <1>1, <2>2, <2>5
<1>3. ASSUME NEW q \in Q PROVE \E j \in 1 .. k : e[j] = q
  <2>1. q \in 1 .. Len(s) /\ s[q] = NUL /\ q <= e[k]
    BY <1>1
  <2>2. PICK j \in 1 .. n : e[j] = q
    BY <2>1 DEF Marks
  <2>3. j \in 0 .. n /\ e[j] \in Nat /\ e[k] \in Nat
    BY <1>1, <2>2
  <2>4. ~(k < j)
    <3>1. k < j => e[k] < e[j]
      BY <2>3 DEF Marks
    <3> QED
      BY <2>1, <2>2, <2>3, <3>1
  <2> QED
    BY <1>1, <2>2, <2>4
<1>4. ASSUME NEW i \in 1 .. k, NEW j \in 1 .. k, e[i] = e[j] PROVE i = j
  <2>1. i \in 0 .. n /\ j \in 0 .. n /\ e[i] \in Nat /\ e[j] \in Nat
    BY <1>1
  <2>2. (i < j => e[i] < e[j]) /\ (j < i => e[j] < e[i])
    BY <2>1 DEF Marks
  <2> QED
    BY <1>4, <2>1, <2>2
<1> HIDE DEF Q
<1>5. f \in Bijection(1 .. k, Q)
  BY <1>2, <1>3, <1>4 DEF Bijection, Injection, Surjection, IsInjective
<1>6. ExistsBijection(1 .. k, Q)
  BY <1>5 DEF ExistsBijection
<1>7. Cardinality(Q) = k
  BY <1>1, <1>6, FS_CountingElements
<1> QED
  BY <1>7 DEF Q

\* SertopStream counts as Parser does.
LEMMA SameCardinality == \A S : Abstract!Cardinality(S) = Cardinality(S)
BY DEF Abstract!Cardinality, Cardinality

\* The messages of a stream lie between its marks.
LEMMA MarksCut ==
  ASSUME NEW S, NEW s \in Seq(S), NEW n, NEW e, Marks(e, n, s, Len(s))
  PROVE  /\ Cardinality({p \in DOMAIN s : s[p] = NUL}) = n
         /\ Abstract!Messages(s) = Cut(s, e, n)
<1> DEFINE E == {p \in DOMAIN s : s[p] = NUL}
           Up(p) == {q \in E : q <= p}
<1>1. n \in Nat /\ DOMAIN s = 1 .. Len(s) /\ e \in [0 .. n -> Nat] /\ e[0] = 0
  BY LenProperties DEF Marks
<1>2. \A k \in 0 .. n : Cardinality(Up(e[k])) = k
  BY MarksCount
<1>3. \A k \in 1 .. n : e[k] \in E
  BY <1>1 DEF Marks
<1>4. \A p \in E : \E k \in 1 .. n : e[k] = p
  BY <1>1 DEF Marks
<1>5. Up(e[n]) = E
  <2> SUFFICES ASSUME NEW p \in E PROVE p <= e[n]
    OBVIOUS
  <2>1. PICK k \in 1 .. n : e[k] = p
    BY <1>4
  <2>2. n \in 0 .. n /\ k \in 0 .. n /\ (k < n \/ k = n)
    BY <1>1
  <2>3. e[k] \in Nat /\ e[n] \in Nat /\ (e[k] < e[n] \/ e[k] = e[n])
    BY <1>1, <2>2 DEF Marks
  <2> QED
    BY <2>1, <2>3
<1>6. Cardinality(E) = n
  <2>1. Cardinality(Up(e[n])) = n
    BY <1>1, <1>2
  <2> QED
    BY <1>5, <2>1
<1>7. Abstract!Ends(s) = E
  BY DEF Abstract!Ends
<1>8. ASSUME NEW k \in 1 .. n PROVE Abstract!End(s, k) = e[k]
  <2>1. e[k] \in E /\ Cardinality(Up(e[k])) = k
    BY <1>1, <1>2, <1>3
  <2>2. ASSUME NEW p \in E, Cardinality(Up(p)) = k PROVE p = e[k]
    <3>1. PICK j \in 1 .. n : e[j] = p
      BY <1>4
    <3>2. j \in 0 .. n
      BY <1>1
    <3>3. Cardinality(Up(e[j])) = j
      BY <1>2, <3>2
    <3> QED
      BY <2>2, <3>1, <3>3
  <2> HIDE DEF E
  <2>3. Abstract!End(s, k) = CHOOSE p \in E : Cardinality(Up(p)) = k
    BY <1>7, SameCardinality DEF Abstract!End
  <2> HIDE DEF Up
  <2> QED
    BY <2>1, <2>2, <2>3
<1> HIDE DEF E, Up
<1>9. ASSUME NEW k \in 1 .. n
      PROVE  SubSeq(s, IF k = 1 THEN 1 ELSE Abstract!End(s, k - 1) + 1, Abstract!End(s, k) - 1)
             = SubSeq(s, e[k - 1] + 1, e[k] - 1)
  <2>1. Abstract!End(s, k) = e[k]
    BY <1>8
  <2>2. (IF k = 1 THEN 1 ELSE Abstract!End(s, k - 1) + 1) = e[k - 1] + 1
    <3>1. CASE k = 1
      <4>1. k - 1 = 0
        BY <3>1
      <4>2. e[k - 1] + 1 = 1
        BY <1>1, <4>1
      <4> QED
        BY <3>1, <4>2
    <3>2. CASE k # 1
      <4>1. k - 1 \in 1 .. n
        BY <1>1, <3>2
      <4> QED
        BY <1>8, <3>2, <4>1
    <3> QED
      BY <3>1, <3>2
  <2> QED
    BY <2>1, <2>2
<1>10. Abstract!Messages(s)
      = [k \in 1 .. n |->
           SubSeq(s, IF k = 1 THEN 1 ELSE Abstract!End(s, k - 1) + 1, Abstract!End(s, k) - 1)]
  BY <1>6, <1>7, SameCardinality DEF Abstract!Messages
<1>11. Abstract!Messages(s) = Cut(s, e, n)
  BY <1>9, <1>10 DEF Cut
<1> QED
  BY <1>6, <1>11 DEF E

(***************************************************************************)
(* What worker::parse returns.                                             *)
(***************************************************************************)

\* A null-terminated string ends in front of the next mark.
LEMMA StringEnds ==
  ASSUME NEW S, NEW raw \in Seq(S), NEW m, NEW f, Marks(f, m, raw, Len(raw)), NEW k \in 1 .. m
  PROVE  /\ f[k - 1] \in Nat /\ f[k] \in Nat /\ f[k - 1] < f[k] /\ f[k] <= Len(raw)
         /\ CString(raw, f[k - 1] + 1) = SubSeq(raw, f[k - 1] + 1, f[k] - 1)
         /\ Len(CString(raw, f[k - 1] + 1)) = f[k] - f[k - 1] - 1
<1> DEFINE a == f[k - 1]
           b == f[k]
           stops == {p \in a + 1 .. Len(raw) : raw[p] = NUL} \union {Len(raw) + 1}
<1>1. m \in Nat /\ k - 1 \in 0 .. m /\ k \in 0 .. m /\ k - 1 < k /\ Len(raw) \in Nat
  BY LenProperties DEF Marks
<1>2. a \in Nat /\ b \in Nat /\ a < b /\ b <= Len(raw) /\ raw[b] = NUL
  BY <1>1 DEF Marks
<1>3. ASSUME NEW p \in a + 1 .. Len(raw), raw[p] = NUL PROVE b <= p
  <2>1. p \in 1 .. Len(raw)
    BY <1>1, <1>2
  <2>2. PICK j \in 1 .. m : f[j] = p
    BY <1>3, <2>1 DEF Marks
  <2>3. j \in 0 .. m
    BY <1>1
  <2>4. (j < k - 1 => f[j] < f[k - 1]) /\ (k < j => f[k] < f[j])
    BY <1>1, <2>3 DEF Marks
  <2>5. a < f[j] /\ f[j] \in Nat
    BY <1>1, <1>2, <2>1, <2>2
  <2> HIDE DEF a, b
  <2>6. ~(j < k - 1) /\ j # k - 1
    BY <1>2, <2>4, <2>5 DEF a
  <2>7. j = k \/ k < j
    BY <1>1, <2>3, <2>6
  <2> QED
    BY <1>2, <2>2, <2>4, <2>5, <2>7 DEF b
<1>4. b \in stops /\ \A p \in stops : b <= p
  <2> HIDE DEF a, b
  <2> QED
    BY <1>1, <1>2, <1>3
<1>5. \A p \in stops : p \in Nat
  <2> HIDE DEF a, b
  <2> QED
    BY <1>1, <1>2
<1>6. Min(stops) = b
  <2> HIDE DEF a, b, stops
  <2> QED
    <3>1. \A x \in stops : (\A y \in stops : x <= y) => x = b
      BY <1>2, <1>4, <1>5
    <3>2. Min(stops) = CHOOSE x \in stops : \A y \in stops : x <= y
      BY DEF Min
    <3> QED
      BY <1>4, <3>1, <3>2, Zenon
<1>7. CString(raw, a + 1) = SubSeq(raw, a + 1, b - 1)
  BY <1>6 DEF CString
<1>8. Len(SubSeq(raw, a + 1, b - 1)) = b - a - 1
  <2> HIDE DEF a, b
  <2>1. a + 1 \in Nat /\ b - 1 \in Nat /\ 1 <= a + 1 /\ a + 1 <= (b - 1) + 1 /\ b - 1 <= Len(raw)
        /\ (b - 1) + 1 - (a + 1) = b - a - 1
    BY <1>1, <1>2
  <2> QED
    BY <2>1, PartOf
<1> QED
  BY <1>2, <1>7, <1>8

\* One message more.
LEMMA CutGrows ==
  ASSUME NEW raw, NEW f, NEW k \in Nat \ {0}
  PROVE  Append(Cut(raw, f, k - 1), SubSeq(raw, f[k - 1] + 1, f[k] - 1)) = Cut(raw, f, k)
<1> DEFINE c(j) == SubSeq(raw, f[j - 1] + 1, f[j] - 1)
           V == {c(j) : j \in 1 .. k}
<1> HIDE DEF c
<1>1. Cut(raw, f, k - 1) = [j \in 1 .. k - 1 |-> c(j)] /\ Cut(raw, f, k) = [j \in 1 .. k |-> c(j)]
  BY DEF Cut, c
<1>2. \A j \in 1 .. k : c(j) \in V
  OBVIOUS
<1> HIDE DEF V
<1>3. Cut(raw, f, k - 1) \in Seq(V) /\ Len(Cut(raw, f, k - 1)) = k - 1
  <2>1. k - 1 \in Nat /\ \A j \in 1 .. k - 1 : c(j) \in V
    BY <1>2
  <2>2. [j \in 1 .. k - 1 |-> c(j)] \in [1 .. k - 1 -> V]
    BY <2>1
  <2>3. [1 .. k - 1 -> V] \subseteq Seq(V)
    BY <2>1
  <2> QED
    BY <1>1, <2>1, <2>2, <2>3
<1>4. c(k) \in V
  BY <1>2
<1>5. /\ Append(Cut(raw, f, k - 1), c(k)) \in Seq(V)
      /\ Len(Append(Cut(raw, f, k - 1), c(k))) = k
      /\ \A j \in 1 .. k - 1 : Append(Cut(raw, f, k - 1), c(k))[j] = c(j)
      /\ Append(Cut(raw, f, k - 1), c(k))[k] = c(k)
  BY <1>1, <1>3, <1>4, AppendProperties
<1>6. DOMAIN Append(Cut(raw, f, k - 1), c(k)) = 1 .. k
  BY <1>5, LenProperties
<1>7. \A j \in 1 .. k : Append(Cut(raw, f, k - 1), c(k))[j] = c(j)
  BY <1>5
<1>8. Append(Cut(raw, f, k - 1), c(k)) = [j \in 1 .. k |-> c(j)]
  BY <1>5, <1>6, <1>7
<1> QED
  BY <1>1, <1>8 DEF c

\* The state of the loop behind the k-th message.
Behind(raw, f, k) == [ptr |-> f[k] + 1, read |-> Len(raw) - f[k], result |-> Cut(raw, f, k)]

\* Each iteration takes the message in front of one mark.
LEMMA IterationTakes ==
  ASSUME NEW S, NEW raw \in Seq(S), NEW m, NEW f, Marks(f, m, raw, Len(raw)), NEW k \in 1 .. m
  PROVE  TakeMessage(raw, Behind(raw, f, k - 1)) = Behind(raw, f, k)
<1> DEFINE a == f[k - 1]
           b == f[k]
           message == CString(raw, a + 1)
<1>1. m \in Nat /\ k \in Nat \ {0} /\ Len(raw) \in Nat
  BY LenProperties DEF Marks
<1>2. /\ a \in Nat /\ b \in Nat /\ message = SubSeq(raw, a + 1, b - 1)
      /\ Len(message) = b - a - 1
  BY StringEnds
<1>3. Append(Cut(raw, f, k - 1), message) = Cut(raw, f, k)
  BY <1>1, <1>2, CutGrows
<1>4. /\ Behind(raw, f, k - 1).ptr = a + 1 /\ Behind(raw, f, k - 1).read = Len(raw) - a
      /\ Behind(raw, f, k - 1).result = Cut(raw, f, k - 1)
  BY DEF Behind
<1>5. Behind(raw, f, k) = [ptr |-> b + 1, read |-> Len(raw) - b, result |-> Cut(raw, f, k)]
  BY DEF Behind
<1>6. TakeMessage(raw, Behind(raw, f, k - 1))
      = [ptr |-> a + 1 + Len(message) + 1, read |-> Len(raw) - a - (Len(message) + 1),
         result |-> Append(Cut(raw, f, k - 1), message)]
  BY <1>4 DEF TakeMessage
<1> HIDE DEF a, b, message
<1>7. a + 1 + Len(message) + 1 = b + 1 /\ Len(raw) - a - (Len(message) + 1) = Len(raw) - b
  BY <1>1, <1>2
<1> QED
  BY <1>3, <1>5, <1>6, <1>7

\* The loop takes all messages.
LEMMA LoopTakes ==
  ASSUME NEW S, NEW raw \in Seq(S), NEW m, NEW f, Marks(f, m, raw, Len(raw))
  PROVE  Loop(raw, Len(raw), m) = Behind(raw, f, m)
<1> DEFINE first == [ptr |-> 1, read |-> Len(raw), result |-> <<>>]
           Step(g) == [k \in 0 .. m |-> IF k = 0 THEN first ELSE TakeMessage(raw, g[k - 1])]
           w == [k \in 0 .. m |-> Behind(raw, f, k)]
           state == CHOOSE g : g = Step(g)
<1>1. m \in Nat /\ f[0] = 0 /\ Len(raw) \in Nat
  BY LenProperties DEF Marks
<1>2. Behind(raw, f, 0) = first
  <2>1. Cut(raw, f, 0) = <<>>
    BY DEF Cut
  <2> QED
    BY <1>1, <2>1 DEF Behind
<1>3. \A k \in 1 .. m : TakeMessage(raw, Behind(raw, f, k - 1)) = Behind(raw, f, k)
  BY IterationTakes
<1> HIDE DEF first
<1>4. w = Step(w)
  <2>1. ASSUME NEW k \in 0 .. m
        PROVE  w[k] = IF k = 0 THEN first ELSE TakeMessage(raw, w[k - 1])
    <3>1. CASE k = 0
      BY <1>2, <3>1
    <3>2. CASE k # 0
      <4>1. k \in 1 .. m /\ k - 1 \in 0 .. m
        BY <1>1, <3>2
      <4> QED
        BY <1>3, <3>2, <4>1
    <3> QED
      BY <3>1, <3>2
  <2> QED
    BY <2>1
<1>5. state = Step(state)
  <2> HIDE DEF w, Step
  <2> QED
    BY <1>4
<1>6. m \in {k \in 0 .. m : state[k] = Behind(raw, f, k)}
  <2> DEFINE P == {k \in 0 .. m : state[k] = Behind(raw, f, k)}
  <2> HIDE DEF state
  <2>1. \A k \in 0 .. m :
          state[k] = IF k = 0 THEN first ELSE TakeMessage(raw, state[k - 1])
    BY <1>5
  <2>2. 0 \in P
    BY <1>1, <1>2, <2>1
  <2>3. \A k \in 0 .. m - 1 : k \in P => k + 1 \in P
    <3> SUFFICES ASSUME NEW k \in 0 .. m - 1, k \in P PROVE k + 1 \in P
      OBVIOUS
    <3>1. k + 1 \in 1 .. m /\ k + 1 \in 0 .. m /\ (k + 1) - 1 = k /\ k + 1 # 0
      BY <1>1
    <3>2. state[k + 1] = TakeMessage(raw, state[k])
      BY <2>1, <3>1
    <3>3. TakeMessage(raw, Behind(raw, f, k)) = Behind(raw, f, k + 1)
      BY <1>3, <3>1
    <3> QED
      BY <3>1, <3>2, <3>3
  <2> HIDE DEF P
  <2>4. 0 .. m \subseteq P
    BY <1>1, <2>2, <2>3, SetInduction, Zenon
  <2> QED
    BY <1>1, <2>4 DEF P
<1>7. Loop(raw, Len(raw), m) = state[m]
  BY DEF Loop, first
<1> QED
  BY <1>6, <1>7

\* parse splits its input at the marks.
LEMMA ParseCuts ==
  ASSUME NEW S, NEW buffer \in Seq(S), NEW prefix \in Seq(S), NEW m, NEW f,
         Marks(f, m, prefix \o buffer, Len(prefix \o buffer))
  PROVE  Parse(buffer, prefix)
         = [messages |-> Cut(prefix \o buffer, f, m),
            remainder |-> SubSeq(prefix \o buffer, f[m] + 1, Len(prefix \o buffer))]
<1> DEFINE raw == prefix \o buffer
           count == Cardinality({p \in DOMAIN raw : raw[p] = NUL})
           final == Loop(raw, Len(buffer) + Len(prefix), count)
<1>1. /\ raw \in Seq(S) /\ Len(raw) = Len(buffer) + Len(prefix)
      /\ Len(buffer) \in Nat /\ Len(prefix) \in Nat /\ Len(raw) \in Nat
  BY ConcatProperties, LenProperties
<1>2. count = m
  BY <1>1, MarksCut
<1>3. m \in Nat /\ f[m] \in Nat /\ f[0] = 0
  BY DEF Marks
<1>4. Parse(buffer, prefix)
      = IF count > 0 THEN [messages |-> final.result, remainder |-> Rest(raw, final)]
        ELSE [messages |-> <<>>, remainder |-> raw]
  BY DEF Parse
<1> HIDE DEF count
<1>5. final = Behind(raw, f, m)
  BY <1>1, <1>2, LoopTakes
<1> HIDE DEF raw, final
<1>6. CASE m = 0
  <2>1. Cut(raw, f, m) = <<>>
    BY <1>6 DEF Cut
  <2>2. SubSeq(raw, f[m] + 1, Len(raw)) = raw
    <3>1. f[m] + 1 = 1
      BY <1>3, <1>6
    <3>2. SubSeq(raw, 1, Len(raw)) = raw
      BY <1>1, SubSeqFull
    <3> QED
      BY <3>1, <3>2
  <2>3. ~(count > 0)
    BY <1>2, <1>6
  <2> QED
    BY <1>4, <2>1, <2>2, <2>3 DEF raw
<1>7. CASE m > 0
  <2>1. f[m] <= Len(raw)
    BY <1>1, <1>3, <1>7 DEF Marks, raw
  <2>2. /\ final.ptr = f[m] + 1 /\ final.read = Len(raw) - f[m]
        /\ final.result = Cut(raw, f, m)
    BY <1>5 DEF Behind
  <2>3. Rest(raw, final) = SubSeq(raw, f[m] + 1, Len(raw))
    <3> DEFINE t == f[m]
               n == Len(raw)
    <3>1. t \in Nat /\ n \in Nat /\ t <= n /\ n = Len(raw)
          /\ final.ptr = t + 1 /\ final.read = n - t
      BY <1>1, <1>3, <2>1, <2>2
    <3> HIDE DEF t, n
    <3>2. CASE t = n
      <4>1. final.read = 0
        BY <3>1, <3>2
      <4>2. Rest(raw, final) = <<>>
        BY <4>1 DEF Rest
      <4>3. SubSeq(raw, t + 1, n) \in Seq(S) /\ Len(SubSeq(raw, t + 1, n)) = 0
        <5>1. t + 1 \in Nat /\ 1 <= t + 1 /\ t + 1 <= n + 1 /\ n <= Len(raw) /\ n + 1 - (t + 1) = 0
          BY <3>1, <3>2
        <5> QED
          BY <1>1, <3>1, <5>1, PartOf
      <4>4. SubSeq(raw, t + 1, n) = <<>>
        BY <4>3, EmptySeq
      <4> QED
        BY <4>2, <4>4 DEF t, n
    <3>3. CASE t # n
      <4>1. final.read # 0 /\ final.ptr + final.read - 1 = n
        BY <3>1, <3>3
      <4> QED
        BY <3>1, <4>1 DEF Rest, t, n
    <3> QED
      BY <3>2, <3>3
  <2>4. count > 0
    BY <1>2, <1>7
  <2> QED
    BY <1>4, <2>2, <2>3, <2>4 DEF raw
<1> QED
  BY <1>3, <1>6, <1>7

(***************************************************************************)
(* Parsing a stream part by part.                                          *)
(***************************************************************************)

\* Marks are ordered, and bounded by the part that they mark.
LEMMA MarkBounds ==
  ASSUME NEW s, NEW len \in Nat, NEW n, NEW e, Marks(e, n, s, len)
  PROVE  /\ \A k \in 0 .. n : e[k] \in Nat /\ e[k] <= len
         /\ \A k \in 1 .. n : /\ k - 1 \in 0 .. n /\ k \in 0 .. n /\ e[k - 1] < e[k]
                              /\ e[k - 1] + 1 \in Nat /\ e[k] - 1 \in Nat
                              /\ 1 <= e[k - 1] + 1 /\ e[k - 1] + 1 <= (e[k] - 1) + 1
                              /\ e[k] - 1 <= len
<1>1. n \in Nat
  BY DEF Marks
<1>2. ASSUME NEW k \in 0 .. n PROVE e[k] \in Nat /\ e[k] <= len
  <2>1. CASE k = 0
    BY <2>1 DEF Marks
  <2>2. CASE k \in 1 .. n
    BY <2>2 DEF Marks
  <2> QED
    BY <1>1, <2>1, <2>2
<1>3. ASSUME NEW k \in 1 .. n
      PROVE  /\ k - 1 \in 0 .. n /\ k \in 0 .. n /\ e[k - 1] < e[k]
             /\ e[k - 1] + 1 \in Nat /\ e[k] - 1 \in Nat
             /\ 1 <= e[k - 1] + 1 /\ e[k - 1] + 1 <= (e[k] - 1) + 1 /\ e[k] - 1 <= len
  <2> DEFINE a == e[k - 1]
             b == e[k]
  <2>1. k - 1 \in 0 .. n /\ k \in 0 .. n /\ k - 1 < k
    BY <1>1
  <2>2. a < b
    BY <2>1 DEF Marks
  <2>3. a \in Nat /\ b \in Nat /\ b <= len
    BY <1>2, <2>1
  <2> HIDE DEF a, b
  <2>4. /\ a + 1 \in Nat /\ b - 1 \in Nat /\ 1 <= a + 1 /\ a + 1 <= (b - 1) + 1 /\ b - 1 <= len
    BY <2>2, <2>3
  <2> QED
    BY <2>1, <2>2, <2>4 DEF a, b
<1> QED
  BY <1>2, <1>3

\* A sequence that agrees with another on a part has the same marks and messages there.
LEMMA SameMarks ==
  ASSUME NEW s, NEW t, NEW len \in Nat, Agrees(t, s, 0, len), NEW n, NEW e, Marks(e, n, s, len)
  PROVE  /\ Marks(e, n, t, len) /\ Cut(t, e, n) = Cut(s, e, n)
         /\ SubSeq(t, e[n] + 1, len) = SubSeq(s, e[n] + 1, len)
<1>1. \A p \in 1 .. len : t[p] = s[p]
  BY DEF Agrees
<1>2. Marks(e, n, t, len)
  BY <1>1 DEF Marks
<1>3. SameParts(t, s, 0, len)
  BY PartMoved
<1>4. \A a, b \in Nat : 1 <= a /\ a <= b + 1 /\ b <= len => SubSeq(t, a, b) = SubSeq(s, a, b)
  <2> SUFFICES ASSUME NEW a \in Nat, NEW b \in Nat, 1 <= a, a <= b + 1, b <= len
               PROVE  SubSeq(t, a, b) = SubSeq(s, a, b)
    OBVIOUS
  <2>1. SubSeq(t, a, b) = SubSeq(s, 0 + a, 0 + b)
    BY <1>3 DEF SameParts
  <2> QED
    BY <2>1
<1>5. \A k \in 1 .. n : SubSeq(t, e[k - 1] + 1, e[k] - 1) = SubSeq(s, e[k - 1] + 1, e[k] - 1)
  BY <1>4, MarkBounds
<1>6. Cut(t, e, n) = Cut(s, e, n)
  BY <1>5 DEF Cut
<1>7. SubSeq(t, e[n] + 1, len) = SubSeq(s, e[n] + 1, len)
  <2>1. n \in 0 .. n
    BY DEF Marks
  <2>2. e[n] \in Nat /\ e[n] <= len
    BY <2>1, MarkBounds
  <2> DEFINE a == e[n] + 1
  <2>3. a \in Nat /\ 1 <= a /\ a <= len + 1 /\ len <= len
    BY <2>2
  <2> HIDE DEF a
  <2>4. SubSeq(t, a, len) = SubSeq(s, a, len)
    BY <1>4, <2>3, Zenon
  <2> QED
    BY <2>4 DEF a
<1> QED
  BY <1>2, <1>6, <1>7

\* The marks g[n] to g[m], counted from g[n].
Shift(g, m, n) == [k \in 0 .. m - n |-> g[n + k] - g[n]]

\* Behind the n-th mark, the marks are those of what follows it.
LEMMA MarksBehind ==
  ASSUME NEW s, NEW t, NEW m, NEW g, NEW n, NEW len \in Nat, NEW d, n \in 0 .. m, d = g[n],
         Marks(g, m, s, d + len), Agrees(t, s, d, len)
  PROVE  Marks(Shift(g, m, n), m - n, t, len)
<1> DEFINE f == [k \in 0 .. m - n |-> g[n + k] - d]
<1>1. m \in Nat /\ n \in Nat /\ m - n \in Nat /\ d \in Nat /\ g \in [0 .. m -> Nat]
  BY DEF Marks
<1>2. \A k \in 0 .. m - n : n + k \in 0 .. m
  BY <1>1
<1>3. ASSUME NEW k \in 1 .. m - n
      PROVE  /\ n + k \in 1 .. m /\ n + k \in 0 .. m /\ d < g[n + k] /\ g[n + k] \in Nat
             /\ g[n + k] <= d + len
  <2>1. n + k \in 1 .. m /\ n + k \in 0 .. m /\ n < n + k
    BY <1>1
  <2>2. g[n] < g[n + k]
    BY <2>1 DEF Marks
  <2>3. g[n + k] \in 1 .. d + len
    BY <2>1 DEF Marks
  <2> QED
    BY <1>1, <2>1, <2>2, <2>3
<1>4. f \in [0 .. m - n -> Nat] /\ f[0] = 0
  <2>1. ASSUME NEW k \in 0 .. m - n PROVE g[n + k] - d \in Nat
    <3>1. CASE k = 0
      BY <1>1, <3>1
    <3>2. CASE k \in 1 .. m - n
      <4> DEFINE x == g[n + k]
      <4>1. d < x /\ x \in Nat
        BY <1>3, <3>2
      <4> HIDE DEF x
      <4>2. x - d \in Nat
        BY <1>1, <4>1
      <4> QED
        BY <4>2 DEF x
    <3> QED
      BY <1>1, <3>1, <3>2
  <2>2. 0 \in 0 .. m - n /\ n + 0 = n
    BY <1>1
  <2>3. f[0] = g[n] - d
    BY <2>2
  <2>4. f \in [0 .. m - n -> Nat]
    BY <2>1
  <2> HIDE DEF f
  <2>5. f[0] = 0
    BY <1>1, <2>3
  <2> QED
    BY <2>4, <2>5
<1>5. \A j, k \in 0 .. m - n : j < k => f[j] < f[k]
  <2> SUFFICES ASSUME NEW j \in 0 .. m - n, NEW k \in 0 .. m - n, j < k PROVE f[j] < f[k]
    OBVIOUS
  <2> DEFINE x == g[n + j]
             y == g[n + k]
  <2>1. n + j \in 0 .. m /\ n + k \in 0 .. m /\ n + j < n + k
    BY <1>1
  <2>2. x < y
    BY <2>1 DEF Marks
  <2>3. x \in Nat /\ y \in Nat /\ f[j] = x - d /\ f[k] = y - d
    BY <1>1, <2>1
  <2> HIDE DEF x, y, f
  <2>4. d \in Nat /\ x - d < y - d
    BY <1>1, <2>2, <2>3
  <2> QED
    BY <2>3, <2>4, Zenon
<1>6. \A k \in 1 .. m - n : f[k] \in 1 .. len /\ t[f[k]] = NUL
  <2> SUFFICES ASSUME NEW k \in 1 .. m - n PROVE f[k] \in 1 .. len /\ t[f[k]] = NUL
    OBVIOUS
  <2> DEFINE x == g[n + k]
  <2>1. d < x /\ x \in Nat /\ x <= d + len /\ n + k \in 1 .. m
    BY <1>3
  <2>2. s[x] = NUL
    BY <2>1 DEF Marks
  <2>3. f[k] = x - d
    BY <1>1
  <2> HIDE DEF x, f
  <2>4. f[k] \in 1 .. len /\ d + f[k] = x
    BY <1>1, <2>1, <2>3
  <2>5. \A p \in 1 .. len : t[p] = s[d + p]
    BY DEF Agrees
  <2>6. t[f[k]] = s[d + f[k]]
    BY <2>4, <2>5, Zenon
  <2> QED
    BY <2>2, <2>4, <2>6, Zenon
<1>7. \A p \in 1 .. len : t[p] = NUL => \E k \in 1 .. m - n : f[k] = p
  <2> SUFFICES ASSUME NEW p \in 1 .. len, t[p] = NUL PROVE \E k \in 1 .. m - n : f[k] = p
    OBVIOUS
  <2>1. d + p \in 1 .. d + len /\ s[d + p] = NUL
    <3>1. d + p \in 1 .. d + len
      BY <1>1
    <3>2. t[p] = s[d + p]
      BY DEF Agrees
    <3> QED
      BY <3>1, <3>2
  <2>2. PICK j \in 1 .. m : g[j] = d + p
    BY <2>1 DEF Marks
  <2>3. j \in 0 .. m /\ d < d + p
    BY <1>1
  <2>4. ~(j < n) /\ j # n
    <3>1. j < n => g[j] < g[n]
      BY <2>3 DEF Marks
    <3>2. ~(g[j] < d) /\ g[j] # d
      BY <1>1, <2>2, <2>3
    <3> QED
      BY <3>1, <3>2
  <2>5. j - n \in 1 .. m - n /\ j - n \in 0 .. m - n /\ n + (j - n) = j
    BY <1>1, <2>3, <2>4
  <2>6. f[j - n] = g[j] - d
    BY <2>5
  <2>7. f[j - n] = p
    <3> HIDE DEF f
    <3> QED
      BY <1>1, <2>2, <2>6
  <2> QED
    BY <2>5, <2>7
<1> QED
  <2> HIDE DEF f
  <2>1. Marks(f, m - n, t, len)
    BY <1>1, <1>4, <1>5, <1>6, <1>7 DEF Marks
  <2> QED
    BY <2>1 DEF f, Shift

\* After the first len characters of s, the messages in them have been handed over as
\* out, and rem is left.
Parsed(s, len, rem, out, n, e) ==
  /\ Marks(e, n, s, len) /\ out = Cut(s, e, n) /\ rem = SubSeq(s, e[n] + 1, len)

\* Positions counted from d.
LEMMA CountedFrom ==
  ASSUME NEW d \in Nat, NEW x \in Nat, NEW a, a = x - d
  PROVE  d + (a + 1) = x + 1 /\ d + (a - 1) = x - 1
OBVIOUS

\* raw is what follows the n-th of the m marks of s, at d, and f its marks.
Continues(raw, f, len, s, g, m, n, d) ==
  /\ len \in Nat /\ d \in Nat /\ Agrees(raw, s, d, len) /\ Marks(f, m - n, raw, len)
  /\ m \in Nat /\ n \in 0 .. m /\ g \in [0 .. m -> Nat]
  /\ \A k \in 0 .. m - n : f[k] = g[n + k] - d

\* The messages of a part, followed by those behind it, are the messages of the whole.
LEMMA CutJoins ==
  ASSUME NEW raw, NEW f, NEW len, NEW s, NEW g, NEW m, NEW n, NEW d,
         Continues(raw, f, len, s, g, m, n, d)
  PROVE  Cut(s, g, n) \o Cut(raw, f, m - n) = Cut(s, g, m)
<1> DEFINE c(j) == SubSeq(s, g[j - 1] + 1, g[j] - 1)
           V == {c(j) : j \in 1 .. m}
<1>1. /\ len \in Nat /\ d \in Nat /\ m \in Nat /\ n \in Nat /\ m - n \in Nat
      /\ g \in [0 .. m -> Nat]
  BY DEF Continues
<1>2. Agrees(raw, s, d, len) /\ Marks(f, m - n, raw, len)
  BY DEF Continues
<1>3. Cut(s, g, n) = [j \in 1 .. n |-> c(j)] /\ Cut(s, g, m) = [j \in 1 .. m |-> c(j)]
  BY DEF Cut
<1>4. ASSUME NEW k \in 1 .. m - n
      PROVE  SubSeq(raw, f[k - 1] + 1, f[k] - 1) = c(n + k)
  <2> DEFINE a == f[k - 1]
             b == f[k]
             x == g[n + (k - 1)]
             y == g[n + k]
  <2>1. /\ a + 1 \in Nat /\ b - 1 \in Nat /\ 1 <= a + 1 /\ a + 1 <= (b - 1) + 1 /\ b - 1 <= len
        /\ k - 1 \in 0 .. m - n /\ k \in 0 .. m - n
    BY <1>1, <1>2, MarkBounds
  <2>2. SubSeq(raw, a + 1, b - 1) = SubSeq(s, d + (a + 1), d + (b - 1))
    <3> HIDE DEF a, b
    <3>1. SameParts(raw, s, d, len)
      BY <1>1, <1>2, PartMoved
    <3> QED
      BY <2>1, <3>1 DEF SameParts
  <2>3. a = g[n + (k - 1)] - d /\ b = y - d
    BY <2>1 DEF Continues
  <2>4. SubSeq(raw, f[k - 1] + 1, f[k] - 1) = SubSeq(raw, a + 1, b - 1)
        /\ c(n + k) = SubSeq(s, x + 1, y - 1)
    <3>1. (n + k) - 1 = n + (k - 1)
      BY <1>1
    <3> QED
      BY <3>1
  <2>5. n + (k - 1) \in 0 .. m /\ n + k \in 0 .. m
    BY <1>1
  <2>6. a = x - d /\ x \in Nat /\ y \in Nat
    BY <1>1, <2>3, <2>5
  <2> HIDE DEF a, b, x, y, c
  <2>7. d + (a + 1) = x + 1 /\ d + (b - 1) = y - 1
    <3>1. d \in Nat /\ x \in Nat /\ y \in Nat /\ a = x - d /\ b = y - d
      BY <1>1, <2>3, <2>6
    <3>2. d + (a + 1) = x + 1
      <4>1. d + ((x - d) + 1) = x + 1
        BY <3>1
      <4> QED
        BY <3>1, <4>1, Zenon
    <3>3. d + (b - 1) = y - 1
      <4>1. d + ((y - d) - 1) = y - 1
        BY <3>1
      <4> QED
        BY <3>1, <4>1, Zenon
    <3> QED
      BY <3>2, <3>3
  <2>8. SubSeq(raw, a + 1, b - 1) = SubSeq(s, x + 1, y - 1)
    BY <2>2, <2>7
  <2> QED
    BY <2>8, <2>4
<1>5. \A j \in 1 .. m : c(j) \in V
  OBVIOUS
<1> HIDE DEF c, V
<1>6. Cut(s, g, n) \in Seq(V) /\ Len(Cut(s, g, n)) = n
      /\ \A j \in 1 .. n : Cut(s, g, n)[j] = c(j)
  <2>1. [j \in 1 .. n |-> c(j)] \in [1 .. n -> V]
    BY <1>1, <1>5
  <2>2. [1 .. n -> V] \subseteq Seq(V)
    BY <1>1
  <2> QED
    BY <1>1, <1>3, <2>1, <2>2
<1>7. Cut(raw, f, m - n) \in Seq(V) /\ Len(Cut(raw, f, m - n)) = m - n
      /\ \A k \in 1 .. m - n : Cut(raw, f, m - n)[k] = c(n + k)
  <2>1. Cut(raw, f, m - n) = [k \in 1 .. m - n |-> c(n + k)]
    BY <1>4 DEF Cut
  <2>2. \A k \in 1 .. m - n : n + k \in 1 .. m
    BY <1>1
  <2>3. [k \in 1 .. m - n |-> c(n + k)] \in [1 .. m - n -> V]
    BY <1>5, <2>2
  <2> DEFINE h == m - n
  <2> HIDE DEF h
  <2>4. [1 .. h -> V] \subseteq Seq(V)
    BY <1>1 DEF h
  <2>5. Cut(raw, f, h) = [k \in 1 .. h |-> c(n + k)] /\ h \in Nat
    BY <1>1, <2>1 DEF h
  <2>6. Cut(raw, f, h) \in Seq(V)
    BY <2>3, <2>4, <2>5 DEF h
  <2>7. Len(Cut(raw, f, h)) = h /\ \A k \in 1 .. h : Cut(raw, f, h)[k] = c(n + k)
    BY <2>5
  <2> QED
    BY <2>6, <2>7 DEF h
<1>8. Cut(s, g, m) \in Seq(V) /\ Len(Cut(s, g, m)) = m
      /\ \A j \in 1 .. m : Cut(s, g, m)[j] = c(j)
  <2>1. [j \in 1 .. m |-> c(j)] \in [1 .. m -> V]
    BY <1>5
  <2>2. [1 .. m -> V] \subseteq Seq(V)
    BY <1>1
  <2> QED
    BY <1>1, <1>3, <2>1, <2>2
<1> DEFINE u == Cut(s, g, n)
           v == Cut(raw, f, m - n)
           w == Cut(s, g, m)
<1>9. /\ u \in Seq(V) /\ v \in Seq(V) /\ Len(u) = n /\ Len(v) = m - n
      /\ \A j \in 1 .. n : u[j] = c(j)
      /\ \A k \in 1 .. m - n : v[k] = c(n + k)
  BY <1>6, <1>7
<1>10. w \in Seq(V) /\ Len(w) = m /\ \A j \in 1 .. m : w[j] = c(j)
  BY <1>8
<1> HIDE DEF u, v, w
<1>11. /\ u \o v \in Seq(V) /\ Len(u \o v) = n + (m - n)
      /\ \A j \in 1 .. n + (m - n) : (u \o v)[j] = IF j <= n THEN u[j] ELSE v[j - n]
  <2>1. u \in Seq(V) /\ v \in Seq(V)
    BY <1>9
  <2>2. /\ u \o v \in Seq(V) /\ Len(u \o v) = Len(u) + Len(v)
        /\ \A j \in 1 .. Len(u) + Len(v) :
             (u \o v)[j] = IF j <= Len(u) THEN u[j] ELSE v[j - Len(u)]
    BY <2>1, ConcatProperties
  <2> QED
    BY <1>9, <2>2, Zenon
<1>12. n + (m - n) = m
  BY <1>1
<1>13. ASSUME NEW j \in 1 .. m PROVE (u \o v)[j] = c(j)
  <2>1. CASE j <= n
    <3>1. j \in 1 .. n
      BY <1>1, <2>1
    <3> QED
      BY <1>9, <1>11, <1>12, <2>1, <3>1
  <2>2. CASE ~(j <= n)
    <3>1. j - n \in 1 .. m - n /\ n + (j - n) = j
      BY <1>1, <2>2
    <3> QED
      BY <1>9, <1>11, <1>12, <2>2, <3>1
  <2> QED
    BY <2>1, <2>2
<1>14. u \o v = w
  BY <1>10, <1>11, <1>12, <1>13, SeqEqual
<1> QED
  BY <1>14 DEF u, v, w

\* One call of parse hands over the messages that its buffer terminates.
LEMMA ParseStep ==
  ASSUME NEW s, NEW len \in Nat, NEW buffer \in Seq(Char), Agrees(buffer, s, len, Len(buffer)),
         NEW rem, NEW out, NEW n, NEW e, Parsed(s, len, rem, out, n, e)
  PROVE  \E m, g : /\ Parsed(s, len + Len(buffer), Parse(buffer, rem).remainder,
                             out \o Parse(buffer, rem).messages, m, g)
                   /\ Extends(g, m, e, n)
<1> DEFINE d == e[n]
           more == Len(buffer)
           raw == rem \o buffer
<1>1. /\ more \in Nat /\ Len(s) \in Nat /\ len + more <= Len(s)
      /\ Marks(e, n, s, len) /\ rem = SubSeq(s, d + 1, len) /\ n \in Nat
  BY LenProperties DEF Parsed, Marks, Agrees
<1>2. s \in Seq(Char)
  BY DEF Agrees
<1>3. d \in Nat /\ d <= len
  <2>1. n \in 0 .. n
    BY <1>1
  <2> QED
    BY <1>1, <2>1, MarkBounds
<1>4. PICK m, g : Marks(g, m, s, len + more) /\ Extends(g, m, e, n)
  <2> HIDE DEF more
  <2> QED
    BY <1>1, MarksExtend
<1>5. m \in Nat /\ n \in 0 .. m /\ d = g[n] /\ m - n \in Nat
  BY <1>1, <1>4 DEF Marks, Extends
<1> HIDE DEF d
<1>6. /\ rem \in Seq(Char) /\ Len(rem) = len - d
      /\ \A p \in 1 .. len - d : rem[p] = s[d + p]
  <2>1. d + 1 \in Nat /\ 1 <= d + 1 /\ d + 1 <= len + 1 /\ len <= Len(s)
        /\ len + 1 - (d + 1) = len - d
    BY <1>1, <1>3
  <2> DEFINE a == d + 1
  <2>2. a \in Nat /\ len \in Nat /\ 1 <= a /\ a <= len + 1 /\ len <= Len(s)
    BY <2>1
  <2> HIDE DEF a
  <2>3. /\ SubSeq(s, a, len) \in Seq(Char) /\ Len(SubSeq(s, a, len)) = len + 1 - a
        /\ \A p \in 1 .. len + 1 - a : SubSeq(s, a, len)[p] = s[a + p - 1]
    BY <1>2, <2>2, PartOf
  <2>4. rem = SubSeq(s, a, len) /\ len + 1 - a = len - d
        /\ \A p \in 1 .. len - d : a + p - 1 = d + p
    BY <1>1, <1>3 DEF a
  <2> QED
    BY <2>3, <2>4
<1>7. /\ raw \in Seq(Char) /\ Len(raw) = len - d + more
      /\ \A p \in 1 .. len - d + more :
           raw[p] = IF p <= len - d THEN rem[p] ELSE buffer[p - (len - d)]
  <2>1. /\ raw \in Seq(Char) /\ Len(raw) = Len(rem) + Len(buffer)
        /\ \A p \in 1 .. Len(rem) + Len(buffer) :
             raw[p] = IF p <= Len(rem) THEN rem[p] ELSE buffer[p - Len(rem)]
    BY <1>6, ConcatProperties
  <2> QED
    BY <1>6, <2>1, Zenon
<1> DEFINE total == len - d + more
<1>8. total \in Nat /\ d + total = len + more
  <2> HIDE DEF more
  <2> QED
    BY <1>1, <1>3
<1>9. ASSUME NEW p \in 1 .. total PROVE raw[p] = s[d + p]
  <2>1. CASE p <= len - d
    <3>1. p \in 1 .. len - d
      BY <2>1
    <3> QED
      BY <1>6, <1>7, <2>1, <3>1
  <2>2. CASE ~(p <= len - d)
    <3>1. p - (len - d) \in 1 .. more /\ len + (p - (len - d)) = d + p
      <4> HIDE DEF more
      <4> QED
        BY <1>1, <1>3, <2>2
    <3>2. buffer[p - (len - d)] = s[len + (p - (len - d))]
      BY <3>1 DEF Agrees
    <3> QED
      BY <1>7, <2>2, <3>1, <3>2
  <2> QED
    BY <2>1, <2>2
<1>10. Agrees(raw, s, d, total)
  <2>1. d + total <= Len(s) /\ total <= Len(raw)
    BY <1>1, <1>7, <1>8
  <2> QED
    BY <1>3, <1>7, <1>8, <1>9, <1>2, <2>1 DEF Agrees
<1>11. Len(raw) = total
  BY <1>7
<1> HIDE DEF more, raw, total
<1> DEFINE f == Shift(g, m, n)
<1>12. Marks(g, m, s, d + total)
  BY <1>4, <1>8
<1>13. Marks(f, m - n, raw, total)
  BY <1>5, <1>8, <1>12, <1>10, MarksBehind
<1>14. Parse(buffer, rem)
       = [messages |-> Cut(raw, f, m - n), remainder |-> SubSeq(raw, f[m - n] + 1, Len(raw))]
  <2>1. Marks(f, m - n, raw, Len(raw))
    BY <1>11, <1>13
  <2> HIDE DEF f
  <2> QED
    BY <1>6, <2>1, ParseCuts DEF raw
<1>15. Cut(s, g, n) \o Cut(raw, f, m - n) = Cut(s, g, m)
  <2>1. \A k \in 0 .. m - n : f[k] = g[n + k] - d
    BY <1>5 DEF Shift
  <2>2. g \in [0 .. m -> Nat]
    BY <1>12 DEF Marks
  <2> HIDE DEF f
  <2>3. Continues(raw, f, total, s, g, m, n, d)
    BY <1>3, <1>5, <1>8, <1>13, <1>10, <2>1, <2>2 DEF Continues
  <2> QED
    BY <2>3, CutJoins
<1>16. Cut(s, g, n) = out
  <2>1. \A k \in 1 .. n : g[k - 1] = e[k - 1] /\ g[k] = e[k]
    <3> SUFFICES ASSUME NEW k \in 1 .. n PROVE g[k - 1] = e[k - 1] /\ g[k] = e[k]
      OBVIOUS
    <3>1. k - 1 \in 0 .. n /\ k \in 0 .. n
      BY <1>1
    <3> QED
      BY <1>4, <3>1 DEF Extends
  <2>2. Cut(s, g, n) = Cut(s, e, n)
    BY <2>1 DEF Cut
  <2> QED
    BY <2>2 DEF Parsed
<1>17. SubSeq(raw, f[m - n] + 1, Len(raw)) = SubSeq(s, g[m] + 1, len + more)
  <2>1. m - n \in 0 .. m - n /\ n + (m - n) = m
    BY <1>5
  <2>2. f[m - n] = g[m] - d
    BY <1>5, <2>1 DEF Shift
  <2>3. f[m - n] \in Nat /\ f[m - n] <= total
    <3> HIDE DEF f
    <3> QED
      BY <1>8, <1>13, <2>1, MarkBounds
  <2>4. g[m] \in Nat
    BY <1>4, <1>5 DEF Marks
  <2> DEFINE a == f[m - n]
             b == g[m]
  <2>5. a \in Nat /\ a <= total /\ a = b - d /\ b \in Nat
    BY <2>2, <2>3, <2>4
  <2> HIDE DEF a, b, f
  <2>6. /\ a + 1 \in Nat /\ 1 <= a + 1 /\ a + 1 <= total + 1 /\ d + (a + 1) = b + 1
        /\ d + total <= Len(s) /\ total <= Len(raw) /\ total <= total
    BY <1>1, <1>3, <1>8, <1>11, <2>5
  <2>7. SubSeq(raw, a + 1, total) = SubSeq(s, d + (a + 1), d + total)
    <3>1. SameParts(raw, s, d, total)
      BY <1>3, <1>8, <1>10, PartMoved
    <3> QED
      BY <1>8, <2>6, <3>1 DEF SameParts
  <2> QED
    BY <1>8, <1>11, <2>6, <2>7 DEF a, b
<1> HIDE DEF f
<1>18. Parsed(s, len + more, Parse(buffer, rem).remainder, out \o Parse(buffer, rem).messages,
              m, g)
  <2> DEFINE p == Parse(buffer, rem)
  <2> HIDE DEF p, f
  <2> DEFINE first == Cut(raw, f, m - n)
             left == SubSeq(raw, f[m - n] + 1, Len(raw))
  <2>1. p = [messages |-> first, remainder |-> left]
    BY <1>14 DEF p
  <2> HIDE DEF first, left
  <2>2. p.messages = first /\ p.remainder = left
    BY <2>1
  <2>3. Parsed(s, len + more, p.remainder, out \o p.messages, m, g)
    BY <1>4, <1>15, <1>16, <1>17, <2>2 DEF Parsed, first, left
  <2> QED
    BY <2>3 DEF p
<1> QED
  BY <1>4, <1>18 DEF more

(***************************************************************************)
(* The invariant.                                                          *)
(***************************************************************************)

\* How much of the stream has been read.
ReadLength == Len(sent) - Len(pipe)

\* The pipe holds what has been printed and not read.
PipeInv == Agrees(pipe, sent, ReadLength, Len(pipe))

\* What has been read is what has been handed over, and the remainder.
ParsedInv == \E n, e : Parsed(sent, ReadLength, remainder, delivered, n, e)

StreamInv == PipeInv /\ ParsedInv

LEMMA InitStream == Init => StreamInv
<1> SUFFICES ASSUME Init PROVE StreamInv
  OBVIOUS
<1>1. /\ sent = <<>> /\ pipe = <<>> /\ remainder = <<>> /\ delivered = <<>>
      /\ <<>> \in Seq(Char) /\ Len(<<>>) = 0
  BY EmptySeq DEF Init
<1>2. ReadLength = 0
  BY <1>1 DEF ReadLength
<1>3. PipeInv
  BY <1>1, <1>2 DEF PipeInv, Agrees
<1> DEFINE e == [k \in 0 .. 0 |-> 0]
<1>4. e[0] = 0 /\ e \in [0 .. 0 -> Nat]
  OBVIOUS
<1> HIDE DEF e
<1>5. Marks(e, 0, sent, 0)
  BY <1>4 DEF Marks
<1>6. Cut(sent, e, 0) = <<>>
  BY DEF Cut
<1>7. SubSeq(sent, e[0] + 1, 0) = <<>>
  BY <1>1, <1>4
<1>8. Parsed(sent, ReadLength, remainder, delivered, 0, e)
  BY <1>1, <1>2, <1>5, <1>6, <1>7 DEF Parsed
<1> QED
  BY <1>3, <1>8 DEF StreamInv, ParsedInv

\* Printing a character leaves what has been read as it is.
LEMMA EmitStream ==
  ASSUME StreamInv, NEW c \in Char, Emit(c)
  PROVE  StreamInv'
<1>1. /\ sent' = Append(sent, c) /\ pipe' = Append(pipe, c)
      /\ UNCHANGED <<remainder, delivered>>
  BY DEF Emit
<1>2. /\ sent \in Seq(Char) /\ pipe \in Seq(Char) /\ Len(sent) \in Nat /\ Len(pipe) \in Nat
      /\ ReadLength \in Nat /\ ReadLength <= Len(sent)
      /\ \A p \in 1 .. Len(pipe) : pipe[p] = sent[ReadLength + p]
  BY LenProperties DEF StreamInv, PipeInv, Agrees, ReadLength
<1>3. /\ sent' \in Seq(Char) /\ Len(sent') = Len(sent) + 1 /\ sent'[Len(sent) + 1] = c
      /\ \A p \in 1 .. Len(sent) : sent'[p] = sent[p]
  BY <1>1, <1>2, AppendProperties
<1>4. /\ pipe' \in Seq(Char) /\ Len(pipe') = Len(pipe) + 1 /\ pipe'[Len(pipe) + 1] = c
      /\ \A p \in 1 .. Len(pipe) : pipe'[p] = pipe[p]
  BY <1>1, <1>2, AppendProperties
<1>5. ReadLength' = ReadLength /\ ReadLength + Len(pipe) = Len(sent)
  BY <1>2, <1>3, <1>4 DEF ReadLength
<1>6. PipeInv'
  <2>1. ASSUME NEW p \in 1 .. Len(pipe') PROVE pipe'[p] = sent'[ReadLength + p]
    <3>1. CASE p = Len(pipe) + 1
      <4>1. ReadLength + p = Len(sent) + 1
        <5> DEFINE l == ReadLength
                   h == Len(pipe)
        <5>1. l \in Nat /\ h \in Nat /\ l + h = Len(sent) /\ p = h + 1
          BY <1>2, <1>5, <3>1
        <5> HIDE DEF l, h
        <5>2. l + p = l + h + 1
          BY <5>1
        <5> QED
          BY <5>1, <5>2 DEF l
      <4> QED
        BY <1>3, <1>4, <3>1, <4>1
    <3>2. CASE p \in 1 .. Len(pipe)
      <4>1. ReadLength + p \in 1 .. Len(sent)
        BY <1>2, <1>5, <3>2
      <4> QED
        BY <1>2, <1>3, <1>4, <3>2, <4>1
    <3>3. p = Len(pipe) + 1 \/ p \in 1 .. Len(pipe)
      <4> DEFINE h == Len(pipe)
      <4>1. h \in Nat /\ p \in 1 .. h + 1
        BY <1>2, <1>4
      <4> HIDE DEF h
      <4>2. p = h + 1 \/ p \in 1 .. h
        BY <4>1
      <4> QED
        BY <4>2 DEF h
    <3> QED
      BY <3>1, <3>2, <3>3
  <2>2. ReadLength + Len(pipe') <= Len(sent') /\ Len(pipe') \in Nat
    BY <1>2, <1>3, <1>4, <1>5
  <2> QED
    BY <1>2, <1>3, <1>4, <1>5, <2>1, <2>2 DEF PipeInv, Agrees
<1>7. PICK n, e : Parsed(sent, ReadLength, remainder, delivered, n, e)
  BY DEF StreamInv, ParsedInv
<1>8. /\ Marks(e, n, sent, ReadLength) /\ delivered = Cut(sent, e, n)
      /\ remainder = SubSeq(sent, e[n] + 1, ReadLength)
  BY <1>7 DEF Parsed
<1>9. ReadLength <= Len(sent') /\ \A p \in 1 .. ReadLength : sent'[p] = sent[p]
  <2> DEFINE l == ReadLength
             h == Len(sent)
  <2>1. l \in Nat /\ h \in Nat /\ l <= h /\ Len(sent') = h + 1
    BY <1>2, <1>3
  <2> HIDE DEF l, h
  <2>2. l <= Len(sent') /\ \A p \in 1 .. l : p \in 1 .. h
    BY <2>1
  <2> QED
    BY <1>3, <2>2 DEF l, h
<1>10. /\ Marks(e, n, sent', ReadLength) /\ Cut(sent', e, n) = Cut(sent, e, n)
       /\ SubSeq(sent', e[n] + 1, ReadLength) = SubSeq(sent, e[n] + 1, ReadLength)
  <2>1. Agrees(sent', sent, 0, ReadLength)
    BY <1>2, <1>3, <1>9 DEF Agrees
  <2>2. ReadLength \in Nat /\ Marks(e, n, sent, ReadLength)
    BY <1>2, <1>8
  <2> QED
    BY <2>1, <2>2, SameMarks, Zenon
<1>11. Parsed(sent', ReadLength', remainder', delivered', n, e)
  BY <1>1, <1>5, <1>8, <1>10 DEF Parsed
<1> QED
  BY <1>6, <1>11 DEF StreamInv, ParsedInv

\* A read takes the next part of the stream from the pipe, and parses it.
LEMMA ReadStream ==
  ASSUME StreamInv, Read, NEW n, NEW e, Parsed(sent, ReadLength, remainder, delivered, n, e)
  PROVE  /\ PipeInv' /\ sent' = sent
         /\ \E m, g : /\ Parsed(sent, ReadLength', remainder', delivered', m, g)
                      /\ Extends(g, m, e, n)
<1> DEFINE size == Min({Len(pipe), BufferSize})
           buffer == SubSeq(pipe, 1, size)
<1>1. /\ pipe # <<>> /\ sent' = sent /\ pipe' = SubSeq(pipe, size + 1, Len(pipe))
      /\ remainder' = Parse(buffer, remainder).remainder
      /\ delivered' = delivered \o Parse(buffer, remainder).messages
  BY DEF Read
<1>2. /\ sent \in Seq(Char) /\ pipe \in Seq(Char) /\ Len(sent) \in Nat /\ Len(pipe) \in Nat
      /\ ReadLength \in Nat /\ ReadLength + Len(pipe) = Len(sent)
      /\ \A p \in 1 .. Len(pipe) : pipe[p] = sent[ReadLength + p]
  BY LenProperties DEF StreamInv, PipeInv, Agrees, ReadLength
<1>3. size \in 1 .. Len(pipe)
  <2>1. Len(pipe) \in Nat \ {0}
    BY <1>1, <1>2, EmptySeq
  <2>2. BufferSize \in Nat \ {0}
    BY ParserAssumption
  <2> DEFINE l == Len(pipe)
             T == {l, BufferSize}
  <2> HIDE DEF l
  <2>3. \E x \in T : \A y \in T : x <= y
    BY <2>1, <2>2 DEF l
  <2> HIDE DEF T
  <2>4. Min(T) \in T /\ \A y \in T : Min(T) <= y
    BY <2>3 DEF Min
  <2> QED
    BY <2>1, <2>2, <2>4 DEF T, l
<1> HIDE DEF size
<1>4. buffer \in Seq(Char) /\ Len(buffer) = size /\ \A p \in 1 .. size : buffer[p] = pipe[p]
  <2>1. /\ 1 \in Nat /\ size \in Nat /\ 1 <= 1 /\ 1 <= size + 1 /\ size <= Len(pipe)
    BY <1>2, <1>3
  <2>2. /\ SubSeq(pipe, 1, size) \in Seq(Char) /\ Len(SubSeq(pipe, 1, size)) = size + 1 - 1
        /\ \A p \in 1 .. size + 1 - 1 : SubSeq(pipe, 1, size)[p] = pipe[1 + p - 1]
    BY <1>2, <2>1, PartOf
  <2>3. size + 1 - 1 = size /\ \A p \in 1 .. size : 1 + p - 1 = p
    BY <2>1
  <2> QED
    BY <2>2, <2>3
<1>5. /\ pipe' \in Seq(Char) /\ Len(pipe') = Len(pipe) - size
      /\ \A p \in 1 .. Len(pipe) - size : pipe'[p] = pipe[size + p]
  <2> DEFINE a == size + 1
             l == Len(pipe)
  <2>1. a \in Nat /\ l \in Nat /\ 1 <= a /\ a <= l + 1 /\ l <= Len(pipe)
    BY <1>2, <1>3
  <2>2. size \in Nat /\ l \in Nat
    BY <1>2, <1>3
  <2>3. l + 1 - a = l - size /\ \A p \in 1 .. l - size : a + p - 1 = size + p
    <3> HIDE DEF l
    <3> QED
      BY <2>2
  <2> HIDE DEF a, l
  <2>4. /\ SubSeq(pipe, a, l) \in Seq(Char) /\ Len(SubSeq(pipe, a, l)) = l + 1 - a
        /\ \A p \in 1 .. l + 1 - a : SubSeq(pipe, a, l)[p] = pipe[a + p - 1]
    BY <1>2, <2>1, PartOf
  <2> QED
    BY <1>1, <2>3, <2>4 DEF a, l
<1> HIDE DEF buffer
<1> DEFINE l == ReadLength
           h == Len(pipe)
           total == Len(sent)
<1>6. /\ l \in Nat /\ h \in Nat /\ total \in Nat /\ size \in 1 .. h /\ l + h = total
      /\ Len(pipe') = h - size
  BY <1>2, <1>3, <1>5
<1>7. ReadLength' = total - Len(pipe')
  BY <1>1 DEF ReadLength
<1>8. \A p \in 1 .. h : pipe[p] = sent[l + p]
  BY <1>2
<1>9. \A p \in 1 .. h - size : pipe'[p] = pipe[size + p]
  BY <1>5
<1> HIDE DEF l, h, total
<1>10. ReadLength' = l + size /\ l + size \in Nat
  BY <1>6, <1>7
<1>11. PipeInv'
  <2>1. ASSUME NEW p \in 1 .. h - size PROVE pipe'[p] = sent[l + size + p]
    <3>1. size + p \in 1 .. h /\ l + (size + p) = l + size + p
      BY <1>6
    <3> QED
      BY <1>8, <1>9, <3>1
  <2>2. l + size + (h - size) <= total /\ h - size \in Nat
    BY <1>6
  <2>3. Agrees(pipe', sent, l + size, h - size)
    <3> DEFINE len == h - size
               d == l + size
    <3>1. /\ \A p \in 1 .. len : pipe'[p] = sent[d + p]
          /\ d + len <= Len(sent) /\ len \in Nat /\ d \in Nat /\ len = Len(pipe')
      BY <1>6, <1>10, <2>1, <2>2 DEF total
    <3> HIDE DEF len, d
    <3>2. Agrees(pipe', sent, d, len)
      BY <1>2, <1>5, <3>1 DEF Agrees
    <3> QED
      BY <3>2 DEF len, d
  <2> QED
    BY <1>1, <1>6, <1>10, <2>3 DEF PipeInv
<1>12. Agrees(buffer, sent, l, Len(buffer))
  <2>1. ASSUME NEW p \in 1 .. size PROVE buffer[p] = sent[l + p]
    <3>1. p \in 1 .. h
      BY <1>6
    <3> QED
      BY <1>4, <1>8, <3>1
  <2>2. l + size <= total /\ size \in Nat
    BY <1>6
  <2> QED
    BY <1>2, <1>4, <1>6, <2>1, <2>2 DEF Agrees, total
<1>13. \E m, g : /\ Parsed(sent, l + Len(buffer), Parse(buffer, remainder).remainder,
                           delivered \o Parse(buffer, remainder).messages, m, g)
                 /\ Extends(g, m, e, n)
  <2>1. Parsed(sent, l, remainder, delivered, n, e)
    BY DEF l
  <2> QED
    BY <1>4, <1>6, <1>12, <2>1, ParseStep
<1>14. \E m, g : Parsed(sent, ReadLength', remainder', delivered', m, g) /\ Extends(g, m, e, n)
  BY <1>1, <1>4, <1>10, <1>13
<1> QED
  BY <1>1, <1>11, <1>14

\* Every step keeps the invariant.
LEMMA NextStream == StreamInv /\ [Next]_vars => StreamInv'
<1> SUFFICES ASSUME StreamInv, [Next]_vars PROVE StreamInv'
  OBVIOUS
<1>1. ASSUME NEW c \in Char, Emit(c) PROVE StreamInv'
  BY <1>1, EmitStream
<1>2. CASE Read
  <2>1. PICK n, e : Parsed(sent, ReadLength, remainder, delivered, n, e)
    BY DEF StreamInv, ParsedInv
  <2>2. /\ PipeInv' /\ sent' = sent
        /\ \E m, g : Parsed(sent, ReadLength', remainder', delivered', m, g)
    BY <1>2, <2>1, ReadStream
  <2> QED
    BY <2>2 DEF StreamInv, ParsedInv
<1>3. CASE UNCHANGED vars
  BY <1>3 DEF vars, StreamInv, PipeInv, ParsedInv, ReadLength
<1> QED
  BY <1>1, <1>2, <1>3 DEF Next

LEMMA StreamInvariant == Spec => []StreamInv
<1> QED
  BY InitStream, NextStream, PTL DEF Spec

(***************************************************************************)
(* What the invariant says.                                                *)
(***************************************************************************)

\* A part without terminators holds characters.
LEMMA PartOfChars ==
  ASSUME NEW s \in Seq(Char), NEW a \in Nat, NEW b \in Nat, 1 <= a, b <= Len(s),
         \A p \in a .. b : s[p] # NUL
  PROVE  SubSeq(s, a, b) \in Seq(Chars)
<1>1. ASSUME NEW p \in a .. b PROVE s[p] \in Chars
  <2>1. p \in 1 .. Len(s) /\ Len(s) \in Nat
    BY LenProperties
  <2>2. s[p] \in Char
    BY <2>1, ElementOfSeq
  <2> QED
    BY <2>2 DEF Char
<1> QED
  BY <1>1, SubSeqProperties

\* No terminator lies between two marks, or behind the last one.
LEMMA BetweenMarks ==
  ASSUME NEW s, NEW len \in Nat, NEW n, NEW e, Marks(e, n, s, len)
  PROVE  /\ \A k \in 1 .. n : \A p \in e[k - 1] + 1 .. e[k] - 1 : s[p] # NUL
         /\ \A p \in e[n] + 1 .. len : s[p] # NUL
<1>1. n \in Nat /\ n \in 0 .. n
  BY DEF Marks
<1>2. ASSUME NEW i \in 0 .. n, NEW p \in Nat, e[i] < p, p <= len, s[p] = NUL
      PROVE  i # n /\ e[i + 1] <= p
  <2>1. p \in 1 .. len /\ e[i] \in Nat
    <3>1. e[i] \in Nat
      BY DEF Marks
    <3> QED
      BY <1>2, <3>1
  <2>2. PICK j \in 1 .. n : e[j] = p
    BY <1>2, <2>1 DEF Marks
  <2>3. j \in 0 .. n
    BY <1>1
  <2>4. i < j
    <3>1. j < i => e[j] < e[i]
      BY <2>3 DEF Marks
    <3>2. ~(e[j] < e[i]) /\ e[j] # e[i]
      BY <1>2, <2>1, <2>2
    <3> QED
      BY <1>1, <2>3, <3>1, <3>2
  <2>5. i + 1 \in 0 .. n /\ (i + 1 = j \/ i + 1 < j)
    BY <1>1, <2>3, <2>4
  <2>6. e[i + 1] = e[j] \/ e[i + 1] < e[j]
    BY <2>3, <2>5 DEF Marks
  <2>7. e[i + 1] \in Nat
    BY <2>5 DEF Marks
  <2> QED
    BY <1>1, <2>2, <2>3, <2>4, <2>6, <2>7
<1>3. ASSUME NEW k \in 1 .. n, NEW p \in e[k - 1] + 1 .. e[k] - 1 PROVE s[p] # NUL
  <2> DEFINE a == e[k - 1]
             b == e[k]
  <2>1. /\ k - 1 \in 0 .. n /\ k \in 0 .. n /\ (k - 1) + 1 = k
    BY <1>1
  <2>2. a \in Nat /\ b \in Nat /\ b <= len
    BY <2>1, MarkBounds
  <2>3. p \in a + 1 .. b - 1
    OBVIOUS
  <2> HIDE DEF a, b
  <2>4. p \in Nat /\ a < p /\ p <= len /\ p < b
    BY <2>2, <2>3
  <2>5. s[p] = NUL => e[(k - 1) + 1] <= p
    BY <1>2, <2>1, <2>4 DEF a
  <2>6. s[p] = NUL => b <= p
    BY <2>1, <2>5 DEF b
  <2> QED
    BY <2>2, <2>4, <2>6
<1>4. ASSUME NEW p \in e[n] + 1 .. len PROVE s[p] # NUL
  <2>1. e[n] \in Nat
    BY <1>1 DEF Marks
  <2>2. p \in Nat /\ e[n] < p /\ p <= len
    BY <2>1
  <2> QED
    BY <1>1, <1>2, <2>2
<1> QED
  BY <1>3, <1>4

\* The rest of a sequence is a suffix of it.
LEMMA RestIsSuffix ==
  ASSUME NEW S, NEW t \in Seq(S), NEW a \in 0 .. Len(t)
  PROVE  IsSuffix(SubSeq(t, a + 1, Len(t)), t)
<1> DEFINE l == Len(t)
           n == l - a
           r == SubSeq(t, a + 1, l)
<1>1. l \in Nat /\ a \in 0 .. l /\ n \in 0 .. l
  BY LenProperties
<1> HIDE DEF l
<1>2. /\ r \in Seq(S) /\ Len(r) = n /\ \A p \in 1 .. n : r[p] = t[a + p]
  <2> DEFINE i == a + 1
  <2>1. i \in Nat /\ l \in Nat /\ 1 <= i /\ i <= l + 1 /\ l <= Len(t)
    BY <1>1 DEF l
  <2>2. l + 1 - i = n /\ \A p \in 1 .. n : i + p - 1 = a + p
    BY <1>1
  <2> HIDE DEF i
  <2>3. /\ SubSeq(t, i, l) \in Seq(S) /\ Len(SubSeq(t, i, l)) = l + 1 - i
        /\ \A p \in 1 .. l + 1 - i : SubSeq(t, i, l)[p] = t[i + p - 1]
    BY <2>1, PartOf
  <2> QED
    BY <2>2, <2>3 DEF i
<1> HIDE DEF r, n
<1> DEFINE u == [i \in 1 .. n |-> r[(n - i) + 1]]
           v == [i \in 1 .. l |-> t[(l - i) + 1]]
<1>3. Reverse(r) = u /\ Reverse(t) = v
  BY <1>2 DEF Reverse, l
<1>4. \A i \in 1 .. n : u[i] = v[i]
  <2> SUFFICES ASSUME NEW i \in 1 .. n PROVE u[i] = v[i]
    OBVIOUS
  <2>1. (n - i) + 1 \in 1 .. n /\ i \in 1 .. l /\ a + ((n - i) + 1) = (l - i) + 1
    BY <1>1 DEF n
  <2> QED
    BY <1>2, <2>1
<1>5. u \in Seq(S) /\ Len(u) = n
  <2>1. ASSUME NEW i \in 1 .. n PROVE r[(n - i) + 1] \in S
    <3>1. (n - i) + 1 \in 1 .. n
      BY <1>1
    <3> QED
      BY <1>2, <3>1, ElementOfSeq
  <2> QED
    BY <1>1, <2>1
<1>6. v \in Seq(S) /\ Len(v) = l
  <2>1. ASSUME NEW i \in 1 .. l PROVE t[(l - i) + 1] \in S
    <3>1. (l - i) + 1 \in 1 .. Len(t)
      BY <1>1 DEF l
    <3> QED
      BY <3>1, ElementOfSeq
  <2> QED
    BY <1>1, <2>1
<1> HIDE DEF u, v
<1>7. SubSeq(u, 1, n) = SubSeq(v, 1, n)
  <2>1. 1 \in Nat /\ n \in Nat /\ 1 <= 1 /\ 1 <= n + 1 /\ n <= Len(u) /\ n <= Len(v)
        /\ n + 1 - 1 = n
    BY <1>1, <1>5, <1>6
  <2>2. /\ SubSeq(u, 1, n) \in Seq(S) /\ Len(SubSeq(u, 1, n)) = n + 1 - 1
        /\ \A p \in 1 .. n + 1 - 1 : SubSeq(u, 1, n)[p] = u[1 + p - 1]
    BY <1>5, <2>1, PartOf
  <2>3. /\ SubSeq(v, 1, n) \in Seq(S) /\ Len(SubSeq(v, 1, n)) = n + 1 - 1
        /\ \A p \in 1 .. n + 1 - 1 : SubSeq(v, 1, n)[p] = v[1 + p - 1]
    BY <1>6, <2>1, PartOf
  <2>4. \A p \in 1 .. n : SubSeq(u, 1, n)[p] = SubSeq(v, 1, n)[p]
    <3> SUFFICES ASSUME NEW p \in 1 .. n PROVE SubSeq(u, 1, n)[p] = SubSeq(v, 1, n)[p]
      OBVIOUS
    <3>1. 1 + p - 1 = p /\ p \in 1 .. n + 1 - 1
      BY <2>1
    <3> QED
      BY <1>4, <2>2, <2>3, <3>1
  <2> QED
    BY <2>1, <2>2, <2>3, <2>4, SeqEqual
<1>8. IsPrefix(u, v)
  BY <1>1, <1>5, <1>6, <1>7 DEF IsPrefix
<1> QED
  BY <1>3, <1>8 DEF IsSuffix, r, l

LEMMA StreamType == StreamInv => TypeOK
<1> SUFFICES ASSUME StreamInv PROVE TypeOK
  OBVIOUS
<1>1. /\ sent \in Seq(Char) /\ pipe \in Seq(Char) /\ ReadLength \in Nat
      /\ ReadLength <= Len(sent) /\ Len(sent) \in Nat
  BY LenProperties DEF StreamInv, PipeInv, Agrees, ReadLength
<1>2. PICK n, e : Parsed(sent, ReadLength, remainder, delivered, n, e)
  BY DEF StreamInv, ParsedInv
<1> DEFINE l == ReadLength
<1>3. /\ Marks(e, n, sent, l) /\ delivered = Cut(sent, e, n)
      /\ remainder = SubSeq(sent, e[n] + 1, l)
  BY <1>2 DEF Parsed
<1>4. l \in Nat /\ l <= Len(sent)
  BY <1>1
<1> HIDE DEF l
<1>5. remainder \in Seq(Chars)
  <2> DEFINE a == e[n] + 1
  <2>1. n \in 0 .. n
    BY <1>3 DEF Marks
  <2>2. e[n] \in Nat
    BY <1>3, <2>1 DEF Marks
  <2>3. a \in Nat /\ 1 <= a
    BY <2>2
  <2>4. \A p \in a .. l : sent[p] # NUL
    BY <1>3, <1>4, BetweenMarks
  <2> HIDE DEF a
  <2>5. SubSeq(sent, a, l) \in Seq(Chars)
    BY <1>1, <1>4, <2>3, <2>4, PartOfChars
  <2> QED
    BY <1>3, <2>5 DEF a
<1>6. delivered \in Seq(Seq(Chars))
  <2>1. ASSUME NEW k \in 1 .. n PROVE SubSeq(sent, e[k - 1] + 1, e[k] - 1) \in Seq(Chars)
    <3> DEFINE a == e[k - 1] + 1
               b == e[k] - 1
    <3>1. a \in Nat /\ b \in Nat /\ 1 <= a /\ b <= l
      BY <1>3, <1>4, MarkBounds
    <3>2. \A p \in a .. b : sent[p] # NUL
      BY <1>3, <1>4, BetweenMarks
    <3> HIDE DEF a, b
    <3>3. b <= Len(sent)
      BY <1>1, <1>4, <3>1
    <3>4. SubSeq(sent, a, b) \in Seq(Chars)
      BY <1>1, <3>1, <3>2, <3>3, PartOfChars
    <3> QED
      BY <3>4 DEF a, b
  <2>2. n \in Nat
    BY <1>3 DEF Marks
  <2>3. delivered \in [1 .. n -> Seq(Chars)]
    BY <1>3, <2>1 DEF Cut
  <2> QED
    BY <2>2, <2>3
<1> QED
  BY <1>1, <1>5, <1>6 DEF TypeOK

LEMMA StreamTail == StreamInv => RemainderIsTail
<1> SUFFICES ASSUME StreamInv PROVE RemainderIsTail
  OBVIOUS
<1> DEFINE l == ReadLength
           read == SubSeq(sent, 1, l)
<1>1. sent \in Seq(Char) /\ l \in Nat /\ l <= Len(sent) /\ Len(sent) \in Nat
  BY LenProperties DEF StreamInv, PipeInv, Agrees, ReadLength
<1>2. PICK n, e : Parsed(sent, ReadLength, remainder, delivered, n, e)
  BY DEF StreamInv, ParsedInv
<1>3. /\ Marks(e, n, sent, l) /\ delivered = Cut(sent, e, n)
      /\ remainder = SubSeq(sent, e[n] + 1, l)
  BY <1>2 DEF Parsed
<1> HIDE DEF l
<1>4. /\ read \in Seq(Char) /\ Len(read) = l /\ \A p \in 1 .. l : read[p] = sent[p]
  <2>1. 1 \in Nat /\ 1 <= 1 /\ 1 <= l + 1
    BY <1>1
  <2>2. /\ SubSeq(sent, 1, l) \in Seq(Char) /\ Len(SubSeq(sent, 1, l)) = l + 1 - 1
        /\ \A p \in 1 .. l + 1 - 1 : SubSeq(sent, 1, l)[p] = sent[1 + p - 1]
    BY <1>1, <2>1, PartOf
  <2>3. l + 1 - 1 = l /\ \A p \in 1 .. l : 1 + p - 1 = p
    BY <1>1
  <2> QED
    BY <2>2, <2>3
<1> HIDE DEF read
<1>5. Agrees(read, sent, 0, l)
  BY <1>1, <1>4 DEF Agrees
<1>6. /\ Marks(e, n, read, l) /\ Cut(read, e, n) = delivered
      /\ remainder = SubSeq(read, e[n] + 1, l)
  <2>1. /\ Marks(e, n, read, l) /\ Cut(read, e, n) = Cut(sent, e, n)
        /\ SubSeq(read, e[n] + 1, l) = SubSeq(sent, e[n] + 1, l)
    BY <1>1, <1>3, <1>5, SameMarks
  <2> QED
    BY <1>3, <2>1, Zenon
<1>7. delivered = Abstract!Messages(read)
  <2>1. Marks(e, n, read, Len(read))
    BY <1>4, <1>6
  <2> QED
    BY <1>4, <1>6, <2>1, MarksCut
<1>8. IsSuffix(remainder, read)
  <2>1. n \in 0 .. n
    BY <1>6 DEF Marks
  <2>2. e[n] \in 0 .. Len(read)
    <3>1. \A k \in 0 .. n : e[k] \in Nat /\ e[k] <= l
      BY <1>1, <1>6, MarkBounds
    <3> QED
      BY <1>1, <1>4, <2>1, <3>1
  <2>3. IsSuffix(SubSeq(read, e[n] + 1, Len(read)), read)
    BY <1>4, <2>2, RestIsSuffix
  <2> QED
    BY <1>4, <1>6, <2>3
<1> QED
  BY <1>7, <1>8 DEF RemainderIsTail, read, l, ReadLength

\* The streams and messages of the worker have the types that worker.h gives them: no
\* terminator is left in a message.
THEOREM TypeCorrect == Spec => []TypeOK
<1> QED
  BY StreamInvariant, StreamType, PTL

\* Whatever the size of the read buffer, nothing is lost, repeated or cut when a message
\* spans several reads or several messages share one: what was read is what has been
\* delivered, followed by the remainder (worker::parse, worker::read_loop).
THEOREM NothingIsLost == Spec => []RemainderIsTail
<1> QED
  BY StreamInvariant, StreamTail, PTL

(***************************************************************************)
(* The refinement.                                                         *)
(***************************************************************************)

\* The messages that a read hands over are the next ones of the whole stream.
LEMMA ReadDelivers ==
  ASSUME StreamInv, Read
  PROVE  Abstract!Deliver \/ UNCHANGED <<sent, delivered>>
<1>1. PICK n, e : Parsed(sent, ReadLength, remainder, delivered, n, e)
  BY DEF StreamInv, ParsedInv
<1>2. PipeInv' /\ sent' = sent
  BY <1>1, ReadStream
<1>3. PICK m, g : Parsed(sent, ReadLength', remainder', delivered', m, g) /\ Extends(g, m, e, n)
  BY <1>1, ReadStream
<1> DEFINE l == ReadLength'
<1>4. /\ Marks(e, n, sent, ReadLength) /\ delivered = Cut(sent, e, n)
      /\ Marks(g, m, sent, l) /\ delivered' = Cut(sent, g, m)
  BY <1>1, <1>3 DEF Parsed
<1>5. sent \in Seq(Char) /\ l \in Nat /\ Len(sent) \in Nat /\ l <= Len(sent)
  <2>1. /\ sent' \in Seq(Char) /\ l \in Nat /\ Len(pipe') \in Nat /\ l + Len(pipe') <= Len(sent')
    BY <1>2, LenProperties DEF PipeInv, Agrees
  <2>2. Len(sent) \in Nat
    BY <1>2, <2>1, LenProperties
  <2> HIDE DEF l
  <2> QED
    BY <1>2, <2>1, <2>2
<1> HIDE DEF l
<1>6. PICK more \in Nat : l + more = Len(sent)
  <2>1. Len(sent) - l \in Nat /\ l + (Len(sent) - l) = Len(sent)
    BY <1>5
  <2> QED
    BY <2>1
<1>7. PICK big, f : Marks(f, big, sent, l + more) /\ Extends(f, big, g, m)
  BY <1>4, <1>5, MarksExtend
<1>8. Abstract!Messages(sent) = Cut(sent, f, big)
  BY <1>5, <1>6, <1>7, MarksCut
<1>9. m \in Nat /\ n \in Nat /\ big \in Nat /\ n <= m /\ m <= big
  BY <1>3, <1>4, <1>7 DEF Marks, Extends
<1>10. CASE m = n
  <2>1. \A k \in 1 .. n : k \in 0 .. n /\ k - 1 \in 0 .. n
    BY <1>9
  <2>2. \A k \in 1 .. n : g[k] = e[k] /\ g[k - 1] = e[k - 1]
    BY <1>3, <2>1 DEF Extends
  <2>3. Cut(sent, g, n) = Cut(sent, e, n)
    BY <2>2 DEF Cut
  <2> QED
    BY <1>2, <1>4, <1>10, <2>3
<1>11. CASE m # n
  <2> DEFINE c(k) == SubSeq(sent, f[k - 1] + 1, f[k] - 1)
             V == {c(k) : k \in 1 .. big}
             all == Cut(sent, f, big)
  <2>1. all = [k \in 1 .. big |-> c(k)]
    BY DEF Cut
  <2>2. delivered' = [k \in 1 .. m |-> c(k)]
    <3>1. \A k \in 1 .. m : k \in 0 .. m /\ k - 1 \in 0 .. m
      BY <1>9
    <3>2. \A k \in 1 .. m : f[k] = g[k] /\ f[k - 1] = g[k - 1]
      BY <1>7, <3>1 DEF Extends
    <3> QED
      BY <1>4, <3>2 DEF Cut
  <2>3. \A k \in 1 .. big : c(k) \in V
    OBVIOUS
  <2> HIDE DEF c, V, all
  <2>4. all \in Seq(V) /\ Len(all) = big /\ \A k \in 1 .. big : all[k] = c(k)
    <3>1. all \in [1 .. big -> V]
      BY <2>1, <2>3
    <3>2. [1 .. big -> V] \subseteq Seq(V)
      BY <1>9
    <3> QED
      BY <1>9, <2>1, <3>1, <3>2
  <2>5. delivered' \in Seq(V) /\ Len(delivered') = m /\ \A k \in 1 .. m : delivered'[k] = c(k)
    <3>1. delivered' \in [1 .. m -> V]
      BY <1>9, <2>2, <2>3
    <3>2. [1 .. m -> V] \subseteq Seq(V)
      BY <1>9
    <3> QED
      BY <1>9, <2>2, <3>1, <3>2
  <2>6. delivered' = SubSeq(all, 1, m)
    <3>1. 1 \in Nat /\ 1 <= 1 /\ 1 <= m + 1 /\ m <= Len(all) /\ m + 1 - 1 = m
      BY <1>9, <2>4
    <3>2. /\ SubSeq(all, 1, m) \in Seq(V) /\ Len(SubSeq(all, 1, m)) = m + 1 - 1
          /\ \A k \in 1 .. m + 1 - 1 : SubSeq(all, 1, m)[k] = all[1 + k - 1]
      BY <1>9, <2>4, <3>1, PartOf
    <3>3. \A k \in 1 .. m : SubSeq(all, 1, m)[k] = delivered'[k]
      <4> SUFFICES ASSUME NEW k \in 1 .. m PROVE SubSeq(all, 1, m)[k] = delivered'[k]
        OBVIOUS
      <4>1. 1 + k - 1 = k /\ k \in 1 .. big
        BY <1>9
      <4> QED
        BY <2>4, <2>5, <3>1, <3>2, <4>1
    <3> QED
      BY <2>5, <3>1, <3>2, <3>3, SeqEqual
  <2>7. Len(delivered) = n
    BY <1>4, <1>9 DEF Cut
  <2>8. m \in Len(delivered) + 1 .. Len(all)
    BY <1>9, <1>11, <2>4, <2>7
  <2>9. Abstract!Messages(sent) = all
    BY <1>8 DEF all
  <2>10. Abstract!Deliver
    BY <1>2, <2>6, <2>8, <2>9 DEF Abstract!Deliver
  <2> QED
    BY <2>10
<1> QED
  BY <1>10, <1>11

LEMMA StepRefines == StreamInv /\ [Next]_vars => [Abstract!Next]_<<sent, delivered>>
<1> SUFFICES ASSUME StreamInv, [Next]_vars PROVE [Abstract!Next]_<<sent, delivered>>
  OBVIOUS
<1>1. ASSUME NEW c \in Char, Emit(c) PROVE Abstract!Next
  <2>1. c \in Chars \union {NUL} /\ Abstract!Emit(c)
    BY <1>1 DEF Emit, Char, Abstract!Emit
  <2> QED
    BY <2>1 DEF Abstract!Next
<1>2. CASE Read
  BY <1>2, ReadDelivers DEF Abstract!Next
<1>3. CASE UNCHANGED vars
  BY <1>3 DEF vars
<1> QED
  BY <1>1, <1>2, <1>3 DEF Next

\* The read side of a worker implements SertopStream (worker.h:103-110): whatever the size
\* of the buffer and the timing of the reads, exactly the messages that sertop has
\* terminated are handed over, whole, once and in order.
THEOREM WorkerDelivers == Spec => DeliversMessages
<1>1. Init => Abstract!Init
  BY DEF Init, Abstract!Init
<1> QED
  BY <1>1, StreamInvariant, StepRefines, PTL DEF Spec, DeliversMessages, Abstract!Spec
=============================================================================
