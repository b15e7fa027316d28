--------------------------- MODULE SequenceLemmas ---------------------------
(* Facts about sequences and least elements, cited by the proofs. *)
EXTENDS SequencesExt, SequenceTheorems, FiniteSetTheorems, WellFoundedInduction, TLAPS

\* A set of natural numbers has a least element, and Min is it.
LEMMA MinIsMember ==
  ASSUME NEW I, I \subseteq Nat, I # {}
  PROVE  Min(I) \in I /\ \A x \in I : Min(I) <= x
<1> DEFINE R == {ss \in Nat \X Nat : ss[1] < ss[2]}
<1>1. IsWellFoundedOn(R, Nat)
  BY NatLessThanWellFounded DEF OpToRel
<1>2. PICK x \in I : \A y \in I : ~ (<<y, x>> \in R)
  <2> HIDE DEF R
  <2> QED BY <1>1, WFMin
<1>3. ASSUME NEW y \in I
      PROVE  x <= y
  <2>1. x \in Nat /\ y \in Nat
    OBVIOUS
  <2>2. ~ (y < x)
    BY <1>2, <2>1
  <2>3. QED
    BY <2>1, <2>2
<1>4. \A y \in I : x <= y
  BY <1>3
<1>5. QED
  BY <1>4 DEF Min

\* The head of a sequence and what follows it.
LEMMA HeadTail ==
  ASSUME NEW S, NEW q \in Seq(S), q # <<>>
  PROVE  Head(q) \in S /\ Tail(q) \in Seq(S)
OBVIOUS

\* RemoveAt closes the gap.
LEMMA RemoveAtProperties ==
  ASSUME NEW S, NEW s \in Seq(S), NEW k \in 1 .. Len(s)
  PROVE  /\ RemoveAt(s, k) \in Seq(S)
         /\ Len(RemoveAt(s, k)) = Len(s) - 1
         /\ \A i \in 1 .. Len(s) - 1 : RemoveAt(s, k)[i] = IF i < k THEN s[i] ELSE s[i + 1]
<1> DEFINE p == SubSeq(s, 1, k - 1)
           q == SubSeq(s, k + 1, Len(s))
           r == RemoveAt(s, k)
<1>1. /\ p \in Seq(S) /\ Len(p) = k - 1
      /\ \A i \in 1 .. k - 1 : p[i] = s[i]
  OBVIOUS
<1>2. /\ q \in Seq(S) /\ Len(q) = Len(s) - k
      /\ \A i \in 1 .. Len(s) - k : q[i] = s[i + k]
  OBVIOUS
<1>3. r = p \o q
  BY DEF RemoveAt
<1> HIDE DEF p, q, r
<1>4. /\ p \o q \in Seq(S) /\ Len(p \o q) = Len(p) + Len(q)
      /\ \A i \in 1 .. Len(p) + Len(q) :
            (p \o q)[i] = IF i <= Len(p) THEN p[i] ELSE q[i - Len(p)]
  BY <1>1, <1>2, ConcatProperties
<1>5. Len(p) + Len(q) = Len(s) - 1
  BY <1>1, <1>2
<1>6. ASSUME NEW i \in 1 .. Len(s) - 1
      PROVE  r[i] = IF i < k THEN s[i] ELSE s[i + 1]
  <2>1. CASE i < k
    BY <1>1, <1>3, <1>4, <1>5, <2>1
  <2>2. CASE ~ (i < k)
    <3>1. i - (k - 1) \in 1 .. Len(s) - k /\ (i - (k - 1)) + k = i + 1
      BY <2>2
    <3>2. r[i] = q[i - (k - 1)]
      BY <1>1, <1>3, <1>4, <1>5, <2>2
    <3>3. QED
      BY <1>2, <2>2, <3>1, <3>2
  <2>3. QED
    BY <2>1, <2>2
<1>7. QED
  BY <1>3, <1>4, <1>5, <1>6 DEF r

\* RemoveFirst takes one element out of a sequence without repetition.
LEMMA RemoveFirstProperties ==
  ASSUME NEW S, NEW s \in Seq(S), NEW e
  PROVE  /\ RemoveFirst(s, e) \in Seq(S)
         /\ ToSet(RemoveFirst(s, e)) \subseteq ToSet(s)
         /\ IsInjective(s) => /\ IsInjective(RemoveFirst(s, e))
                           /\ ToSet(RemoveFirst(s, e)) = ToSet(s) \ {e}
<1> DEFINE I == {i \in 1 .. Len(s) : s[i] = e}
<1>1. CASE I = {}
  <2>1. RemoveFirst(s, e) = s
    BY <1>1 DEF RemoveFirst
  <2>2. e \notin ToSet(s)
    BY <1>1 DEF ToSet
  <2>3. QED
    BY <2>1, <2>2
<1>2. CASE I # {}
  <2> DEFINE k == Min(I)
             r == RemoveAt(s, k)
  <2>1. k \in I
    <3>1. I \subseteq Nat
      OBVIOUS
    <3> HIDE DEF I
    <3>2. QED
      BY <1>2, <3>1, MinIsMember
  <2>2. RemoveFirst(s, e) = r
    BY <1>2 DEF RemoveFirst, SelectInSeq
  <2> HIDE DEF k
  <2>3. /\ r \in Seq(S)
        /\ Len(r) = Len(s) - 1
        /\ \A i \in 1 .. Len(s) - 1 : r[i] = IF i < k THEN s[i] ELSE s[i + 1]
    <3>1. k \in 1 .. Len(s)
      BY <2>1
    <3>2. QED
      BY <3>1, RemoveAtProperties
  <2> HIDE DEF r
  <2>4. ToSet(r) \subseteq ToSet(s)
    BY <2>1, <2>3 DEF ToSet
  <2>5. ASSUME IsInjective(s)
        PROVE  IsInjective(r) /\ ToSet(r) = ToSet(s) \ {e}
    <3>1. IsInjective(r)
      <4>1. SUFFICES ASSUME NEW i \in 1 .. Len(s) - 1, NEW j \in 1 .. Len(s) - 1,
                            r[i] = r[j]
                     PROVE  i = j
        BY <2>1, <2>3 DEF IsInjective
      <4> DEFINE at(x) == IF x < k THEN x ELSE x + 1
      <4>2. at(i) \in 1 .. Len(s) /\ at(j) \in 1 .. Len(s)
        BY <2>1
      <4>3. r[i] = s[at(i)] /\ r[j] = s[at(j)]
        BY <2>3
      <4>4. s \in Seq(S) /\ DOMAIN s = 1 .. Len(s)
        OBVIOUS
      <4>5. at(i) = at(j)
        <5> HIDE DEF at
        <5>1. QED
          BY <2>5, <4>1, <4>2, <4>3, <4>4 DEF IsInjective
      <4>6. QED
        BY <2>1, <4>5
    <3>2. e \notin ToSet(r)
      BY <2>1, <2>3, <2>5 DEF IsInjective, ToSet
    <3>3. ASSUME NEW x \in ToSet(s), x # e
          PROVE  x \in ToSet(r)
      <4>1. PICK i \in 1 .. Len(s) : s[i] = x
        BY DEF ToSet
      <4>2. CASE i < k
        BY <2>1, <2>3, <4>1, <4>2 DEF ToSet
      <4>3. CASE i > k
        <5>1. i - 1 \in 1 .. Len(s) - 1 /\ ~(i - 1 < k) /\ (i - 1) + 1 = i
          BY <2>1, <4>3
        <5>2. r[i - 1] = x
          BY <2>3, <4>1, <5>1
        <5>3. QED
          BY <2>3, <5>1, <5>2 DEF ToSet
      <4>4. QED
        BY <2>1, <3>3, <4>1, <4>2, <4>3
    <3>4. QED
      BY <2>4, <3>1, <3>2, <3>3
  <2>6. QED
    BY <2>2, <2>3, <2>4, <2>5
<1>3. QED
  BY <1>1, <1>2

\* Tail of a sequence without repetition.
LEMMA TailProperties ==
  ASSUME NEW S, NEW s \in Seq(S), s # <<>>
  PROVE  /\ Tail(s) \in Seq(S)
         /\ Head(s) \in ToSet(s)
         /\ ToSet(Tail(s)) \subseteq ToSet(s)
         /\ ToSet(s) = ToSet(Tail(s)) \cup {Head(s)}
         /\ IsInjective(s) => IsInjective(Tail(s)) /\ Head(s) \notin ToSet(Tail(s))
<1>1. /\ Tail(s) \in Seq(S) /\ Len(s) \in Nat \ {0}
      /\ Len(Tail(s)) = Len(s) - 1
      /\ \A i \in 1 .. Len(Tail(s)) : Tail(s)[i] = s[i + 1]
      /\ Head(s) = s[1]
  OBVIOUS
<1>2. Head(s) \in ToSet(s) /\ ToSet(Tail(s)) \subseteq ToSet(s)
  BY <1>1 DEF ToSet
<1>3. ASSUME NEW x \in ToSet(s), x # Head(s)
      PROVE  x \in ToSet(Tail(s))
  <2>1. PICK i \in 1 .. Len(s) : s[i] = x
    BY DEF ToSet
  <2>2. i - 1 \in 1 .. Len(Tail(s)) /\ (i - 1) + 1 = i
    BY <1>1, <1>3, <2>1
  <2>3. Tail(s)[i - 1] = x
    BY <1>1, <2>1, <2>2
  <2>4. DOMAIN Tail(s) = 1 .. Len(Tail(s))
    BY <1>1
  <2>5. QED
    BY <2>2, <2>3, <2>4 DEF ToSet
<1>4. IsInjective(s) => IsInjective(Tail(s)) /\ Head(s) \notin ToSet(Tail(s))
  BY <1>1 DEF IsInjective, ToSet
<1>5. QED
  BY <1>1, <1>2, <1>3, <1>4

\* Append to a sequence without repetition.
LEMMA AppendToSet ==
  ASSUME NEW S, NEW s \in Seq(S), NEW e \in S
  PROVE  /\ Append(s, e) \in Seq(S)
         /\ ToSet(Append(s, e)) = ToSet(s) \cup {e}
         /\ IsInjective(s) /\ e \notin ToSet(s) => IsInjective(Append(s, e))
<1>1. /\ Append(s, e) \in Seq(S)
      /\ Len(Append(s, e)) = Len(s) + 1
      /\ \A i \in 1 .. Len(s) + 1 :
            Append(s, e)[i] = IF i = Len(s) + 1 THEN e ELSE s[i]
  BY AppendProperties
<1>2. ToSet(Append(s, e)) = ToSet(s) \cup {e}
  <2>1. ToSet(Append(s, e)) \subseteq ToSet(s) \cup {e}
    BY <1>1 DEF ToSet
  <2>2. \A x \in ToSet(s) : x \in ToSet(Append(s, e))
    BY <1>1 DEF ToSet
  <2>3. e \in ToSet(Append(s, e))
    BY <1>1 DEF ToSet
  <2>4. QED
    BY <2>1, <2>2, <2>3
<1>3. IsInjective(s) /\ e \notin ToSet(s) => IsInjective(Append(s, e))
  BY <1>1 DEF IsInjective, ToSet
<1>4. QED
  BY <1>1, <1>2, <1>3

\* The elements of a sequence over S are members of S.
LEMMA ToSetType ==
  ASSUME NEW S, NEW s \in Seq(S)
  PROVE  /\ ToSet(s) \subseteq S
         /\ s = <<>> <=> ToSet(s) = {}
BY DEF ToSet

\* SetToSeq lists every element of a finite set.
LEMMA SetToSeqLists ==
  ASSUME NEW S, IsFiniteSet(S)
  PROVE  /\ Cardinality(S) \in Nat
         /\ SetToSeq(S) \in [1 .. Cardinality(S) -> S]
         /\ \A x \in S : \E i \in 1 .. Cardinality(S) : SetToSeq(S)[i] = x
<1> DEFINE n == Cardinality(S)
           f == SetToSeq(S)
<1>1. n \in Nat /\ ExistsBijection(1 .. n, S)
  BY FS_CardinalityType
<1>2. \E g \in [1 .. n -> S] : IsInjective(g)
  <2>1. PICK g \in Bijection(1 .. n, S) : TRUE
    BY <1>1 DEF ExistsBijection
  <2>2. QED
    BY <2>1 DEF Bijection, Injection, IsInjective
<1>3. f \in [1 .. n -> S] /\ IsInjective(f)
  BY <1>2 DEF SetToSeq
<1>4. f \in Injection(1 .. n, S)
  BY <1>3 DEF Injection, IsInjective
<1>5. Cardinality(1 .. n) = n
  BY <1>1, FS_Interval
<1>6. f \in Surjection(1 .. n, S)
  BY <1>4, <1>5, FS_Injection
<1>7. QED
  BY <1>1, <1>3, <1>6 DEF Surjection

\* The values f of a recursion over 0 .. n: each is g of the one before and its place.
Iterates(f, base, g, n) == f[0] = base /\ \A k \in 1 .. n : f[k] = g[<<f[k - 1], k>>]

\* Every recursion has its values.
LEMMA IterationExists ==
  ASSUME NEW A, NEW n \in Nat, NEW base \in A, NEW g \in [A \X (1 .. n) -> A]
  PROVE  \E f \in [0 .. n -> A] : Iterates(f, base, g, n)
<1> DEFINE Upto(m, f) == \A k \in 0 .. m : f[k] = IF k = 0 THEN base ELSE g[<<f[k - 1], k>>]
           Bad == {m \in 0 .. n : ~ \E f \in [0 .. m -> A] : Upto(m, f)}
<1>1. ASSUME Bad # {} PROVE FALSE
  <2>0. Bad \subseteq Nat
    OBVIOUS
  <2>1. PICK m \in Bad : \A x \in Bad : m <= x
    <3> HIDE DEF Bad
    <3> QED BY <1>1, <2>0, MinIsMember
  <2>2. m \in 0 .. n /\ ~ \E f \in [0 .. m -> A] : Upto(m, f)
    BY <2>1
  <2>3. CASE m = 0
    <3>1. [k \in 0 .. 0 |-> base] \in [0 .. m -> A] /\ Upto(m, [k \in 0 .. 0 |-> base])
      BY <2>3
    <3> QED BY <3>1, <2>2
  <2>4. CASE m # 0
    <3>1. m - 1 \in 0 .. n /\ m - 1 \notin Bad
      BY <2>1, <2>2, <2>4
    <3>2. PICK f \in [0 .. m - 1 -> A] : Upto(m - 1, f)
      BY <3>1
    <3>3. f[m - 1] \in A /\ m \in 1 .. n
      BY <2>2, <2>4
    <3>4. g[<<f[m - 1], m>>] \in A
      BY <3>3
    <3> DEFINE h == [k \in 0 .. m |-> IF k = m THEN g[<<f[m - 1], m>>] ELSE f[k]]
    <3>5. h \in [0 .. m -> A]
      BY <3>4, <2>2
    <3>6. ASSUME NEW k \in 0 .. m
          PROVE  h[k] = IF k = 0 THEN base ELSE g[<<h[k - 1], k>>]
      <4>1. CASE k = m
        <5>1. h[k] = g[<<f[m - 1], m>>] /\ h[k - 1] = f[m - 1]
          BY <4>1, <2>2, <2>4
        <5> QED BY <5>1, <4>1, <2>4
      <4>2. CASE k # m
        <5>1. k \in 0 .. m - 1 /\ h[k] = f[k]
          BY <4>2, <2>2
        <5>2. k # 0 => h[k - 1] = f[k - 1]
          BY <4>2, <2>2
        <5> HIDE DEF h
        <5> QED BY <5>1, <5>2, <3>2
      <4> QED BY <4>1, <4>2
    <3>7. Upto(m, h)
      <4> HIDE DEF h
      <4> QED BY <3>6
    <3> QED BY <3>5, <3>7, <2>2
  <2> QED BY <2>3, <2>4
<1>2. PICK f \in [0 .. n -> A] : Upto(n, f)
  BY <1>1
<1>3. Iterates(f, base, g, n)
  <2>1. f[0] = base
    <3>1. 0 \in 0 .. n
      OBVIOUS
    <3> QED BY <1>2, <3>1
  <2>2. ASSUME NEW k \in 1 .. n PROVE f[k] = g[<<f[k - 1], k>>]
    <3>1. k \in 0 .. n /\ k # 0
      OBVIOUS
    <3> QED BY <1>2, <3>1
  <2> HIDE DEF Upto
  <2> QED BY <2>1, <2>2 DEF Iterates
<1> QED BY <1>3

\* Two functions that begin alike and go on alike are equal.
GoAlike(e, f, n) == e[0] = f[0] /\ \A k \in 1 .. n : e[k - 1] = f[k - 1] => e[k] = f[k]
Alike(e, f, n) == \A k \in 0 .. n : e[k] = f[k]

LEMMA IterationUnique ==
  ASSUME NEW n \in Nat, NEW e, NEW f, GoAlike(e, f, n)
  PROVE  Alike(e, f, n)
<1> USE DEF GoAlike, Alike
<1> DEFINE Bad == {k \in 0 .. n : e[k] # f[k]}
<1> SUFFICES ASSUME Bad # {} PROVE FALSE
  OBVIOUS
<1>0. Bad \subseteq Nat
  OBVIOUS
<1>1. PICK m \in Bad : \A x \in Bad : m <= x
  <2> HIDE DEF Bad
  <2> QED BY <1>0, MinIsMember
<1>2. m \in 1 .. n /\ e[m] # f[m]
  BY <1>1
<1>3. m - 1 \in 0 .. n /\ m - 1 \notin Bad
  BY <1>1, <1>2
<1> QED BY <1>2, <1>3
=============================================================================
