-------------------------- MODULE InductionLemmas --------------------------
(***************************************************************************)
(* Induction over the naturals and over sequences, with the property given *)
(* as the set of the values that have it, and what follows by induction    *)
(* about the operators of the library that the specifications use.         *)
(***************************************************************************)
EXTENDS Flatten, Summation, FiniteSetTheorems, WellFoundedInduction, TLAPS

\* The elements and the length of a sequence: none, any, one more, two in a
\* row.  (SequenceTheorems is not extended: every obligation of a module would
\* carry all of its theorems.)
LEMMA EmptySeq ==
    ASSUME NEW S
    PROVE  <<>> \in Seq(S) /\ Len(<<>>) = 0
OBVIOUS

LEMMA LenProperties ==
    ASSUME NEW S, NEW q \in Seq(S)
    PROVE  Len(q) \in Nat /\ DOMAIN q = 1 .. Len(q) /\ q \in [1 .. Len(q) -> S]
OBVIOUS

LEMMA ElementOfSeq ==
    ASSUME NEW S, NEW q \in Seq(S), NEW i \in 1 .. Len(q)
    PROVE  q[i] \in S
OBVIOUS

LEMMA AppendProperties ==
    ASSUME NEW S, NEW q \in Seq(S), NEW e \in S
    PROVE  /\ Append(q, e) \in Seq(S) /\ Append(q, e) # <<>>
           /\ Len(Append(q, e)) = Len(q) + 1 /\ Append(q, e)[Len(q) + 1] = e
           /\ \A i \in 1 .. Len(q) : Append(q, e)[i] = q[i]
OBVIOUS

LEMMA ConcatProperties ==
    ASSUME NEW S, NEW q \in Seq(S), NEW r \in Seq(S)
    PROVE  /\ q \o r \in Seq(S) /\ Len(q \o r) = Len(q) + Len(r)
           /\ \A i \in 1 .. Len(q) + Len(r) :
                 (q \o r)[i] = IF i <= Len(q) THEN q[i] ELSE r[i - Len(q)]
OBVIOUS

LEMMA SeqEqual ==
    ASSUME NEW S, NEW q \in Seq(S), NEW r \in Seq(S), Len(q) = Len(r),
           \A i \in 1 .. Len(q) : q[i] = r[i]
    PROVE  q = r
OBVIOUS

LEMMA ConcatAssociative ==
    ASSUME NEW S, NEW q \in Seq(S), NEW r \in Seq(S), NEW t \in Seq(S)
    PROVE  (q \o r) \o t = q \o (r \o t)
BY SMTT(30)

LEMMA SequenceEmptyOrAppend ==
    ASSUME NEW S, NEW q \in Seq(S), q # <<>>
    PROVE  \E r \in Seq(S), e \in S : q = Append(r, e)
<1>1. Len(q) \in Nat /\ Len(q) >= 1
  OBVIOUS
<1> DEFINE r == [i \in 1 .. Len(q) - 1 |-> q[i]]
<1>2. r \in Seq(S) /\ Len(r) = Len(q) - 1
  BY <1>1
<1>3. Append(r, q[Len(q)]) = q
  BY <1>1, <1>2
<1>4. q[Len(q)] \in S
  BY <1>1
<1> HIDE DEF r
<1> QED
  BY <1>2, <1>3, <1>4

LessThan == OpToRel(<, Nat)

\* A set that contains zero and with each natural number the next one
\* contains all of them.
LEMMA SetInduction ==
    ASSUME NEW Q, 0 \in Q, \A n \in Nat : n \in Q => n + 1 \in Q
    PROVE  \A n \in Nat : n \in Q
<1> DEFINE T == Nat \ Q
<1>1. IsWellFoundedOn(LessThan, Nat)
  BY NatLessThanWellFounded, Zenon DEF LessThan
<1>2. SUFFICES ASSUME T # {} PROVE FALSE
  OBVIOUS
<1>3. T \subseteq Nat
  OBVIOUS
<1>4. PICK x \in T : \A y \in T : ~ (<<y, x>> \in LessThan)
  <2> HIDE DEF T
  <2> QED
    BY <1>1, <1>2, <1>3, WFMin, Zenon
<1>5. x \in Nat /\ x # 0 /\ x - 1 \in Nat /\ x - 1 \in T
  OBVIOUS
<1>6. <<x - 1, x>> \in LessThan
  BY <1>5 DEF LessThan, OpToRel
<1> QED
  BY <1>4, <1>5, <1>6

\* A loop: what holds at first and is kept by every turn holds at the end.
LEMMA LoopInduction ==
    ASSUME NEW n \in Nat, NEW Q, 0 \in Q, \A i \in 1 .. n : i - 1 \in Q => i \in Q
    PROVE  n \in Q
<1> DEFINE P == {i \in Nat : i <= n => i \in Q}
<1>1. 0 \in P
  OBVIOUS
<1>2. ASSUME NEW i \in Nat, i \in P PROVE i + 1 \in P
  <2> SUFFICES ASSUME i + 1 <= n PROVE i + 1 \in Q
    OBVIOUS
  <2>1. i + 1 \in 1 .. n /\ (i + 1) - 1 = i /\ i \in Q
    BY <1>2
  <2> QED
    BY <2>1
<1> HIDE DEF P
<1>3. n \in P
  BY <1>1, <1>2, SetInduction
<1> QED
  BY <1>3 DEF P

\* A set that contains the empty sequence and with each sequence its
\* extensions by one element contains all sequences.
LEMMA SeqInduction ==
    ASSUME NEW S, NEW Q, <<>> \in Q,
           \A s \in Seq(S), e \in S : s \in Q => Append(s, e) \in Q
    PROVE  \A s \in Seq(S) : s \in Q
<1> DEFINE N == {n \in Nat : \A s \in Seq(S) : Len(s) = n => s \in Q}
<1>1. 0 \in N
  OBVIOUS
<1>2. ASSUME NEW n \in Nat, n \in N PROVE n + 1 \in N
  <2> SUFFICES ASSUME NEW s \in Seq(S), Len(s) = n + 1 PROVE s \in Q
    BY <1>2
  <2>1. PICK r \in Seq(S), e \in S : s = Append(r, e)
    BY SequenceEmptyOrAppend
  <2>2. Len(r) = n
    BY <2>1
  <2> QED
    BY <1>2, <2>1, <2>2
<1> HIDE DEF N
<1>3. \A n \in Nat : n \in N
  BY <1>1, <1>2, SetInduction
<1> QED
  BY <1>3 DEF N

\* A nonempty set of naturals has a minimum.
LEMMA MinProperties ==
    ASSUME NEW S \in SUBSET Nat, S # {}
    PROVE  Min(S) \in S /\ \A y \in S : Min(S) <= y
<1>1. PICK x \in S : \A y \in S : ~ (<<y, x>> \in LessThan)
  BY NatLessThanWellFounded, WFMin, Zenon DEF LessThan
<1>2. \A y \in S : x <= y
  <2> SUFFICES ASSUME NEW y \in S, y < x PROVE FALSE
    OBVIOUS
  <2>1. <<y, x>> \in LessThan
    BY DEF LessThan, OpToRel
  <2> QED
    BY <1>1, <2>1
<1> QED
  BY <1>2, Zenon DEF Min

----------------------------------------------------------------------------
\* What a sequence has among its elements.
Has(q, x) == \E j \in 1 .. Len(q) : q[j] = x

LEMMA HasNone == \A x : ~ Has(<<>>, x)
BY DEF Has

LEMMA HasRange ==
    ASSUME NEW S, NEW q \in Seq(S)
    PROVE  \A x : x \in Range(q) <=> Has(q, x)
BY DEF Range, Has

LEMMA HasType ==
    ASSUME NEW S, NEW q \in Seq(S)
    PROVE  \A x : Has(q, x) => x \in S
BY DEF Has

LEMMA HasAppend ==
    ASSUME NEW S, NEW q \in Seq(S), NEW e \in S
    PROVE  \A x : Has(Append(q, e), x) <=> Has(q, x) \/ x = e
<1> DEFINE r == Append(q, e)
<1>1. /\ r \in Seq(S) /\ Len(r) = Len(q) + 1 /\ Len(q) \in Nat
      /\ \A i \in 1 .. Len(q) : r[i] = q[i]
      /\ r[Len(q) + 1] = e
  OBVIOUS
<1> HIDE DEF r
<1>2. \A x : Has(r, x) <=> Has(q, x) \/ x = e
  BY <1>1 DEF Has
<1> QED
  BY <1>2 DEF r

LEMMA HasConcat ==
    ASSUME NEW S, NEW q \in Seq(S), NEW r \in Seq(S)
    PROVE  q \o r \in Seq(S) /\ \A x : Has(q \o r, x) <=> Has(q, x) \/ Has(r, x)
<1> DEFINE c == q \o r
<1>1. /\ c \in Seq(S) /\ Len(c) = Len(q) + Len(r) /\ Len(q) \in Nat /\ Len(r) \in Nat
      /\ \A i \in 1 .. Len(q) : c[i] = q[i]
      /\ \A i \in 1 .. Len(r) : c[Len(q) + i] = r[i]
  OBVIOUS
<1> HIDE DEF c
<1>2. ASSUME NEW x, Has(c, x) PROVE Has(q, x) \/ Has(r, x)
  <2>1. PICK j \in 1 .. Len(c) : c[j] = x
    BY <1>2 DEF Has
  <2>2. CASE j \in 1 .. Len(q)
    BY <1>1, <2>1, <2>2 DEF Has
  <2>3. CASE j \notin 1 .. Len(q)
    <3>1. j - Len(q) \in 1 .. Len(r) /\ Len(q) + (j - Len(q)) = j
      BY <1>1, <2>3
    <3>2. r[j - Len(q)] = x
      BY <1>1, <2>1, <3>1
    <3> QED
      BY <3>1, <3>2 DEF Has
  <2> QED
    BY <2>2, <2>3
<1>3. ASSUME NEW x, Has(q, x) PROVE Has(c, x)
  BY <1>1, <1>3 DEF Has
<1>4. ASSUME NEW x, Has(r, x) PROVE Has(c, x)
  <2>1. PICK j \in 1 .. Len(r) : r[j] = x
    BY <1>4 DEF Has
  <2>2. Len(q) + j \in 1 .. Len(c) /\ c[Len(q) + j] = x
    BY <1>1, <2>1
  <2> QED
    BY <2>2 DEF Has
<1> QED
  BY <1>1, <1>2, <1>3, <1>4 DEF c

LEMMA HasTail ==
    ASSUME NEW S, NEW q \in Seq(S), q # <<>>
    PROVE  /\ Head(q) \in S /\ Tail(q) \in Seq(S) /\ Len(q) # 0 /\ Len(Tail(q)) = Len(q) - 1
           /\ \A x : Has(q, x) <=> x = Head(q) \/ Has(Tail(q), x)
<1> DEFINE r == Tail(q)
<1>1. /\ r \in Seq(S) /\ Len(q) \in Nat /\ Len(q) # 0 /\ Len(r) = Len(q) - 1
      /\ Head(q) = q[1] /\ Head(q) \in S
      /\ \A i \in 1 .. Len(r) : r[i] = q[i + 1]
  OBVIOUS
<1> HIDE DEF r
<1>2. ASSUME NEW x, Has(q, x) PROVE x = Head(q) \/ Has(r, x)
  <2>1. PICK j \in 1 .. Len(q) : q[j] = x
    BY <1>2 DEF Has
  <2>2. CASE j # 1
    <3>1. j - 1 \in 1 .. Len(r) /\ (j - 1) + 1 = j
      BY <1>1, <2>2
    <3> QED
      BY <1>1, <2>1, <3>1, Zenon DEF Has
  <2> QED
    BY <1>1, <2>1, <2>2
<1>3. Has(q, Head(q))
  BY <1>1 DEF Has
<1>4. ASSUME NEW x, Has(r, x) PROVE Has(q, x)
  <2>1. PICK j \in 1 .. Len(r) : r[j] = x
    BY <1>4 DEF Has
  <2>2. j + 1 \in 1 .. Len(q) /\ q[j + 1] = x
    BY <1>1, <2>1
  <2> QED
    BY <2>2 DEF Has
<1> QED
  BY <1>1, <1>2, <1>3, <1>4 DEF r

\* The first n elements and the others.
LEMMA HasSubSeq ==
    ASSUME NEW S, NEW q \in Seq(S), NEW n \in 0 .. Len(q)
    PROVE  /\ SubSeq(q, 1, n) \in Seq(S) /\ SubSeq(q, n + 1, Len(q)) \in Seq(S)
           /\ \A x : Has(q, x) <=> Has(SubSeq(q, 1, n), x) \/ Has(SubSeq(q, n + 1, Len(q)), x)
<1> DEFINE l == SubSeq(q, 1, n)
           r == SubSeq(q, n + 1, Len(q))
<1>0. Len(q) \in Nat /\ n \in Nat
  OBVIOUS
<1>1. /\ l \in Seq(S) /\ Len(l) = n /\ \A i \in 1 .. n : l[i] = q[i]
  OBVIOUS
<1>2. /\ r \in Seq(S) /\ Len(r) = Len(q) - n /\ \A i \in 1 .. Len(q) - n : r[i] = q[n + i]
  OBVIOUS
<1> HIDE DEF l, r
<1>3. ASSUME NEW x, Has(q, x) PROVE Has(l, x) \/ Has(r, x)
  <2>1. PICK j \in 1 .. Len(q) : q[j] = x
    BY <1>3 DEF Has
  <2>2. CASE j \in 1 .. n
    BY <1>1, <2>1, <2>2 DEF Has
  <2>3. CASE j \notin 1 .. n
    <3>1. j - n \in 1 .. Len(r) /\ n + (j - n) = j
      BY <1>0, <1>2, <2>3
    <3> QED
      BY <1>2, <2>1, <3>1, Zenon DEF Has
  <2> QED
    BY <2>2, <2>3
<1>4. ASSUME NEW x, Has(l, x) PROVE Has(q, x)
  BY <1>0, <1>1, <1>4 DEF Has
<1>5. ASSUME NEW x, Has(r, x) PROVE Has(q, x)
  <2>1. PICK j \in 1 .. Len(r) : r[j] = x
    BY <1>5 DEF Has
  <2>2. n + j \in 1 .. Len(q) /\ q[n + j] = x
    BY <1>0, <1>2, <2>1
  <2> QED
    BY <2>2 DEF Has
<1> QED
  BY <1>1, <1>2, <1>3, <1>4, <1>5 DEF l, r

----------------------------------------------------------------------------
\* The function by which FlattenSeq is defined, for the first n sequences.
FlattenTo(f, seqs, i) == IF i = 0 THEN <<>> ELSE f[i - 1] \o seqs[i]
Flattens(f, seqs, n) == f = [i \in 0 .. n |-> FlattenTo(f, seqs, i)]

\* That function exists.
LEMMA FlattensExists ==
    ASSUME NEW seqs
    PROVE  \A n \in Nat : \E f : Flattens(f, seqs, n)
<1> DEFINE Q == {n \in Nat : \E f : Flattens(f, seqs, n)}
<1>1. 0 \in Q
  <2>1. Flattens([i \in 0 .. 0 |-> <<>>], seqs, 0)
    BY DEF Flattens, FlattenTo
  <2> QED
    BY <2>1
<1>2. ASSUME NEW n \in Nat, n \in Q PROVE n + 1 \in Q
  <2>1. PICK f : Flattens(f, seqs, n)
    BY <1>2
  <2> DEFINE g == [i \in 0 .. n + 1 |-> IF i <= n THEN f[i] ELSE f[i - 1] \o seqs[i]]
  <2>2. ASSUME NEW i \in 0 .. n + 1 PROVE g[i] = FlattenTo(g, seqs, i)
    <3>1. CASE i <= n
      <4>1. i \in 0 .. n /\ (i # 0 => i - 1 \in 0 .. n + 1 /\ i - 1 <= n)
        BY <3>1
      <4>2. f[i] = IF i = 0 THEN <<>> ELSE f[i - 1] \o seqs[i]
        BY <2>1, <4>1 DEF Flattens, FlattenTo
      <4>3. g[i] = f[i] /\ (i # 0 => g[i - 1] = f[i - 1])
        BY <3>1, <4>1
      <4> HIDE DEF g
      <4> QED
        BY <4>2, <4>3 DEF FlattenTo
    <3>2. CASE i = n + 1
      <4>1. i # 0 /\ ~ (i <= n) /\ i - 1 \in 0 .. n + 1 /\ i - 1 <= n
        BY <3>2
      <4>2. g[i] = f[i - 1] \o seqs[i] /\ g[i - 1] = f[i - 1]
        BY <4>1, Zenon
      <4> HIDE DEF g
      <4> QED
        BY <4>1, <4>2, Zenon DEF FlattenTo
    <3>3. i <= n \/ i = n + 1
      OBVIOUS
    <3> QED
      BY <3>1, <3>2, <3>3, Zenon
  <2>3. g = [i \in 0 .. n + 1 |-> g[i]]
    OBVIOUS
  <2> HIDE DEF g
  <2>4. Flattens(g, seqs, n + 1)
    BY <2>2, <2>3 DEF Flattens
  <2> QED
    BY <2>4
<1> HIDE DEF Q
<1>3. \A n \in Nat : n \in Q
  BY <1>1, <1>2, SetInduction
<1> QED
  BY <1>3 DEF Q

\* One step of it.
LEMMA FlattensStep ==
    ASSUME NEW seqs, NEW n, NEW f, Flattens(f, seqs, n)
    PROVE  \A i \in 0 .. n : f[i] = FlattenTo(f, seqs, i)
BY Zenon DEF Flattens

\* Its values are sequences, and do not depend on a sequence that follows.
LEMMA FlattensExtend ==
    ASSUME NEW S, NEW r \in Seq(Seq(S)), NEW e \in Seq(S),
           NEW f, Flattens(f, r, Len(r)),
           NEW g, Flattens(g, Append(r, e), Len(r) + 1)
    PROVE  \A i \in 0 .. Len(r) : f[i] = g[i] /\ f[i] \in Seq(S)
<1> DEFINE m == Len(r)
           s == Append(r, e)
           Q == {k \in Nat : k \in 0 .. m => f[k] = g[k] /\ f[k] \in Seq(S)}
<1>f. \A i \in 0 .. m : f[i] = FlattenTo(f, r, i)
  BY FlattensStep, Zenon
<1>g. \A i \in 0 .. m + 1 : g[i] = FlattenTo(g, s, i)
  BY FlattensStep, Zenon
<1>s. m \in Nat /\ \A i \in 1 .. m : r[i] \in Seq(S) /\ r[i] = s[i]
  BY AppendProperties, LenProperties, ElementOfSeq
<1> HIDE DEF m, s
<1>1. 0 \in Q
  <2>1. f[0] = <<>> /\ g[0] = <<>>
    BY <1>f, <1>g, <1>s DEF FlattenTo
  <2> QED
    BY <2>1, EmptySeq, Zenon
<1>2. ASSUME NEW k \in Nat, k \in Q PROVE k + 1 \in Q
  <2> SUFFICES ASSUME k + 1 \in 0 .. m
               PROVE  f[k + 1] = g[k + 1] /\ f[k + 1] \in Seq(S)
    OBVIOUS
  <2>1. /\ k + 1 \in 0 .. m + 1 /\ k \in 0 .. m /\ k + 1 # 0 /\ (k + 1) - 1 = k
        /\ r[k + 1] \in Seq(S) /\ r[k + 1] = s[k + 1]
    BY <1>s
  <2>2. f[k + 1] = f[k] \o r[k + 1] /\ g[k + 1] = g[k] \o s[k + 1]
    BY <1>f, <1>g, <2>1, Zenon DEF FlattenTo
  <2>3. f[k] = g[k] /\ f[k] \in Seq(S)
    BY <1>2, <2>1
  <2>4. f[k] \o r[k + 1] \in Seq(S)
    BY <2>1, <2>3, ConcatProperties
  <2> QED
    BY <2>1, <2>2, <2>3, <2>4
<1> HIDE DEF Q
<1>3. \A k \in Nat : k \in Q
  BY <1>1, <1>2, SetInduction, Zenon
<1> QED
  BY <1>3 DEF Q, m

\* FlattenSeq is the last value of that function.
LEMMA FlattenSeqDef ==
    ASSUME NEW seqs, Len(seqs) \in Nat
    PROVE  \E f : Flattens(f, seqs, Len(seqs)) /\ FlattenSeq(seqs) = f[Len(seqs)]
<1> DEFINE f == CHOOSE f : Flattens(f, seqs, Len(seqs))
<1>1. \E g : Flattens(g, seqs, Len(seqs))
  BY FlattensExists
<1> HIDE DEF f
<1>2. Flattens(f, seqs, Len(seqs))
  BY <1>1 DEF f
<1>3. FlattenSeq(seqs) = f[Len(seqs)]
  BY DEF FlattenSeq, Flattens, FlattenTo, f
<1> QED
  BY <1>2, <1>3

\* FlattenSeq of sequences over S is a sequence over S, and of one more
\* sequence it is one longer by that sequence.
LEMMA FlattenSeqProperties ==
    ASSUME NEW S, NEW seqs \in Seq(Seq(S))
    PROVE  /\ FlattenSeq(<<>>) = <<>>
           /\ FlattenSeq(seqs) \in Seq(S)
           /\ \A s \in Seq(S) : FlattenSeq(Append(seqs, s)) = FlattenSeq(seqs) \o s
<1>1. FlattenSeq(<<>>) = <<>>
  <2>1. Len(<<>>) = 0 /\ 0 \in Nat
    OBVIOUS
  <2>2. PICK f : Flattens(f, <<>>, 0) /\ FlattenSeq(<<>>) = f[0]
    BY <2>1, FlattenSeqDef, Zenon
  <2> QED
    BY <2>2, FlattensStep DEF FlattenTo
<1> DEFINE n == Len(seqs)
<1>2. n \in Nat
  OBVIOUS
<1>3. PICK f : Flattens(f, seqs, n) /\ FlattenSeq(seqs) = f[n]
  BY <1>2, FlattenSeqDef
<1>4. ASSUME NEW s \in Seq(S)
      PROVE  FlattenSeq(seqs) \in Seq(S) /\ FlattenSeq(Append(seqs, s)) = FlattenSeq(seqs) \o s
  <2> DEFINE longer == Append(seqs, s)
  <2>1. Len(longer) = n + 1 /\ longer[n + 1] = s /\ n + 1 \in Nat
    BY AppendProperties, LenProperties
  <2> HIDE DEF longer
  <2>2. PICK g : Flattens(g, longer, n + 1) /\ FlattenSeq(longer) = g[n + 1]
    BY <2>1, FlattenSeqDef
  <2>3. \A i \in 0 .. n : f[i] = g[i] /\ f[i] \in Seq(S)
    BY <1>3, <2>2, FlattensExtend DEF longer
  <2>4. n + 1 \in 0 .. n + 1 /\ n \in 0 .. n /\ n + 1 # 0 /\ (n + 1) - 1 = n
    BY <1>2
  <2>5. g[n + 1] = g[n] \o s
    <3>1. g[n + 1] = FlattenTo(g, longer, n + 1)
      BY <2>2, <2>4, FlattensStep, Zenon
    <3> QED
      BY <2>1, <2>4, <3>1 DEF FlattenTo
  <2> QED
    BY <1>3, <2>2, <2>3, <2>4, <2>5, Zenon DEF longer
<1>5. FlattenSeq(seqs) \in Seq(S)
  BY <1>4, EmptySeq
<1> QED
  BY <1>1, <1>4, <1>5

LEMMA FlattenHas ==
    ASSUME NEW S, NEW seqs \in Seq(Seq(S))
    PROVE  \A x : Has(FlattenSeq(seqs), x) <=> \E i \in 1 .. Len(seqs) : Has(seqs[i], x)
<1> DEFINE In(s, x) == \E i \in 1 .. Len(s) : Has(s[i], x)
           Q == {s \in Seq(Seq(S)) : \A x : Has(FlattenSeq(s), x) <=> In(s, x)}
<1>0. <<>> \in Seq(Seq(S))
  BY EmptySeq
<1>1. <<>> \in Q
  <2>1. FlattenSeq(<<>>) = <<>>
    BY <1>0, FlattenSeqProperties
  <2>2. \A x : ~ In(<<>>, x)
    OBVIOUS
  <2> HIDE DEF In
  <2> QED
    BY <1>0, <2>1, <2>2, HasNone
<1>2. ASSUME NEW s \in Seq(Seq(S)), NEW e \in Seq(S), s \in Q PROVE Append(s, e) \in Q
  <2> DEFINE r == Append(s, e)
  <2>1. /\ r \in Seq(Seq(S)) /\ Len(r) = Len(s) + 1 /\ Len(s) \in Nat
        /\ \A i \in 1 .. Len(s) : r[i] = s[i]
        /\ r[Len(s) + 1] = e
    OBVIOUS
  <2>2. FlattenSeq(s) \in Seq(S) /\ FlattenSeq(r) = FlattenSeq(s) \o e
    BY FlattenSeqProperties
  <2> HIDE DEF r
  <2>3. \A x : Has(FlattenSeq(s) \o e, x) <=> Has(FlattenSeq(s), x) \/ Has(e, x)
    BY <2>2, HasConcat
  <2>4. \A x : In(r, x) <=> In(s, x) \/ Has(e, x)
    <3>1. ASSUME NEW x, In(r, x) PROVE In(s, x) \/ Has(e, x)
      <4>1. PICK i \in 1 .. Len(r) : Has(r[i], x)
        BY <3>1
      <4>2. i \in 1 .. Len(s) \/ i = Len(s) + 1
        BY <2>1
      <4> QED
        BY <2>1, <4>1, <4>2, Zenon
    <3>2. ASSUME NEW x, In(s, x) PROVE In(r, x)
      <4>1. PICK i \in 1 .. Len(s) : Has(s[i], x)
        BY <3>2
      <4>2. i \in 1 .. Len(r)
        BY <2>1
      <4> QED
        BY <2>1, <4>1, <4>2, Zenon
    <3>3. ASSUME NEW x, Has(e, x) PROVE In(r, x)
      <4>1. Len(s) + 1 \in 1 .. Len(r)
        BY <2>1
      <4> QED
        BY <2>1, <3>3, <4>1, Zenon
    <3> HIDE DEF In
    <3> QED
      BY <3>1, <3>2, <3>3
  <2>5. \A x : Has(FlattenSeq(s), x) <=> In(s, x)
    BY <1>2
  <2> HIDE DEF In
  <2>6. \A x : Has(FlattenSeq(r), x) <=> In(r, x)
    BY <2>2, <2>3, <2>4, <2>5
  <2> QED
    BY <2>1, <2>6 DEF r
<1> HIDE DEF Q
<1>3. seqs \in Q
  BY <1>1, <1>2, SeqInduction
<1> QED
  BY <1>3 DEF Q


----------------------------------------------------------------------------
\* A set of subsets of a finite set that contains the empty one, and each
\* one all of whose subsets of one element less it contains, contains all.
LEMMA SubsetInduction ==
    ASSUME NEW S, IsFiniteSet(S), NEW Q, {} \in Q,
           \A s \in SUBSET S : s # {} /\ (\A x \in s : s \ {x} \in Q) => s \in Q
    PROVE  \A s \in SUBSET S : s \in Q
<1> DEFINE K == {n \in Nat : \A s \in SUBSET S : Cardinality(s) = n => s \in Q}
<1>0. \A s \in SUBSET S : IsFiniteSet(s) /\ Cardinality(s) \in Nat
  BY FS_Subset, FS_CardinalityType
<1>1. 0 \in K
  BY <1>0, FS_EmptySet
<1>2. ASSUME NEW n \in Nat, n \in K PROVE n + 1 \in K
  <2> SUFFICES ASSUME NEW s \in SUBSET S, Cardinality(s) = n + 1 PROVE s \in Q
    BY <1>2
  <2>1. s # {}
    <3>1. Cardinality({}) = 0
      BY FS_EmptySet
    <3> QED
      BY <3>1
  <2>2. ASSUME NEW x \in s PROVE s \ {x} \in Q
    <3>1. Cardinality(s \ {x}) = n /\ s \ {x} \in SUBSET S
      BY <1>0, FS_RemoveElement
    <3> QED
      BY <1>2, <3>1
  <2> QED
    BY <2>1, <2>2
<1> HIDE DEF K
<1>3. \A n \in Nat : n \in K
  BY <1>1, <1>2, SetInduction
<1> QED
  BY <1>0, <1>3 DEF K

----------------------------------------------------------------------------
\* The function by which MapThenSumSet is defined, for the values of f.
SumTo(f, iter, s) == IF s = {} THEN 0
                     ELSE f[CHOOSE x \in s : TRUE] + iter[s \ {CHOOSE x \in s : TRUE}]
Sums(f, S, iter) == iter = [s \in SUBSET S |-> SumTo(f, iter, s)]

\* That function exists.
LEMMA SumsExist ==
    ASSUME NEW S, IsFiniteSet(S), NEW f
    PROVE  \E iter : Sums(f, S, iter)
<1> DEFINE Agrees(g, s) == g[s] = SumTo(f, g, s)
           Q == {n \in Nat : \E g : /\ g = [s \in SUBSET S |-> g[s]]
                                    /\ \A s \in SUBSET S : Cardinality(s) <= n => Agrees(g, s)}
<1>0. \A s \in SUBSET S : IsFiniteSet(s) /\ Cardinality(s) \in Nat
  BY FS_Subset, FS_CardinalityType
<1>a. ASSUME NEW s \in SUBSET S, s # {}
      PROVE  LET r == s \ {CHOOSE x \in s : TRUE}
             IN  r \in SUBSET S /\ Cardinality(r) = Cardinality(s) - 1
  <2>1. (CHOOSE x \in s : TRUE) \in s
    BY <1>a
  <2> QED
    BY <1>0, <2>1, FS_RemoveElement, Zenon
<1>1. 0 \in Q
  <2> DEFINE g == [s \in SUBSET S |-> 0]
  <2>1. ASSUME NEW s \in SUBSET S, Cardinality(s) <= 0 PROVE Agrees(g, s)
    <3>1. s = {}
      BY <1>0, <2>1, FS_EmptySet
    <3> QED
      BY <3>1 DEF SumTo
  <2>2. g = [s \in SUBSET S |-> g[s]]
    OBVIOUS
  <2> QED
    BY <2>1, <2>2, Zenon
<1>2. ASSUME NEW n \in Nat, n \in Q PROVE n + 1 \in Q
  <2>1. PICK g : /\ g = [s \in SUBSET S |-> g[s]]
                 /\ \A s \in SUBSET S : Cardinality(s) <= n => Agrees(g, s)
    BY <1>2, Zenon
  <2> DEFINE h == [s \in SUBSET S |-> IF Cardinality(s) <= n THEN g[s] ELSE SumTo(f, g, s)]
  <2>2. h = [s \in SUBSET S |-> h[s]]
    OBVIOUS
  <2>3. ASSUME NEW s \in SUBSET S, Cardinality(s) <= n + 1 PROVE Agrees(h, s)
    <3>1. h[s] = SumTo(f, g, s)
      BY <2>1, Zenon
    <3>2. CASE s = {}
      BY <3>1, <3>2 DEF SumTo
    <3>3. CASE s # {}
      <4> DEFINE r == s \ {CHOOSE x \in s : TRUE}
      <4>1. r \in SUBSET S /\ Cardinality(r) = Cardinality(s) - 1
        BY <1>a, <3>3
      <4>2. Cardinality(r) <= n
        BY <1>0, <2>3, <4>1
      <4>3. h[r] = g[r]
        BY <4>1, <4>2
      <4> HIDE DEF h
      <4> QED
        BY <3>1, <3>3, <4>3 DEF SumTo
    <3> QED
      BY <3>2, <3>3
  <2>4. n + 1 \in Nat
    OBVIOUS
  <2> HIDE DEF h, Agrees
  <2>5. \E k : /\ k = [s \in SUBSET S |-> k[s]]
              /\ \A s \in SUBSET S : Cardinality(s) <= n + 1 => Agrees(k, s)
    BY <2>2, <2>3, Zenon
  <2> QED
    BY <2>4, <2>5, Zenon
<1> HIDE DEF Q
<1>3. \A n \in Nat : n \in Q
  BY <1>1, <1>2, SetInduction
<1>4. Cardinality(S) \in Nat /\ \A s \in SUBSET S : Cardinality(s) <= Cardinality(S)
  BY FS_Subset, FS_CardinalityType
<1>5. PICK g : /\ g = [s \in SUBSET S |-> g[s]]
               /\ \A s \in SUBSET S : Cardinality(s) <= Cardinality(S) => Agrees(g, s)
  BY <1>3, <1>4, Zenon DEF Q
<1>6. \A s \in SUBSET S : g[s] = SumTo(f, g, s)
  BY <1>4, <1>5, Zenon
<1>7. Sums(f, S, g)
  BY <1>5, <1>6, Zenon DEF Sums
<1> QED
  BY <1>7

\* SumOver is the value of that function at S.
LEMMA SumOverDef ==
    ASSUME NEW S, IsFiniteSet(S), NEW f
    PROVE  \E iter : /\ \A s \in SUBSET S : iter[s] = SumTo(f, iter, s)
                     /\ SumOver(f, S) = iter[S]
<1> DEFINE iter == CHOOSE g : Sums(f, S, g)
<1> HIDE DEF iter
<1>1. Sums(f, S, iter)
  BY SumsExist DEF iter
<1>2. \A s \in SUBSET S : iter[s] = SumTo(f, iter, s)
  BY <1>1 DEF Sums
<1>3. SumOver(f, S) = iter[S]
  BY DEF SumOver, MapThenSumSet, MapThenFoldSet, Sums, SumTo, iter
<1> QED
  BY <1>2, <1>3

\* A sum of integers is an integer, of naturals a natural and of zeros zero.
LEMMA SumOverType ==
    ASSUME NEW S, IsFiniteSet(S), NEW f \in [S -> Int]
    PROVE  /\ SumOver(f, S) \in Int
           /\ (\A x \in S : f[x] >= 0) => SumOver(f, S) >= 0
           /\ (\A x \in S : f[x] = 0) => SumOver(f, S) = 0
<1>1. PICK iter : /\ \A s \in SUBSET S : iter[s] = SumTo(f, iter, s)
                  /\ SumOver(f, S) = iter[S]
  BY SumOverDef, Zenon
<1> DEFINE Good(s) == /\ iter[s] \in Int
                      /\ (\A x \in S : f[x] >= 0) => iter[s] >= 0
                      /\ (\A x \in S : f[x] = 0) => iter[s] = 0
           Q == {s \in SUBSET S : Good(s)}
<1>2. {} \in Q
  <2>1. iter[{}] = 0
    BY <1>1, Zenon DEF SumTo
  <2>2. 0 \in Int /\ 0 >= 0
    OBVIOUS
  <2> QED
    BY <2>1, <2>2
<1>3. ASSUME NEW s \in SUBSET S, s # {}, \A x \in s : s \ {x} \in Q PROVE s \in Q
  <2> DEFINE x == CHOOSE x \in s : TRUE
  <2>1. x \in s /\ x \in S
    BY <1>3
  <2>2. s \ {x} \in SUBSET S /\ Good(s \ {x})
    BY <1>3, <2>1, Zenon
  <2>3. iter[s] = f[x] + iter[s \ {x}]
    BY <1>1, <1>3, Zenon DEF SumTo
  <2>4. f[x] \in Int
    BY <2>1
  <2> HIDE DEF x
  <2>5. Good(s)
    BY <2>1, <2>2, <2>3, <2>4
  <2> QED
    BY <2>5
<1> HIDE DEF Q
<1>4. \A s \in SUBSET S : s \in Q
  BY <1>2, <1>3, SubsetInduction, Zenon
<1> QED
  BY <1>1, <1>4 DEF Q

\* When one value changes, the sum changes by as much.
LEMMA SumOverUpdate ==
    ASSUME NEW S, IsFiniteSet(S), NEW f \in [S -> Int], NEW t \in S, NEW v \in Int
    PROVE  SumOver([f EXCEPT ![t] = v], S) = SumOver(f, S) + v - f[t]
<1> DEFINE h == [f EXCEPT ![t] = v]
<1>0. h \in [S -> Int] /\ h[t] = v /\ \A x \in S : x # t => h[x] = f[x]
  OBVIOUS
<1> HIDE DEF h
<1>1. PICK iter : /\ \A s \in SUBSET S : iter[s] = SumTo(f, iter, s)
                  /\ SumOver(f, S) = iter[S]
  BY SumOverDef, Zenon
<1>2. PICK jter : /\ \A s \in SUBSET S : jter[s] = SumTo(h, jter, s)
                  /\ SumOver(h, S) = jter[S]
  BY SumOverDef, Zenon
<1> DEFINE Good(s) == /\ iter[s] \in Int
                      /\ jter[s] = IF t \in s THEN iter[s] + v - f[t] ELSE iter[s]
           Q == {s \in SUBSET S : Good(s)}
<1>3. {} \in Q
  BY <1>1, <1>2 DEF SumTo
<1>4. ASSUME NEW s \in SUBSET S, s # {}, \A x \in s : s \ {x} \in Q PROVE s \in Q
  <2> DEFINE x == CHOOSE x \in s : TRUE
  <2>1. x \in s /\ x \in S
    BY <1>4
  <2>2. s \ {x} \in SUBSET S /\ Good(s \ {x})
    BY <1>4, <2>1, Zenon
  <2>3. iter[s] = f[x] + iter[s \ {x}] /\ jter[s] = h[x] + jter[s \ {x}]
    BY <1>1, <1>2, <1>4, Zenon DEF SumTo
  <2>4. f[x] \in Int /\ h[x] \in Int /\ f[t] \in Int
    BY <1>0, <2>1
  <2> HIDE DEF x
  <2>5. CASE x = t
    BY <1>0, <2>1, <2>2, <2>3, <2>4, <2>5
  <2>6. CASE x # t
    BY <1>0, <2>1, <2>2, <2>3, <2>4, <2>6
  <2> QED
    BY <2>5, <2>6
<1> HIDE DEF Q
<1>5. \A s \in SUBSET S : s \in Q
  BY <1>3, <1>4, SubsetInduction, SMTT(30)
<1>6. jter[S] = iter[S] + v - f[t]
  BY <1>5 DEF Q
<1> QED
  BY <1>1, <1>2, <1>6 DEF h

\* When no value is larger, nor is the sum.
LEMMA SumOverLeq ==
    ASSUME NEW S, IsFiniteSet(S), NEW f \in [S -> Int], NEW h \in [S -> Int],
           \A x \in S : f[x] <= h[x]
    PROVE  SumOver(f, S) <= SumOver(h, S)
<1>1. PICK iter : /\ \A s \in SUBSET S : iter[s] = SumTo(f, iter, s)
                  /\ SumOver(f, S) = iter[S]
  BY SumOverDef, Zenon
<1>2. PICK jter : /\ \A s \in SUBSET S : jter[s] = SumTo(h, jter, s)
                  /\ SumOver(h, S) = jter[S]
  BY SumOverDef
<1> DEFINE Good(s) == iter[s] \in Int /\ jter[s] \in Int /\ iter[s] <= jter[s]
           Q == {s \in SUBSET S : Good(s)}
<1>3. {} \in Q
  <2>1. iter[{}] = 0 /\ jter[{}] = 0
    BY <1>1, <1>2, Zenon DEF SumTo
  <2>2. 0 \in Int /\ 0 <= 0
    OBVIOUS
  <2> QED
    BY <2>1, <2>2
<1>4. ASSUME NEW s \in SUBSET S, s # {}, \A x \in s : s \ {x} \in Q PROVE s \in Q
  <2> DEFINE x == CHOOSE x \in s : TRUE
  <2>1. x \in s /\ x \in S
    BY <1>4
  <2>2. s \ {x} \in SUBSET S /\ Good(s \ {x})
    BY <1>4, <2>1, Zenon
  <2>3. iter[s] = f[x] + iter[s \ {x}] /\ jter[s] = h[x] + jter[s \ {x}]
    BY <1>1, <1>2, <1>4, Zenon DEF SumTo
  <2>4. f[x] \in Int /\ h[x] \in Int /\ f[x] <= h[x]
    BY <2>1
  <2> HIDE DEF x
  <2> QED
    BY <2>1, <2>2, <2>3, <2>4
<1> HIDE DEF Q
<1>5. \A s \in SUBSET S : s \in Q
  BY <1>3, <1>4, SubsetInduction, Zenon
<1>6. iter[S] <= jter[S]
  BY <1>5 DEF Q
<1> QED
  BY <1>1, <1>2, <1>6

\* The sum depends on the values on S only.
Totals(f, S, iter) == \A s \in SUBSET S : iter[s] = SumTo(f, iter, s)

LEMMA SumsAgree ==
    ASSUME NEW T, NEW S \in SUBSET T, IsFiniteSet(S), NEW f, NEW h, \A x \in S : f[x] = h[x],
           NEW iter, Totals(f, T, iter), NEW jter, Totals(h, S, jter)
    PROVE  \A s \in SUBSET S : iter[s] = jter[s]
<1>0. /\ \A s \in SUBSET T : iter[s] = SumTo(f, iter, s)
      /\ \A s \in SUBSET S : jter[s] = SumTo(h, jter, s)
  BY DEF Totals
<1> DEFINE Q == {s \in SUBSET S : iter[s] = jter[s]}
<1>1. {} \in Q
  <2>1. iter[{}] = 0 /\ jter[{}] = 0
    BY <1>0, Zenon DEF SumTo
  <2> QED
    BY <2>1
<1>2. ASSUME NEW s \in SUBSET S, s # {}, \A x \in s : s \ {x} \in Q PROVE s \in Q
  <2> DEFINE x == CHOOSE x \in s : TRUE
  <2>1. x \in s /\ x \in S /\ s \in SUBSET T
    BY <1>2
  <2>2. iter[s \ {x}] = jter[s \ {x}]
    BY <1>2, <2>1, Zenon
  <2>3. iter[s] = f[x] + iter[s \ {x}] /\ jter[s] = h[x] + jter[s \ {x}]
    BY <1>0, <1>2, <2>1, Zenon DEF SumTo
  <2> HIDE DEF x
  <2>4. f[x] = h[x]
    BY <2>1
  <2>5. iter[s] = jter[s]
    BY <2>2, <2>3, <2>4, Zenon
  <2> QED
    BY <2>5
<1> HIDE DEF Q
<1>3. \A s \in SUBSET S : s \in Q
  BY <1>1, <1>2, SubsetInduction, Zenon
<1> QED
  BY <1>3 DEF Q

LEMMA SumOverAgree ==
    ASSUME NEW S, IsFiniteSet(S), NEW f, NEW h, \A x \in S : f[x] = h[x]
    PROVE  SumOver(f, S) = SumOver(h, S)
<1>1. PICK iter : /\ \A s \in SUBSET S : iter[s] = SumTo(f, iter, s)
                  /\ SumOver(f, S) = iter[S]
  BY SumOverDef, Zenon
<1>2. PICK jter : /\ \A s \in SUBSET S : jter[s] = SumTo(h, jter, s)
                  /\ SumOver(h, S) = jter[S]
  BY SumOverDef, Zenon
<1>3. S \in SUBSET S
  OBVIOUS
<1>4. \A s \in SUBSET S : iter[s] = jter[s]
  <2>1. Totals(f, S, iter) /\ Totals(h, S, jter)
    BY <1>1, <1>2, Zenon DEF Totals
  <2> QED
    BY <1>3, <2>1, SumsAgree
<1> QED
  BY <1>1, <1>2, <1>3, <1>4

\* Any element may be taken as the last.
LEMMA SumOverStep ==
    ASSUME NEW S, IsFiniteSet(S), NEW f, \A y \in S : f[y] \in Int, NEW x \in S
    PROVE  /\ SumOver(f, S) = SumOver(f, S \ {x}) + f[x]
           /\ SumOver(f, S \ {x}) \in Int
<1>1. PICK iter : /\ \A s \in SUBSET S : iter[s] = SumTo(f, iter, s)
                  /\ SumOver(f, S) = iter[S]
  BY SumOverDef, Zenon
<1>a. \A s \in SUBSET S : iter[s] \in Int
  <2> DEFINE Q == {s \in SUBSET S : iter[s] \in Int}
  <2>1. {} \in Q
    <3>1. iter[{}] = 0
      BY <1>1, Zenon DEF SumTo
    <3> QED
      BY <3>1
  <2>2. ASSUME NEW s \in SUBSET S, s # {}, \A y \in s : s \ {y} \in Q PROVE s \in Q
    <3> DEFINE z == CHOOSE y \in s : TRUE
    <3>1. z \in s /\ iter[s] = f[z] + iter[s \ {z}]
      BY <1>1, <2>2, Zenon DEF SumTo
    <3> HIDE DEF z
    <3>2. f[z] \in Int /\ iter[s \ {z}] \in Int
      BY <2>2, <3>1
    <3> QED
      BY <3>1, <3>2
  <2> HIDE DEF Q
  <2>3. \A s \in SUBSET S : s \in Q
    BY <2>1, <2>2, SubsetInduction, Zenon
  <2> QED
    BY <2>3 DEF Q
<1> DEFINE Good(s) == \A y \in s : iter[s] = iter[s \ {y}] + f[y]
           Q == {s \in SUBSET S : Good(s)}
<1>2. {} \in Q
  OBVIOUS
<1>3. ASSUME NEW s \in SUBSET S, s # {}, \A y \in s : s \ {y} \in Q PROVE s \in Q
  <2> DEFINE z == CHOOSE y \in s : TRUE
  <2>1. z \in s /\ iter[s] = f[z] + iter[s \ {z}]
    BY <1>1, <1>3, Zenon DEF SumTo
  <2> HIDE DEF z
  <2>2. \A y \in s : Good(s \ {y})
    BY <1>3
  <2>3. f[z] \in Int /\ iter[s \ {z}] \in Int
    BY <1>a, <2>1
  <2>4. ASSUME NEW y \in s PROVE iter[s] = iter[s \ {y}] + f[y]
    <3>1. CASE y = z
      BY <2>1, <2>3, <3>1
    <3>2. CASE y # z
      <4>1. y \in s \ {z} /\ z \in s \ {y} /\ (s \ {z}) \ {y} = (s \ {y}) \ {z}
        BY <2>1, <3>2
      <4>2. PICK r : r = (s \ {z}) \ {y}
        OBVIOUS
      <4>3. iter[s \ {z}] = iter[r] + f[y] /\ iter[s \ {y}] = iter[r] + f[z]
        BY <2>1, <2>2, <4>1, <4>2, Zenon
      <4>4. r \in SUBSET S /\ f[y] \in Int
        BY <4>2
      <4>5. iter[r] \in Int
        BY <1>a, <4>4
      <4> QED
        BY <2>1, <2>3, <4>3, <4>4, <4>5
    <3> QED
      BY <3>1, <3>2
  <2> QED
    BY <2>4
<1> HIDE DEF Q
<1>4. \A s \in SUBSET S : s \in Q
  BY <1>2, <1>3, SubsetInduction, Zenon
<1>5. iter[S] = iter[S \ {x}] + f[x] /\ iter[S \ {x}] \in Int
  BY <1>a, <1>4 DEF Q
<1>6. IsFiniteSet(S \ {x}) /\ S \ {x} \in SUBSET S
  BY FS_Subset
<1>7. PICK jter : /\ \A s \in SUBSET (S \ {x}) : jter[s] = SumTo(f, jter, s)
                  /\ SumOver(f, S \ {x}) = jter[S \ {x}]
  BY <1>6, SumOverDef, Zenon
<1>8. iter[S \ {x}] = jter[S \ {x}]
  <2>1. \A s \in SUBSET (S \ {x}) : iter[s] = jter[s]
    <3>1. Totals(f, S, iter) /\ Totals(f, S \ {x}, jter)
      BY <1>1, <1>7, Zenon DEF Totals
    <3> QED
      BY <1>6, <3>1, SumsAgree
  <2> QED
    BY <2>1
<1> QED
  BY <1>1, <1>5, <1>7, <1>8, Zenon

\* A sum of naturals is at least each two of them.
LEMMA SumOverAtLeast ==
    ASSUME NEW S, IsFiniteSet(S), NEW f, \A y \in S : f[y] \in Nat
    PROVE  /\ SumOver(f, S) \in Nat
           /\ \A x \in S : SumOver(f, S) >= f[x]
           /\ \A x, y \in S : x # y => SumOver(f, S) >= f[x] + f[y]
<1>1. \A y \in S : f[y] \in Int
  OBVIOUS
<1>2. ASSUME NEW R, IsFiniteSet(R), \A y \in R : f[y] \in Nat PROVE SumOver(f, R) \in Nat
  <2> DEFINE h == [y \in R |-> f[y]]
  <2>1. h \in [R -> Int] /\ (\A y \in R : h[y] >= 0) /\ \A y \in R : h[y] = f[y]
    BY <1>2
  <2> HIDE DEF h
  <2>2. SumOver(h, R) \in Int /\ SumOver(h, R) >= 0
    BY <1>2, <2>1, SumOverType
  <2>3. SumOver(h, R) = SumOver(f, R)
    BY <1>2, <2>1, SumOverAgree
  <2> QED
    BY <2>2, <2>3
<1>3. ASSUME NEW x \in S
      PROVE  /\ SumOver(f, S) = SumOver(f, S \ {x}) + f[x]
             /\ IsFiniteSet(S \ {x}) /\ SumOver(f, S \ {x}) \in Nat
  <2>1. SumOver(f, S) = SumOver(f, S \ {x}) + f[x]
    BY <1>1, SumOverStep
  <2>2. IsFiniteSet(S \ {x})
    BY FS_Subset
  <2>3. SumOver(f, S \ {x}) \in Nat
    BY <1>2, <2>2
  <2> QED
    BY <2>1, <2>2, <2>3
<1>4. ASSUME NEW x \in S, NEW y \in S, x # y PROVE SumOver(f, S) >= f[x] + f[y]
  <2>1. PICK R : R = S \ {x}
    OBVIOUS
  <2>2. IsFiniteSet(R) /\ y \in R /\ \A z \in R : f[z] \in Int
    BY <1>1, <1>3, <1>4, <2>1
  <2>3. SumOver(f, R) = SumOver(f, R \ {y}) + f[y]
    BY <2>2, SumOverStep
  <2>4. IsFiniteSet(R \ {y}) /\ \A z \in R \ {y} : f[z] \in Nat
    BY <2>1, <2>2, FS_Subset
  <2>5. SumOver(f, R \ {y}) \in Nat
    BY <1>2, <2>4
  <2>6. f[x] \in Nat /\ f[y] \in Nat
    OBVIOUS
  <2>7. SumOver(f, S) = SumOver(f, R) + f[x]
    BY <1>3, <2>1
  <2> QED
    BY <2>3, <2>5, <2>6, <2>7
<1>5. ASSUME NEW x \in S PROVE SumOver(f, S) >= f[x]
  <2>1. PICK n : n = SumOver(f, S \ {x})
    OBVIOUS
  <2>2. SumOver(f, S) = n + f[x] /\ n \in Nat
    BY <1>3, <2>1
  <2>3. f[x] \in Nat
    OBVIOUS
  <2> QED
    BY <2>2, <2>3
<1>6. SumOver(f, S) \in Nat
  BY <1>2
<1> QED
  BY <1>4, <1>5, <1>6

----------------------------------------------------------------------------
\* An injection from 1 .. Cardinality(S) into a finite set S lists its
\* elements, and there is one.
LEMMA ListingProperties ==
    ASSUME NEW S, IsFiniteSet(S), NEW f \in Injection(1 .. Cardinality(S), S)
    PROVE  /\ f \in Seq(S) /\ Len(f) = Cardinality(S) /\ \A x \in S : Has(f, x)
           /\ \A i, j \in 1 .. Len(f) : f[i] = f[j] => i = j
<1> DEFINE n == Cardinality(S)
<1>1. n \in Nat
  BY FS_CardinalityType
<1>2. f \in [1 .. n -> S] /\ \A i, j \in 1 .. n : f[i] = f[j] => i = j
  BY DEF Injection, IsInjective
<1>3. f \in Injection(1 .. n, S)
  OBVIOUS
<1> HIDE DEF n
<1>4. Cardinality(1 .. n) = n
  <2>1. 1 \in Int /\ n \in Int
    BY <1>1
  <2>2. Cardinality(1 .. n) = IF 1 > n THEN 0 ELSE n - 1 + 1
    BY <2>1, FS_Interval
  <2> QED
    BY <1>1, <2>2
<1>5. f \in Surjection(1 .. n, S)
  BY <1>3, <1>4, FS_Injection DEF n
<1>6. f \in Seq(S) /\ Len(f) = n
  BY <1>1, <1>2
<1>7. \A x \in S : Has(f, x)
  BY <1>5, <1>6 DEF Surjection, Has
<1> QED
  BY <1>2, <1>6, <1>7 DEF n

LEMMA ListingExists ==
    ASSUME NEW S, IsFiniteSet(S)
    PROVE  Injection(1 .. Cardinality(S), S) # {}
<1>1. Cardinality(S) \in Nat /\ ExistsBijection(1 .. Cardinality(S), S)
  BY FS_CardinalityType
<1> QED
  BY <1>1 DEF ExistsBijection, Bijection
============================================================================
