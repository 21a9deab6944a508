------------------------------ MODULE Folding ------------------------------
(***************************************************************************)
(* A loop over the elements of a sequence, Op being what its body does to  *)
(* the state of the loop; and the states that the loop goes through, from  *)
(* which every proof about it starts.  It is FoldLeft of SequencesExt with *)
(* the body as a constant, so that the lemma holds of each body this       *)
(* module is instantiated with.                                            *)
(***************************************************************************)
EXTENDS Integers, Sequences

CONSTANT Op(_, _)

Fold(base, s) ==
    LET after[i \in 0 .. Len(s)] == IF i = 0 THEN base ELSE Op(after[i - 1], s[i])
    IN  after[Len(s)]

----------------------------------------------------------------------------
\* The states of the loop: the first is the given one, each element takes it
\* one step further, and Fold is the last.  The first assumption is induction
\* over the naturals with the property given as a set: it is SetInduction of
\* InductionLemmas, which this module does not extend since each of its
\* instances would carry all of that module's library.
LEMMA FoldSteps ==
    ASSUME \A Q : 0 \in Q /\ (\A n \in Nat : n \in Q => n + 1 \in Q) => \A n \in Nat : n \in Q,
           NEW base, NEW s, Len(s) \in Nat
    PROVE  \E after : /\ after[0] = base
                      /\ \A i \in 1 .. Len(s) : after[i] = Op(after[i - 1], s[i])
                      /\ Fold(base, s) = after[Len(s)]
<1> DEFINE After(f, i) == IF i = 0 THEN base ELSE Op(f[i - 1], s[i])
           Runs(f, n) == f = [i \in 0 .. n |-> After(f, i)]
           Q == {n \in Nat : \E f : Runs(f, n)}
<1>1. 0 \in Q
  <2>1. Runs([i \in 0 .. 0 |-> base], 0)
    OBVIOUS
  <2> QED
    BY <2>1
<1>2. ASSUME NEW n \in Nat, n \in Q PROVE n + 1 \in Q
  <2>1. PICK f : Runs(f, n)
    BY <1>2
  <2> DEFINE ext == [i \in 0 .. n + 1 |-> IF i <= n THEN f[i] ELSE Op(f[i - 1], s[i])]
  <2>2. ASSUME NEW i \in 0 .. n + 1 PROVE ext[i] = After(ext, i)
    <3>1. CASE i <= n
      <4>1. i \in 0 .. n /\ (i # 0 => i - 1 \in 0 .. n + 1 /\ i - 1 <= n)
        BY <3>1
      <4>2. f[i] = IF i = 0 THEN base ELSE Op(f[i - 1], s[i])
        BY <2>1, <4>1
      <4>3. ext[i] = f[i] /\ (i # 0 => ext[i - 1] = f[i - 1])
        BY <3>1, <4>1
      <4> HIDE DEF ext
      <4> QED
        BY <4>2, <4>3
    <3>2. CASE i = n + 1
      <4>1. i # 0 /\ ~ (i <= n) /\ i - 1 \in 0 .. n + 1 /\ i - 1 <= n
        BY <3>2
      <4>2. ext[i] = Op(f[i - 1], s[i]) /\ ext[i - 1] = f[i - 1]
        BY <4>1
      <4> HIDE DEF ext
      <4> QED
        BY <4>1, <4>2
    <3>3. i <= n \/ i = n + 1
      OBVIOUS
    <3> QED
      BY <3>1, <3>2, <3>3
  <2>3. ext = [i \in 0 .. n + 1 |-> ext[i]]
    OBVIOUS
  <2> HIDE DEF ext
  <2>4. Runs(ext, n + 1)
    BY <2>2, <2>3
  <2> QED
    BY <2>4
<1>3. \A n \in Nat : n \in Q
  <2> HIDE DEF Q
  <2> QED
    BY <1>1, <1>2
<1>4. \E ext : Runs(ext, Len(s))
  BY <1>3
<1> DEFINE f == CHOOSE f : Runs(f, Len(s))
<1>5. Runs(f, Len(s))
  <2> HIDE DEF Runs
  <2> QED
    BY <1>4
<1>6. Fold(base, s) = f[Len(s)]
  BY DEF Fold
<1> HIDE DEF f
<1>7. 0 \in 0 .. Len(s) /\ \A i \in 1 .. Len(s) : i \in 0 .. Len(s) /\ i # 0
  OBVIOUS
<1>8. f[0] = base /\ \A i \in 1 .. Len(s) : f[i] = Op(f[i - 1], s[i])
  BY <1>5, <1>7
<1> QED
  BY <1>6, <1>8
============================================================================
