------------------------ MODULE TxnValidation_proofs ------------------------
(***************************************************************************)
(* For any transactions, tasks, cores and sizes: the stage lets every      *)
(* transaction through once and after its inputs, and none that it is to   *)
(* let through is forgotten.                                               *)
(*                                                                         *)
(* The first rests on what each call of validate_inner keeps (Loop).  The  *)
(* second says less than an induction needs: a transaction that was seen   *)
(* has to be downstream of the tasks already (Kept), or one that a task    *)
(* drops for a duplicate would be lost; and the calls have to come to an   *)
(* end within their bound, since each call takes one from what is left to  *)
(* do or from what can still be woken (Left).                              *)
(***************************************************************************)
EXTENDS TxnValidation, InductionLemmas

Good == Correct \cap Signed
Authentic == Txns \cap Signed

Task == [todo : Seq(Txns), checked : BOOLEAN, correct : Seq(Authentic),
         at : {"none", "spawned", "running"}]

Typed ==
    /\ arrived \in [Txns -> Nat]
    /\ txn_buffer \in Seq(Txns)
    /\ tasks \in [Tasks -> Task]
    /\ txns_seen \subseteq Txns
    /\ pending \in Seq(Seq(Authentic))
    /\ hand \in Seq(Seq(Authentic)) /\ (hand = <<>> \/ hand = <<hand[1]>>)
    /\ txn_pool \subseteq Txns
    /\ pending_txns \in [Txns -> SUBSET Authentic]
    /\ validated \in Seq(Txns)

\* A task works on one transaction at a time; a number that no task has is
\* free of transactions.
TasksWork ==
    \A k \in Tasks :
        /\ tasks[k].checked => tasks[k].todo # <<>>
        /\ tasks[k].at = "none" => tasks[k] = Idle

\* Only those wait for a transaction that spend it.
WaitForInputs == \A p \in Txns : \A t \in pending_txns[p] : p \in InUtxo[t]

Waits(t, pool, wait) ==
    /\ InUtxo[t] \ pool # {}
    /\ \A p \in InUtxo[t] \ pool : t \in wait[p]

InBatches(batches, t) == \E i \in 1 .. Len(batches) : Has(batches[i], t)

\* Past the check of txns_seen and not yet given to validate.
Downstream(t) ==
    \/ \E k \in Tasks : Has(tasks[k].correct, t)
    \/ InBatches(pending, t) \/ InBatches(hand, t)

Kept ==
    \A t \in Good \cap (txns_seen \ from_blocks) :
        t \in txn_pool \/ Downstream(t) \/ Waits(t, txn_pool, pending_txns)

Entered ==
    \A t \in Txns :
        arrived[t] > 0 =>
            \/ t \in txns_seen \/ Has(txn_buffer, t)
            \/ \E k \in Tasks : Has(tasks[k].todo, t)

IInv == Typed /\ TasksWork /\ WaitForInputs /\ ReleasedOnceInOrder /\ Kept /\ Entered

----------------------------------------------------------------------------
\* One call of validate_inner

\* The first n that are woken.
WokenTo(order, waiting, n) ==
    FlattenSeq([i \in 1 .. n |-> IF order[i] \in waiting THEN <<order[i]>> ELSE <<>>])

\* Those that wait are woken, each once.
LEMMA WokenProperties ==
    ASSUME NEW T, IsFiniteSet(T), NEW order \in Seq(T), NEW waiting \in SUBSET T,
           \A x \in T : Has(order, x),
           \A i, j \in 1 .. Len(order) : order[i] = order[j] => i = j
    PROVE  /\ Woken(order, waiting) \in Seq(T)
           /\ \A x : Has(Woken(order, waiting), x) <=> x \in waiting
           /\ Len(Woken(order, waiting)) = Cardinality(waiting)
<1> DEFINE Part(i) == IF order[i] \in waiting THEN <<order[i]>> ELSE <<>>
           W(n) == WokenTo(order, waiting, n)
           First(n) == {x \in waiting : \E i \in 1 .. n : order[i] = x}
           P(n) == /\ W(n) \in Seq(T)
                   /\ \A x : Has(W(n), x) <=> x \in First(n)
                   /\ Len(W(n)) = Cardinality(First(n))
           Q == {n \in Nat : n <= Len(order) => P(n)}
<1>0. Len(order) \in Nat /\ DOMAIN order = 1 .. Len(order)
      /\ \A i \in 1 .. Len(order) : order[i] \in T
  OBVIOUS
<1>1. 0 \in Q
  <2>1. [i \in 1 .. 0 |-> Part(i)] = <<>> /\ <<>> \in Seq(Seq(T)) /\ <<>> \in Seq(T)
    BY EmptySeq
  <2>2. W(0) = <<>>
    BY <2>1, FlattenSeqProperties, Zenon DEF WokenTo
  <2>3. First(0) = {} /\ Cardinality({}) = 0
    BY FS_EmptySet
  <2>4. Len(<<>>) = 0
    OBVIOUS
  <2>5. P(0)
    <3> HIDE DEF W, First
    <3> QED
      BY <2>1, <2>2, <2>3, <2>4, HasNone, Zenon
  <2> QED
    BY <2>5, Zenon
<1>2. ASSUME NEW n \in Nat, n \in Q PROVE n + 1 \in Q
  <2> SUFFICES ASSUME n + 1 <= Len(order) PROVE P(n + 1)
    OBVIOUS
  <2>1. P(n)
    BY <1>0, <1>2
  <2> DEFINE f == [i \in 1 .. n |-> Part(i)]
             g == [i \in 1 .. n + 1 |-> Part(i)]
             e == order[n + 1]
  <2>2. e \in T /\ n + 1 \in 1 .. Len(order)
    BY <1>0
  <2>3. W(n) = FlattenSeq(f) /\ W(n + 1) = FlattenSeq(g)
    BY DEF WokenTo
  <2>4. \A i \in 1 .. n + 1 : Part(i) \in Seq(T)
    <3>1. \A i \in 1 .. n + 1 : order[i] \in T
      BY <1>0
    <3> QED
      BY <3>1, EmptySeq
  <2>5. Part(n + 1) = IF e \in waiting THEN <<e>> ELSE <<>>
    OBVIOUS
  <2> HIDE DEF Part, e
  <2>6. f \in Seq(Seq(T)) /\ Len(f) = n /\ \A i \in 1 .. n : f[i] = Part(i)
    BY <2>4
  <2> HIDE DEF f
  <2>7. g = Append(f, Part(n + 1))
    <3> DEFINE r == Append(f, Part(n + 1))
    <3>0. Part(n + 1) \in Seq(T)
      BY <2>4
    <3>1. /\ r \in Seq(Seq(T)) /\ Len(r) = n + 1 /\ r[n + 1] = Part(n + 1)
          /\ \A i \in 1 .. n : r[i] = f[i]
      BY <2>6, <3>0, AppendProperties
    <3> HIDE DEF r
    <3>2. DOMAIN r = 1 .. n + 1 /\ r = [i \in 1 .. n + 1 |-> r[i]]
      BY <3>1
    <3>3. \A i \in 1 .. n + 1 : r[i] = Part(i)
      BY <2>6, <3>1
    <3> QED
      BY <3>2, <3>3 DEF r
  <2> HIDE DEF g
  <2>8. W(n + 1) = W(n) \o Part(n + 1)
    <3>1. Part(n + 1) \in Seq(T)
      BY <2>4
    <3>2. FlattenSeq(Append(f, Part(n + 1))) = FlattenSeq(f) \o Part(n + 1)
      BY <2>6, <3>1, FlattenSeqProperties
    <3> QED
      BY <2>3, <2>7, <3>2
  <2>9. First(n + 1) = IF e \in waiting THEN First(n) \cup {e} ELSE First(n)
    <3>1. \A i \in 1 .. n + 1 : i \in 1 .. n \/ i = n + 1
      OBVIOUS
    <3>2. \A i \in 1 .. n : i \in 1 .. n + 1
      OBVIOUS
    <3>3. n + 1 \in 1 .. n + 1
      OBVIOUS
    <3> QED
      BY <3>1, <3>2, <3>3, Zenon DEF e
  <2>10. e \notin First(n)
    <3>1. \A i \in 1 .. n : i \in 1 .. Len(order) /\ i # n + 1
      BY <1>0
    <3> QED
      BY <2>2, <3>1 DEF e
  <2>11. IsFiniteSet(First(n))
    <3>1. First(n) \subseteq T
      OBVIOUS
    <3> HIDE DEF First
    <3> QED
      BY <3>1, FS_Subset
  <2> HIDE DEF W, First
  <2>12. CASE e \in waiting
    <3>1. W(n + 1) = Append(W(n), e)
      BY <2>1, <2>2, <2>5, <2>8, <2>12, SMTT(30)
    <3>2. Len(Append(W(n), e)) = Len(W(n)) + 1 /\ Append(W(n), e) \in Seq(T)
      BY <2>1, <2>2
    <3>3. Cardinality(First(n) \cup {e}) = Cardinality(First(n)) + 1
      BY <2>10, <2>11, FS_AddElement, Zenon
    <3>4. \A x : Has(Append(W(n), e), x) <=> Has(W(n), x) \/ x = e
      BY <2>1, <2>2, HasAppend
    <3> QED
      BY <2>1, <2>9, <2>12, <3>1, <3>2, <3>3, <3>4, Zenon
  <2>13. CASE e \notin waiting
    <3>1. W(n + 1) = W(n)
      BY <2>1, <2>5, <2>8, <2>13
    <3> QED
      BY <2>1, <2>9, <2>13, <3>1
  <2> QED
    BY <2>12, <2>13
<1> HIDE DEF Q
<1>3. Len(order) \in Q
  BY <1>0, <1>1, <1>2, SetInduction
<1>4. P(Len(order))
  BY <1>0, <1>3 DEF Q
<1>5. First(Len(order)) = waiting
  BY DEF Has
<1>6. Woken(order, waiting) = W(Len(order))
  BY <1>0 DEF Woken, WokenTo
<1> HIDE DEF W, First
<1> QED
  BY <1>4, <1>5, <1>6

\* What was let through, in order.
Released(w, pool) ==
    /\ IsInjective(w) /\ pool = Range(w) /\ pool \subseteq Good
    /\ \A i \in DOMAIN w : InUtxo[w[i]] \subseteq Range(SubSeq(w, 1, i - 1))

LEMMA ReleaseOne ==
    ASSUME NEW w \in Seq(Txns), NEW pool, Released(w, pool), NEW t \in Txns, t \in Good, t \notin pool,
           InUtxo[t] \subseteq pool
    PROVE  Released(Append(w, t), pool \cup {t})
<1> DEFINE r == Append(w, t)
<1>1. /\ r \in Seq(Txns) /\ Len(r) = Len(w) + 1 /\ Len(w) \in Nat
      /\ DOMAIN w = 1 .. Len(w) /\ DOMAIN r = 1 .. Len(r)
      /\ \A i \in 1 .. Len(w) : r[i] = w[i]
      /\ r[Len(w) + 1] = t
  OBVIOUS
<1>2. \A i \in 1 .. Len(w) : SubSeq(r, 1, i - 1) = SubSeq(w, 1, i - 1)
  OBVIOUS
<1>3. SubSeq(r, 1, Len(w)) = w
  OBVIOUS
<1>4. \A x : x \in Range(w) <=> Has(w, x)
  BY HasRange
<1>5. \A x : x \in Range(r) <=> Has(w, x) \/ x = t
  <2>1. \A x : x \in Range(r) <=> Has(r, x)
    BY <1>1, HasRange, Zenon
  <2>2. \A x : Has(r, x) <=> Has(w, x) \/ x = t
    BY HasAppend
  <2> QED
    BY <2>1, <2>2
<1> HIDE DEF r
<1>6. pool \cup {t} = Range(r)
  BY <1>4, <1>5 DEF Released
<1>7. \A i \in 1 .. Len(r) : i \in 1 .. Len(w) \/ i = Len(w) + 1
  BY <1>1
<1>8. IsInjective(r)
  <2>1. \A i \in 1 .. Len(w) : w[i] # t
    BY <1>4 DEF Released, Has
  <2>2. \A i, j \in 1 .. Len(w) : w[i] = w[j] => i = j
    BY <1>1 DEF Released, IsInjective
  <2> QED
    BY <1>1, <1>7, <2>1, <2>2, Zenon DEF IsInjective
<1>9. ASSUME NEW i \in 1 .. Len(r) PROVE InUtxo[r[i]] \subseteq Range(SubSeq(r, 1, i - 1))
  <2>1. CASE i \in 1 .. Len(w)
    BY <1>1, <1>2, <2>1, Zenon DEF Released
  <2>2. CASE i = Len(w) + 1
    <3>1. i - 1 = Len(w)
      BY <1>1, <2>2
    <3> QED
      BY <1>1, <1>3, <2>2, <3>1, Zenon DEF Released
  <2> QED
    BY <1>7, <2>1, <2>2
<1> QED
  BY <1>1, <1>6, <1>8, <1>9, Zenon DEF Released, r

\* The state of the calls, when those that may have to be woken are in T and
\* `base' was let through before; that t is not forgotten; and how many calls
\* are left at most.
LoopState(T) == [todo : Seq(T), pool : SUBSET Txns, wait : [Txns -> SUBSET T], out : Seq(Txns)]

Loop(base, T, v) ==
    /\ v \in LoopState(T)
    /\ Released(base \o v.out, v.pool)
    /\ \A p \in Txns : \A t \in v.wait[p] : p \in InUtxo[t]

Covered(t, v) == t \in v.pool \/ Has(v.todo, t) \/ Waits(t, v.pool, v.wait)

Open(pool) == [p \in Txns |-> IF p \in pool THEN 0 ELSE Spenders[p]]
Left(v) == Len(v.todo) + SumOver(Open(v.pool), Txns)

\* The hash maps' iteration order, a sequence of the members of T.
Ordered(order, T) ==
    /\ order \in Seq(T) /\ \A x \in T : Has(order, x)
    /\ \A i, j \in 1 .. Len(order) : order[i] = order[j] => i = j

\* The first in v.todo has to wait.
AfterWait(v) ==
    [v EXCEPT !.todo = Tail(v.todo),
              !.wait = [p \in Txns |-> IF p \in InUtxo[Head(v.todo)] \ v.pool
                                       THEN v.wait[p] \cup {Head(v.todo)} ELSE v.wait[p]]]

\* The three outcomes of a call with something to do: nothing more to do for
\* the transaction, it has to wait, or it is let through.
LEMMA CallOutcomes ==
    ASSUME NEW T, NEW v \in LoopState(T), NEW order, v.todo # <<>>
    PROVE  LET t == Head(v.todo)
               w == ValidateInner(v, order)
           IN  \/ /\ t \in v.pool \/ t \notin Correct
                  /\ w = [v EXCEPT !.todo = Tail(v.todo)]
               \/ /\ t \notin v.pool /\ InUtxo[t] \ v.pool # {}
                  /\ w = AfterWait(v)
               \/ /\ t \notin v.pool /\ InUtxo[t] \subseteq v.pool /\ t \in Correct
                  /\ w = [todo |-> Woken(order, v.wait[t]) \o Tail(v.todo), pool |-> v.pool \cup {t},
                          wait |-> [v.wait EXCEPT ![t] = {}], out |-> Append(v.out, t)]
<1> DEFINE t == Head(v.todo)
           w == ValidateInner(v, order)
           missing == InUtxo[t] \ v.pool
<1>1. CASE t \in v.pool \/ (missing = {} /\ t \notin Correct)
  BY <1>1 DEF ValidateInner
<1>2. CASE t \notin v.pool /\ missing # {}
  BY <1>2 DEF ValidateInner, LoopState, AfterWait
<1>3. CASE t \notin v.pool /\ missing = {} /\ t \in Correct
  BY <1>3, Zenon DEF ValidateInner, LoopState
<1> QED
  BY <1>1, <1>2, <1>3, Zenon

LEMMA SpendersType ==
    /\ IsFiniteSet(Txns) /\ Spenders \in [Txns -> Int]
    /\ \A p \in Txns : /\ Spenders[p] = Cardinality({c \in Txns : p \in InUtxo[c]})
                        /\ Spenders[p] >= 0 /\ IsFiniteSet({c \in Txns : p \in InUtxo[c]})
<1>1. IsFiniteSet(Txns)
  BY TxnsAssumption
<1>2. ASSUME NEW p \in Txns
      PROVE  /\ IsFiniteSet({c \in Txns : p \in InUtxo[c]})
             /\ Cardinality({c \in Txns : p \in InUtxo[c]}) \in Nat
  <2> DEFINE S == {c \in Txns : p \in InUtxo[c]}
  <2>1. S \subseteq Txns
    OBVIOUS
  <2> HIDE DEF S
  <2>2. IsFiniteSet(S) /\ Cardinality(S) \in Nat
    BY <1>1, <2>1, FS_Subset, FS_CardinalityType
  <2> QED
    BY <2>2 DEF S
<1>3. \A p \in Txns : Spenders[p] = Cardinality({c \in Txns : p \in InUtxo[c]})
  BY DEF Spenders
<1>4. \A p \in Txns : Spenders[p] \in Nat
  BY <1>2, <1>3, Zenon
<1>5. Spenders = [p \in Txns |-> Spenders[p]]
  BY DEF Spenders
<1> HIDE DEF Spenders
<1> QED
  BY <1>1, <1>2, <1>3, <1>4, <1>5

LEMMA OpenType ==
    ASSUME NEW pool
    PROVE  /\ Open(pool) \in [Txns -> Int]
           /\ \A p \in Txns : Open(pool)[p] = IF p \in pool THEN 0 ELSE Spenders[p]
           /\ SumOver(Open(pool), Txns) \in Int /\ SumOver(Open(pool), Txns) >= 0
<1> DEFINE f == Open(pool)
<1>0. Spenders \in [Txns -> Int] /\ \A p \in Txns : Spenders[p] \in Int /\ Spenders[p] >= 0
  BY SpendersType, Zenon
<1>1. f = [p \in Txns |-> f[p]] /\ \A p \in Txns : f[p] = IF p \in pool THEN 0 ELSE Spenders[p]
  BY DEF Open
<1> HIDE DEF f
<1>2. \A p \in Txns : f[p] \in Int /\ f[p] >= 0
  BY <1>0, <1>1
<1>3. f \in [Txns -> Int]
  BY <1>1, <1>2
<1>4. SumOver(f, Txns) \in Int /\ SumOver(f, Txns) >= 0
  BY <1>2, <1>3, SpendersType, SumOverType
<1> QED
  BY <1>1, <1>3, <1>4 DEF f

LEMMA LeftType ==
    ASSUME NEW T, NEW v \in LoopState(T)
    PROVE  Left(v) \in Nat /\ Len(v.todo) \in Nat /\ Len(v.todo) <= Left(v)
<1>2. SumOver(Open(v.pool), Txns) \in Int /\ SumOver(Open(v.pool), Txns) >= 0
  BY OpenType
<1>3. v.todo \in Seq(T)
  BY DEF LoopState
<1>4. Len(v.todo) \in Nat
  BY <1>3
<1> QED
  BY <1>2, <1>4 DEF Left

Keeps(base, T, v, w) ==
    /\ Loop(base, T, w)
    /\ \A t \in Good : Covered(t, v) => Covered(t, w)
    /\ Left(w) < Left(v)

LEMMA DropKeeps ==
    ASSUME NEW base, NEW T, NEW v, Loop(base, T, v), v.todo # <<>>,
           Head(v.todo) \in v.pool \/ Head(v.todo) \notin Correct
    PROVE  Keeps(base, T, v, [v EXCEPT !.todo = Tail(v.todo)])
<1> DEFINE w == [v EXCEPT !.todo = Tail(v.todo)]
<1>1. v \in LoopState(T)
  BY DEF Loop
<1>2. v.todo \in Seq(T)
  BY <1>1 DEF LoopState
<1>3. /\ Tail(v.todo) \in Seq(T) /\ Len(Tail(v.todo)) = Len(v.todo) - 1
      /\ \A x : Has(v.todo, x) <=> x = Head(v.todo) \/ Has(Tail(v.todo), x)
  BY <1>2, HasTail
<1>4. w \in LoopState(T) /\ w.todo = Tail(v.todo) /\ w.pool = v.pool /\ w.wait = v.wait /\ w.out = v.out
  BY <1>1, <1>3, Zenon DEF LoopState
<1> HIDE DEF w
<1>5. Loop(base, T, w)
  BY <1>4 DEF Loop
<1>6. \A t \in Good : Covered(t, v) => Covered(t, w)
  BY <1>3, <1>4 DEF Covered, Good
<1>7. Left(w) < Left(v)
  <2>1. Left(w) \in Nat /\ Left(v) \in Nat /\ Len(v.todo) \in Nat
    BY <1>1, <1>4, LeftType
  <2>2. PICK n : n = SumOver(Open(v.pool), Txns)
    OBVIOUS
  <2>3. Left(w) = Len(v.todo) - 1 + n /\ Left(v) = Len(v.todo) + n
    BY <1>3, <1>4, <2>2 DEF Left
  <2>4. n \in Int
    BY <2>2, OpenType, SMTT(30)
  <2> QED
    BY <2>1, <2>3, <2>4
<1> QED
  BY <1>5, <1>6, <1>7, Zenon DEF Keeps, w

LEMMA WaitKeeps ==
    ASSUME NEW base, NEW T \in SUBSET Txns, NEW v, Loop(base, T, v), v.todo # <<>>,
           InUtxo[Head(v.todo)] \ v.pool # {}
    PROVE  Keeps(base, T, v, AfterWait(v))
<1> DEFINE t == Head(v.todo)
           more == [p \in Txns |-> IF p \in InUtxo[t] \ v.pool THEN v.wait[p] \cup {t} ELSE v.wait[p]]
           w == [v EXCEPT !.todo = Tail(v.todo), !.wait = more]
<1>1. v \in LoopState(T)
  BY DEF Loop
<1>2. v.todo \in Seq(T) /\ v.wait \in [Txns -> SUBSET T]
  BY <1>1 DEF LoopState
<1>3. /\ t \in T /\ Tail(v.todo) \in Seq(T) /\ Len(Tail(v.todo)) = Len(v.todo) - 1
      /\ \A x : Has(v.todo, x) <=> x = t \/ Has(Tail(v.todo), x)
  BY <1>2, HasTail
<1>4. /\ more \in [Txns -> SUBSET T]
      /\ \A p \in Txns : v.wait[p] \subseteq more[p] /\ more[p] \subseteq v.wait[p] \cup {t}
      /\ \A p \in Txns : t \in more[p] => t \in v.wait[p] \/ p \in InUtxo[t]
      /\ \A p \in InUtxo[t] \ v.pool : p \in Txns /\ t \in more[p]
  BY <1>2, <1>3, TxnsAssumption
<1> HIDE DEF more, t
<1>5. w \in LoopState(T) /\ w.todo = Tail(v.todo) /\ w.pool = v.pool /\ w.wait = more /\ w.out = v.out
  BY <1>1, <1>3, <1>4, Zenon DEF LoopState
<1> HIDE DEF w
<1>6. Loop(base, T, w)
  <2>1. \A p \in Txns : \A x \in more[p] : p \in InUtxo[x]
    BY <1>4 DEF Loop
  <2> QED
    BY <1>5, <2>1 DEF Loop
<1>7. ASSUME NEW x \in Good, Covered(x, v) PROVE Covered(x, w)
  <2>1. CASE x = t
    BY <1>4, <1>5, <2>1 DEF Covered, Waits, t
  <2>2. CASE Waits(x, v.pool, v.wait)
    <3>1. \A p \in InUtxo[x] \ v.pool : x \in v.wait[p] /\ (p \in Txns => x \in more[p])
      BY <1>4, <2>2 DEF Waits
    <3>2. x \in Txns
      BY TxnsAssumption DEF Good
    <3>3. InUtxo[x] \subseteq Txns
      BY <3>2, TxnsAssumption
    <3> QED
      BY <1>5, <2>2, <3>1, <3>3 DEF Covered, Waits
  <2>3. CASE x # t /\ (x \in v.pool \/ Has(v.todo, x))
    BY <1>3, <1>5, <2>3 DEF Covered
  <2> QED
    BY <1>7, <2>1, <2>2, <2>3 DEF Covered
<1>8. Left(w) < Left(v)
  <2>1. Left(w) \in Nat /\ Left(v) \in Nat /\ Len(v.todo) \in Nat
    BY <1>1, <1>5, LeftType
  <2>2. PICK n : n = SumOver(Open(v.pool), Txns)
    OBVIOUS
  <2>3. Left(w) = Len(v.todo) - 1 + n /\ Left(v) = Len(v.todo) + n
    BY <1>3, <1>5, <2>2 DEF Left
  <2>4. n \in Int
    BY <2>2, OpenType
  <2> QED
    BY <2>1, <2>3, <2>4
<1> QED
  BY <1>6, <1>7, <1>8, Zenon DEF Keeps, w, more, t, AfterWait

LEMMA OpenAfter ==
    ASSUME NEW pool, NEW t \in Txns, t \notin pool
    PROVE  SumOver(Open(pool \cup {t}), Txns) = SumOver(Open(pool), Txns) - Spenders[t]
<1> DEFINE f == Open(pool)
           g == Open(pool \cup {t})
<1>1. f \in [Txns -> Int] /\ f[t] = Spenders[t] /\ SumOver(f, Txns) \in Int
  BY OpenType
<1>2. PICK z \in Int : z = 0
  OBVIOUS
<1>3. g = [f EXCEPT ![t] = z]
  BY <1>2, Zenon DEF Open
<1>4. IsFiniteSet(Txns)
  BY SpendersType
<1> HIDE DEF f, g
<1>5. SumOver([f EXCEPT ![t] = z], Txns) = SumOver(f, Txns) + z - f[t]
  <2>1. f \in [Txns -> Int]
    BY <1>1
  <2> QED
    BY <1>4, <2>1, SumOverUpdate, Zenon
<1>6. Spenders[t] \in Int
  BY SpendersType, SMTT(30)
<1> QED
  BY <1>1, <1>2, <1>3, <1>5, <1>6 DEF f, g

LEMMA ReleaseKeeps ==
    ASSUME NEW base \in Seq(Txns), NEW T \in SUBSET Authentic, IsFiniteSet(T),
           NEW order, Ordered(order, T), NEW v, Loop(base, T, v), v.todo # <<>>,
           Head(v.todo) \notin v.pool, InUtxo[Head(v.todo)] \subseteq v.pool, Head(v.todo) \in Correct
    PROVE  Keeps(base, T, v,
                 [todo |-> Woken(order, v.wait[Head(v.todo)]) \o Tail(v.todo),
                  pool |-> v.pool \cup {Head(v.todo)},
                  wait |-> [v.wait EXCEPT ![Head(v.todo)] = {}], out |-> Append(v.out, Head(v.todo))])
<1>t. PICK t : t = Head(v.todo)
  OBVIOUS
<1> DEFINE woken == Woken(order, v.wait[t])
           less == [v.wait EXCEPT ![t] = {}]
           w == [todo |-> woken \o Tail(v.todo), pool |-> v.pool \cup {t},
                 wait |-> less, out |-> Append(v.out, t)]
<1>1. v \in LoopState(T)
  BY DEF Loop
<1>2. v.todo \in Seq(T) /\ v.wait \in [Txns -> SUBSET T] /\ v.pool \subseteq Txns /\ v.out \in Seq(Txns)
  BY <1>1 DEF LoopState
<1>3. /\ t \in T /\ Tail(v.todo) \in Seq(T) /\ Len(Tail(v.todo)) = Len(v.todo) - 1
      /\ \A x : Has(v.todo, x) <=> x = t \/ Has(Tail(v.todo), x)
  BY <1>2, <1>t, HasTail
<1>4. t \in Txns /\ t \in Good /\ t \notin v.pool /\ InUtxo[t] \subseteq v.pool
  BY <1>3, <1>t DEF Authentic, Good
<1>5. v.wait[t] \subseteq T
  BY <1>2, <1>4
<1>6. /\ woken \in Seq(T) /\ \A x : Has(woken, x) <=> x \in v.wait[t]
      /\ Len(woken) = Cardinality(v.wait[t])
  BY <1>5, WokenProperties DEF Ordered
<1>7. /\ less \in [Txns -> SUBSET T] /\ less[t] = {}
      /\ \A p \in Txns : p # t => less[p] = v.wait[p]
  BY <1>2, <1>4
<1> HIDE DEF woken, less
<1>8. /\ woken \o Tail(v.todo) \in Seq(T)
      /\ \A x : Has(woken \o Tail(v.todo), x) <=> Has(woken, x) \/ Has(Tail(v.todo), x)
  BY <1>3, <1>6, HasConcat, Zenon
<1>9. Append(v.out, t) \in Seq(Txns) /\ base \o Append(v.out, t) = Append(base \o v.out, t)
      /\ base \o v.out \in Seq(Txns)
  <2>1. PICK o : o = v.out
    OBVIOUS
  <2>2. o \in Seq(Txns)
    BY <1>2, <2>1
  <2>3. Append(o, t) \in Seq(Txns) /\ base \o Append(o, t) = Append(base \o o, t)
        /\ base \o o \in Seq(Txns)
    BY <1>4, <2>2
  <2> QED
    BY <2>1, <2>3
<1>10. /\ w \in LoopState(T) /\ w.todo = woken \o Tail(v.todo) /\ w.pool = v.pool \cup {t}
       /\ w.wait = less /\ w.out = Append(v.out, t)
  BY <1>2, <1>4, <1>7, <1>8, <1>9, SMTT(30) DEF LoopState
<1> HIDE DEF w
<1>11. Loop(base, T, w)
  <2>1. Released(Append(base \o v.out, t), v.pool \cup {t})
    BY <1>4, <1>9, ReleaseOne, Zenon DEF Loop
  <2>2. \A p \in Txns : \A x \in less[p] : p \in InUtxo[x]
    BY <1>7 DEF Loop
  <2> QED
    BY <1>9, <1>10, <2>1, <2>2, Zenon DEF Loop
<1>12. ASSUME NEW x \in Good, Covered(x, v) PROVE Covered(x, w)
  <2>1. CASE x = t \/ x \in v.pool
    BY <1>10, <2>1 DEF Covered
  <2>2. CASE x # t /\ Has(v.todo, x)
    BY <1>3, <1>8, <1>10, <2>2, SMTT(30) DEF Covered
  <2>3. CASE Waits(x, v.pool, v.wait) /\ x \in v.wait[t]
    BY <1>6, <1>8, <1>10, <2>3 DEF Covered
  <2>4. CASE Waits(x, v.pool, v.wait) /\ x \notin v.wait[t]
    <3>1. InUtxo[x] \subseteq Txns
      BY TxnsAssumption DEF Good
    <3>2. t \notin InUtxo[x]
      BY <1>4, <2>4 DEF Waits
    <3>3. \A p \in InUtxo[x] \ v.pool : x \in less[p]
      BY <1>7, <2>4, <3>1, <3>2 DEF Waits
    <3>4. InUtxo[x] \ (v.pool \cup {t}) = InUtxo[x] \ v.pool
      BY <3>2
    <3> QED
      BY <1>10, <2>4, <3>3, <3>4 DEF Covered, Waits
  <2> QED
    BY <1>12, <2>1, <2>2, <2>3, <2>4, SMTT(30) DEF Covered
<1>13. Left(w) < Left(v)
  <2>1. Len(woken) <= Spenders[t] /\ Len(woken) \in Nat /\ Spenders[t] \in Int
    <3>1. v.wait[t] \subseteq {c \in Txns : t \in InUtxo[c]}
      <4>1. T \subseteq Txns
        BY DEF Authentic
      <4> QED
        BY <1>4, <1>5, <4>1 DEF Loop
    <3>2. /\ IsFiniteSet({c \in Txns : t \in InUtxo[c]})
          /\ Spenders[t] = Cardinality({c \in Txns : t \in InUtxo[c]}) /\ Spenders[t] \in Int
      BY <1>4, SpendersType
    <3>3. Cardinality(v.wait[t]) <= Spenders[t]
      BY <3>1, <3>2, FS_Subset
    <3>4. Len(woken) \in Nat
      BY <1>6
    <3> QED
      BY <1>6, <3>2, <3>3, <3>4
  <2>2. SumOver(Open(w.pool), Txns) = SumOver(Open(v.pool), Txns) - Spenders[t]
    BY <1>4, <1>10, OpenAfter, Zenon
  <2>3. Len(w.todo) = Len(woken) + (Len(v.todo) - 1) /\ Len(v.todo) \in Nat
    <3>1. Len(woken \o Tail(v.todo)) = Len(woken) + Len(Tail(v.todo))
      BY <1>3, <1>6, ConcatProperties, Zenon
    <3>2. Len(v.todo) \in Nat
      BY <1>2
    <3> QED
      BY <1>3, <1>10, <3>1, <3>2
  <2>4. PICK n \in Int : n = SumOver(Open(v.pool), Txns)
    BY OpenType
  <2> QED
    BY <2>1, <2>2, <2>3, <2>4 DEF Left
<1> QED
  BY <1>t, <1>11, <1>12, <1>13, Zenon DEF Keeps, w, less, woken

LEMMA CallKeeps ==
    ASSUME NEW base \in Seq(Txns), NEW T \in SUBSET Authentic, IsFiniteSet(T),
           NEW order, Ordered(order, T), NEW v, Loop(base, T, v), v.todo # <<>>
    PROVE  Keeps(base, T, v, ValidateInner(v, order))
<1> DEFINE t == Head(v.todo)
<1>1. v \in LoopState(T) /\ T \in SUBSET Txns
  BY DEF Loop, Authentic
<1>2. CASE /\ t \in v.pool \/ t \notin Correct
           /\ ValidateInner(v, order) = [v EXCEPT !.todo = Tail(v.todo)]
  BY <1>2, DropKeeps
<1>3. CASE /\ t \notin v.pool /\ InUtxo[t] \ v.pool # {}
           /\ ValidateInner(v, order) = AfterWait(v)
  BY <1>1, <1>3, WaitKeeps, SMTT(30)
<1>4. CASE /\ t \notin v.pool /\ InUtxo[t] \subseteq v.pool /\ t \in Correct
           /\ ValidateInner(v, order)
                = [todo |-> Woken(order, v.wait[t]) \o Tail(v.todo), pool |-> v.pool \cup {t},
                   wait |-> [v.wait EXCEPT ![t] = {}], out |-> Append(v.out, t)]
  BY <1>4, ReleaseKeeps, Zenon
<1> QED
  BY <1>1, <1>2, <1>3, <1>4, CallOutcomes, Zenon

----------------------------------------------------------------------------
\* All calls

\* The function by which AfterCalls is defined.
CallTo(f, start, order, i) == IF i = 0 THEN start ELSE ValidateInner(f[i - 1], order)
Calls(f, start, order, n) == f = [i \in 0 .. n |-> CallTo(f, start, order, i)]

LEMMA CallsExist ==
    ASSUME NEW start, NEW order
    PROVE  \A n \in Nat : \E f : Calls(f, start, order, n)
<1> DEFINE Q == {n \in Nat : \E f : Calls(f, start, order, n)}
<1>1. 0 \in Q
  <2> DEFINE f == [i \in 0 .. 0 |-> start]
  <2>1. f = [i \in 0 .. 0 |-> CallTo(f, start, order, i)]
    BY DEF CallTo
  <2>2. Calls(f, start, order, 0)
    BY <2>1 DEF Calls
  <2> QED
    BY <2>2
<1>2. ASSUME NEW n \in Nat, n \in Q PROVE n + 1 \in Q
  <2>1. PICK f : Calls(f, start, order, n)
    BY <1>2
  <2>2. \A i \in 0 .. n : f[i] = CallTo(f, start, order, i)
    BY <2>1 DEF Calls
  <2> DEFINE g == [i \in 0 .. n + 1 |-> IF i <= n THEN f[i] ELSE ValidateInner(f[n], order)]
  <2>3. g = [i \in 0 .. n + 1 |-> g[i]] /\ \A i \in 0 .. n : g[i] = f[i]
    OBVIOUS
  <2>4. g[n + 1] = ValidateInner(f[n], order)
    OBVIOUS
  <2> HIDE DEF g
  <2>5. ASSUME NEW i \in 0 .. n + 1 PROVE g[i] = CallTo(g, start, order, i)
    <3>1. CASE i = 0
      <4>1. 0 \in 0 .. n
        OBVIOUS
      <4> QED
        BY <2>2, <2>3, <3>1, <4>1 DEF CallTo
    <3>2. CASE i # 0 /\ i \in 0 .. n
      <4>1. i - 1 \in 0 .. n
        BY <3>2
      <4>2. g[i] = ValidateInner(f[i - 1], order)
        BY <2>2, <2>3, <3>2, Zenon DEF CallTo
      <4>3. g[i - 1] = f[i - 1]
        BY <2>3, <4>1, Zenon
      <4> QED
        BY <3>2, <4>2, <4>3 DEF CallTo
    <3>3. CASE i = n + 1
      <4>1. i - 1 = n /\ n \in 0 .. n /\ i # 0
        BY <3>3
      <4>2. g[i - 1] = f[n]
        BY <2>3, <4>1, Zenon
      <4> QED
        BY <2>4, <3>3, <4>1, <4>2 DEF CallTo
    <3> QED
      BY <3>1, <3>2, <3>3
  <2>6. Calls(g, start, order, n + 1)
    BY <2>3, <2>5 DEF Calls
  <2> QED
    BY <2>6
<1> HIDE DEF Q
<1>3. \A n \in Nat : n \in Q
  BY <1>1, <1>2, SetInduction
<1> QED
  BY <1>3 DEF Q

\* As many calls as Left allows leave nothing to do, and keep what each call
\* keeps.
LEMMA AllCalls ==
    ASSUME NEW base \in Seq(Txns), NEW T \in SUBSET Authentic, IsFiniteSet(T),
           NEW order, Ordered(order, T), NEW start, Loop(base, T, start),
           NEW n \in Nat, Left(start) <= n
    PROVE  /\ Loop(base, T, AfterCalls(n, start, order))
           /\ \A t \in Good : Covered(t, start) => Covered(t, AfterCalls(n, start, order))
           /\ AfterCalls(n, start, order).todo = <<>>
<1> DEFINE f == CHOOSE f : Calls(f, start, order, n)
<1>1. \E g : Calls(g, start, order, n)
  BY CallsExist
<1>2. AfterCalls(n, start, order) = f[n]
  BY DEF AfterCalls, Calls, CallTo
<1>3. Calls(f, start, order, n)
  BY <1>1
<1> HIDE DEF f
<1>4. \A i \in 0 .. n : f[i] = CallTo(f, start, order, i)
  BY <1>3 DEF Calls
<1> DEFINE P(i) == /\ Loop(base, T, f[i])
                   /\ \A t \in Good : Covered(t, start) => Covered(t, f[i])
                   /\ f[i].todo = <<>> \/ Left(f[i]) + i <= Left(start)
           Q == {i \in Nat : i <= n => P(i)}
<1>5. 0 \in Q
  <2>1. f[0] = start
    BY <1>4 DEF CallTo
  <2>2. Left(start) \in Nat
    BY LeftType DEF Loop
  <2> QED
    BY <2>1, <2>2
<1>6. ASSUME NEW i \in Nat, i \in Q PROVE i + 1 \in Q
  <2> SUFFICES ASSUME i + 1 <= n PROVE P(i + 1)
    OBVIOUS
  <2>1. P(i)
    BY <1>6
  <2>2. PICK v, w : v = f[i] /\ w = f[i + 1]
    OBVIOUS
  <2>3. w = ValidateInner(v, order)
    <3>1. i + 1 \in 0 .. n /\ i + 1 - 1 = i /\ i + 1 # 0
      OBVIOUS
    <3>2. f[i + 1] = CallTo(f, start, order, i + 1)
      BY <1>4, <3>1
    <3> QED
      BY <2>2, <3>1, <3>2 DEF CallTo
  <2>4. CASE v.todo = <<>>
    <3>1. w = v
      BY <2>3, <2>4 DEF ValidateInner
    <3> QED
      BY <2>1, <2>2, <2>4, <3>1
  <2>5. CASE v.todo # <<>>
    <3>1. Keeps(base, T, v, w)
      BY <2>1, <2>2, <2>3, <2>5, CallKeeps
    <3>2. Left(v) \in Nat /\ Left(w) \in Nat /\ Left(start) \in Nat
      BY <2>1, <2>2, <3>1, LeftType, SMTT(30) DEF Loop, Keeps
    <3>3. Left(w) + (i + 1) <= Left(start)
      BY <2>1, <2>2, <2>5, <3>1, <3>2 DEF Keeps
    <3> QED
      BY <2>1, <2>2, <3>1, <3>3, SMTT(30) DEF Keeps
  <2> QED
    BY <2>4, <2>5
<1> HIDE DEF Q
<1>7. n \in Q
  BY <1>5, <1>6, SetInduction
<1>8. P(n)
  BY <1>7 DEF Q
<1>9. f[n].todo = <<>>
  <2>1. /\ Left(f[n]) \in Nat /\ Len(f[n].todo) \in Nat /\ Len(f[n].todo) <= Left(f[n])
        /\ Left(start) \in Nat /\ f[n].todo \in Seq(T)
    BY <1>8, LeftType, Zenon DEF Loop, LoopState
  <2>2. CASE Left(f[n]) + n <= Left(start)
    <3>1. Len(f[n].todo) = 0
      BY <2>1, <2>2
    <3> QED
      BY <2>1, <3>1
  <2> QED
    BY <1>8, <2>2
<1> QED
  BY <1>2, <1>8, <1>9

----------------------------------------------------------------------------
\* The other steps

LEMMA InitIInv == Init => IInv
<1> SUFFICES ASSUME Init PROVE IInv
  OBVIOUS
<1>e. <<>> \in Seq(Txns) /\ <<>> \in Seq(Authentic) /\ <<>> \in Seq(Seq(Authentic))
  BY EmptySeq
<1>1. Typed
  <2>1. Idle \in Task
    BY <1>e DEF Idle, Task
  <2> QED
    BY <1>e, <2>1 DEF Init, Typed
<1>2. TasksWork
  BY DEF Init, TasksWork, Idle
<1>3. WaitForInputs /\ Kept /\ Entered
  BY DEF Init, WaitForInputs, Kept, Entered
<1>4. ReleasedOnceInOrder
  <2>1. Range(<<>>) = {} /\ IsInjective(<<>>)
    BY DEF Range, IsInjective
  <2> QED
    BY <2>1 DEF Init, ReleasedOnceInOrder
<1> QED
  BY <1>1, <1>2, <1>3, <1>4 DEF IInv

\* Steps before the stage takes a batch in hand leave what it did alone, and
\* keep what is downstream.
LEMMA SameRelease ==
    ASSUME IInv, UNCHANGED <<txn_pool, pending_txns, validated>>,
           \A t : Downstream(t) => Downstream(t)',
           \A t \in txns_seen' \ from_blocks' :
              t \in txns_seen \ from_blocks \/ (t \in Signed => Downstream(t)')
    PROVE  WaitForInputs' /\ ReleasedOnceInOrder' /\ Kept'
<1>1. WaitForInputs' /\ ReleasedOnceInOrder'
  BY DEF IInv, WaitForInputs, ReleasedOnceInOrder
<1>2. ASSUME NEW t \in Good, t \in txns_seen' \ from_blocks'
      PROVE  t \in txn_pool' \/ Downstream(t)' \/ Waits(t, txn_pool', pending_txns')
  BY <1>2 DEF IInv, Kept, Good
<1> QED
  BY <1>1, <1>2 DEF Kept

LEMMA ReceiveStep == ASSUME IInv, NEW t \in Txns, Receive(t) PROVE IInv'
<1>1. Typed /\ TasksWork /\ Entered
  BY DEF IInv
<1>2. txn_buffer' = Append(txn_buffer, t) /\ txn_buffer \in Seq(Txns)
  BY <1>1 DEF Receive, Typed
<1>3. txn_buffer' \in Seq(Txns) /\ \A x : Has(txn_buffer', x) <=> Has(txn_buffer, x) \/ x = t
  BY <1>2, HasAppend, AppendProperties
<1>4. arrived' \in [Txns -> Nat] /\ \A x \in Txns : x # t => arrived'[x] = arrived[x]
  BY <1>1 DEF Receive, Typed
<1>5. Typed'
  BY <1>1, <1>3, <1>4 DEF Receive, Typed
<1>6. TasksWork' /\ \A x : Downstream(x)' <=> Downstream(x)
  BY <1>1 DEF Receive, TasksWork, Downstream
<1>7. WaitForInputs' /\ ReleasedOnceInOrder' /\ Kept'
  <2>1. UNCHANGED <<txn_pool, pending_txns, validated, txns_seen, from_blocks>>
    BY DEF Receive
  <2> QED
    BY <1>6, <2>1, SameRelease
<1>8. Entered'
  BY <1>1, <1>3, <1>4 DEF Receive, Entered
<1> QED
  BY <1>5, <1>6, <1>7, <1>8 DEF IInv

LEMMA StartBatchStep == ASSUME IInv, NEW k \in Tasks, StartBatch(k) PROVE IInv'
<1>1. Typed /\ TasksWork /\ Entered
  BY DEF IInv
<1> DEFINE n == Min({BatchSize, Len(txn_buffer)})
           S == {j \in Tasks : tasks[j].at = "none"} \cup {Cardinality(Tasks) + 1}
<1>2. txn_buffer \in Seq(Txns) /\ txn_buffer # <<>> /\ Len(txn_buffer) \in Nat
  BY <1>1 DEF StartBatch, Typed
<1>3. n \in 0 .. Len(txn_buffer)
  <2>1. {BatchSize, Len(txn_buffer)} \in SUBSET Nat
    BY <1>2, BoundsAssumption
  <2>2. n \in {BatchSize, Len(txn_buffer)} /\ n <= Len(txn_buffer)
    BY <2>1, MinProperties
  <2> QED
    BY <1>2, <2>1, <2>2
<1>4. tasks[k] = Idle
  <2>1. Cardinality(Tasks) \in Nat /\ Tasks = 1 .. Cardinality(Tasks)
    BY BoundsAssumption, FS_CardinalityType
  <2>2. S \in SUBSET Nat /\ S # {}
    BY <2>1
  <2>3. k = Min(S)
    BY DEF StartBatch
  <2> HIDE DEF S
  <2>4. k \in S
    BY <2>2, <2>3, MinProperties
  <2>5. k # Cardinality(Tasks) + 1
    BY <2>1
  <2> QED
    BY <1>1, <2>4, <2>5 DEF S, TasksWork
<1> DEFINE first == SubSeq(txn_buffer, 1, n)
           task == [Idle EXCEPT !.todo = first, !.at = "spawned"]
<1>5. tasks' = [tasks EXCEPT ![k] = task] /\ txn_buffer' = SubSeq(txn_buffer, n + 1, Len(txn_buffer))
  BY DEF StartBatch
<1> HIDE DEF n, S
<1>6. /\ first \in Seq(Txns) /\ txn_buffer' \in Seq(Txns)
      /\ \A x : Has(txn_buffer, x) <=> Has(first, x) \/ Has(txn_buffer', x)
  BY <1>2, <1>3, <1>5, HasSubSeq
<1> HIDE DEF first
<1>7. /\ task \in Task /\ task.todo = first /\ task.correct = <<>> /\ ~ task.checked
      /\ task.at = "spawned"
  <2>1. <<>> \in Seq(Authentic)
    BY EmptySeq
  <2> QED
    BY <1>6, <2>1, Zenon DEF Idle, Task
<1> HIDE DEF task
<1>8. /\ tasks' \in [Tasks -> Task] /\ tasks'[k] = task
      /\ \A j \in Tasks : j # k => tasks'[j] = tasks[j]
  BY <1>1, <1>5, <1>7 DEF Typed
<1>9. Typed'
  BY <1>1, <1>6, <1>8, Zenon DEF StartBatch, Typed
<1>10. TasksWork'
  BY <1>1, <1>7, <1>8 DEF TasksWork
<1>11. WaitForInputs' /\ ReleasedOnceInOrder' /\ Kept'
  <2>1. UNCHANGED <<txn_pool, pending_txns, validated, txns_seen, from_blocks, pending, hand>>
    BY DEF StartBatch
  <2>2. \A x : Downstream(x) => Downstream(x)'
    <3>1. \A x : ~ Has(tasks[k].correct, x)
      BY <1>4, HasNone DEF Idle
    <3> QED
      BY <1>8, <2>1, <3>1 DEF Downstream
  <2> QED
    BY <2>1, <2>2, SameRelease
<1>12. Entered'
  <2>1. \A x : ~ Has(tasks[k].todo, x)
    BY <1>4, HasNone DEF Idle
  <2> QED
    BY <1>1, <1>6, <1>7, <1>8, <2>1, Zenon DEF StartBatch, Entered
<1> QED
  BY <1>9, <1>10, <1>11, <1>12 DEF IInv

\* A step of task k that changes its record to `task'.
LEMMA TaskStep ==
    ASSUME IInv, NEW k \in Tasks, NEW task \in Task, tasks' = [tasks EXCEPT ![k] = task],
           task.checked => task.todo # <<>>, task.at # "none",
           UNCHANGED <<arrived, txn_buffer, from_blocks, pending, hand, txn_pool,
                       pending_txns, validated>>,
           txns_seen' \subseteq Txns, txns_seen \subseteq txns_seen',
           \A x : Has(tasks[k].correct, x) => Has(task.correct, x),
           \A x \in txns_seen' : x \in txns_seen \/ (x \in Signed => Has(task.correct, x)),
           \A x : Has(tasks[k].todo, x) => Has(task.todo, x) \/ x \in txns_seen'
    PROVE  IInv'
<1>1. Typed /\ TasksWork /\ Entered
  BY DEF IInv
<1>2. /\ tasks' \in [Tasks -> Task] /\ tasks'[k] = task
      /\ \A j \in Tasks : j # k => tasks'[j] = tasks[j]
  BY <1>1 DEF Typed
<1>3. Typed'
  BY <1>1, <1>2 DEF Typed
<1>4. TasksWork'
  BY <1>1, <1>2 DEF TasksWork
<1>5. \A x : Downstream(x) => Downstream(x)'
  BY <1>2 DEF Downstream
<1>6. \A x : Has(task.correct, x) => Downstream(x)'
  BY <1>2 DEF Downstream
<1>7. WaitForInputs' /\ ReleasedOnceInOrder' /\ Kept'
  <2>1. \A x \in txns_seen' \ from_blocks' :
            x \in txns_seen \ from_blocks \/ (x \in Signed => Downstream(x)')
    BY <1>6
  <2> QED
    BY <1>5, <2>1, SameRelease
<1>8. Entered'
  BY <1>1, <1>2 DEF Entered
<1> QED
  BY <1>3, <1>4, <1>7, <1>8 DEF IInv

LEMMA TaskFields ==
    ASSUME Typed, NEW k \in Tasks
    PROVE  /\ tasks[k] \in Task /\ tasks[k].todo \in Seq(Txns) /\ tasks[k].correct \in Seq(Authentic)
           /\ tasks[k].checked \in BOOLEAN /\ tasks[k].at \in {"none", "spawned", "running"}
BY DEF Typed, Task

LEMMA AcquirePermitStep == ASSUME IInv, NEW k \in Tasks, AcquirePermit(k) PROVE IInv'
<1>1. Typed /\ TasksWork
  BY DEF IInv
<1> DEFINE task == [tasks[k] EXCEPT !.at = "running"]
<1>2. tasks' = [tasks EXCEPT ![k] = task]
  BY DEF AcquirePermit
<1>3. /\ task \in Task /\ task.todo = tasks[k].todo /\ task.correct = tasks[k].correct
      /\ task.checked = tasks[k].checked /\ task.at = "running"
  BY <1>1, TaskFields DEF Task
<1> HIDE DEF task
<1>4. task.checked => task.todo # <<>>
  BY <1>1, <1>3, Zenon DEF TasksWork
<1>5. txns_seen' \subseteq Txns /\ txns_seen' = txns_seen
  BY <1>1 DEF AcquirePermit, Typed
<1> QED
  BY <1>2, <1>3, <1>4, <1>5, TaskStep, Zenon DEF AcquirePermit

LEMMA CheckSeenStep == ASSUME IInv, NEW k \in Tasks, CheckSeen(k) PROVE IInv'
<1>1. Typed /\ TasksWork
  BY DEF IInv
<1>2. /\ tasks[k].at = "running" /\ tasks[k].todo # <<>> /\ ~ tasks[k].checked
      /\ txns_seen' = txns_seen /\ txns_seen \subseteq Txns
  BY <1>1 DEF CheckSeen, Typed
<1>3. CASE Head(tasks[k].todo) \in txns_seen
  <2> DEFINE task == [tasks[k] EXCEPT !.todo = Tail(@)]
  <2>1. tasks' = [tasks EXCEPT ![k] = task]
    BY <1>3 DEF CheckSeen
  <2>2. /\ Tail(tasks[k].todo) \in Seq(Txns)
        /\ \A x : Has(tasks[k].todo, x) <=> x = Head(tasks[k].todo) \/ Has(Tail(tasks[k].todo), x)
    BY <1>1, <1>2, TaskFields, HasTail
  <2>3. /\ task \in Task /\ task.todo = Tail(tasks[k].todo) /\ task.correct = tasks[k].correct
        /\ task.checked = tasks[k].checked /\ task.at = "running"
    BY <1>1, <1>2, <2>2, TaskFields, Zenon DEF Task
  <2> HIDE DEF task
  <2> QED
    BY <1>2, <1>3, <2>1, <2>2, <2>3, TaskStep, Zenon DEF CheckSeen
<1>4. CASE Head(tasks[k].todo) \notin txns_seen
  <2> DEFINE task == [tasks[k] EXCEPT !.checked = TRUE]
  <2>1. tasks' = [tasks EXCEPT ![k] = task]
    BY <1>4 DEF CheckSeen
  <2>2. /\ task \in Task /\ task.todo = tasks[k].todo /\ task.correct = tasks[k].correct
        /\ task.at = "running"
    BY <1>1, <1>2, TaskFields, Zenon DEF Task
  <2> HIDE DEF task
  <2> QED
    BY <1>2, <2>1, <2>2, TaskStep, Zenon DEF CheckSeen
<1> QED
  BY <1>3, <1>4

LEMMA RecordSeenStep == ASSUME IInv, NEW k \in Tasks, RecordSeen(k) PROVE IInv'
<1>1. Typed /\ TasksWork
  BY DEF IInv
<1>2. PICK t : t = Head(tasks[k].todo)
  OBVIOUS
<1> DEFINE correct == IF t \in Signed THEN Append(tasks[k].correct, t) ELSE tasks[k].correct
           task == [tasks[k] EXCEPT !.todo = Tail(@), !.checked = FALSE, !.correct = correct]
<1>3. tasks[k].checked /\ tasks[k].todo # <<>> /\ tasks[k].at # "none"
  <2>1. tasks[k].checked
    BY DEF RecordSeen
  <2>2. ~ Idle.checked
    BY DEF Idle
  <2> QED
    BY <1>1, <2>1, <2>2 DEF TasksWork
<1>4. tasks' = [tasks EXCEPT ![k] = task]
  BY <1>1, <1>2, TaskFields, Zenon DEF RecordSeen, Task, Typed
<1>5. /\ t \in Txns /\ Tail(tasks[k].todo) \in Seq(Txns)
      /\ \A x : Has(tasks[k].todo, x) <=> x = t \/ Has(Tail(tasks[k].todo), x)
  BY <1>1, <1>2, <1>3, TaskFields, HasTail
<1>6. /\ correct \in Seq(Authentic)
      /\ \A x : Has(tasks[k].correct, x) => Has(correct, x)
      /\ t \in Signed => Has(correct, t)
  <2>1. CASE t \in Signed
    <3>1. t \in Authentic /\ tasks[k].correct \in Seq(Authentic)
      BY <1>1, <1>5, <2>1, TaskFields DEF Authentic
    <3>2. \A x : Has(Append(tasks[k].correct, t), x) <=> Has(tasks[k].correct, x) \/ x = t
      BY <3>1, HasAppend
    <3> QED
      BY <2>1, <3>1, <3>2, AppendProperties
  <2>2. CASE t \notin Signed
    BY <1>1, <2>2, TaskFields
  <2> QED
    BY <2>1, <2>2
<1> HIDE DEF correct
<1>7. /\ task \in Task /\ task.todo = Tail(tasks[k].todo) /\ task.correct = correct
      /\ task.checked = FALSE /\ task.at = tasks[k].at
  BY <1>1, <1>5, <1>6, TaskFields, Zenon DEF Task
<1> HIDE DEF task
<1>8. txns_seen' = txns_seen \cup {t} /\ txns_seen' \subseteq Txns
  BY <1>1, <1>2, <1>5 DEF RecordSeen, Typed
<1>9. /\ \A x : Has(tasks[k].correct, x) => Has(task.correct, x)
      /\ \A x \in txns_seen' : x \in txns_seen \/ (x \in Signed => Has(task.correct, x))
      /\ \A x : Has(tasks[k].todo, x) => Has(task.todo, x) \/ x \in txns_seen'
  BY <1>5, <1>6, <1>7, <1>8
<1>10. UNCHANGED <<arrived, txn_buffer, from_blocks, pending, hand, txn_pool,
                   pending_txns, validated>>
  BY DEF RecordSeen
<1>11. task.checked => task.todo # <<>>
  BY <1>7
<1>12. task.at # "none" /\ txns_seen \subseteq txns_seen'
  BY <1>3, <1>7, <1>8
<1> QED
  BY <1>4, <1>7, <1>8, <1>9, <1>10, <1>11, <1>12, TaskStep, Zenon

LEMMA FinishBatchStep == ASSUME IInv, NEW k \in Tasks, FinishBatch(k) PROVE IInv'
<1>1. Typed /\ TasksWork /\ Entered
  BY DEF IInv
<1>2. /\ tasks[k].todo = <<>> /\ pending' = Append(pending, tasks[k].correct)
      /\ tasks' = [tasks EXCEPT ![k] = Idle]
      /\ UNCHANGED <<arrived, txn_buffer, txns_seen, from_blocks, hand, txn_pool, pending_txns, validated>>
  BY DEF FinishBatch
<1>3. Idle \in Task
  BY EmptySeq DEF Idle, Task
<1>4. /\ tasks' \in [Tasks -> Task] /\ tasks'[k] = Idle
      /\ \A j \in Tasks : j # k => tasks'[j] = tasks[j]
  BY <1>1, <1>2, <1>3 DEF Typed
<1>5. PICK c \in Seq(Authentic) : c = tasks[k].correct
  BY <1>1, TaskFields
<1>6. /\ pending' \in Seq(Seq(Authentic)) /\ Len(pending') = Len(pending) + 1 /\ Len(pending) \in Nat
      /\ \A i \in 1 .. Len(pending) : pending'[i] = pending[i]
      /\ pending'[Len(pending) + 1] = c
  <2>1. pending \in Seq(Seq(Authentic)) /\ pending' = Append(pending, c)
    BY <1>1, <1>2, <1>5 DEF Typed
  <2> QED
    BY <2>1, AppendProperties, LenProperties
<1>7. \A x : InBatches(pending, x) \/ Has(c, x) => InBatches(pending', x)
  <2>1. \A i \in 1 .. Len(pending) : i \in 1 .. Len(pending')
    BY <1>6
  <2>2. Len(pending) + 1 \in 1 .. Len(pending')
    BY <1>6
  <2> QED
    BY <1>6, <2>1, <2>2, Zenon DEF InBatches
<1>8. Typed'
  BY <1>1, <1>2, <1>4, <1>6, SMTT(30) DEF Typed
<1>9. TasksWork'
  BY <1>1, <1>4 DEF TasksWork, Idle
<1>10. \A x : Downstream(x) => Downstream(x)'
  <2> SUFFICES ASSUME NEW x, Downstream(x) PROVE Downstream(x)'
    OBVIOUS
  <2>1. CASE InBatches(pending, x) \/ Has(c, x)
    BY <1>7, <2>1 DEF Downstream
  <2>2. CASE InBatches(hand, x)
    BY <1>2, <2>2 DEF Downstream
  <2>3. ASSUME NEW j \in Tasks, j # k, Has(tasks[j].correct, x) PROVE Downstream(x)'
    BY <1>4, <2>3, SMTT(30) DEF Downstream
  <2> QED
    BY <1>5, <2>1, <2>2, <2>3, SMTT(30) DEF Downstream
<1>11. WaitForInputs' /\ ReleasedOnceInOrder' /\ Kept'
  BY <1>2, <1>10, SameRelease, SMTT(30)
<1>12. Entered'
  <2>1. \A x : ~ Has(tasks[k].todo, x)
    BY <1>2, HasNone
  <2> QED
    BY <1>1, <1>2, <1>4, <2>1, SMTT(30) DEF Entered
<1> QED
  BY <1>8, <1>9, <1>11, <1>12, SMTT(30) DEF IInv

LEMMA SeenInBlockStep == ASSUME IInv, NEW t \in BlockTxns, SeenInBlock(t) PROVE IInv'
<1>1. Typed /\ TasksWork /\ Entered
  BY DEF IInv
<1>2. /\ txns_seen' = txns_seen \cup {t} /\ from_blocks' = from_blocks \cup {t}
      /\ UNCHANGED <<arrived, txn_buffer, tasks, pending, hand, txn_pool, pending_txns, validated>>
  BY DEF SeenInBlock
<1>3. Typed'
  BY <1>1, <1>2, TxnsAssumption DEF Typed
<1>4. TasksWork' /\ \A x : Downstream(x) => Downstream(x)'
  BY <1>1, <1>2 DEF TasksWork, Downstream
<1>5. WaitForInputs' /\ ReleasedOnceInOrder' /\ Kept'
  BY <1>2, <1>4, SameRelease
<1>6. Entered'
  BY <1>1, <1>2 DEF Entered
<1> QED
  BY <1>3, <1>4, <1>5, <1>6 DEF IInv

LEMMA RecvBatchStep == ASSUME IInv, RecvBatch PROVE IInv'
<1>1. Typed /\ TasksWork /\ Entered
  BY DEF IInv
<1>2. /\ hand = <<>> /\ pending # <<>> /\ hand' = <<Head(pending)>> /\ pending' = Tail(pending)
      /\ UNCHANGED <<arrived, txn_buffer, tasks, txns_seen, from_blocks, txn_pool,
                     pending_txns, validated>>
  BY DEF RecvBatch
<1>3. PICK h \in Seq(Authentic) : h = pending[1] /\ h = Head(pending)
  BY <1>1, <1>2 DEF Typed
<1>4. /\ hand' \in Seq(Seq(Authentic)) /\ hand' = <<hand'[1]>> /\ hand'[1] = h /\ Len(hand') = 1
  BY <1>2, <1>3
<1>5. /\ pending' \in Seq(Seq(Authentic)) /\ Len(pending) \in Nat /\ Len(pending') = Len(pending) - 1
      /\ \A i \in 1 .. Len(pending') : pending'[i] = pending[i + 1]
  BY <1>1, <1>2 DEF Typed
<1>6. Typed'
  BY <1>1, <1>2, <1>4, <1>5, SMTT(30) DEF Typed
<1>7. \A x : Downstream(x) => Downstream(x)'
  <2> SUFFICES ASSUME NEW x, Downstream(x) PROVE Downstream(x)'
    OBVIOUS
  <2>1. ~ InBatches(hand, x)
    BY <1>2 DEF InBatches
  <2>2. ASSUME InBatches(pending, x) PROVE InBatches(pending', x) \/ InBatches(hand', x)
    <3>1. PICK i \in 1 .. Len(pending) : Has(pending[i], x)
      BY <2>2 DEF InBatches
    <3>2. CASE i = 1
      <4>1. 1 \in 1 .. Len(hand') /\ Has(hand'[1], x)
        BY <1>3, <1>4, <3>1, <3>2, SMTT(30)
      <4> QED
        BY <4>1 DEF InBatches
    <3>3. CASE i # 1
      <4>1. i - 1 \in 1 .. Len(pending') /\ pending'[i - 1] = pending[(i - 1) + 1] /\ (i - 1) + 1 = i
        BY <1>5, <3>1, <3>3
      <4> QED
        BY <3>1, <4>1 DEF InBatches
    <3> QED
      BY <3>2, <3>3
  <2> QED
    BY <1>2, <2>1, <2>2 DEF Downstream
<1>8. TasksWork' /\ WaitForInputs' /\ ReleasedOnceInOrder' /\ Kept'
  <2>1. TasksWork'
    BY <1>1, <1>2 DEF TasksWork
  <2> QED
    BY <1>2, <1>7, <2>1, SameRelease
<1>9. Entered'
  BY <1>1, <1>2 DEF Entered
<1> QED
  BY <1>6, <1>8, <1>9, SMTT(30) DEF IInv

LEMMA ValidateStep == ASSUME IInv, Validate PROVE IInv'
<1>1. Typed /\ TasksWork /\ WaitForInputs /\ ReleasedOnceInOrder /\ Kept /\ Entered
  BY DEF IInv
<1>2. /\ hand # <<>> /\ hand' = <<>>
      /\ UNCHANGED <<arrived, txn_buffer, tasks, txns_seen, from_blocks, pending>>
  BY DEF Validate
<1>3. PICK h \in Seq(Authentic) : hand = <<h>> /\ Head(hand) = h
  BY <1>1, <1>2 DEF Typed
<1> DEFINE T == (UNION Range(pending_txns)) \cup Range(h)
           start == [todo |-> h, pool |-> txn_pool, wait |-> pending_txns, out |-> <<>>]
           calls == Len(h) + SumOver(Spenders, Txns)
<1>4. PICK order \in Listings(T) :
         /\ txn_pool' = AfterCalls(calls, start, order).pool
         /\ pending_txns' = AfterCalls(calls, start, order).wait
         /\ validated' = validated \o AfterCalls(calls, start, order).out
  BY <1>3, Zenon DEF Validate, Wakeable, SumOver
<1>5. /\ T \in SUBSET Authentic /\ IsFiniteSet(T) /\ h \in Seq(T)
      /\ pending_txns \in [Txns -> SUBSET T]
  <2>1. \A x : x \in Range(h) <=> Has(h, x)
    BY HasRange
  <2>2. \A x : Has(h, x) => x \in Authentic
    BY HasType
  <2>3. pending_txns \in [Txns -> SUBSET Authentic]
    BY <1>1 DEF Typed
  <2>4. UNION Range(pending_txns) = UNION {pending_txns[p] : p \in Txns}
    BY <2>3 DEF Range
  <2>5. T \in SUBSET Authentic
    <3>1. \A p \in Txns : pending_txns[p] \subseteq Authentic
      BY <2>3
    <3>2. Range(h) \subseteq Authentic
      BY <2>1, <2>2
    <3>3. UNION Range(pending_txns) \subseteq Authentic
      BY <2>4, <3>1, Zenon
    <3> QED
      BY <3>2, <3>3, Zenon
  <2>6. pending_txns \in [Txns -> SUBSET T]
    BY <2>3, <2>4
  <2>7. h \in Seq(T)
    <3>1. Len(h) \in Nat /\ h = [i \in 1 .. Len(h) |-> h[i]]
      OBVIOUS
    <3>2. \A i \in 1 .. Len(h) : h[i] \in T
      <4>1. \A i \in 1 .. Len(h) : Has(h, h[i])
        BY Zenon DEF Has
      <4>2. Range(h) \subseteq T
        BY Zenon
      <4> HIDE DEF T
      <4> QED
        BY <2>1, <4>1, <4>2, Zenon
    <3> HIDE DEF T
    <3> QED
      BY <3>1, <3>2
  <2>8. IsFiniteSet(T)
    <3>1. T \subseteq Txns /\ IsFiniteSet(Txns)
      BY <2>5, TxnsAssumption DEF Authentic
    <3> HIDE DEF T
    <3> QED
      BY <3>1, FS_Subset
  <2> QED
    BY <2>5, <2>6, <2>7, <2>8
<1> HIDE DEF T
<1>6. Ordered(order, T)
  BY <1>5, ListingProperties DEF Ordered, Listings
<1>7. validated \in Seq(Txns) /\ <<>> \in Seq(Txns) /\ validated \o <<>> = validated
  BY <1>1, EmptySeq DEF Typed
<1>8. Loop(validated, T, start)
  <2>1. start \in LoopState(T)
    BY <1>1, <1>5, <1>7 DEF Typed, LoopState
  <2>2. Released(validated, txn_pool)
    BY <1>1 DEF ReleasedOnceInOrder, Released, Good
  <2> QED
    BY <1>1, <1>7, <2>1, <2>2, SMTT(30) DEF Loop, WaitForInputs
<1>9. calls \in Nat /\ Left(start) <= calls
  <2>1. Spenders \in [Txns -> Int] /\ IsFiniteSet(Txns) /\ \A p \in Txns : Spenders[p] >= 0
    BY SpendersType, Zenon
  <2>2. SumOver(Spenders, Txns) \in Int /\ SumOver(Spenders, Txns) >= 0
    BY <2>1, SumOverType
  <2>3. Open(txn_pool) \in [Txns -> Int]
    BY OpenType
  <2>4. \A p \in Txns : Open(txn_pool)[p] <= Spenders[p]
    <3>1. \A p \in Txns : Open(txn_pool)[p] = IF p \in txn_pool THEN 0 ELSE Spenders[p]
      BY OpenType
    <3>2. \A p \in Txns : Spenders[p] \in Int
      BY <2>1
    <3> QED
      BY <2>1, <3>1, <3>2
  <2>5. SumOver(Open(txn_pool), Txns) <= SumOver(Spenders, Txns)
    BY <2>1, <2>3, <2>4, SumOverLeq, SMTT(30)
  <2>6. SumOver(Open(txn_pool), Txns) \in Int /\ Len(h) \in Nat
    BY OpenType
  <2>7. Left(start) = Len(h) + SumOver(Open(txn_pool), Txns)
    BY DEF Left
  <2> QED
    BY <2>2, <2>5, <2>6, <2>7, SMTT(30)
<1>10. PICK n \in Nat : n = calls
  BY <1>9
<1>11. PICK v : v = start
  BY Zenon
<1>12. PICK w : w = AfterCalls(n, v, order)
  OBVIOUS
<1>13. Loop(validated, T, v) /\ Left(v) <= n
  BY <1>8, <1>9, <1>10, <1>11, Zenon
<1>14. /\ Loop(validated, T, w) /\ w.todo = <<>>
       /\ \A t \in Good : Covered(t, v) => Covered(t, w)
  BY <1>5, <1>6, <1>7, <1>12, <1>13, AllCalls, SMTT(30)
<1>15. txn_pool' = w.pool /\ pending_txns' = w.wait /\ validated' = validated \o w.out
  BY <1>4, <1>10, <1>11, <1>12, SMTT(30)
<1>16. w \in LoopState(T) /\ Released(validated', txn_pool') /\ WaitForInputs'
  BY <1>14, <1>15 DEF Loop, WaitForInputs
<1>17. ReleasedOnceInOrder'
  BY <1>16 DEF Released, ReleasedOnceInOrder, Good
<1>18. Typed'
  <2>1. /\ w.pool \subseteq Txns /\ w.wait \in [Txns -> SUBSET Authentic] /\ w.out \in Seq(Txns)
    BY <1>5, <1>16 DEF LoopState
  <2>2. validated' \in Seq(Txns)
    BY <1>7, <1>15, <2>1, HasConcat
  <2>3. <<>> \in Seq(Seq(Authentic))
    BY EmptySeq
  <2> QED
    BY <1>1, <1>2, <1>15, <2>1, <2>2, <2>3 DEF Typed
<1>19. TasksWork' /\ Entered'
  <2>1. TasksWork'
    BY <1>1, <1>2, Zenon DEF TasksWork
  <2>2. Entered'
    BY <1>1, <1>2, Zenon DEF Entered
  <2> QED
    BY <2>1, <2>2
<1>20. Kept'
  <2> SUFFICES ASSUME NEW t \in Good, t \in txns_seen \ from_blocks
               PROVE  t \in txn_pool' \/ Downstream(t)' \/ Waits(t, txn_pool', pending_txns')
    BY <1>2 DEF Kept
  <2>1. t \in txn_pool \/ Downstream(t) \/ Waits(t, txn_pool, pending_txns)
    BY <1>1 DEF Kept
  <2>2. InBatches(hand, t) => Has(h, t)
    BY <1>3 DEF InBatches
  <2>3. Downstream(t) => Downstream(t)' \/ Has(h, t)
    BY <1>2, <2>2 DEF Downstream
  <2>4. v.todo = h /\ v.pool = txn_pool /\ v.wait = pending_txns
    BY <1>11
  <2>5. Downstream(t)' \/ Covered(t, v)
    BY <2>1, <2>3, <2>4, SMTT(30) DEF Covered
  <2>6. Covered(t, w) => t \in txn_pool' \/ Waits(t, txn_pool', pending_txns')
    BY <1>14, <1>15, HasNone, SMTT(30) DEF Covered
  <2> QED
    BY <1>14, <2>5, <2>6
<1> QED
  BY <1>16, <1>17, <1>18, <1>19, <1>20, SMTT(30) DEF IInv

----------------------------------------------------------------------------
\* The theorems

LEMMA NextIInv == IInv /\ [Next]_vars => IInv'
<1> SUFFICES ASSUME IInv, [Next]_vars PROVE IInv'
  OBVIOUS
<1>1. ASSUME NEW t \in Txns, Receive(t) PROVE IInv'
  BY <1>1, ReceiveStep
<1>2. ASSUME NEW k \in Tasks, StartBatch(k) PROVE IInv'
  BY <1>2, StartBatchStep
<1>3. ASSUME NEW k \in Tasks, AcquirePermit(k) PROVE IInv'
  BY <1>3, AcquirePermitStep
<1>4. ASSUME NEW k \in Tasks, CheckSeen(k) PROVE IInv'
  BY <1>4, CheckSeenStep
<1>5. ASSUME NEW k \in Tasks, RecordSeen(k) PROVE IInv'
  BY <1>5, RecordSeenStep
<1>6. ASSUME NEW k \in Tasks, FinishBatch(k) PROVE IInv'
  BY <1>6, FinishBatchStep
<1>7. ASSUME NEW t \in BlockTxns, SeenInBlock(t) PROVE IInv'
  BY <1>7, SeenInBlockStep
<1>8. CASE RecvBatch
  BY <1>8, RecvBatchStep
<1>9. CASE Validate
  BY <1>9, ValidateStep
<1>10. CASE UNCHANGED vars
  <2>1. UNCHANGED <<arrived, txn_buffer, tasks, txns_seen, from_blocks, pending, hand, txn_pool,
                    pending_txns, validated>>
    BY <1>10 DEF vars
  <2>2. Typed' /\ TasksWork' /\ WaitForInputs'
    <3>1. Typed'
      BY <2>1, Zenon DEF IInv, Typed
    <3>2. TasksWork'
      BY <2>1, Zenon DEF IInv, TasksWork
    <3>3. WaitForInputs'
      BY <2>1, Zenon DEF IInv, WaitForInputs
    <3> QED
      BY <3>1, <3>2, <3>3
  <2>3. ReleasedOnceInOrder' /\ Kept' /\ Entered'
    BY <2>1 DEF IInv, ReleasedOnceInOrder, Kept, Entered, Downstream
  <2> QED
    BY <2>2, <2>3 DEF IInv
<1> QED
  BY <1>1, <1>2, <1>3, <1>4, <1>5, <1>6, <1>7, <1>8, <1>9, <1>10 DEF Next

\* What is in a batch, at a task or in the buffer is under way.
LEMMA IsInFlight ==
    ASSUME Typed, NEW t,
           \/ Has(txn_buffer, t) \/ Downstream(t)
           \/ \E k \in Tasks : Has(tasks[k].todo, t)
    PROVE  t \in InFlight
<1>1. CASE Has(txn_buffer, t)
  <2>1. txn_buffer \in Seq(Txns)
    BY DEF Typed
  <2>2. t \in Range(txn_buffer)
    BY <1>1, <2>1, HasRange
  <2> QED
    BY <2>2 DEF InFlight
<1>2. ASSUME NEW k \in Tasks, Has(tasks[k].todo, t) \/ Has(tasks[k].correct, t) PROVE t \in InFlight
  <2>1. PICK q \in Seq(Txns) : q = tasks[k].todo
    BY TaskFields
  <2>2. PICK c \in Seq(Txns) : c = tasks[k].correct
    <3>1. Seq(Authentic) \subseteq Seq(Txns)
      BY DEF Authentic
    <3> QED
      BY <3>1, TaskFields
  <2>3. q \o c \in Seq(Txns) /\ Has(q \o c, t)
    BY <1>2, <2>1, <2>2, HasConcat
  <2>4. t \in Range(q \o c)
    BY <2>3, HasRange, Zenon
  <2> QED
    BY <2>1, <2>2, <2>4 DEF InFlight
<1>3. CASE InBatches(pending, t) \/ InBatches(hand, t)
  <2>1. pending \in Seq(Seq(Authentic)) /\ hand \in Seq(Seq(Authentic))
    BY DEF Typed
  <2> DEFINE b == pending \o hand
  <2>2. /\ b \in Seq(Seq(Authentic)) /\ Len(b) = Len(pending) + Len(hand)
        /\ Len(pending) \in Nat /\ Len(hand) \in Nat
        /\ \A i \in 1 .. Len(pending) : b[i] = pending[i]
        /\ \A i \in 1 .. Len(hand) : b[Len(pending) + i] = hand[i]
    BY <2>1
  <2> HIDE DEF b
  <2>3. \E i \in 1 .. Len(b) : Has(b[i], t)
    <3>1. \A i \in 1 .. Len(pending) : i \in 1 .. Len(b)
      BY <2>2
    <3>2. \A i \in 1 .. Len(hand) : Len(pending) + i \in 1 .. Len(b)
      BY <2>2
    <3> QED
      BY <1>3, <2>2, <3>1, <3>2, Zenon DEF InBatches
  <2>4. Has(FlattenSeq(b), t)
    BY <2>2, <2>3, FlattenHas, SMTT(30)
  <2>5. FlattenSeq(b) \in Seq(Authentic)
    BY <2>2, FlattenSeqProperties
  <2>6. t \in Range(FlattenSeq(b))
    BY <2>4, <2>5, HasRange, SMTT(30)
  <2> QED
    BY <2>6 DEF InFlight, b
<1> QED
  BY <1>1, <1>2, <1>3 DEF Downstream

LEMMA KeptAndEntered == IInv => WaitsForMissing
<1> SUFFICES ASSUME IInv, NEW t \in Correct \cap Signed, arrived[t] > 0
             PROVE  \/ t \in txn_pool \cup InFlight \cup from_blocks
                    \/ /\ InUtxo[t] \ txn_pool # {}
                       /\ \A p \in InUtxo[t] \ txn_pool : t \in pending_txns[p]
  BY DEF WaitsForMissing
<1>1. Typed /\ t \in Txns /\ t \in Good
  BY TxnsAssumption DEF IInv, Good
<1>2. Has(txn_buffer, t) \/ t \in txns_seen \/ \E k \in Tasks : Has(tasks[k].todo, t)
  BY <1>1 DEF IInv, Entered
<1>3. CASE t \in txns_seen \ from_blocks
  BY <1>1, <1>3, IsInFlight DEF IInv, Kept, Waits
<1> QED
  BY <1>1, <1>2, <1>3, IsInFlight, SMTT(30)

\* The stage lets every transaction through at most once and after its inputs
\* (validate_inner), for any transactions and any number of tasks and cores,
\* in whatever order the hash maps yield the ones that wait.
THEOREM ReleasesOnceInOrder == Spec => []ReleasedOnceInOrder
<1>1. IInv => ReleasedOnceInOrder
  BY DEF IInv
<1> QED
  BY <1>1, InitIInv, NextIInv, PTL DEF Spec

\* No good transaction that was received is forgotten: until it is let
\* through it is under way or waits under all its missing inputs
\* (pending_txns), unless a block brought it first.
THEOREM NoneForgotten == Spec => []WaitsForMissing
BY InitIInv, NextIInv, KeptAndEntered, PTL DEF Spec
=============================================================================
