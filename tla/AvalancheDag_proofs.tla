------------------------ MODULE AvalancheDag_proofs ------------------------
(***************************************************************************)
(* The walks that Ancestry takes through the DAG, and what the steps of    *)
(* decide do to a view of the transactions, whatever the variant.          *)
(*                                                                         *)
(* A view is the record that AvalancheVotes threads through its loops.     *)
(* The facts here are about any two views related as a step relates them   *)
(* (Supported, Recorded, ...), and about the polls around a view; that the *)
(* code's steps are so is shown in AvalancheDecide_proofs.                 *)
(***************************************************************************)
EXTENDS AvalancheDag, InductionLemmas

----------------------------------------------------------------------------
\* The walks of Ancestry

\* Each element once, and after those of its parents that are in the DAG.
Once(s) == \A i, j \in 1 .. Len(s) : s[i] = s[j] => i = j

\* The undecided parents of an element come before it.
ParentsFirst(dag, s) ==
    \A i \in 1 .. Len(s) : \A p \in Parents(s[i]) \cap DOMAIN dag :
        \E j \in 1 .. i - 1 : s[j] = p

\* What Ancestry returns: undecided transactions, once each, parents first.
WalkOf(dag, s) == s \in Seq(DOMAIN dag) /\ Once(s) /\ ParentsFirst(dag, s)

\* Induction over the naturals, as Folding asks for it.
LEMMA FoldInduction ==
    \A Q : 0 \in Q /\ (\A n \in Nat : n \in Q => n + 1 \in Q) => \A n \in Nat : n \in Q
BY SetInduction

\* A walk goes on to a transaction whose parents it has met.
LEMMA ReachStep ==
    ASSUME NEW dag, NEW s, WalkOf(dag, s), NEW y \in DOMAIN dag,
           \A p \in Parents(y) \cap DOMAIN dag : Has(s, p)
    PROVE  /\ WalkOf(dag, Reach(s, y))
           /\ \A x : Has(Reach(s, y), x) <=> Has(s, x) \/ x = y
<1>1. s \in Seq(DOMAIN dag) /\ Once(s) /\ ParentsFirst(dag, s)
  BY DEF WalkOf
<1>2. \A x : x \in Range(s) <=> Has(s, x)
  BY <1>1, HasRange
<1>3. CASE Has(s, y)
  BY <1>2, <1>3, Zenon DEF Reach
<1>4. CASE ~ Has(s, y)
  <2>1. PICK r : r = Append(s, y)
    BY Zenon
  <2>2. /\ r \in Seq(DOMAIN dag) /\ Len(r) = Len(s) + 1 /\ r[Len(s) + 1] = y /\ Len(s) \in Nat
        /\ \A i \in 1 .. Len(s) : r[i] = s[i]
    BY <1>1, <2>1, AppendProperties, LenProperties
  <2>3. \A x : Has(r, x) <=> Has(s, x) \/ x = y
    BY <1>1, <2>1, HasAppend, Zenon
  <2>4. Reach(s, y) = r
    BY <1>2, <1>4, <2>1, Zenon DEF Reach
  <2>5. \A i \in 1 .. Len(r) : i \in 1 .. Len(s) \/ i = Len(s) + 1
    BY <2>2
  <2>6. \A i \in 1 .. Len(s) : r[i] # y
    BY <1>4, <2>2, Zenon DEF Has
  <2>7. Once(r)
    BY <1>1, <2>2, <2>5, <2>6, Zenon DEF Once
  <2>8. ParentsFirst(dag, r)
    <3> SUFFICES ASSUME NEW i \in 1 .. Len(r), NEW p \in Parents(r[i]) \cap DOMAIN dag
                 PROVE  \E j \in 1 .. i - 1 : r[j] = p
      BY DEF ParentsFirst
    <3>1. CASE i \in 1 .. Len(s)
      <4>1. PICK j \in 1 .. i - 1 : s[j] = p
        BY <1>1, <2>2, <3>1, Zenon DEF ParentsFirst
      <4>2. j \in 1 .. Len(s)
        BY <2>2, <3>1
      <4> QED
        BY <2>2, <4>1, <4>2, Zenon
    <3>2. CASE i = Len(s) + 1
      <4>1. PICK j \in 1 .. Len(s) : s[j] = p
        BY <2>2, <3>2, Zenon DEF Has
      <4>2. j \in 1 .. i - 1
        BY <2>2, <3>2
      <4> QED
        BY <2>2, <4>1, <4>2, Zenon
    <3> QED
      BY <2>5, <3>1, <3>2, Zenon
  <2> QED
    BY <2>2, <2>3, <2>4, <2>7, <2>8, Zenon DEF WalkOf
<1> QED
  BY <1>3, <1>4, Zenon

\* A walk goes on with another one.
LEMMA ReachAllWalk ==
    ASSUME NEW dag, NEW s, WalkOf(dag, s), NEW r, WalkOf(dag, r)
    PROVE  /\ WalkOf(dag, ReachAll(s, r))
           /\ \A x : Has(ReachAll(s, r), x) <=> Has(s, x) \/ Has(r, x)
<1>1. r \in Seq(DOMAIN dag) /\ ParentsFirst(dag, r) /\ Len(r) \in Nat
  BY LenProperties DEF WalkOf
<1>2. PICK after :
         /\ after[0] = s
         /\ \A i \in 1 .. Len(r) : after[i] = Reach(after[i - 1], r[i])
         /\ Reaching!Fold(s, r) = after[Len(r)]
  BY <1>1, FoldInduction, Reaching!FoldSteps
<1> DEFINE Q == {n \in Nat : n <= Len(r) =>
                    /\ WalkOf(dag, after[n])
                    /\ \A x : Has(after[n], x) <=> Has(s, x) \/ \E j \in 1 .. n : r[j] = x}
<1>3. 0 \in Q
  <2>1. 0 \in Nat /\ 1 .. 0 = {}
    OBVIOUS
  <2> QED
    BY <1>2, <2>1, Zenon
<1>4. ASSUME NEW n \in Nat, n \in Q PROVE n + 1 \in Q
  <2> SUFFICES ASSUME n + 1 <= Len(r)
               PROVE  /\ WalkOf(dag, after[n + 1])
                      /\ \A x : Has(after[n + 1], x)
                                  <=> Has(s, x) \/ \E j \in 1 .. n + 1 : r[j] = x
    OBVIOUS
  <2>1. /\ n + 1 \in 1 .. Len(r) /\ (n + 1) - 1 = n /\ n <= Len(r) /\ n + 1 \in 1 .. n + 1
        /\ \A j \in 1 .. n + 1 : j \in 1 .. n \/ j = n + 1
        /\ \A j \in 1 .. n : j \in 1 .. n + 1
    BY <1>1
  <2>2. /\ WalkOf(dag, after[n])
        /\ \A x : Has(after[n], x) <=> Has(s, x) \/ \E j \in 1 .. n : r[j] = x
    BY <1>4, <2>1
  <2>3. r[n + 1] \in DOMAIN dag
    BY <1>1, <2>1, ElementOfSeq
  <2>4. after[n + 1] = Reach(after[n], r[n + 1])
    BY <1>2, <2>1, Zenon
  <2>5. \A p \in Parents(r[n + 1]) \cap DOMAIN dag : Has(after[n], p)
    BY <1>1, <2>1, <2>2, Zenon DEF ParentsFirst
  <2>6. /\ WalkOf(dag, Reach(after[n], r[n + 1]))
        /\ \A x : Has(Reach(after[n], r[n + 1]), x) <=> Has(after[n], x) \/ x = r[n + 1]
    BY <2>2, <2>3, <2>5, ReachStep
  <2>7. ASSUME NEW x
        PROVE  (\E j \in 1 .. n + 1 : r[j] = x) <=> (\E j \in 1 .. n : r[j] = x) \/ x = r[n + 1]
    BY <2>1, Zenon
  <2> QED
    BY <2>2, <2>4, <2>6, <2>7, Zenon
<1> HIDE DEF Q
<1>5. Len(r) \in Q
  BY <1>1, <1>3, <1>4, SetInduction
<1>6. Len(r) <= Len(r)
  BY <1>1
<1> QED
  BY <1>2, <1>5, <1>6, Zenon DEF Q, ReachAll, Has

\* Walks in turn.
LEMMA ReachingAllWalk ==
    ASSUME NEW dag, NEW ss, Len(ss) \in Nat, \A i \in 1 .. Len(ss) : WalkOf(dag, ss[i])
    PROVE  /\ WalkOf(dag, ReachingAll!Fold(<<>>, ss))
           /\ \A x : Has(ReachingAll!Fold(<<>>, ss), x) <=> \E i \in 1 .. Len(ss) : Has(ss[i], x)
<1>2. PICK after :
         /\ after[0] = <<>>
         /\ \A i \in 1 .. Len(ss) : after[i] = ReachAll(after[i - 1], ss[i])
         /\ ReachingAll!Fold(<<>>, ss) = after[Len(ss)]
  BY FoldInduction, ReachingAll!FoldSteps, ZenonT(30)
<1> DEFINE Q == {n \in Nat : n <= Len(ss) =>
                    /\ WalkOf(dag, after[n])
                    /\ \A x : Has(after[n], x) <=> \E j \in 1 .. n : Has(ss[j], x)}
<1>3. 0 \in Q
  <2>1. 0 \in Nat /\ 1 .. 0 = {} /\ Len(<<>>) = 0 /\ <<>> \in Seq(DOMAIN dag)
    OBVIOUS
  <2>2. WalkOf(dag, <<>>)
    BY <2>1, Zenon DEF WalkOf, Once, ParentsFirst
  <2> QED
    BY <1>2, <2>1, <2>2, HasNone, Zenon
<1>4. ASSUME NEW n \in Nat, n \in Q PROVE n + 1 \in Q
  <2> SUFFICES ASSUME n + 1 <= Len(ss)
               PROVE  /\ WalkOf(dag, after[n + 1])
                      /\ \A x : Has(after[n + 1], x) <=> \E j \in 1 .. n + 1 : Has(ss[j], x)
    OBVIOUS
  <2>1. /\ n + 1 \in 1 .. Len(ss) /\ (n + 1) - 1 = n /\ n <= Len(ss) /\ n + 1 \in 1 .. n + 1
        /\ \A j \in 1 .. n + 1 : j \in 1 .. n \/ j = n + 1
        /\ \A j \in 1 .. n : j \in 1 .. n + 1
    OBVIOUS
  <2>2. /\ WalkOf(dag, after[n])
        /\ \A x : Has(after[n], x) <=> \E j \in 1 .. n : Has(ss[j], x)
    BY <1>4, <2>1
  <2>3. WalkOf(dag, ss[n + 1])
    BY <2>1, Zenon
  <2>4. after[n + 1] = ReachAll(after[n], ss[n + 1])
    BY <1>2, <2>1, Zenon
  <2>5. /\ WalkOf(dag, ReachAll(after[n], ss[n + 1]))
        /\ \A x : Has(ReachAll(after[n], ss[n + 1]), x) <=> Has(after[n], x) \/ Has(ss[n + 1], x)
    BY <2>2, <2>3, ReachAllWalk
  <2>6. ASSUME NEW x
        PROVE  (\E j \in 1 .. n + 1 : Has(ss[j], x))
                 <=> (\E j \in 1 .. n : Has(ss[j], x)) \/ Has(ss[n + 1], x)
    BY <2>1, Zenon
  <2> QED
    BY <2>2, <2>4, <2>5, <2>6, Zenon
<1> HIDE DEF Q
<1>5. Len(ss) \in Q
  BY <1>3, <1>4, SetInduction
<1>6. Len(ss) <= Len(ss)
  OBVIOUS
<1> QED
  BY <1>2, <1>5, <1>6, Zenon DEF Q

\* The equation by which Ancestry is defined.
Visit(dag, f, x) ==
    IF x \notin DOMAIN dag THEN <<>>
    ELSE Reach(ReachingAll!Fold(<<>>, [i \in DOMAIN InUtxo[x] |-> f[InUtxo[x][i]]]), x)

\* It asks about parents only.
LEMMA VisitLocal ==
    ASSUME NEW dag, NEW x, NEW f, NEW h, \A p \in Parents(x) : f[p] = h[p]
    PROVE  Visit(dag, f, x) = Visit(dag, h, x)
<1>1. \A i \in DOMAIN InUtxo[x] : InUtxo[x][i] \in Parents(x)
  BY DEF Parents, Range
<1>2. [i \in DOMAIN InUtxo[x] |-> f[InUtxo[x][i]]] = [i \in DOMAIN InUtxo[x] |-> h[InUtxo[x][i]]]
  BY <1>1
<1> QED
  BY <1>2, Zenon DEF Visit

\* The inputs of a transaction are transactions.
LEMMA ParentsType == \A t \in Txns : Parents(t) \subseteq Txns
<1> SUFFICES ASSUME NEW t \in Txns, NEW i \in DOMAIN InUtxo[t] PROVE InUtxo[t][i] \in Txns
  BY DEF Parents, Range
<1>1. InUtxo[t] \in Seq(Txns)
  BY TxnAssumption
<1> QED
  BY <1>1

\* The equation solved on a set of transactions that holds their parents.
Solves(dag, f, D) ==
    /\ D \subseteq Txns
    /\ \A x \in D : Parents(x) \subseteq D /\ f[x] = Visit(dag, f, x)

\* Two functions that solve the recursion of Ancestry agree.
LEMMA SolutionsAgree ==
    ASSUME NEW dag, NEW f, NEW D, Solves(dag, f, D), NEW h, NEW E, Solves(dag, h, E)
    PROVE  \A x \in D \cap E : f[x] = h[x]
<1> DEFINE S == {x \in D \cap E : f[x] # h[x]}
<1> SUFFICES ASSUME S # {} PROVE FALSE
  OBVIOUS
<1>1. S \in SUBSET Txns
  BY DEF Solves
<1>2. PICK x \in S : Parents(x) \cap S = {}
  BY <1>1, AcyclicAssumption, Zenon
<1>3. \A p \in Parents(x) : f[p] = h[p]
  BY <1>2 DEF Solves
<1>4. Visit(dag, f, x) = Visit(dag, h, x)
  BY <1>3, VisitLocal, Zenon
<1> QED
  BY <1>2, <1>4 DEF Solves

\* It has a solution: inputs form no cycle.
LEMMA VisitExists ==
    ASSUME NEW dag
    PROVE  \E f : f = [x \in Txns |-> Visit(dag, f, x)]
<1> DEFINE Solved(x) == \E f, D : Solves(dag, f, D) /\ x \in D
           D0 == {x \in Txns : Solved(x)}
           sol(x) == CHOOSE f : \E D : Solves(dag, f, D) /\ x \in D
           h == [x \in Txns |-> IF x \in D0 THEN sol(x)[x] ELSE <<>>]
<1>1. \A x \in D0 : \E D : Solves(dag, sol(x), D) /\ x \in D
  BY Zenon
<1>2. \A x \in D0 : h[x] = sol(x)[x]
  OBVIOUS
<1> HIDE DEF h, sol
<1>3. ASSUME NEW x \in D0
      PROVE  Parents(x) \subseteq D0 /\ h[x] = Visit(dag, h, x)
  <2>1. PICK D : Solves(dag, sol(x), D) /\ x \in D
    BY <1>1
  <2>2. Parents(x) \subseteq D /\ sol(x)[x] = Visit(dag, sol(x), x) /\ D \subseteq Txns
    BY <2>1, Zenon DEF Solves
  <2>3. D \subseteq D0
    BY <2>1, <2>2
  <2>4. \A p \in Parents(x) : sol(x)[p] = h[p]
    <3> SUFFICES ASSUME NEW p \in Parents(x) PROVE sol(x)[p] = h[p]
      OBVIOUS
    <3>1. p \in D /\ p \in D0
      BY <2>2, <2>3
    <3>2. PICK E : Solves(dag, sol(p), E) /\ p \in E
      BY <1>1, <3>1
    <3>3. sol(x)[p] = sol(p)[p]
      BY <2>1, <3>1, <3>2, SolutionsAgree
    <3> QED
      BY <1>2, <3>1, <3>3, Zenon
  <2>5. Visit(dag, sol(x), x) = Visit(dag, h, x)
    BY <2>4, VisitLocal, Zenon
  <2> QED
    BY <1>2, <2>2, <2>3, <2>5, Zenon
<1>4. Solves(dag, h, D0)
  BY <1>3 DEF Solves
<1>5. Txns \ D0 = {}
  <2> SUFFICES ASSUME Txns \ D0 # {} PROVE FALSE
    OBVIOUS
  <2>1. PICK x \in Txns \ D0 : Parents(x) \cap (Txns \ D0) = {}
    BY AcyclicAssumption, Zenon
  <2>2. Parents(x) \subseteq D0
    BY <2>1, ParentsType
  <2> DEFINE g == [y \in Txns |-> IF y = x THEN Visit(dag, h, x) ELSE h[y]]
  <2>3. \A y \in D0 : g[y] = h[y]
    BY <2>1
  <2>4. g[x] = Visit(dag, h, x)
    BY <2>1
  <2> HIDE DEF g
  <2>5. ASSUME NEW y \in D0 \cup {x}
        PROVE  Parents(y) \subseteq D0 \cup {x} /\ g[y] = Visit(dag, g, y)
    <3>1. Parents(y) \subseteq D0
      BY <1>3, <2>2
    <3>2. Visit(dag, g, y) = Visit(dag, h, y)
      BY <2>3, <3>1, VisitLocal
    <3>3. g[y] = Visit(dag, h, y)
      BY <1>3, <2>3, <2>4
    <3> QED
      BY <3>1, <3>2, <3>3
  <2>6. Solves(dag, g, D0 \cup {x})
    BY <2>1, <2>5 DEF Solves
  <2> QED
    BY <2>1, <2>6
<1>6. \A x \in Txns : h[x] = Visit(dag, h, x)
  BY <1>3, <1>5
<1>7. h = [x \in Txns |-> h[x]]
  BY DEF h
<1>8. h = [x \in Txns |-> Visit(dag, h, x)]
  BY <1>6, <1>7
<1> QED
  BY <1>8

\* Ancestry is the value of a function that solves its recursion.
LEMMA AncestryDef ==
    ASSUME NEW dag
    PROVE  \E f : /\ \A x \in Txns : f[x] = Visit(dag, f, x)
                  /\ \A t \in Txns : Ancestry(dag, t) = f[t]
<1> DEFINE f == CHOOSE f : f = [x \in Txns |-> Visit(dag, f, x)]
<1>1. f = [x \in Txns |-> Visit(dag, f, x)]
  BY VisitExists, Zenon
<1>2. \A t \in Txns : Ancestry(dag, t) = f[t]
  BY Zenon DEF Ancestry, Visit
<1> HIDE DEF f
<1>3. \A x \in Txns : f[x] = Visit(dag, f, x)
  BY <1>1
<1> QED
  BY <1>2, <1>3

\* The order in which the undecided ancestors of a transaction are supported:
\* each once, and parents first.
LEMMA AncestryWalk ==
    ASSUME NEW dag, NEW t \in Txns
    PROVE  WalkOf(dag, Ancestry(dag, t))
<1>1. PICK f : /\ \A x \in Txns : f[x] = Visit(dag, f, x)
               /\ \A x \in Txns : Ancestry(dag, x) = f[x]
  BY AncestryDef
<1> DEFINE Good(x) == WalkOf(dag, f[x]) /\ (x \in DOMAIN dag => Has(f[x], x))
           S == {x \in Txns : ~ Good(x)}
<1> SUFFICES ASSUME S # {} PROVE FALSE
  BY <1>1
<1>2. PICK x \in S : Parents(x) \cap S = {}
  BY AcyclicAssumption, Zenon
<1>3. \A p \in Parents(x) : Good(p)
  BY <1>2, ParentsType
<1>4. x \in Txns /\ ~ Good(x) /\ f[x] = Visit(dag, f, x)
  BY <1>1, <1>2
<1>5. CASE x \notin DOMAIN dag
  <2>1. f[x] = <<>> /\ Len(<<>>) = 0 /\ 1 .. 0 = {} /\ <<>> \in Seq(DOMAIN dag)
    BY <1>4, <1>5 DEF Visit
  <2>2. WalkOf(dag, <<>>)
    BY <2>1, Zenon DEF WalkOf, Once, ParentsFirst
  <2> QED
    BY <1>4, <1>5, <2>1, <2>2, Zenon
<1>6. CASE x \in DOMAIN dag
  <2>1. PICK ss : ss = [i \in DOMAIN InUtxo[x] |-> f[InUtxo[x][i]]]
    BY Zenon
  <2>2. InUtxo[x] \in Seq(Txns)
    BY <1>4, TxnAssumption
  <2>3. /\ DOMAIN InUtxo[x] = 1 .. Len(InUtxo[x]) /\ Len(InUtxo[x]) \in Nat
    BY <2>2
  <2>4. Len(ss) = Len(InUtxo[x])
    BY <2>1, <2>3
  <2>5. \A i \in 1 .. Len(ss) : ss[i] = f[InUtxo[x][i]] /\ InUtxo[x][i] \in Parents(x)
    BY <2>1, <2>3, <2>4, Zenon DEF Parents, Range
  <2>6. \A i \in 1 .. Len(ss) : WalkOf(dag, ss[i])
    BY <1>3, <2>5, Zenon
  <2>7. PICK s : s = ReachingAll!Fold(<<>>, ss)
    OBVIOUS
  <2>8. /\ WalkOf(dag, s)
        /\ \A y : Has(s, y) <=> \E i \in 1 .. Len(ss) : Has(ss[i], y)
    BY <2>3, <2>4, <2>6, <2>7, ReachingAllWalk, Zenon
  <2>9. ASSUME NEW p \in Parents(x) \cap DOMAIN dag PROVE Has(s, p)
    <3>1. PICK i \in DOMAIN InUtxo[x] : InUtxo[x][i] = p
      BY DEF Parents, Range
    <3>2. Has(f[p], p)
      BY <1>3, Zenon
    <3> QED
      BY <2>3, <2>4, <2>5, <2>8, <3>1, <3>2, Zenon
  <2>10. f[x] = Reach(s, x)
    BY <1>4, <1>6, <2>1, <2>7, Zenon DEF Visit
  <2>11. WalkOf(dag, Reach(s, x)) /\ Has(Reach(s, x), x)
    BY <1>6, <2>8, <2>9, ReachStep
  <2> QED
    BY <1>4, <2>10, <2>11, Zenon
<1> QED
  BY <1>5, <1>6

----------------------------------------------------------------------------
\* Views, and support along a walk

\* The recorded spenders of a utxo.
Spends(v, u) == {t \in v.pool : u \in Utxos(t)}

\* What every view is made of: confidence of recorded transactions, a DAG of
\* some of them, a conflict set for every input of each.
Shape(v) ==
    /\ v.pool \subseteq Txns
    /\ v.conf \in [v.pool -> Nat]
    /\ DOMAIN v.dag \subseteq v.pool
    /\ \A x \in DOMAIN v.dag : \A y \in v.dag[x] : y \in v.pool /\ x \in Parents(y)
    /\ \A t \in v.pool : Utxos(t) \subseteq DOMAIN v.cs
    /\ \A u \in DOMAIN v.cs : v.cs[u].pref \in v.pool /\ u \in Utxos(v.cs[u].pref)

\* The preferred spender of a utxo is one of highest confidence.
PrefMax(v) ==
    \A u \in DOMAIN v.cs : \A t \in v.pool : u \in Utxos(t) => v.conf[t] <= v.conf[v.cs[u].pref]

\* An undecided parent is no less confident than its recorded children.
Leads(v) == \A p \in DOMAIN v.dag : \A y \in v.dag[p] : v.conf[y] <= v.conf[p]

\* What the handlers keep of a view in both variants.
ViewOK(v) == Shape(v) /\ PrefMax(v) /\ Leads(v)

\* What Support does in either variant.
Overtakes(v, t, u) ==
    u \in Utxos(t) /\ v.cs[u].pref # t /\ v.conf[v.cs[u].pref] < v.conf[t] + 1

\* Confidence and preference after the support of t, in both variants.
Supported(v, w, t) ==
    /\ w.pool = v.pool
    /\ w.conf = Insert(v.conf, t, v.conf[t] + 1)
    /\ DOMAIN w.cs = DOMAIN v.cs
    /\ \A u \in DOMAIN v.cs : w.cs[u].pref = IF Overtakes(v, t, u) THEN t ELSE v.cs[u].pref

\* Support lists what it takes out of the DAG.
Listed(acc, out, t) ==
    \/ out.view.dag = acc.view.dag /\ out.list = acc.list
    \/ /\ out.view.dag = Restrict(acc.view.dag, DOMAIN acc.view.dag \ {t})
       /\ out.list = Append(acc.list, t)

\* Insertion under a key that is there.
LEMMA InsertProperties ==
    ASSUME NEW S, NEW T, NEW f \in [S -> T], NEW x \in S, NEW e \in T
    PROVE  /\ Insert(f, x, e) \in [S -> T]
           /\ Insert(f, x, e)[x] = e
           /\ \A y \in S : y # x => Insert(f, x, e)[y] = f[y]
BY DEF Insert

\* Support keeps the shape of the view and the preferred spenders ahead.
LEMMA SupportKeeps ==
    ASSUME NEW acc, NEW out, NEW t, Shape(acc.view), PrefMax(acc.view), t \in DOMAIN acc.view.dag,
           Supported(acc.view, out.view, t), Listed(acc, out, t)
    PROVE  /\ Shape(out.view) /\ PrefMax(out.view)
           /\ DOMAIN out.view.dag \subseteq DOMAIN acc.view.dag
           /\ \A x \in DOMAIN out.view.dag : out.view.dag[x] = acc.view.dag[x]
<1>1. PICK v, w : v = acc.view /\ w = out.view
  OBVIOUS
<1>2. /\ v.pool \subseteq Txns
      /\ v.conf \in [v.pool -> Nat]
      /\ DOMAIN v.dag \subseteq v.pool
      /\ \A x \in DOMAIN v.dag : \A y \in v.dag[x] : y \in v.pool /\ x \in Parents(y)
      /\ \A x \in v.pool : Utxos(x) \subseteq DOMAIN v.cs
      /\ \A u \in DOMAIN v.cs : v.cs[u].pref \in v.pool /\ u \in Utxos(v.cs[u].pref)
  BY <1>1, Zenon DEF Shape
<1>3. /\ w.pool = v.pool
      /\ w.conf = Insert(v.conf, t, v.conf[t] + 1)
      /\ DOMAIN w.cs = DOMAIN v.cs
      /\ \A u \in DOMAIN v.cs : w.cs[u].pref = IF Overtakes(v, t, u) THEN t ELSE v.cs[u].pref
  BY <1>1, Zenon DEF Supported
<1>4. t \in v.pool /\ v.conf[t] \in Nat /\ v.conf[t] + 1 \in Nat
  BY <1>1, <1>2
<1>5. /\ w.conf \in [v.pool -> Nat] /\ w.conf[t] = v.conf[t] + 1
      /\ \A y \in v.pool : y # t => w.conf[y] = v.conf[y]
  <2>1. PICK S, f, n : S = v.pool /\ f = v.conf /\ n = v.conf[t] + 1
    OBVIOUS
  <2>2. f \in [S -> Nat] /\ t \in S /\ n \in Nat
    BY <1>2, <1>4, <2>1
  <2>3. /\ Insert(f, t, n) \in [S -> Nat] /\ Insert(f, t, n)[t] = n
        /\ \A y \in S : y # t => Insert(f, t, n)[y] = f[y]
    BY <2>2, InsertProperties
  <2> QED
    BY <1>3, <2>1, <2>3, Zenon
<1>6. DOMAIN w.dag \subseteq DOMAIN v.dag /\ \A x \in DOMAIN w.dag : w.dag[x] = v.dag[x]
  <2>1. w.dag = v.dag \/ w.dag = Restrict(v.dag, DOMAIN v.dag \ {t})
    BY <1>1, Zenon DEF Listed
  <2>2. PICK d, e : d = v.dag /\ e = w.dag
    OBVIOUS
  <2>3. e = d \/ e = Restrict(d, DOMAIN d \ {t})
    BY <2>1, <2>2, Zenon
  <2>4. DOMAIN e \subseteq DOMAIN d /\ \A x \in DOMAIN e : e[x] = d[x]
    BY <2>3 DEF Restrict
  <2> QED
    BY <2>2, <2>4, Zenon
<1>7. ASSUME NEW u \in DOMAIN w.cs PROVE w.cs[u].pref \in w.pool /\ u \in Utxos(w.cs[u].pref)
  BY <1>2, <1>3, <1>4, Zenon DEF Overtakes
<1>8. Shape(w)
  <2>1. w.pool \subseteq Txns /\ w.conf \in [w.pool -> Nat]
    BY <1>2, <1>3, <1>5
  <2>2. DOMAIN w.dag \subseteq w.pool
    BY <1>2, <1>3, <1>6
  <2>3. \A x \in DOMAIN w.dag : \A y \in w.dag[x] : y \in w.pool /\ x \in Parents(y)
    BY <1>2, <1>3, <1>6
  <2>4. \A x \in w.pool : Utxos(x) \subseteq DOMAIN w.cs
    BY <1>2, <1>3
  <2> QED
    BY <1>7, <2>1, <2>2, <2>3, <2>4, Zenon DEF Shape
<1>9. PrefMax(w)
  <2> SUFFICES ASSUME NEW u \in DOMAIN w.cs, NEW x \in w.pool, u \in Utxos(x)
               PROVE  w.conf[x] <= w.conf[w.cs[u].pref]
    BY DEF PrefMax
  <2>1. PICK p : p = v.cs[u].pref
    OBVIOUS
  <2>2. p \in v.pool /\ v.conf[x] <= v.conf[p] /\ x \in v.pool
    BY <1>1, <1>2, <1>3, <2>1 DEF PrefMax
  <2>3. u \in Utxos(t) => v.conf[t] <= v.conf[p]
    BY <1>1, <1>3, <1>4, <2>1 DEF PrefMax
  <2>4. v.conf[x] \in Nat /\ v.conf[p] \in Nat
    BY <1>2, <2>2
  <2>5. CASE Overtakes(v, t, u)
    <3>1. w.cs[u].pref = t /\ p # t /\ v.conf[p] < v.conf[t] + 1
      BY <1>3, <2>1, <2>5 DEF Overtakes
    <3> QED
      BY <1>4, <1>5, <2>2, <2>4, <3>1
  <2>6. CASE ~ Overtakes(v, t, u)
    <3>1. w.cs[u].pref = p
      BY <1>3, <2>1, <2>6
    <3>2. CASE x = t /\ p # t
      <4>1. ~ (v.conf[p] < v.conf[t] + 1)
        BY <2>1, <2>6, <3>2 DEF Overtakes
      <4> QED
        BY <1>4, <1>5, <2>2, <2>4, <3>1, <3>2, <4>1
    <3>3. CASE x # t \/ p = t
      BY <1>4, <1>5, <2>2, <2>4, <3>1, <3>3
    <3> QED
      BY <3>2, <3>3
  <2> QED
    BY <2>5, <2>6
<1> QED
  BY <1>1, <1>6, <1>8, <1>9

\* The list of accepted transactions: what has left the DAG since v, each once.
ListOK(v, acc) ==
    /\ acc.list \in Seq(Txns) /\ Once(acc.list)
    /\ DOMAIN acc.view.dag \subseteq DOMAIN v.dag
    /\ \A x : Has(acc.list, x) <=> x \in DOMAIN v.dag /\ x \notin DOMAIN acc.view.dag

\* Appending what is not in a list.
LEMMA OnceAppend ==
    ASSUME NEW S, NEW s \in Seq(S), Once(s), NEW e \in S, ~ Has(s, e)
    PROVE  Once(Append(s, e))
<1>1. PICK r : r = Append(s, e)
  BY Zenon
<1>2. /\ Len(r) = Len(s) + 1 /\ r[Len(s) + 1] = e /\ Len(s) \in Nat
      /\ \A i \in 1 .. Len(s) : r[i] = s[i]
  BY <1>1, AppendProperties, LenProperties
<1>3. \A i \in 1 .. Len(r) : i \in 1 .. Len(s) \/ i = Len(s) + 1
  BY <1>2
<1>4. \A i \in 1 .. Len(s) : r[i] # e
  BY <1>2, Zenon DEF Has
<1> QED
  BY <1>1, <1>2, <1>3, <1>4, Zenon DEF Once

\* The list stays exact when Support decides t, or does not.
LEMMA ListedKeeps ==
    ASSUME NEW v, NEW acc, NEW out, NEW t \in Txns, ListOK(v, acc), t \in DOMAIN acc.view.dag,
           Listed(acc, out, t)
    PROVE  ListOK(v, out)
<1>1. PICK d, e, s, r : d = acc.view.dag /\ e = out.view.dag /\ s = acc.list /\ r = out.list
  OBVIOUS
<1>2. /\ s \in Seq(Txns) /\ Once(s) /\ DOMAIN d \subseteq DOMAIN v.dag
      /\ \A x : Has(s, x) <=> x \in DOMAIN v.dag /\ x \notin DOMAIN d
  BY <1>1, Zenon DEF ListOK
<1>3. (e = d /\ r = s) \/ (e = Restrict(d, DOMAIN d \ {t}) /\ r = Append(s, t))
  BY <1>1, Zenon DEF Listed
<1>4. t \in DOMAIN d
  BY <1>1
<1>5. CASE e = d /\ r = s
  BY <1>1, <1>5, Zenon DEF ListOK
<1>6. CASE e = Restrict(d, DOMAIN d \ {t}) /\ r = Append(s, t)
  <2>1. DOMAIN e = DOMAIN d \ {t}
    BY <1>6 DEF Restrict
  <2>2. ~ Has(s, t)
    BY <1>2, <1>4, Zenon
  <2>3. r \in Seq(Txns) /\ Once(r)
    BY <1>2, <1>6, <2>2, OnceAppend, AppendProperties
  <2>4. \A x : Has(r, x) <=> Has(s, x) \/ x = t
    BY <1>2, <1>6, HasAppend, Zenon
  <2>5. ASSUME NEW x PROVE Has(r, x) <=> x \in DOMAIN v.dag /\ x \notin DOMAIN e
    <3>1. x \in DOMAIN e <=> x \in DOMAIN d /\ x # t
      BY <2>1
    <3>2. x = t => x \in DOMAIN v.dag
      BY <1>2, <1>4
    <3> QED
      BY <1>2, <2>4, <3>1, <3>2, Zenon
  <2>6. DOMAIN e \subseteq DOMAIN v.dag
    BY <1>2, <2>1
  <2> QED
    BY <1>1, <2>3, <2>5, <2>6, Zenon DEF ListOK
<1> QED
  BY <1>3, <1>5, <1>6

\* How far the body of handle_votes, started from v, has come.
Progress(v, acc) == ViewOK(acc.view) /\ acc.view.pool = v.pool /\ ListOK(v, acc)

\* The transactions of a walk that Support has met.
Met(r, n) == {r[j] : j \in 1 .. n}

\* Support along a walk, after n of its transactions.
Along(v, a, r, b, n) ==
    /\ Shape(b.view) /\ PrefMax(b.view) /\ b.view.pool = v.pool /\ ListOK(v, b)
    /\ DOMAIN b.view.dag \subseteq DOMAIN a.view.dag
    /\ \A x \in DOMAIN b.view.dag : b.view.dag[x] = a.view.dag[x]
    /\ \A x \in DOMAIN a.view.dag : x \notin Met(r, n) => x \in DOMAIN b.view.dag
    /\ \A x \in v.pool : b.view.conf[x] = IF x \in Met(r, n) THEN a.view.conf[x] + 1 ELSE a.view.conf[x]

\* At the end of a walk the parents lead again.
LEMMA AlongProgress ==
    ASSUME NEW v, NEW a, NEW r, NEW b, NEW n \in 0 .. Len(r), Progress(v, a),
           WalkOf(a.view.dag, r), Along(v, a, r, b, n)
    PROVE  Progress(v, b)
<1>1. PICK d, e, f, h, S : d = a.view.dag /\ e = b.view.dag /\ f = a.view.conf /\ h = b.view.conf /\ S = v.pool
  OBVIOUS
<1>2. /\ DOMAIN e \subseteq DOMAIN d /\ \A x \in DOMAIN e : e[x] = d[x]
      /\ \A x \in S : h[x] = IF x \in Met(r, n) THEN f[x] + 1 ELSE f[x]
      /\ b.view.pool = S
  BY <1>1, Zenon DEF Along
<1>3. /\ \A x \in DOMAIN d : \A y \in d[x] : y \in S /\ x \in Parents(y)
      /\ DOMAIN d \subseteq S /\ f \in [S -> Nat]
  BY <1>1, Zenon DEF Progress, ViewOK, Shape
<1>4. \A p \in DOMAIN d : \A y \in d[p] : f[y] <= f[p]
  BY <1>1, Zenon DEF Progress, ViewOK, Leads
<1>5. ASSUME NEW p \in DOMAIN e, NEW y \in e[p] PROVE h[y] <= h[p]
  <2>1. p \in DOMAIN d /\ y \in d[p] /\ y \in S /\ p \in S /\ p \in Parents(y)
    BY <1>2, <1>3
  <2>2. f[y] \in Nat /\ f[p] \in Nat /\ f[y] <= f[p]
    BY <1>3, <1>4, <2>1
  <2>3. ASSUME y \in Met(r, n) PROVE p \in Met(r, n)
    <3>1. PICK i \in 1 .. n : r[i] = y
      BY <2>3 DEF Met
    <3>2. i \in 1 .. Len(r) /\ \A j \in 1 .. i - 1 : j \in 1 .. n
      BY LenProperties DEF WalkOf
    <3>3. PICK j \in 1 .. i - 1 : r[j] = p
      BY <1>1, <2>1, <3>1, <3>2, Zenon DEF WalkOf, ParentsFirst
    <3> QED
      BY <3>2, <3>3, Zenon DEF Met
  <2>4. h[y] = (IF y \in Met(r, n) THEN f[y] + 1 ELSE f[y]) /\ h[p] = (IF p \in Met(r, n) THEN f[p] + 1 ELSE f[p])
    BY <1>2, <2>1
  <2> QED
    BY <2>2, <2>3, <2>4
<1>6. Leads(b.view)
  BY <1>1, <1>5, Zenon DEF Leads
<1> QED
  BY <1>1, <1>2, <1>6, Zenon DEF Progress, ViewOK, Along

\* Before the walk.
LEMMA AlongStart ==
    ASSUME NEW v, NEW a, NEW r, Progress(v, a)
    PROVE  Along(v, a, r, a, 0)
<1>1. 1 .. 0 = {}
  OBVIOUS
<1>2. \A x : x \notin Met(r, 0)
  BY <1>1, Zenon DEF Met
<1>3. \A x \in v.pool : a.view.conf[x] = IF x \in Met(r, 0) THEN a.view.conf[x] + 1 ELSE a.view.conf[x]
  BY <1>2, Zenon
<1> QED
  BY <1>3, Zenon DEF Along, Progress, ViewOK

\* One transaction further.
LEMMA AlongNext ==
    ASSUME NEW v, NEW a, NEW r, Progress(v, a), WalkOf(a.view.dag, r), NEW n \in Nat, n + 1 <= Len(r),
           NEW b, Along(v, a, r, b, n),
           NEW c, Supported(b.view, c.view, r[n + 1]), Listed(b, c, r[n + 1])
    PROVE  r[n + 1] \in DOMAIN b.view.dag /\ Along(v, a, r, c, n + 1)
<1>1. PICK t : t = r[n + 1]
  OBVIOUS
<1>2. r \in Seq(DOMAIN a.view.dag) /\ Once(r) /\ Len(r) \in Nat
  BY LenProperties DEF WalkOf
<1>3. n + 1 \in 1 .. Len(r) /\ \A j \in 1 .. n : j \in 1 .. Len(r) /\ j # n + 1
  BY <1>2
<1>4. t \in DOMAIN a.view.dag
  BY <1>1, <1>2, <1>3, ElementOfSeq
<1>5. t \notin Met(r, n)
  BY <1>1, <1>2, <1>3, Zenon DEF Met, Once
<1>6. t \in DOMAIN b.view.dag
  BY <1>4, <1>5, Zenon DEF Along
<1>7. \A x : x \in Met(r, n + 1) <=> x \in Met(r, n) \/ x = t
  <2>1. n + 1 \in 1 .. n + 1 /\ (\A j \in 1 .. n + 1 : j \in 1 .. n \/ j = n + 1)
        /\ \A j \in 1 .. n : j \in 1 .. n + 1
    OBVIOUS
  <2> QED
    BY <1>1, <2>1, Zenon DEF Met
<1>8. Shape(b.view) /\ PrefMax(b.view) /\ ListOK(v, b) /\ b.view.pool = v.pool
  BY Zenon DEF Along
<1>9. /\ Shape(c.view) /\ PrefMax(c.view)
      /\ DOMAIN c.view.dag \subseteq DOMAIN b.view.dag
      /\ \A x \in DOMAIN c.view.dag : c.view.dag[x] = b.view.dag[x]
  BY <1>1, <1>6, <1>8, SupportKeeps
<1>10. t \in Txns /\ t \in v.pool
  BY <1>6, <1>8 DEF Shape
<1>11. ListOK(v, c)
  BY <1>1, <1>6, <1>8, <1>10, ListedKeeps
<1>12. c.view.pool = v.pool
  BY <1>8, Zenon DEF Supported
<1>13. /\ DOMAIN c.view.dag \subseteq DOMAIN a.view.dag
       /\ \A x \in DOMAIN c.view.dag : c.view.dag[x] = a.view.dag[x]
  BY <1>9 DEF Along
<1>14. ASSUME NEW x \in DOMAIN a.view.dag, x \notin Met(r, n + 1) PROVE x \in DOMAIN c.view.dag
  <2>1. x \in DOMAIN b.view.dag /\ x # t
    BY <1>7, <1>14, Zenon DEF Along
  <2>2. PICK d, e : d = b.view.dag /\ e = c.view.dag
    OBVIOUS
  <2>3. e = d \/ e = Restrict(d, DOMAIN d \ {t})
    BY <1>1, <2>2, Zenon DEF Listed
  <2>4. x \in DOMAIN e
    BY <2>1, <2>2, <2>3 DEF Restrict
  <2> QED
    BY <2>2, <2>4
<1>15. ASSUME NEW x \in v.pool
       PROVE  c.view.conf[x] = IF x \in Met(r, n + 1) THEN a.view.conf[x] + 1 ELSE a.view.conf[x]
  <2>1. PICK f, h, k0, S : f = a.view.conf /\ h = b.view.conf /\ k0 = c.view.conf /\ S = v.pool
    OBVIOUS
  <2>2. h[x] = (IF x \in Met(r, n) THEN f[x] + 1 ELSE f[x]) /\ h[t] = f[t]
    BY <1>5, <1>10, <2>1, Zenon DEF Along
  <2>3. h \in [S -> Nat] /\ k0 = Insert(h, t, h[t] + 1)
    BY <1>1, <1>8, <2>1, Zenon DEF Shape, Supported
  <2>4. k0[x] = IF x = t THEN h[t] + 1 ELSE h[x]
    BY <1>10, <2>1, <2>3 DEF Insert
  <2> QED
    BY <1>5, <1>7, <2>1, <2>2, <2>4, Zenon
<1> QED
  BY <1>1, <1>6, <1>9, <1>11, <1>12, <1>13, <1>14, <1>15, Zenon DEF Along

\* Support along a walk, in either variant.
LEMMA SupportLoop ==
    ASSUME NEW v, NEW r, NEW after, Progress(v, after[0]), WalkOf(after[0].view.dag, r),
           \A i \in 1 .. Len(r) : /\ Supported(after[i - 1].view, after[i].view, r[i])
                                  /\ Listed(after[i - 1], after[i], r[i])
    PROVE  /\ Progress(v, after[Len(r)])
           /\ \A i \in 1 .. Len(r) : Progress(v, after[i - 1]) /\ r[i] \in DOMAIN after[i - 1].view.dag
<1>1. Len(r) \in Nat
  BY LenProperties DEF WalkOf
<1> DEFINE a == after[0]
           Q == {n \in Nat : n <= Len(r) => Along(v, a, r, after[n], n)}
<1>2. 0 \in Q
  BY AlongStart
<1>3. ASSUME NEW n \in Nat, n + 1 <= Len(r), Along(v, a, r, after[n], n)
      PROVE  r[n + 1] \in DOMAIN after[n].view.dag /\ Along(v, a, r, after[n + 1], n + 1)
  <2>1. n + 1 \in 1 .. Len(r) /\ (n + 1) - 1 = n
    BY <1>1, <1>3
  <2>2. Supported(after[n].view, after[n + 1].view, r[n + 1]) /\ Listed(after[n], after[n + 1], r[n + 1])
    BY <2>1, Zenon
  <2> HIDE DEF a
  <2>3. Progress(v, a) /\ WalkOf(a.view.dag, r)
    BY DEF a
  <2> QED
    BY <1>3, <2>2, <2>3, AlongNext
<1>4. ASSUME NEW n \in Nat, n \in Q PROVE n + 1 \in Q
  <2> SUFFICES ASSUME n + 1 <= Len(r) PROVE Along(v, a, r, after[n + 1], n + 1)
    OBVIOUS
  <2>1. n <= Len(r)
    BY <1>1
  <2> QED
    BY <1>3, <1>4, <2>1, Zenon
<1> HIDE DEF Q
<1>5. \A n \in Nat : n \in Q
  BY <1>2, <1>4, SetInduction
<1>6. ASSUME NEW n \in 0 .. Len(r) PROVE Along(v, a, r, after[n], n) /\ Progress(v, after[n])
  <2>1. Along(v, a, r, after[n], n)
    BY <1>1, <1>5 DEF Q
  <2> HIDE DEF a
  <2>2. Progress(v, a) /\ WalkOf(a.view.dag, r)
    BY DEF a
  <2> QED
    BY <2>1, <2>2, AlongProgress
<1>7. ASSUME NEW i \in 1 .. Len(r) PROVE Progress(v, after[i - 1]) /\ r[i] \in DOMAIN after[i - 1].view.dag
  <2>1. PICK n \in Nat : n = i - 1
    OBVIOUS
  <2>2. n \in 0 .. Len(r) /\ n + 1 <= Len(r) /\ i = n + 1
    BY <1>1, <2>1
  <2>3. Along(v, a, r, after[n], n) /\ Progress(v, after[n])
    BY <1>6, <2>2
  <2>4. r[n + 1] \in DOMAIN after[n].view.dag
    BY <1>3, <2>2, <2>3
  <2> QED
    BY <2>1, <2>2, <2>3, <2>4
<1>8. Len(r) \in 0 .. Len(r)
  BY <1>1
<1> QED
  BY <1>6, <1>7, <1>8

\* Before the first transaction of a block.
LEMMA NothingSettled ==
    ASSUME NEW v, ViewOK(v)
    PROVE  Progress(v, [view |-> v, list |-> <<>>])
<1>1. PICK a : a = [view |-> v, list |-> <<>>]
  BY Zenon
<1>2. a.view = v /\ a.list = <<>>
  BY <1>1
<1>3. <<>> \in Seq(Txns) /\ Len(<<>>) = 0 /\ 1 .. 0 = {}
  OBVIOUS
<1>4. Once(<<>>)
  BY <1>3, Zenon DEF Once
<1>5. Progress(v, a)
  BY <1>2, <1>3, <1>4, HasNone, Zenon DEF Progress, ListOK
<1> QED
  BY <1>1, <1>5, Zenon

----------------------------------------------------------------------------
\* Records

\* A view that differs in the counters of conflict sets and cached answers only.
LikeView(v, w) ==
    /\ w.pool = v.pool /\ w.dag = v.dag /\ w.conf = v.conf
    /\ DOMAIN w.cs = DOMAIN v.cs
    /\ \A u \in DOMAIN v.cs : w.cs[u].pref = v.cs[u].pref

\* Such a view is as good.
LEMMA LikeViewOK ==
    ASSUME NEW v, NEW w, LikeView(v, w), ViewOK(v)
    PROVE  ViewOK(w)
<1>1. Shape(w)
  BY Zenon DEF LikeView, ViewOK, Shape
<1>2. PrefMax(w)
  BY Zenon DEF LikeView, ViewOK, PrefMax
<1>3. Leads(w)
  BY Zenon DEF LikeView, ViewOK, Leads
<1> QED
  BY <1>1, <1>2, <1>3 DEF ViewOK

\* What is decided is the same.
SameDecided(v, w) ==
    /\ v.pool \subseteq w.pool
    /\ \A x : (x \in w.pool /\ x \notin DOMAIN w.dag) <=> (x \in v.pool /\ x \notin DOMAIN v.dag)

\* Nothing decided by one step and nothing by the next.
LEMMA SameDecidedTrans ==
    ASSUME NEW a, NEW b, NEW c, SameDecided(a, b), SameDecided(b, c)
    PROVE  SameDecided(a, c)
<1>1. \A x : (x \in c.pool /\ x \notin DOMAIN c.dag) <=> (x \in a.pool /\ x \notin DOMAIN a.dag)
  BY Zenon DEF SameDecided
<1>2. a.pool \subseteq c.pool
  BY DEF SameDecided
<1> QED
  BY <1>1, <1>2 DEF SameDecided

\* What recording a transaction does in either variant.
Recorded(v, w, t) ==
    /\ w.pool = v.pool \cup {t}
    /\ w.dag = AddNode(v.dag, t)
    /\ w.conf = Insert(v.conf, t, 0)
    /\ DOMAIN w.cs = DOMAIN v.cs \cup Utxos(t)
    /\ \A u \in DOMAIN w.cs : w.cs[u].pref = IF u \in DOMAIN v.cs THEN v.cs[u].pref ELSE t

\* A record for a transaction not met before keeps the view right.
LEMMA RecordKeeps ==
    ASSUME NEW v, NEW w, NEW t \in Txns, ViewOK(v), t \notin v.pool, Recorded(v, w, t)
    PROVE  ViewOK(w) /\ SameDecided(v, w)
<1>1. PICK S, T, d, e, f, h, cs, ct :
         /\ S = v.pool /\ T = w.pool /\ d = v.dag /\ e = w.dag
         /\ f = v.conf /\ h = w.conf /\ cs = v.cs /\ ct = w.cs
  OBVIOUS
<1>2. /\ S \subseteq Txns /\ f \in [S -> Nat] /\ DOMAIN d \subseteq S
      /\ \A x \in DOMAIN d : \A y \in d[x] : y \in S /\ x \in Parents(y)
      /\ \A x \in S : Utxos(x) \subseteq DOMAIN cs
      /\ \A u \in DOMAIN cs : cs[u].pref \in S /\ u \in Utxos(cs[u].pref)
  BY <1>1, Zenon DEF ViewOK, Shape
<1>3. \A u \in DOMAIN cs : \A x \in S : u \in Utxos(x) => f[x] <= f[cs[u].pref]
  BY <1>1, Zenon DEF ViewOK, PrefMax
<1>4. \A p \in DOMAIN d : \A y \in d[p] : f[y] <= f[p]
  BY <1>1, Zenon DEF ViewOK, Leads
<1>5. /\ T = S \cup {t} /\ e = AddNode(d, t) /\ h = Insert(f, t, 0)
      /\ DOMAIN ct = DOMAIN cs \cup Utxos(t)
      /\ \A u \in DOMAIN ct : ct[u].pref = IF u \in DOMAIN cs THEN cs[u].pref ELSE t
  BY <1>1, Zenon DEF Recorded
<1>6. t \notin S /\ t \notin DOMAIN d
  BY <1>1, <1>2
<1>7. h \in [T -> Nat] /\ h[t] = 0 /\ \A x \in S : h[x] = f[x]
  BY <1>2, <1>5, <1>6 DEF Insert
<1>8. /\ DOMAIN e = DOMAIN d \cup {t} /\ e[t] = {}
      /\ \A x \in DOMAIN d : e[x] = IF x \in Parents(t) THEN d[x] \cup {t} ELSE d[x]
  BY <1>5, <1>6 DEF AddNode
<1>9. \A x \in DOMAIN e : \A y \in e[x] :
         x \in DOMAIN d /\ ((y \in d[x]) \/ (y = t /\ x \in Parents(t)))
  BY <1>8
<1>10. Shape(w)
  <2>1. T \subseteq Txns /\ DOMAIN e \subseteq T
    BY <1>2, <1>5, <1>8
  <2>2. \A x \in DOMAIN e : \A y \in e[x] : y \in T /\ x \in Parents(y)
    BY <1>2, <1>5, <1>9
  <2>3. \A x \in T : Utxos(x) \subseteq DOMAIN ct
    BY <1>2, <1>5
  <2>4. \A u \in DOMAIN ct : ct[u].pref \in T /\ u \in Utxos(ct[u].pref)
    BY <1>2, <1>5
  <2> QED
    BY <1>1, <1>7, <2>1, <2>2, <2>3, <2>4, Zenon DEF Shape
<1>11. ASSUME NEW u \in DOMAIN ct, NEW x \in T, u \in Utxos(x) PROVE h[x] <= h[ct[u].pref]
  <2>1. CASE u \in DOMAIN cs
    <3>1. ct[u].pref = cs[u].pref /\ cs[u].pref \in S
      BY <1>2, <1>5, <2>1
    <3>2. f[cs[u].pref] \in Nat /\ h[cs[u].pref] = f[cs[u].pref]
      BY <1>2, <1>7, <3>1
    <3>3. CASE x = t
      BY <1>7, <3>1, <3>2, <3>3
    <3>4. CASE x \in S
      BY <1>3, <1>7, <1>11, <2>1, <3>1, <3>2, <3>4
    <3> QED
      BY <1>5, <3>3, <3>4
  <2>2. CASE u \notin DOMAIN cs
    <3>1. x = t /\ ct[u].pref = t
      BY <1>2, <1>5, <1>11, <2>2
    <3> QED
      BY <1>7, <3>1
  <2> QED
    BY <2>1, <2>2
<1>12. ASSUME NEW p \in DOMAIN e, NEW y \in e[p] PROVE h[y] <= h[p]
  <2>1. p \in DOMAIN d /\ p \in S /\ f[p] \in Nat /\ h[p] = f[p]
    BY <1>2, <1>7, <1>9
  <2>2. CASE y \in d[p]
    BY <1>2, <1>4, <1>7, <2>1, <2>2
  <2>3. CASE y = t
    BY <1>7, <2>1, <2>3
  <2> QED
    BY <1>9, <2>2, <2>3
<1>13. PrefMax(w) /\ Leads(w)
  BY <1>1, <1>11, <1>12, Zenon DEF PrefMax, Leads
<1>14. SameDecided(v, w)
  <2>1. S \subseteq T /\ \A x : (x \in T /\ x \notin DOMAIN e) <=> (x \in S /\ x \notin DOMAIN d)
    BY <1>5, <1>6, <1>8
  <2> QED
    BY <1>1, <2>1, Zenon DEF SameDecided
<1> QED
  BY <1>10, <1>13, <1>14, Zenon DEF ViewOK

----------------------------------------------------------------------------
\* The rounds of Blizzard

\* A utxo with two recorded spenders knows of the conflict.
Conflicting(v) ==
    \A u \in DOMAIN v.cs : \A s, t \in v.pool :
        s # t /\ u \in Utxos(s) /\ u \in Utxos(t) => v.cs[u].has_conflicts = TRUE

\* Two decided spenders of a utxo are `lead' apart.
FarApart(v, lead) ==
    \A s, t \in v.pool : \A u \in Utxos(s) :
        s # t /\ u \in Utxos(t) /\ s \notin DOMAIN v.dag /\ t \notin DOMAIN v.dag =>
            v.conf[s] >= lead + v.conf[t] \/ v.conf[t] >= lead + v.conf[s]

\* total_rounds is the sum of the confidence of the spenders.
Counted(v) == \A u \in DOMAIN v.cs : v.cs[u].total_rounds = SumOver(v.conf, Spends(v, u))

\* What Blizzard keeps of a view beside.
RoundsOK(v, lead) == IsFiniteSet(v.pool) /\ Counted(v) /\ Conflicting(v) /\ FarApart(v, lead)

\* The test for acceptance: t leads the rounds of its rivals by `lead'
\* unless no input of it has a second spender.
Overcomes(cs, t, score, lead) ==
    (\E u \in Utxos(t) : cs[u].has_conflicts = TRUE) =>
        score >= lead + SumOver([u \in Utxos(t) |-> cs[u].total_rounds - score], Utxos(t))

\* What Support does in Blizzard beside.
CountsRound(v, w, t, lead) ==
    /\ \A u \in DOMAIN v.cs :
          /\ w.cs[u].has_conflicts = v.cs[u].has_conflicts
          /\ w.cs[u].total_rounds = v.cs[u].total_rounds + (IF u \in Utxos(t) THEN 1 ELSE 0)
    /\ t \in DOMAIN v.dag /\ t \notin DOMAIN w.dag =>
          Overcomes(w.cs, t, v.conf[t] + 1, lead)

\* The rounds of a conflict set: finitely many naturals, one per spender.
LEMMA SpendsType ==
    ASSUME NEW v, Shape(v), IsFiniteSet(v.pool), NEW u
    PROVE  /\ IsFiniteSet(Spends(v, u)) /\ \A x \in Spends(v, u) : v.conf[x] \in Nat
           /\ SumOver(v.conf, Spends(v, u)) \in Nat
<1>1. IsFiniteSet(Spends(v, u))
  BY FS_Subset DEF Spends
<1>2. \A x \in Spends(v, u) : v.conf[x] \in Nat
  BY DEF Shape, Spends
<1> QED
  BY <1>1, <1>2, SumOverAtLeast

\* A function that gains one at t gains one in every sum with t.
LEMMA SumOverGain ==
    ASSUME NEW S, IsFiniteSet(S), NEW f, NEW h, \A x \in S : f[x] \in Nat /\ h[x] \in Nat, NEW t,
           \A x \in S : x # t => h[x] = f[x], t \in S => h[t] = f[t] + 1
    PROVE  SumOver(h, S) = SumOver(f, S) + (IF t \in S THEN 1 ELSE 0)
<1>1. SumOver(f, S) \in Nat /\ SumOver(h, S) \in Nat
  BY SumOverAtLeast
<1>2. CASE t \notin S
  <2>1. SumOver(h, S) = SumOver(f, S)
    BY <1>2, SumOverAgree
  <2> QED
    BY <1>1, <1>2, <2>1
<1>3. CASE t \in S
  <2>1. (\A x \in S : f[x] \in Int) /\ (\A x \in S : h[x] \in Int)
    OBVIOUS
  <2>2. /\ SumOver(f, S) = SumOver(f, S \ {t}) + f[t] /\ SumOver(f, S \ {t}) \in Int
    BY <1>3, <2>1, SumOverStep
  <2>3. /\ SumOver(h, S) = SumOver(h, S \ {t}) + h[t] /\ SumOver(h, S \ {t}) \in Int
    BY <1>3, <2>1, SumOverStep
  <2>4. IsFiniteSet(S \ {t})
    BY FS_Subset
  <2>5. SumOver(h, S \ {t}) = SumOver(f, S \ {t})
    BY <2>4, SumOverAgree
  <2>6. PICK n \in Int : n = SumOver(f, S \ {t})
    BY <2>2
  <2>7. SumOver(f, S) = n + f[t] /\ SumOver(h, S) = n + h[t] /\ h[t] = f[t] + 1 /\ f[t] \in Nat
    BY <1>3, <2>2, <2>3, <2>5, <2>6
  <2> QED
    BY <1>3, <2>7
<1> QED
  BY <1>2, <1>3

\* A transaction accepted against rivals leads the rounds of each of them.
LEMMA AcceptedLeads ==
    ASSUME NEW v, NEW t \in v.pool, NEW score \in Nat, v.conf[t] = score,
           Shape(v), IsFiniteSet(v.pool), Counted(v), Conflicting(v),
           NEW lead \in Nat, Overcomes(v.cs, t, score, lead),
           NEW s \in v.pool, s # t, NEW u \in Utxos(t), u \in Utxos(s)
    PROVE  v.conf[t] >= lead + v.conf[s]
<1>1. Utxos(t) \subseteq DOMAIN v.cs /\ v.conf[s] \in Nat /\ IsFiniteSet(Utxos(t))
  <2>1. Utxos(t) \subseteq DOMAIN v.cs /\ v.conf[s] \in Nat /\ t \in Txns
    BY DEF Shape
  <2>2. InUtxo[t] \in Seq(Txns)
    BY <2>1, TxnAssumption
  <2>3. IsFiniteSet(DOMAIN InUtxo[t])
    <3>1. Len(InUtxo[t]) \in Int /\ DOMAIN InUtxo[t] = 1 .. Len(InUtxo[t])
      BY <2>2
    <3>2. IsFiniteSet(1 .. Len(InUtxo[t]))
      BY <3>1, FS_Interval
    <3> QED
      BY <3>1, <3>2
  <2>4. IsFiniteSet(Parents(t))
    <3>1. PICK f, D, R : f = InUtxo[t] /\ D = DOMAIN InUtxo[t] /\ R = Parents(t)
      OBVIOUS
    <3>2. f \in [D -> R] /\ \A y \in R : \E x \in D : f[x] = y
      BY <2>2, <3>1 DEF Parents, Range
    <3>3. f \in Surjection(D, R)
      BY <3>2 DEF Surjection
    <3> QED
      BY <2>3, <3>1, <3>3, FS_Surjection
  <2>5. IsFiniteSet(Utxos(t))
    <3>1. PICK f : f = [p \in Parents(t) |-> <<p, Sender[t]>>]
      BY Zenon
    <3>2. f \in [Parents(t) -> Utxos(t)] /\ \A y \in Utxos(t) : \E x \in Parents(t) : f[x] = y
      BY <3>1 DEF Utxos
    <3>3. f \in Surjection(Parents(t), Utxos(t))
      BY <3>2 DEF Surjection
    <3> QED
      BY <2>4, <3>3, FS_Surjection
  <2> QED
    BY <2>1, <2>5
<1> DEFINE f == [x \in Utxos(t) |-> v.cs[x].total_rounds - score]
<1>2. ASSUME NEW x \in Utxos(t) PROVE f[x] \in Nat
  <2>1. PICK n : n = SumOver(v.conf, Spends(v, x))
    OBVIOUS
  <2>2. t \in Spends(v, x)
    BY DEF Spends
  <2>3. n \in Nat /\ n >= score
    BY <2>1, <2>2, SpendsType, SumOverAtLeast
  <2>4. v.cs[x].total_rounds = n
    BY <1>1, <2>1 DEF Counted
  <2> QED
    BY <2>3, <2>4
<1>3. f[u] >= v.conf[s]
  <2>1. PICK n : n = SumOver(v.conf, Spends(v, u))
    OBVIOUS
  <2>2. t \in Spends(v, u) /\ s \in Spends(v, u)
    BY DEF Spends
  <2>3. n \in Nat /\ n >= v.conf[t] + v.conf[s]
    BY <2>1, <2>2, SpendsType, SumOverAtLeast
  <2>4. v.cs[u].total_rounds = n
    BY <1>1, <2>1 DEF Counted
  <2> QED
    BY <1>1, <2>3, <2>4
<1> HIDE DEF f
<1>4. PICK m : m = SumOver(f, Utxos(t))
  OBVIOUS
<1>5. m \in Nat /\ m >= f[u]
  BY <1>1, <1>2, <1>4, SumOverAtLeast
<1>6. v.cs[u].has_conflicts = TRUE
  BY <1>1 DEF Conflicting
<1>7. score >= lead + m
  BY <1>4, <1>6, Zenon DEF Overcomes, f
<1>8. f[u] \in Nat
  BY <1>2
<1> QED
  BY <1>1, <1>3, <1>5, <1>7, <1>8

\* Support keeps what Blizzard counts.
LEMMA RoundsSupported ==
    ASSUME NEW lead \in Nat, NEW acc, NEW out, NEW t, Shape(acc.view), PrefMax(acc.view), RoundsOK(acc.view, lead),
           t \in DOMAIN acc.view.dag, Supported(acc.view, out.view, t), Listed(acc, out, t),
           CountsRound(acc.view, out.view, t, lead)
    PROVE  RoundsOK(out.view, lead)
<1>1. PICK v, w : v = acc.view /\ w = out.view
  OBVIOUS
<1>2. /\ Shape(w) /\ Shape(v) /\ IsFiniteSet(v.pool) /\ Counted(v) /\ Conflicting(v) /\ FarApart(v, lead)
      /\ DOMAIN w.dag \subseteq DOMAIN v.dag
  BY <1>1, SupportKeeps DEF RoundsOK
<1>3. w.pool = v.pool /\ w.conf = Insert(v.conf, t, v.conf[t] + 1) /\ DOMAIN w.cs = DOMAIN v.cs
  BY <1>1, Zenon DEF Supported
<1>4. t \in v.pool /\ v.conf \in [v.pool -> Nat]
  BY <1>1, <1>2 DEF Shape
<1>5. /\ w.conf[t] = v.conf[t] + 1 /\ v.conf[t] \in Nat
      /\ \A x \in v.pool : v.conf[x] \in Nat /\ w.conf[x] \in Nat /\ (x # t => w.conf[x] = v.conf[x])
  <2>1. PICK f, S : f = v.conf /\ S = v.pool
    OBVIOUS
  <2>2. f \in [S -> Nat] /\ t \in S /\ f[t] \in Nat /\ f[t] + 1 \in Nat
    BY <1>4, <2>1
  <2>3. PICK n : n = f[t] + 1
    OBVIOUS
  <2>4. Insert(f, t, n) \in [S -> Nat] /\ Insert(f, t, n)[t] = n
        /\ \A y \in S : y # t => Insert(f, t, n)[y] = f[y]
    <3>1. n \in Nat /\ f \in [S -> Nat] /\ t \in S
      BY <2>2, <2>3
    <3> QED
      BY <3>1 DEF Insert
  <2>5. w.conf = Insert(f, t, n)
    BY <1>3, <2>1, <2>3, Zenon
  <2> QED
    BY <2>1, <2>2, <2>3, <2>4, <2>5
<1>6. \A x \in v.pool : x \notin DOMAIN w.dag /\ x # t => x \notin DOMAIN v.dag
  <2>1. PICK d, e : d = v.dag /\ e = w.dag
    OBVIOUS
  <2>2. e = d \/ e = Restrict(d, DOMAIN d \ {t})
    BY <1>1, <2>1, Zenon DEF Listed
  <2>3. \A x : x \notin DOMAIN e /\ x # t => x \notin DOMAIN d
    BY <2>2 DEF Restrict
  <2> QED
    BY <2>1, <2>3, Zenon
<1>7. /\ \A u \in DOMAIN v.cs :
            /\ w.cs[u].has_conflicts = v.cs[u].has_conflicts
            /\ w.cs[u].total_rounds = v.cs[u].total_rounds + (IF u \in Utxos(t) THEN 1 ELSE 0)
      /\ t \notin DOMAIN w.dag => Overcomes(w.cs, t, v.conf[t] + 1, lead)
  BY <1>1, Zenon DEF CountsRound
<1>8. Counted(w)
  <2> SUFFICES ASSUME NEW u \in DOMAIN v.cs
               PROVE  w.cs[u].total_rounds = SumOver(w.conf, Spends(w, u))
    BY <1>3 DEF Counted
  <2>1. Spends(w, u) = Spends(v, u)
    BY <1>3 DEF Spends
  <2>2. PICK S : S = Spends(v, u)
    OBVIOUS
  <2>3. IsFiniteSet(S) /\ S \subseteq v.pool /\ (t \in S <=> u \in Utxos(t))
    BY <1>2, <1>4, <2>2, SpendsType DEF Spends
  <2>4. SumOver(w.conf, S) = SumOver(v.conf, S) + (IF t \in S THEN 1 ELSE 0)
    <3>1. \A x \in S : v.conf[x] \in Nat /\ w.conf[x] \in Nat
      BY <1>5, <2>3
    <3>2. \A x \in S : x # t => w.conf[x] = v.conf[x]
      BY <1>5, <2>3
    <3>3. PICK f, h : f = v.conf /\ h = w.conf
      OBVIOUS
    <3> QED
      BY <1>5, <2>3, <3>1, <3>2, <3>3, SumOverGain
  <2>5. v.cs[u].total_rounds = SumOver(v.conf, S)
    BY <1>2, <2>2, Zenon DEF Counted
  <2> QED
    BY <1>7, <2>1, <2>2, <2>3, <2>4, <2>5
<1>9. Conflicting(w)
  BY <1>2, <1>3, <1>7, Zenon DEF Conflicting
<1>10. FarApart(w, lead)
  <2>1. ASSUME NEW s \in v.pool, NEW u \in Utxos(t), s # t, u \in Utxos(s), t \notin DOMAIN w.dag
        PROVE  w.conf[t] >= lead + w.conf[s]
    <3>1. PICK score : score = v.conf[t] + 1
      OBVIOUS
    <3>2. score \in Nat /\ w.conf[t] = score /\ Overcomes(w.cs, t, score, lead)
      BY <1>5, <1>7, <2>1, <3>1
    <3>3. t \in w.pool /\ s \in w.pool /\ IsFiniteSet(w.pool)
      BY <1>2, <1>3, <1>4
    <3> QED
      BY <1>2, <1>8, <1>9, <2>1, <3>2, <3>3, AcceptedLeads
  <2> SUFFICES ASSUME NEW s \in v.pool, NEW x \in v.pool, NEW u \in Utxos(s), s # x, u \in Utxos(x),
                      s \notin DOMAIN w.dag, x \notin DOMAIN w.dag
               PROVE  w.conf[s] >= lead + w.conf[x] \/ w.conf[x] >= lead + w.conf[s]
    BY <1>3 DEF FarApart
  <2>2. CASE s = t
    BY <2>1, <2>2
  <2>3. CASE x = t
    BY <2>1, <2>3
  <2>4. CASE s # t /\ x # t
    <3>1. s \notin DOMAIN v.dag /\ x \notin DOMAIN v.dag
      BY <1>6, <2>4
    <3>2. v.conf[s] >= lead + v.conf[x] \/ v.conf[x] >= lead + v.conf[s]
      BY <1>2, <3>1, Zenon DEF FarApart
    <3>3. w.conf[s] = v.conf[s] /\ w.conf[x] = v.conf[x]
      BY <1>5, <2>4
    <3> QED
      BY <3>2, <3>3
  <2> QED
    BY <2>2, <2>3, <2>4
<1> QED
  BY <1>1, <1>2, <1>3, <1>8, <1>9, <1>10 DEF RoundsOK

\* Recording keeps what Blizzard counts.
JoinsRounds(v, w, t) ==
    \A u \in DOMAIN v.cs \cup Utxos(t) :
        IF u \in DOMAIN v.cs
        THEN /\ w.cs[u].total_rounds = v.cs[u].total_rounds
             /\ u \in Utxos(t) \/ v.cs[u].has_conflicts = TRUE => w.cs[u].has_conflicts = TRUE
        ELSE w.cs[u].total_rounds = 0

\* A new spender joins with no confidence, so that no sum changes, and the
\* others know of the conflict.
LEMMA RoundsRecorded ==
    ASSUME NEW lead, NEW v, NEW w, NEW t \in Txns, ViewOK(v), RoundsOK(v, lead), t \notin v.pool,
           Recorded(v, w, t), JoinsRounds(v, w, t)
    PROVE  RoundsOK(w, lead)
<1>1. /\ Shape(v) /\ IsFiniteSet(v.pool) /\ Counted(v) /\ Conflicting(v) /\ FarApart(v, lead)
  BY DEF RoundsOK, ViewOK
<1>2. ViewOK(w) /\ SameDecided(v, w)
  BY RecordKeeps
<1>3. /\ w.pool = v.pool \cup {t} /\ w.conf = Insert(v.conf, t, 0)
      /\ DOMAIN w.cs = DOMAIN v.cs \cup Utxos(t)
  BY Zenon DEF Recorded
<1>4. /\ v.conf \in [v.pool -> Nat] /\ w.conf[t] = 0
      /\ \A x \in v.pool : v.conf[x] \in Nat /\ w.conf[x] = v.conf[x]
  <2>1. PICK f, S : f = v.conf /\ S = v.pool
    OBVIOUS
  <2>2. f \in [S -> Nat] /\ t \notin S /\ w.conf = Insert(f, t, 0)
    BY <1>1, <1>3, <2>1 DEF Shape
  <2>3. Insert(f, t, 0)[t] = 0 /\ \A x \in S : Insert(f, t, 0)[x] = f[x] /\ f[x] \in Nat
    BY <2>2 DEF Insert
  <2> QED
    BY <2>1, <2>2, <2>3, Zenon
<1>5. IsFiniteSet(w.pool)
  BY <1>1, <1>3, FS_AddElement
<1>6. \A x \in v.pool : Utxos(x) \subseteq DOMAIN v.cs
  BY <1>1 DEF Shape
<1>7. Counted(w)
  <2> SUFFICES ASSUME NEW u \in DOMAIN v.cs \cup Utxos(t)
               PROVE  w.cs[u].total_rounds = SumOver(w.conf, Spends(w, u))
    BY <1>3 DEF Counted
  <2>1. PICK S, R, f, h : S = Spends(v, u) /\ R = Spends(w, u) /\ f = v.conf /\ h = w.conf
    OBVIOUS
  <2>2. /\ IsFiniteSet(S) /\ S \subseteq v.pool /\ t \notin S
        /\ R = IF u \in Utxos(t) THEN S \cup {t} ELSE S
    <3>1. IsFiniteSet(S)
      BY <1>1, <2>1, SpendsType
    <3> QED
      BY <1>3, <2>1, <3>1 DEF Spends
  <2>3. SumOver(h, S) = SumOver(f, S) /\ SumOver(f, S) \in Nat
    <3>1. \A x \in S : h[x] = f[x]
      BY <1>4, <2>1, <2>2
    <3>2. SumOver(f, S) \in Nat
      BY <1>1, <2>1, SpendsType
    <3> QED
      BY <2>2, <3>1, <3>2, SumOverAgree
  <2>4. SumOver(h, R) = SumOver(f, S)
    <3>1. CASE u \notin Utxos(t)
      BY <2>2, <2>3, <3>1
    <3>2. CASE u \in Utxos(t)
      <4>1. R = S \cup {t} /\ R \ {t} = S /\ t \in R /\ IsFiniteSet(R)
        BY <2>2, <3>2, FS_AddElement
      <4>2. \A x \in R : h[x] \in Int
        BY <1>4, <2>1, <2>2, <4>1
      <4>3. SumOver(h, R) = SumOver(h, R \ {t}) + h[t]
        BY <4>1, <4>2, SumOverStep
      <4>4. h[t] = 0
        BY <1>4, <2>1
      <4>5. PICK m \in Nat : m = SumOver(f, S)
        BY <2>3
      <4>6. SumOver(h, R \ {t}) = m
        BY <2>3, <4>1, <4>5, Zenon
      <4>7. SumOver(h, R) = m + 0
        BY <4>3, <4>4, <4>6, Zenon
      <4> QED
        BY <4>5, <4>7
    <3> QED
      BY <3>1, <3>2
  <2>5. CASE u \in DOMAIN v.cs
    <3>1. w.cs[u].total_rounds = v.cs[u].total_rounds
      BY <2>5, Zenon DEF JoinsRounds
    <3>2. v.cs[u].total_rounds = SumOver(f, S)
      BY <1>1, <2>1, <2>5, Zenon DEF Counted
    <3> QED
      BY <2>1, <2>4, <3>1, <3>2, Zenon
  <2>6. CASE u \notin DOMAIN v.cs
    <3>1. w.cs[u].total_rounds = 0
      BY <2>6, Zenon DEF JoinsRounds
    <3>2. S = {}
      BY <1>6, <2>1, <2>6 DEF Spends
    <3>3. SumOver(f, S) = 0
      <4>1. PICK g : g = [x \in {} |-> 0]
        OBVIOUS
      <4>2. g \in [{} -> Int] /\ IsFiniteSet({})
        BY <4>1, FS_EmptySet
      <4>3. SumOver(g, {}) = 0
        BY <4>2, SumOverType, Zenon
      <4>4. SumOver(f, {}) = SumOver(g, {})
        BY <4>2, SumOverAgree, Zenon
      <4> QED
        BY <3>2, <4>3, <4>4
    <3> QED
      BY <2>1, <2>4, <3>1, <3>3, Zenon
  <2> QED
    BY <2>5, <2>6
<1>8. Conflicting(w)
  <2> SUFFICES ASSUME NEW u \in DOMAIN w.cs, NEW s \in w.pool, NEW x \in w.pool,
                      s # x, u \in Utxos(s), u \in Utxos(x)
               PROVE  w.cs[u].has_conflicts = TRUE
    BY Zenon DEF Conflicting
  <2>1. u \in DOMAIN v.cs
    BY <1>3, <1>6
  <2>2. u \in Utxos(t) \/ v.cs[u].has_conflicts = TRUE
    BY <1>1, <1>3, <2>1 DEF Conflicting
  <2> QED
    BY <2>1, <2>2, Zenon DEF JoinsRounds
<1>9. FarApart(w, lead)
  <2> SUFFICES ASSUME NEW s \in w.pool, NEW x \in w.pool, NEW u \in Utxos(s), s # x, u \in Utxos(x),
                      s \notin DOMAIN w.dag, x \notin DOMAIN w.dag
               PROVE  w.conf[s] >= lead + w.conf[x] \/ w.conf[x] >= lead + w.conf[s]
    BY DEF FarApart
  <2>1. s \in v.pool /\ s \notin DOMAIN v.dag /\ x \in v.pool /\ x \notin DOMAIN v.dag
    BY <1>2, Zenon DEF SameDecided
  <2>2. v.conf[s] >= lead + v.conf[x] \/ v.conf[x] >= lead + v.conf[s]
    BY <1>1, <2>1, Zenon DEF FarApart
  <2>3. w.conf[s] = v.conf[s] /\ w.conf[x] = v.conf[x]
    BY <1>4, <2>1
  <2> QED
    BY <2>2, <2>3
<1> QED
  BY <1>5, <1>7, <1>8, <1>9 DEF RoundsOK

\* A view that differs in the cached answers only.
SameView(v, w) == w.pool = v.pool /\ w.dag = v.dag /\ w.conf = v.conf /\ w.cs = v.cs

\* Cached answers matter to none of this.
LEMMA SameViewKeeps ==
    ASSUME NEW lead, NEW v0, NEW v, NEW w, SameView(v, w), ViewOK(v), RoundsOK(v, lead), SameDecided(v0, v)
    PROVE  ViewOK(w) /\ RoundsOK(w, lead) /\ SameDecided(v0, w)
<1>1. LikeView(v, w)
  BY Zenon DEF SameView, LikeView
<1>2. ViewOK(w)
  BY <1>1, LikeViewOK
<1>3. SameDecided(v0, w)
  BY Zenon DEF SameView, SameDecided
<1>4. \A u : Spends(w, u) = Spends(v, u)
  BY Zenon DEF SameView, Spends
<1>5. Counted(w)
  BY <1>4, Zenon DEF RoundsOK, SameView, Counted
<1>6. Conflicting(w)
  BY Zenon DEF RoundsOK, SameView, Conflicting
<1>7. FarApart(w, lead)
  BY Zenon DEF RoundsOK, SameView, FarApart
<1>8. IsFiniteSet(w.pool)
  BY Zenon DEF RoundsOK, SameView
<1> QED
  BY <1>2, <1>3, <1>5, <1>6, <1>7, <1>8, Zenon DEF RoundsOK

----------------------------------------------------------------------------
\* What is handed over

\* What decide has handed over or holds ready for it.
Entry(n) == [blk : 1 .. n, txns : Seq(Txns)]

\* The lists of the entries.
ListsOf(h) == [i \in DOMAIN h |-> h[i].txns]

\* The accepted transactions, in order.
Accepted(h) == FlattenSeq(ListsOf(h))

\* Recorded and no longer in the DAG.
Decided(v, x) == x \in v.pool /\ x \notin DOMAIN v.dag

\* The lists hold each decided transaction once, and no other.
ListsOK(v, h) == Once(Accepted(h)) /\ \A x : Has(Accepted(h), x) <=> Decided(v, x)

\* Entries of the first n blocks are entries of the first n + 1.
LEMMA EntryGrows ==
    ASSUME NEW n \in Nat, NEW q \in Seq(Entry(n))
    PROVE  q \in Seq(Entry(n + 1))
<1>1. Entry(n) \subseteq Entry(n + 1)
  BY DEF Entry
<1>2. PICK S, T : S = Entry(n) /\ T = Entry(n + 1)
  OBVIOUS
<1>3. S \subseteq T /\ q \in Seq(S)
  BY <1>1, <1>2
<1>4. q \in Seq(T)
  BY <1>3
<1> QED
  BY <1>2, <1>4

\* The lists of entries, and of one more.
LEMMA ListsOfProperties ==
    ASSUME NEW n, NEW h \in Seq(Entry(n)), NEW e \in Entry(n)
    PROVE  /\ ListsOf(h) \in Seq(Seq(Txns)) /\ e.txns \in Seq(Txns)
           /\ ListsOf(Append(h, e)) = Append(ListsOf(h), e.txns)
<1>1. e.txns \in Seq(Txns) /\ \A x \in Entry(n) : x.txns \in Seq(Txns)
  BY DEF Entry
<1>2. Len(h) \in Nat /\ DOMAIN h = 1 .. Len(h) /\ \A i \in 1 .. Len(h) : h[i].txns \in Seq(Txns)
  <2>1. Len(h) \in Nat /\ DOMAIN h = 1 .. Len(h)
    BY LenProperties
  <2>2. \A i \in 1 .. Len(h) : h[i] \in Entry(n)
    BY ElementOfSeq
  <2> QED
    BY <1>1, <2>1, <2>2
<1>3. PICK g, T, l : g = Append(h, e) /\ T = Seq(Txns) /\ l = e.txns
  BY Zenon
<1>4. /\ Len(g) = Len(h) + 1 /\ DOMAIN g = 1 .. Len(h) + 1 /\ g[Len(h) + 1] = e
      /\ \A i \in 1 .. Len(h) : g[i] = h[i]
  BY <1>3
<1>5. ListsOf(h) \in Seq(T) /\ Len(ListsOf(h)) = Len(h) /\ \A i \in 1 .. Len(h) : ListsOf(h)[i] = h[i].txns
  <2>1. ListsOf(h) = [i \in 1 .. Len(h) |-> h[i].txns]
    BY <1>2 DEF ListsOf
  <2> QED
    BY <1>2, <1>3, <2>1
<1>6. ListsOf(g) \in Seq(T) /\ Len(ListsOf(g)) = Len(h) + 1
      /\ \A i \in 1 .. Len(h) + 1 : ListsOf(g)[i] = g[i].txns
  <2>1. ListsOf(g) = [i \in 1 .. Len(h) + 1 |-> g[i].txns]
    BY <1>4 DEF ListsOf
  <2>2. \A i \in 1 .. Len(h) + 1 : g[i].txns \in T
    BY <1>1, <1>2, <1>3, <1>4
  <2> QED
    BY <1>2, <2>1, <2>2
<1>7. ListsOf(g) = Append(ListsOf(h), l)
  <2>1. PICK p, q : p = ListsOf(h) /\ q = ListsOf(g)
    OBVIOUS
  <2>2. p \in Seq(T) /\ q \in Seq(T) /\ Len(q) = Len(p) + 1 /\ Len(p) \in Nat /\ l \in T
    BY <1>1, <1>2, <1>3, <1>5, <1>6, <2>1
  <2>3. (\A i \in 1 .. Len(p) : q[i] = p[i]) /\ q[Len(p) + 1] = l
    <3>1. Len(p) = Len(h)
      BY <1>5, <2>1
    <3>2. \A i \in 1 .. Len(h) : q[i] = g[i].txns /\ p[i] = h[i].txns /\ g[i] = h[i]
      BY <1>2, <1>4, <1>5, <1>6, <2>1
    <3>3. q[Len(h) + 1] = e.txns
      BY <1>2, <1>4, <1>6, <2>1
    <3> QED
      BY <1>3, <3>1, <3>2, <3>3
  <2>4. q = Append(p, l)
    BY <2>2, <2>3
  <2> QED
    BY <2>1, <2>4
<1> QED
  BY <1>1, <1>3, <1>5, <1>7

\* Two lists with nothing in common.
LEMMA OnceConcat ==
    ASSUME NEW S, NEW q \in Seq(S), NEW r \in Seq(S), Once(q), Once(r),
           \A x : ~ (Has(q, x) /\ Has(r, x))
    PROVE  Once(q \o r)
<1>1. PICK c : c = q \o r
  BY Zenon
<1>2. /\ Len(q) \in Nat /\ Len(r) \in Nat /\ Len(c) = Len(q) + Len(r)
      /\ \A i \in 1 .. Len(c) : c[i] = IF i <= Len(q) THEN q[i] ELSE r[i - Len(q)]
  BY <1>1, ConcatProperties, LenProperties
<1>3. ASSUME NEW i \in 1 .. Len(c), NEW j \in 1 .. Len(c), c[i] = c[j], i <= Len(q), ~ (j <= Len(q))
      PROVE  FALSE
  <2>1. i \in 1 .. Len(q) /\ j - Len(q) \in 1 .. Len(r) /\ q[i] = r[j - Len(q)]
    BY <1>2, <1>3
  <2> QED
    BY <2>1 DEF Has
<1>4. ASSUME NEW i \in 1 .. Len(c), NEW j \in 1 .. Len(c), c[i] = c[j] PROVE i = j
  <2>1. CASE i <= Len(q) /\ j <= Len(q)
    BY <1>2, <1>4, <2>1 DEF Once
  <2>2. CASE ~ (i <= Len(q)) /\ ~ (j <= Len(q))
    <3>1. /\ i - Len(q) \in 1 .. Len(r) /\ j - Len(q) \in 1 .. Len(r)
          /\ r[i - Len(q)] = r[j - Len(q)]
      BY <1>2, <1>4, <2>2
    <3>2. i - Len(q) = j - Len(q)
      BY <3>1 DEF Once
    <3> QED
      BY <1>2, <3>2
  <2> QED
    BY <1>3, <1>4, <2>1, <2>2
<1> QED
  BY <1>1, <1>4 DEF Once

\* One more list that holds what was decided with it.
LEMMA ListsGrow ==
    ASSUME NEW n, NEW h \in Seq(Entry(n)), NEW e \in Entry(n), NEW v, NEW w, ListsOK(v, h),
           Once(e.txns), \A x : Has(e.txns, x) => ~ Decided(v, x),
           \A x : Decided(w, x) <=> Decided(v, x) \/ Has(e.txns, x)
    PROVE  ListsOK(w, Append(h, e))
<1>1. PICK s, l : s = ListsOf(h) /\ l = e.txns
  OBVIOUS
<1>2. s \in Seq(Seq(Txns)) /\ l \in Seq(Txns) /\ ListsOf(Append(h, e)) = Append(s, l)
  BY <1>1, ListsOfProperties
<1>3. PICK a : a = FlattenSeq(s)
  OBVIOUS
<1>4. a \in Seq(Txns) /\ Accepted(Append(h, e)) = a \o l
  <2>1. FlattenSeq(s) \in Seq(Txns) /\ FlattenSeq(Append(s, l)) = FlattenSeq(s) \o l
    BY <1>2, FlattenSeqProperties
  <2> QED
    BY <1>2, <1>3, <2>1 DEF Accepted
<1>5. Once(a) /\ \A x : Has(a, x) <=> Decided(v, x)
  BY <1>1, <1>3 DEF ListsOK, Accepted
<1>6. Once(l) /\ (\A x : Has(l, x) => ~ Decided(v, x))
      /\ \A x : Decided(w, x) <=> Decided(v, x) \/ Has(l, x)
  BY <1>1, Zenon
<1>7. Once(a \o l)
  BY <1>2, <1>4, <1>5, <1>6, OnceConcat
<1>8. \A x : Has(a \o l, x) <=> Has(a, x) \/ Has(l, x)
  BY <1>2, <1>4, HasConcat
<1>9. \A x : Has(a \o l, x) <=> Decided(w, x)
  BY <1>5, <1>6, <1>8, Zenon
<1> QED
  BY <1>4, <1>7, <1>9, Zenon DEF ListsOK

\* What the variant x keeps of a view.
Fine(x, v, lead) == ViewOK(v) /\ (x = "blizzard" => RoundsOK(v, lead))

\* Nothing is decided.
SameFate(v, w) == \A y : Decided(w, y) <=> Decided(v, y)

\* What is decided is the list l.
Accepting(v, w, l) ==
    /\ l \in Seq(Txns) /\ Once(l) /\ (\A y : Has(l, y) => ~ Decided(v, y))
    /\ \A y : Decided(w, y) <=> Decided(v, y) \/ Has(l, y)

\* A view after new_tail.
LEMMA VotedView ==
    ASSUME NEW lead, NEW x, NEW u, NEW v, NEW w, Fine(x, v, lead), SameDecided(u, v), SameView(v, w)
    PROVE  Fine(x, w, lead) /\ SameFate(u, w)
<1>1. LikeView(v, w)
  BY Zenon DEF SameView, LikeView
<1>2. ViewOK(w)
  BY <1>1, LikeViewOK DEF Fine
<1>3. x = "blizzard" => RoundsOK(w, lead)
  BY SameViewKeeps DEF Fine
<1>4. SameFate(u, w)
  BY Zenon DEF SameFate, Decided, SameDecided, SameView
<1> QED
  BY <1>2, <1>3, <1>4 DEF Fine

\* A view after handle_votes.
LEMMA SettledView ==
    ASSUME NEW lead, NEW x, NEW u, NEW v, NEW w, NEW o, ViewOK(v), SameDecided(u, v), Progress(v, o),
           x = "blizzard" => RoundsOK(o.view, lead), SameView(o.view, w)
    PROVE  Fine(x, w, lead) /\ Accepting(u, w, o.list)
<1>1. PICK a, l : a = o.view /\ l = o.list
  OBVIOUS
<1>2. Fine(x, a, lead) /\ SameView(a, w)
  BY <1>1 DEF Fine, Progress
<1>3. SameDecided(a, a)
  BY DEF SameDecided
<1>4. Fine(x, w, lead) /\ SameFate(a, w)
  BY <1>2, <1>3, VotedView
<1>5. /\ l \in Seq(Txns) /\ Once(l) /\ a.pool = v.pool /\ DOMAIN a.dag \subseteq DOMAIN v.dag
      /\ \A y : Has(l, y) <=> y \in DOMAIN v.dag /\ y \notin DOMAIN a.dag
  BY <1>1, Zenon DEF Progress, ListOK
<1>6. DOMAIN v.dag \subseteq v.pool
  BY DEF ViewOK, Shape
<1>7. PICK S, D, E : S = v.pool /\ D = DOMAIN v.dag /\ E = DOMAIN a.dag
  OBVIOUS
<1>8. /\ \A y : Decided(v, y) <=> y \in S /\ y \notin D
      /\ \A y : Decided(a, y) <=> y \in S /\ y \notin E
      /\ \A y : Decided(u, y) <=> Decided(v, y)
      /\ \A y : Decided(w, y) <=> Decided(a, y)
  BY <1>4, <1>5, <1>7, Zenon DEF Decided, SameDecided, SameFate
<1>9. D \subseteq S /\ E \subseteq D /\ \A y : Has(l, y) <=> y \in D /\ y \notin E
  BY <1>5, <1>6, <1>7, Zenon
<1>10. \A y : Has(l, y) => ~ Decided(u, y)
  BY <1>8, <1>9, Zenon
<1>11. \A y : Decided(w, y) <=> Decided(u, y) \/ Has(l, y)
  BY <1>8, <1>9
<1> QED
  BY <1>1, <1>4, <1>5, <1>10, <1>11, Zenon DEF Accepting

\* A new entry is the last of all.
LEMMA AppendHanded ==
    ASSUME NEW S, NEW p \in Seq(S), NEW q \in Seq(S), NEW e \in S
    PROVE  p \o Append(q, e) = Append(p \o q, e)
OBVIOUS

\* Handing over changes the place of an entry, not the order.
LEMMA ShiftHanded ==
    ASSUME NEW S, NEW p \in Seq(S), NEW q \in Seq(S), q # <<>>
    PROVE  Append(p, Head(q)) \o Tail(q) = p \o q
OBVIOUS

\* Lists stay exact while nothing is decided.
LEMMA FateKeepsLists ==
    ASSUME NEW v, NEW w, NEW h, ListsOK(v, h), SameFate(v, w)
    PROVE  ListsOK(w, h)
BY Zenon DEF ListsOK, SameFate

\* A poll that closes: its list joins what is handed over.
LEMMA AcceptsKeep ==
    ASSUME NEW n \in Nat, NEW b \in 1 .. n, NEW v, NEW w, NEW l, Accepting(v, w, l),
           NEW pipe \in Seq(Entry(n)), NEW queue \in Seq(Entry(n)), ListsOK(v, pipe \o queue)
    PROVE  /\ Append(queue, [blk |-> b, txns |-> l]) \in Seq(Entry(n))
           /\ ListsOK(w, pipe \o Append(queue, [blk |-> b, txns |-> l]))
<1>1. PICK e : e = [blk |-> b, txns |-> l]
  BY Zenon
<1>2. l \in Seq(Txns) /\ Once(l) /\ (\A y : Has(l, y) => ~ Decided(v, y))
      /\ \A y : Decided(w, y) <=> Decided(v, y) \/ Has(l, y)
  BY Zenon DEF Accepting
<1>3. e \in Entry(n) /\ e.txns = l
  BY <1>1, <1>2 DEF Entry
<1>4. PICK S : S = Entry(n)
  OBVIOUS
<1>5. e \in S /\ pipe \in Seq(S) /\ queue \in Seq(S)
  BY <1>3, <1>4
<1>6. Append(queue, e) \in Seq(S) /\ pipe \o queue \in Seq(S)
      /\ pipe \o Append(queue, e) = Append(pipe \o queue, e)
  BY <1>5, AppendHanded, AppendProperties, ConcatProperties
<1>7. PICK h : h = pipe \o queue
  BY Zenon
<1>8. h \in Seq(Entry(n)) /\ ListsOK(v, h)
  BY <1>4, <1>6, <1>7
<1>9. Once(e.txns) /\ (\A y : Has(e.txns, y) => ~ Decided(v, y))
      /\ \A y : Decided(w, y) <=> Decided(v, y) \/ Has(e.txns, y)
  BY <1>2, <1>3, Zenon
<1>10. ListsOK(w, Append(h, e))
  BY <1>3, <1>8, <1>9, ListsGrow
<1> QED
  BY <1>1, <1>4, <1>6, <1>7, <1>10, Zenon

\* The blocks of the entries.
BlocksOf(q) == [i \in DOMAIN q |-> q[i].blk]

\* The blocks of entries of the first n blocks.
LEMMA BlocksOfType ==
    ASSUME NEW n \in Nat, NEW q \in Seq(Entry(n))
    PROVE  /\ DOMAIN BlocksOf(q) = 1 .. Len(q) /\ Len(q) \in Nat /\ BlocksOf(q) \in Seq(1 .. n)
           /\ \A i \in 1 .. Len(q) : BlocksOf(q)[i] = q[i].blk /\ q[i].blk \in 1 .. n
<1>1. Len(q) \in Nat /\ DOMAIN q = 1 .. Len(q)
  BY LenProperties
<1>2. \A i \in 1 .. Len(q) : q[i].blk \in 1 .. n
  <2>1. \A i \in 1 .. Len(q) : q[i] \in Entry(n)
    BY ElementOfSeq
  <2>2. \A x \in Entry(n) : x.blk \in 1 .. n
    BY DEF Entry
  <2> QED
    BY <2>1, <2>2
<1>3. BlocksOf(q) = [i \in 1 .. Len(q) |-> q[i].blk]
  BY <1>1, Zenon DEF BlocksOf
<1>4. PICK T : T = 1 .. n
  OBVIOUS
<1> QED
  BY <1>1, <1>2, <1>3, <1>4

\* The block of an entry that joins.
LEMMA BlocksAppend ==
    ASSUME NEW n \in Nat, NEW q \in Seq(Entry(n)), NEW e \in Entry(n)
    PROVE  BlocksOf(Append(q, e)) = Append(BlocksOf(q), e.blk)
<1>1. PICK S, r : S = Entry(n) /\ r = Append(q, e)
  BY Zenon
<1>2. /\ r \in Seq(Entry(n)) /\ Len(r) = Len(q) + 1 /\ r[Len(q) + 1] = e
      /\ \A i \in 1 .. Len(q) : r[i] = q[i]
  BY <1>1, AppendProperties
<1>3. PICK a, c : a = BlocksOf(q) /\ c = BlocksOf(r)
  OBVIOUS
<1>4. /\ DOMAIN a = 1 .. Len(q) /\ Len(q) \in Nat /\ a \in Seq(1 .. n)
      /\ \A i \in 1 .. Len(q) : a[i] = q[i].blk
  BY <1>3, BlocksOfType
<1>5. /\ DOMAIN c = 1 .. Len(r) /\ c \in Seq(1 .. n)
      /\ \A i \in 1 .. Len(r) : c[i] = r[i].blk /\ r[i].blk \in 1 .. n
  BY <1>2, <1>3, BlocksOfType
<1>6. PICK x, T : x = e.blk /\ T = 1 .. n
  OBVIOUS
<1>7. Len(a) = Len(q) /\ Len(c) = Len(q) + 1
  BY <1>2, <1>4, <1>5
<1>8. x \in T /\ a \in Seq(T) /\ c \in Seq(T) /\ c[Len(q) + 1] = x /\ \A i \in 1 .. Len(q) : c[i] = a[i]
  <2>1. Len(q) + 1 \in 1 .. Len(r) /\ \A i \in 1 .. Len(q) : i \in 1 .. Len(r)
    BY <1>2, <1>4
  <2>2. c[Len(q) + 1] = x /\ x \in T
    BY <1>2, <1>5, <1>6, <2>1
  <2>3. \A i \in 1 .. Len(q) : c[i] = a[i]
    BY <1>2, <1>4, <1>5, <2>1, Zenon
  <2> QED
    BY <1>4, <1>5, <1>6, <2>2, <2>3
<1>9. c = Append(a, x)
  BY <1>4, <1>7, <1>8
<1> QED
  BY <1>1, <1>3, <1>6, <1>9, Zenon

\* The block of the entry that goes.
LEMMA BlocksTail ==
    ASSUME NEW n \in Nat, NEW q \in Seq(Entry(n)), q # <<>>
    PROVE  /\ BlocksOf(q) # <<>> /\ Head(BlocksOf(q)) = Head(q).blk
           /\ BlocksOf(Tail(q)) = Tail(BlocksOf(q))
<1>1. PICK S, r : S = Entry(n) /\ r = Tail(q)
  BY Zenon
<1>2. /\ r \in Seq(Entry(n)) /\ Len(q) # 0 /\ Len(q) \in Nat /\ Len(r) = Len(q) - 1 /\ Head(q) = q[1]
      /\ \A i \in 1 .. Len(r) : r[i] = q[i + 1]
  <2>1. q \in Seq(S) /\ q # <<>>
    BY <1>1
  <2>2. /\ r \in Seq(S) /\ Len(q) # 0 /\ Len(q) \in Nat /\ Len(r) = Len(q) - 1 /\ Head(q) = q[1]
        /\ \A i \in 1 .. Len(r) : r[i] = q[i + 1]
    BY <1>1, <2>1
  <2> QED
    BY <1>1, <2>2
<1>3. PICK a, c, T : a = BlocksOf(q) /\ c = BlocksOf(r) /\ T = 1 .. n
  OBVIOUS
<1>4. /\ DOMAIN a = 1 .. Len(q) /\ Len(q) \in Nat /\ a \in Seq(T)
      /\ \A i \in 1 .. Len(q) : a[i] = q[i].blk
  BY <1>3, BlocksOfType
<1>5. /\ DOMAIN c = 1 .. Len(r) /\ c \in Seq(T) /\ \A i \in 1 .. Len(r) : c[i] = r[i].blk
  BY <1>2, <1>3, BlocksOfType, Zenon
<1>6. Len(a) = Len(q) /\ Len(c) = Len(q) - 1
  BY <1>2, <1>4, <1>5
<1>7. a # <<>> /\ Head(a) = a[1] /\ a[1] = Head(q).blk
  BY <1>2, <1>4, <1>6
<1>8. ASSUME NEW i \in 1 .. Len(c) PROVE c[i] = a[i + 1]
  <2>1. i \in 1 .. Len(r) /\ i + 1 \in 1 .. Len(q)
    BY <1>2, <1>4, <1>5, <1>6
  <2> QED
    BY <1>2, <1>4, <1>5, <2>1
<1>9. c = Tail(a)
  <2>1. a \in Seq(T) /\ c \in Seq(T) /\ a # <<>> /\ Len(c) = Len(a) - 1
    BY <1>4, <1>5, <1>6, <1>7
  <2>2. /\ Tail(a) \in Seq(T) /\ Len(Tail(a)) = Len(a) - 1
        /\ \A i \in 1 .. Len(a) - 1 : Tail(a)[i] = a[i + 1]
    BY <2>1
  <2>3. Len(c) = Len(Tail(a)) /\ \A i \in 1 .. Len(c) : c[i] = Tail(a)[i]
    BY <1>8, <2>1, <2>2
  <2> QED
    BY <2>1, <2>2, <2>3, SeqEqual
<1> QED
  BY <1>1, <1>3, <1>7, <1>9, Zenon

----------------------------------------------------------------------------
\* The polls of own blocks

\* A node that has recorded nothing.
LEMMA NothingRecorded ==
    ASSUME NEW lead, NEW v, v.pool = {}, DOMAIN v.dag = {}, DOMAIN v.cs = {}, v.conf \in [{} -> Nat]
    PROVE  ViewOK(v) /\ RoundsOK(v, lead) /\ ListsOK(v, <<>>)
<1>1. ViewOK(v)
  BY DEF ViewOK, Shape, PrefMax, Leads
<1>2. IsFiniteSet(v.pool)
  BY FS_EmptySet
<1>3. RoundsOK(v, lead)
  BY <1>2 DEF RoundsOK, Counted, Conflicting, FarApart
<1>4. ListsOf(<<>>) = <<>> /\ <<>> \in Seq(Seq(Txns))
  BY DEF ListsOf
<1>5. FlattenSeq(<<>>) = <<>>
  BY <1>4, FlattenSeqProperties, Zenon
<1>6. Accepted(<<>>) = <<>>
  BY <1>4, <1>5, Zenon DEF Accepted
<1>7. Once(<<>>) /\ \A x : ~ Has(<<>>, x) /\ ~ Decided(v, x)
  BY DEF Once, Has, Decided
<1>8. ListsOK(v, <<>>)
  BY <1>6, <1>7, Zenon DEF ListsOK
<1> QED
  BY <1>1, <1>3, <1>8

\* What ListsOK says of the accepted transactions as a sequence.
LEMMA AcceptedProperties ==
    ASSUME NEW n, NEW h \in Seq(Entry(n)), NEW v, ListsOK(v, h)
    PROVE  IsInjective(Accepted(h)) /\ Range(Accepted(h)) = v.pool \ DOMAIN v.dag
<1>1. PICK a : a = Accepted(h)
  OBVIOUS
<1>2. Len(h) \in Nat /\ DOMAIN h = 1 .. Len(h) /\ \A i \in 1 .. Len(h) : h[i] \in Entry(n)
  BY LenProperties, ElementOfSeq
<1>3. \A x \in Entry(n) : x.txns \in Seq(Txns)
  BY DEF Entry
<1>4. ListsOf(h) \in Seq(Seq(Txns))
  BY <1>2, <1>3 DEF ListsOf
<1>5. a \in Seq(Txns)
  BY <1>1, <1>4, FlattenSeqProperties DEF Accepted
<1>6. Once(a) /\ \A x : Has(a, x) <=> x \in v.pool /\ x \notin DOMAIN v.dag
  BY <1>1 DEF ListsOK, Decided
<1>7. IsInjective(a)
  BY <1>5, <1>6 DEF IsInjective, Once
<1>8. \A x : x \in Range(a) <=> Has(a, x)
  BY <1>5, HasRange
<1>9. Range(a) = v.pool \ DOMAIN v.dag
  BY <1>6, <1>8
<1> QED
  BY <1>1, <1>7, <1>9

\* The polls of a node: the own blocks that have come (seen of them), those
\* under poll, the closed polls and those handed over, beside its view of the
\* transactions.  Only blocks that have come are polled and handed over, and
\* what is handed over is what was decided.
PollsOK(p) ==
    /\ p.seen \in Nat /\ p.open \subseteq 1 .. p.seen
    /\ p.queue \in Seq(Entry(p.seen)) /\ p.pipe \in Seq(Entry(p.seen))
    /\ ListsOK(p.view, p.pipe \o p.queue)

\* A step that decides nothing.
Unsettled(p, q) == SameFate(p.view, q.view) /\ q.queue = p.queue

\* The poll of b closes, and what it decides is queued with it.
Accepts(p, q, b) ==
    \E l : Accepting(p.view, q.view, l) /\ q.queue = Append(p.queue, [blk |-> b, txns |-> l])

\* Own block b reaches decide.
Comes(p, q, b) == b = p.seen + 1 /\ q.seen = b /\ q.pipe = p.pipe

\* No own block comes, nothing is handed over.
Stays(p, q) == q.seen = p.seen /\ q.pipe = p.pipe

\* A step that votes or counts a vote.
Votes(p, q) == Stays(p, q) /\ Unsettled(p, q) /\ q.open = p.open

\* The poll of b opens.
Opens(p, q, b) == Comes(p, q, b) /\ Unsettled(p, q) /\ q.open = p.open \cup {b}

\* The node's own vote was the only one missing.
OpensAndCloses(p, q, b) ==
    Comes(p, q, b) /\ Accepts(p, q, b) /\ q.open = (p.open \cup {b}) \ {b}

\* The poll of b closes.
Closes(p, q, b) == Stays(p, q) /\ b \in p.open /\ Accepts(p, q, b) /\ q.open = p.open \ {b}

\* The oldest closed poll goes to the commit stage.
HandsOver(p, q) ==
    /\ p.queue # <<>> /\ q.queue = Tail(p.queue) /\ q.pipe = Append(p.pipe, Head(p.queue))
    /\ q.seen = p.seen /\ q.open = p.open /\ SameFate(p.view, q.view)

\* Every step is one of these.
Kinds(p, q) ==
    \/ Votes(p, q) \/ HandsOver(p, q)
    \/ \E b : Opens(p, q, b) \/ OpensAndCloses(p, q, b) \/ Closes(p, q, b)

\* A poll closes: its entry joins those of the blocks that have come.
LEMMA AcceptsJoins ==
    ASSUME NEW p, NEW q, NEW b, PollsOK(p), Accepts(p, q, b), NEW n \in Nat, n = p.seen \/ n = p.seen + 1, b \in 1 .. n,
           q.pipe = p.pipe
    PROVE  /\ q.queue \in Seq(Entry(n)) /\ q.pipe \in Seq(Entry(n)) /\ ListsOK(q.view, q.pipe \o q.queue)
           /\ BlocksOf(q.queue) = Append(BlocksOf(p.queue), b)
<1>1. PICK m, queue, pipe, v, w : m = p.seen /\ queue = p.queue /\ pipe = p.pipe /\ v = p.view /\ w = q.view
  OBVIOUS
<1>2. m \in Nat /\ queue \in Seq(Entry(m)) /\ pipe \in Seq(Entry(m)) /\ ListsOK(v, pipe \o queue)
  BY <1>1, Zenon DEF PollsOK
<1>3. queue \in Seq(Entry(n)) /\ pipe \in Seq(Entry(n))
  BY <1>1, <1>2, EntryGrows
<1>4. PICK l : Accepting(v, w, l) /\ q.queue = Append(queue, [blk |-> b, txns |-> l])
  BY <1>1, Zenon DEF Accepts
<1>5. q.queue \in Seq(Entry(n)) /\ ListsOK(w, pipe \o q.queue)
  BY <1>2, <1>3, <1>4, AcceptsKeep
<1>6. PICK e : e = [blk |-> b, txns |-> l]
  BY Zenon
<1>7. e \in Entry(n) /\ e.blk = b
  BY <1>4, <1>6 DEF Entry, Accepting
<1>8. BlocksOf(Append(queue, e)) = Append(BlocksOf(queue), e.blk)
  BY <1>3, <1>7, BlocksAppend
<1> QED
  BY <1>1, <1>3, <1>4, <1>5, <1>6, <1>7, <1>8, Zenon

\* A closed poll is handed over.
LEMMA HandsOverShifts ==
    ASSUME NEW p, NEW q, PollsOK(p), HandsOver(p, q)
    PROVE  /\ PollsOK(q)
           /\ BlocksOf(p.queue) # <<>> /\ BlocksOf(q.queue) = Tail(BlocksOf(p.queue))
           /\ BlocksOf(q.pipe) = Append(BlocksOf(p.pipe), Head(BlocksOf(p.queue)))
<1>1. PICK n, S, queue, pipe, v, w :
         n = p.seen /\ S = Entry(n) /\ queue = p.queue /\ pipe = p.pipe /\ v = p.view /\ w = q.view
  OBVIOUS
<1>2. /\ n \in Nat /\ queue \in Seq(S) /\ pipe \in Seq(S) /\ ListsOK(v, pipe \o queue)
      /\ p.open \subseteq 1 .. n
  BY <1>1, Zenon DEF PollsOK
<1>3. /\ queue # <<>> /\ q.seen = n /\ q.open = p.open /\ SameFate(v, w)
      /\ q.queue = Tail(queue) /\ q.pipe = Append(pipe, Head(queue))
  BY <1>1, Zenon DEF HandsOver
<1>4. /\ Tail(queue) \in Seq(S) /\ Append(pipe, Head(queue)) \in Seq(S) /\ Head(queue) \in S
      /\ Append(pipe, Head(queue)) \o Tail(queue) = pipe \o queue
  BY <1>2, <1>3, ShiftHanded
<1>5. ListsOK(w, pipe \o queue)
  BY <1>2, <1>3, FateKeepsLists
<1>6. PollsOK(q)
  BY <1>1, <1>2, <1>3, <1>4, <1>5, Zenon DEF PollsOK
<1>7. /\ BlocksOf(queue) # <<>> /\ Head(BlocksOf(queue)) = Head(queue).blk
      /\ BlocksOf(Tail(queue)) = Tail(BlocksOf(queue))
  BY <1>1, <1>2, <1>3, BlocksTail
<1>8. BlocksOf(Append(pipe, Head(queue))) = Append(BlocksOf(pipe), Head(queue).blk)
  BY <1>1, <1>2, <1>4, BlocksAppend
<1> QED
  BY <1>1, <1>3, <1>6, <1>7, <1>8, Zenon

\* A block that comes was not known.
LEMMA ComesUnknown ==
    ASSUME NEW p, NEW q, NEW b, PollsOK(p), Comes(p, q, b)
    PROVE  /\ b \in Nat \ {0} /\ b \notin p.open
           /\ \A i \in DOMAIN BlocksOf(p.queue) : BlocksOf(p.queue)[i] # b
           /\ \A i \in DOMAIN BlocksOf(p.pipe) : BlocksOf(p.pipe)[i] # b
<1>1. PICK n, queue, pipe : n = p.seen /\ queue = p.queue /\ pipe = p.pipe
  OBVIOUS
<1>2. /\ n \in Nat /\ queue \in Seq(Entry(n)) /\ pipe \in Seq(Entry(n)) /\ p.open \subseteq 1 .. n
      /\ b = n + 1
  BY <1>1, Zenon DEF PollsOK, Comes
<1>3. b \in Nat \ {0} /\ b \notin 1 .. n
  BY <1>2
<1>4. \A i \in DOMAIN BlocksOf(queue) : BlocksOf(queue)[i] # b
  BY <1>2, <1>3, BlocksOfType
<1>5. \A i \in DOMAIN BlocksOf(pipe) : BlocksOf(pipe)[i] # b
  BY <1>2, <1>3, BlocksOfType
<1> QED
  BY <1>1, <1>2, <1>3, <1>4, <1>5, Zenon

\* No kind of step breaks this.
LEMMA KindsKeep ==
    ASSUME NEW p, NEW q, PollsOK(p), Kinds(p, q)
    PROVE  PollsOK(q)
<1>1. PICK n, queue, pipe, v, w : n = p.seen /\ queue = p.queue /\ pipe = p.pipe /\ v = p.view /\ w = q.view
  OBVIOUS
<1>2. /\ n \in Nat /\ queue \in Seq(Entry(n)) /\ pipe \in Seq(Entry(n)) /\ p.open \subseteq 1 .. n
      /\ ListsOK(v, pipe \o queue)
  BY <1>1, Zenon DEF PollsOK
<1>3. ASSUME SameFate(v, w) PROVE ListsOK(w, pipe \o queue)
  BY <1>2, <1>3, FateKeepsLists
<1>4. ASSUME Votes(p, q) PROVE PollsOK(q)
  BY <1>1, <1>2, <1>3, <1>4, Zenon DEF Votes, Stays, Unsettled, PollsOK
<1>5. ASSUME NEW b, Opens(p, q, b) PROVE PollsOK(q)
  <2>1. /\ b = n + 1 /\ q.seen = b /\ q.pipe = pipe /\ q.queue = queue /\ SameFate(v, w)
        /\ q.open = p.open \cup {b}
    BY <1>1, <1>5, Zenon DEF Opens, Comes, Unsettled
  <2>2. b \in Nat /\ queue \in Seq(Entry(b)) /\ pipe \in Seq(Entry(b)) /\ p.open \cup {b} \subseteq 1 .. b
    BY <1>2, <2>1, EntryGrows
  <2> QED
    BY <1>1, <1>3, <2>1, <2>2, Zenon DEF PollsOK
<1>6. ASSUME NEW b, OpensAndCloses(p, q, b) PROVE PollsOK(q)
  <2>1. b = n + 1 /\ q.seen = b /\ q.pipe = p.pipe /\ q.open = (p.open \cup {b}) \ {b}
    BY <1>1, <1>6, Zenon DEF OpensAndCloses, Comes
  <2>2. b \in Nat /\ b \in 1 .. b /\ q.open \subseteq 1 .. b
    BY <1>2, <2>1
  <2>3. q.queue \in Seq(Entry(b)) /\ q.pipe \in Seq(Entry(b)) /\ ListsOK(q.view, q.pipe \o q.queue)
    BY <1>1, <1>6, <2>1, <2>2, AcceptsJoins DEF OpensAndCloses
  <2> QED
    BY <2>1, <2>2, <2>3, Zenon DEF PollsOK
<1>7. ASSUME NEW b, Closes(p, q, b) PROVE PollsOK(q)
  <2>1. q.seen = n /\ q.pipe = p.pipe /\ b \in p.open /\ q.open = p.open \ {b}
    BY <1>1, <1>7, Zenon DEF Closes, Stays
  <2>2. b \in 1 .. n /\ q.open \subseteq 1 .. n
    BY <1>2, <2>1
  <2>3. q.queue \in Seq(Entry(n)) /\ q.pipe \in Seq(Entry(n)) /\ ListsOK(q.view, q.pipe \o q.queue)
    BY <1>1, <1>2, <1>7, <2>1, <2>2, AcceptsJoins DEF Closes
  <2> QED
    BY <1>2, <2>1, <2>2, <2>3, Zenon DEF PollsOK
<1> QED
  BY <1>4, <1>5, <1>6, <1>7, HandsOverShifts DEF Kinds
=============================================================================
