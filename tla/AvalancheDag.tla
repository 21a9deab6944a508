---------------------------- MODULE AvalancheDag ----------------------------
(***************************************************************************)
(* The transaction DAG that decide keeps in its Avalanche variants, and    *)
(* the walks over it.  A DAG is a function from the undecided transactions *)
(* to the set of their recorded children (DagNode.children); the parents   *)
(* of a node are the inputs of its transaction, recorded or not.           *)
(*                                                                         *)
(* A grant has no inputs.  Transactions of kind Noop are left out: the     *)
(* code handles them but nothing in the repository creates one.            *)
(***************************************************************************)
EXTENDS Flatten, FiniteSetsExt

CONSTANTS
    Txns,       \* transaction ids
    InUtxo,     \* InUtxo[t]: the transactions whose output t spends, in order
    Sender,     \* Sender[t]: the account whose outputs t spends
    PlaceHolder \* what block management puts for an invalid transaction

ASSUME TxnAssumption ==
    /\ InUtxo \in [Txns -> Seq(Txns)]
    /\ DOMAIN Sender = Txns
    /\ \A t \in Txns : IsInjective(InUtxo[t])
    /\ PlaceHolder \notin Txns

IsSend(t) == InUtxo[t] # <<>>
Parents(t) == Range(InUtxo[t])

\* A transaction names its inputs by their hashes, so inputs form no cycle.
ASSUME AcyclicAssumption ==
    \A S \in SUBSET Txns : S # {} => \E t \in S : Parents(t) \cap S = {}

\* HashMap::insert.
Insert(f, x, v) == [y \in DOMAIN f \cup {x} |-> IF y = x THEN v ELSE f[y]]

\* The keys of conflict_sets that t spends.
Utxos(t) == {<<p, Sender[t]>> : p \in Parents(t)}

\* new_tail's update of txn_dag for a transaction seen for the first time.
AddNode(dag, t) ==
    [x \in DOMAIN dag \cup {t} |->
        IF x = t THEN {} ELSE IF x \in Parents(t) THEN dag[x] \cup {t} ELSE dag[x]]

\* Mutant: no ancestor is visited.
AncestrySelf(dag, t) == IF t \in DOMAIN dag THEN <<t>> ELSE <<>>

\* What the walk of handle_votes_helper has reached, in order: its dedup
\* passes over what was reached before.
Reach(seen, y) == IF y \in Range(seen) THEN seen ELSE Append(seen, y)
Reaching == INSTANCE Folding WITH Op <- Reach
ReachAll(seen, s) == Reaching!Fold(seen, s)
ReachingAll == INSTANCE Folding WITH Op <- ReachAll

\* The order in which handle_votes_helper gets to the undecided ancestors of
\* t: parents first, each once.
Ancestry(dag, t) ==
    LET visit[x \in Txns] ==
            IF x \notin DOMAIN dag THEN <<>>
            ELSE Reach(ReachingAll!Fold(<<>>, [i \in DOMAIN InUtxo[x] |-> visit[InUtxo[x][i]]]), x)
    IN  visit[t]

\* What the frontier walk of handle_votes_helper reaches from t.
Offspring(dag, t) ==
    LET reach[x \in Txns] ==
            {x} \cup (IF x \in DOMAIN dag THEN UNION {reach[c] : c \in dag[x]} ELSE {})
    IN  reach[t]

\* is_preferred: t is the preferred spender of each of its inputs.
IsPreferred(cs, t) == \A u \in Utxos(t) : cs[u].pref = t

\* is_strongly_preferred: a transaction that is not in the DAG counts as
\* accepted; a cached answer is returned as it is; otherwise parents are asked
\* in order until one says no, and every answer on the way is cached.
AskPreferred(dag, cs, cache, t) ==
    LET sp[x \in Txns] ==
            x \in DOMAIN dag =>
                IF x \in DOMAIN cache THEN cache[x]
                ELSE IsPreferred(cs, x) /\ \A p \in Parents(x) : sp[p]
        asked(x) ==
            IF IsPreferred(cs, x)
            THEN {InUtxo[x][i] : i \in {j \in DOMAIN InUtxo[x] :
                     \A h \in 1 .. j - 1 : sp[InUtxo[x][h]]}}
            ELSE {}
        visited[x \in Txns] ==
            IF x \in DOMAIN dag \ DOMAIN cache
            THEN {x} \cup UNION {visited[p] : p \in asked(x)} ELSE {}
    IN  [answer |-> sp[t],
         cache  |-> [x \in DOMAIN cache \cup visited[t] |->
                       IF x \in DOMAIN cache THEN cache[x] ELSE sp[x]]]
=============================================================================
