---------------------- MODULE AvalancheBlockManagement ----------------------
(***************************************************************************)
(* Block management of an Avalanche node (basic variant): the DAG of the   *)
(* transactions not yet batched, the frontier from which blocks are built, *)
(* and blocks of peers, which wait at growing depth for transactions the   *)
(* node has to ask their proposer for.                                     *)
(*                                                                         *)
(* Blocks under way to the node form a set: peers are independent, and     *)
(* block_management_thread checks each block in a task of its own.  A      *)
(* proposer knows every ancestor of what it proposed.                      *)
(***************************************************************************)
EXTENDS Integers, Sequences, SequencesExt, FiniteSets, FiniteSetsExt, TLC

CONSTANTS
    Txns,
    InUtxo,         \* InUtxo[t]: the transactions whose outputs t spends; <<>> for a grant
    Correct,        \* transactions whose inputs and outputs match (validate_txn)
    PeerBlocks,     \* PeerBlocks[b]: transactions of a block that a peer proposes
    PlaceHolder,    \* what stands in a block for an invalid transaction
    blk_len,
    MaxQuota,       \* bound: blocks the pacemaker grants
    MaxLosses       \* bound: requests for transactions that fail to be sent

ASSUME TxnsAssumption ==
    /\ InUtxo \in [Txns -> Seq(Txns)] /\ \A t \in Txns : IsInjective(InUtxo[t])
    /\ Correct \subseteq Txns /\ PlaceHolder \notin Txns
ASSUME BlocksAssumption ==
    /\ \A b \in DOMAIN PeerBlocks : PeerBlocks[b] \in Seq(Txns)
    /\ blk_len \in Nat \ {0} /\ MaxQuota \in Nat /\ MaxLosses \in Nat

VARIABLES
    txn_pool,
    txn_dag,        \* transaction -> [num_parents, children]
    dag_frontier,
    curr_batch,
    blk_quota,
    blk_state,
    blks_seen,      \* <<block, depth>>
    pending_blks,   \* <<block, depth>> -> [txns, recheck]
    given,          \* transactions that came from txn_dissemination
    granted,        \* messages of the pacemaker so far
    net,            \* [blk, depth, txns]: blocks under way to the node
    reqs,           \* [blk, depth, deps]: BlockReq messages to proposers
    proposed,       \* transactions of the own blocks, in order
    emitted,        \* peer's block -> what went down the new_block pipe for it
    lost            \* blocks whose BlockReq failed to be sent

buildVars == <<txn_pool, txn_dag, dag_frontier, curr_batch, blk_quota, blk_state>>
peerVars == <<blks_seen, pending_blks, net, reqs, emitted, lost>>
vars == <<buildVars, peerVars, given, granted, proposed>>

Empty == [x \in {} |-> x]
Parents(t) == ToSet(InUtxo[t])
Waiting(dag, t) == Parents(t) \cap DOMAIN dag

Init ==
    /\ txn_pool = {}
    /\ txn_dag = Empty
    /\ dag_frontier = <<>>
    /\ curr_batch = <<>>
    /\ blk_quota = 0
    /\ blk_state = "Working"
    /\ blks_seen = {}
    /\ pending_blks = Empty
    /\ given = {}
    /\ granted = 0
    /\ net = {[blk |-> b, depth |-> 0, txns |-> PeerBlocks[b]] : b \in DOMAIN PeerBlocks}
    /\ reqs = {}
    /\ proposed = <<>>
    /\ emitted = Empty
    /\ lost = {}

----------------------------------------------------------------------------
\* Own blocks

\* A new DAG node, known to those of its parents that are still in the DAG.
Link(dag, t, num_parents) ==
    t :> [num_parents |-> num_parents, children |-> {}]
    @@ [p \in DOMAIN dag |->
           IF p \in Parents(t) THEN [dag[p] EXCEPT !.children = @ \cup {t}] ELSE dag[p]]

\* record_new_txn; txn_validation lets a transaction through after its
\* inputs.  num_parents counts every input, batched already or not.
RecordNewTxn(t) ==
    /\ t \notin given /\ Parents(t) \subseteq given /\ t \in Correct
    /\ given' = given \cup {t}
    /\ blk_state' = IF blk_state = "EmptyMempool" THEN "Working" ELSE blk_state
    /\ IF t \in txn_pool THEN UNCHANGED <<txn_pool, txn_dag, dag_frontier>>
       ELSE /\ txn_pool' = txn_pool \cup {t}
            /\ txn_dag' = Link(txn_dag, t, Len(InUtxo[t]))
            /\ dag_frontier' = IF Waiting(txn_dag, t) = {} THEN Append(dag_frontier, t)
                               ELSE dag_frontier
    /\ UNCHANGED <<curr_batch, blk_quota, peerVars, granted, proposed>>

\* Mutant: a child is freed by the first of its parents.
FreedEarly(dag, t) == {c \in dag[t].children : c \in DOMAIN dag}

\* The children that batching t frees.
Freed(dag, t) == {c \in dag[t].children : c \in DOMAIN dag /\ dag[c].num_parents = 1}

\* One round of the loop in prepare_new_block; `order' stands for the
\* iteration order of the children's hash set.
TakeNext(b, order) ==
    IF b.frontier = <<>> \/ Len(b.batch) >= blk_len THEN b
    ELSE LET t == Head(b.frontier) IN
         IF t \notin DOMAIN b.dag THEN [b EXCEPT !.frontier = Tail(@)]
         ELSE [dag |-> [x \in DOMAIN b.dag \ {t} |->
                           IF x \in b.dag[t].children
                           THEN [b.dag[x] EXCEPT !.num_parents = @ - 1] ELSE b.dag[x]],
               frontier |-> Tail(b.frontier)
                            \o SelectSeq(order, LAMBDA c : c \in Freed(b.dag, t)),
               batch |-> Append(b.batch, t)]

\* prepare_new_block
PrepareNewBlock ==
    /\ blk_state = "Working"
    /\ \E order \in SetToSeqs(UNION {txn_dag[t].children : t \in DOMAIN txn_dag}) :
          LET rounds == Len(dag_frontier) + Cardinality(DOMAIN txn_dag)
              done == FoldLeft(LAMBDA b, i : TakeNext(b, order),
                               [dag |-> txn_dag, frontier |-> dag_frontier, batch |-> curr_batch],
                               [i \in 1 .. rounds |-> i])
          IN  /\ txn_dag' = done.dag
              /\ dag_frontier' = done.frontier
              /\ curr_batch' = done.batch
              /\ blk_state' = IF Len(done.batch) >= blk_len THEN "Full" ELSE "EmptyMempool"
    /\ UNCHANGED <<txn_pool, blk_quota, peerVars, given, granted, proposed>>

\* The propose arm: wait_to_propose, for a full batch or the proposal timer,
\* get_new_block and the send.
GetNewBlock ==
    /\ blk_quota > 0
    /\ curr_batch # <<>>
    /\ proposed' = proposed \o curr_batch
    /\ curr_batch' = <<>>
    /\ blk_quota' = blk_quota - 1
    /\ blk_state' = "Working"
    /\ UNCHANGED <<txn_pool, txn_dag, dag_frontier, peerVars, given, granted>>

\* handle_pmaker_msg
HandlePmakerMsg ==
    /\ granted < MaxQuota
    /\ granted' = granted + 1
    /\ blk_quota' = blk_quota + 1
    /\ UNCHANGED <<txn_pool, txn_dag, dag_frontier, curr_batch, blk_state, peerVars,
                   given, proposed>>

----------------------------------------------------------------------------
\* Blocks of peers

\* Adding a checked transaction to the pool and the DAG.
Admit(a, t) ==
    LET waiting == Waiting(a.dag, t)
    IN  [a EXCEPT !.pool = @ \cup {t},
                  !.dag = Link(@, t, Cardinality(waiting)),
                  !.front = IF waiting = {} THEN Append(@, t) ELSE @]

\* One transaction of the block in validate_block: known, admitted, replaced
\* by a placeholder, or left for later because inputs are missing.
CheckTxn(a, i, txns) ==
    LET t == txns[i]
        missing == SelectSeq(InUtxo[t], LAMBDA p : p \notin a.pool)
    IN  CASE t \in a.pool ->
               [a EXCEPT !.txns = Append(@, t),
                         !.front = IF t \in DOMAIN a.dag /\ a.dag[t].num_parents = 0
                                   THEN Append(@, t) ELSE @]
          [] t \notin a.pool /\ missing # <<>> ->
               [a EXCEPT !.txns = Append(@, t),
                         !.missing = @ \o missing,
                         !.recheck = Append(@, i)]
          [] t \notin a.pool /\ missing = <<>> /\ t \in Correct ->
               [Admit(a, t) EXCEPT !.txns = Append(@, t)]
          [] OTHER -> [a EXCEPT !.txns = Append(@, PlaceHolder)]

CheckBlock(txns) ==
    FoldLeftDomain(LAMBDA a, i : CheckTxn(a, i, txns),
                   [pool |-> txn_pool, dag |-> txn_dag, front |-> <<>>, txns |-> <<>>,
                    missing |-> <<>>, recheck |-> <<>>],
                   txns)

\* Mutant: what was waiting for inputs is taken as it is.
RecheckTrusting(a, i) == a

\* A transaction that waited for inputs, once they were asked for.
Recheck(a, i) ==
    LET t == a.txns[i]
    IN  IF t \in a.pool THEN a
        ELSE IF t \in Correct /\ Parents(t) \subseteq a.pool THEN Admit(a, t)
        ELSE [a EXCEPT !.txns[i] = PlaceHolder]

\* The smaller depths of blk that are pending without a gap.
PendingBelow(blk, depth) ==
    {d \in 0 .. depth - 1 : \A e \in d .. depth - 1 : <<blk, e>> \in DOMAIN pending_blks}

\* From depth - 1 down to the block that the peer asks about.
Descend(a, blk, depth) ==
    FoldLeft(LAMBDA b, d :
               LET entry == pending_blks[<<blk, d>>]
               IN  FoldLeft(Recheck, [b EXCEPT !.txns = entry.txns], entry.recheck),
             a, [i \in 1 .. Cardinality(PendingBelow(blk, depth)) |-> depth - i])

\* The peer_blk arm, where a block met before is ignored.
Receive(m) ==
    /\ m \in net
    /\ net' = net \ {m}
    /\ <<m.blk, m.depth>> \notin blks_seen
    /\ blks_seen' = blks_seen \cup {<<m.blk, m.depth>>}

\* The pending_blk arm when inputs are missing: the proposer is asked for
\* them.  validate_block returns no block, and blk_state stays as it is.
ValidateBlockMissing(m) ==
    /\ Receive(m)
    /\ LET done == CheckBlock(m.txns) IN
       /\ done.missing # <<>>
       /\ txn_pool' = done.pool
       /\ txn_dag' = done.dag
       /\ dag_frontier' = done.front \o dag_frontier
       /\ \/ /\ reqs' = reqs \cup {[blk |-> m.blk, depth |-> m.depth, deps |-> done.missing]}
             /\ pending_blks' = <<m.blk, m.depth>> :> [txns |-> done.txns, recheck |-> done.recheck]
                                @@ pending_blks
             /\ UNCHANGED lost
          \/ /\ Cardinality(lost) < MaxLosses       \* the request cannot be sent
             /\ lost' = lost \cup {m.blk}
             /\ UNCHANGED <<reqs, pending_blks>>
    /\ UNCHANGED <<curr_batch, blk_quota, blk_state, emitted, given, granted, proposed>>

\* Mutant: preparation is not woken.
ValidateBlockCompleteAsleep(m) ==
    /\ Receive(m)
    /\ LET checked == CheckBlock(m.txns)
           below == PendingBelow(m.blk, m.depth)
           done == Descend(checked, m.blk, m.depth)
       IN  /\ checked.missing = <<>>
           /\ txn_pool' = done.pool
           /\ txn_dag' = done.dag
           /\ pending_blks' = Restrict(pending_blks,
                                 DOMAIN pending_blks \ {<<m.blk, d>> : d \in below})
           /\ IF below = 0 .. m.depth - 1
              THEN /\ dag_frontier' = done.front \o dag_frontier
                   /\ emitted' = m.blk :> done.txns @@ emitted
                   /\ UNCHANGED blk_state
              ELSE UNCHANGED <<dag_frontier, emitted, blk_state>>
    /\ UNCHANGED <<curr_batch, blk_quota, reqs, lost, given, granted, proposed>>

\* The pending_blk arm when nothing is missing: the blocks of smaller depth
\* are completed, and the block goes on to the new_block pipe unless one of
\* them is not pending.
ValidateBlockComplete(m) ==
    /\ Receive(m)
    /\ LET checked == CheckBlock(m.txns)
           below == PendingBelow(m.blk, m.depth)
           done == Descend(checked, m.blk, m.depth)
       IN  /\ checked.missing = <<>>
           /\ txn_pool' = done.pool
           /\ txn_dag' = done.dag
           /\ pending_blks' = Restrict(pending_blks,
                                 DOMAIN pending_blks \ {<<m.blk, d>> : d \in below})
           /\ IF below = 0 .. m.depth - 1
              THEN /\ dag_frontier' = done.front \o dag_frontier
                   /\ emitted' = m.blk :> done.txns @@ emitted
                   /\ blk_state' = "Working"
              ELSE UNCHANGED <<dag_frontier, emitted, blk_state>>
    /\ UNCHANGED <<curr_batch, blk_quota, reqs, lost, given, granted, proposed>>

\* Mutant: the answer comes at the depth of the question.
HandlePeerBlkReqLevel(r) ==
    /\ r \in reqs
    /\ reqs' = reqs \ {r}
    /\ net' = net \cup {[blk |-> r.blk, depth |-> r.depth, txns |-> r.deps]}
    /\ UNCHANGED <<buildVars, blks_seen, pending_blks, emitted, lost, given, granted, proposed>>

\* handle_peer_blk_req, at the proposer of the block.
HandlePeerBlkReq(r) ==
    /\ r \in reqs
    /\ reqs' = reqs \ {r}
    /\ net' = net \cup {[blk |-> r.blk, depth |-> r.depth + 1, txns |-> r.deps]}
    /\ UNCHANGED <<buildVars, blks_seen, pending_blks, emitted, lost, given, granted, proposed>>

Next ==
    \/ \E t \in Txns : RecordNewTxn(t)
    \/ PrepareNewBlock
    \/ GetNewBlock
    \/ HandlePmakerMsg
    \/ \E m \in net : ValidateBlockMissing(m)
    \/ \E m \in net : ValidateBlockComplete(m)
    \/ \E r \in reqs : HandlePeerBlkReq(r)

Spec == Init /\ [][Next]_vars

\* The stage is a task that tokio keeps polling; its timers fire, the
\* pacemaker grants quota, the mailbox delivers, and proposers answer.  The
\* first two conjuncts are weak fairness with the ENABLED predicate written
\* out, as TLC is slow to evaluate it on folds.
Fairness ==
    /\ []<>(blk_state # "Working") \/ []<><<PrepareNewBlock>>_vars
    /\ \/ []<>(\A m \in net : <<m.blk, m.depth>> \in blks_seen)
       \/ []<><<\E m \in net : ValidateBlockMissing(m) \/ ValidateBlockComplete(m)>>_vars
    /\ WF_vars(GetNewBlock)
    /\ WF_vars(HandlePmakerMsg)
    /\ WF_vars(\E r \in reqs : HandlePeerBlkReq(r))

FairSpec == Spec /\ Fairness

----------------------------------------------------------------------------
\* Properties

Batched == proposed \o curr_batch

\* Every known transaction is batched once or waits in the DAG, and none is
\* batched while an input of it waits, although clients and peers bring
\* transactions in different orders and the frontier may hold one twice
\* (prepare_new_block, validate_block).
BatchedInOrder ==
    /\ IsInjective(Batched)
    /\ ToSet(Batched) = txn_pool \ DOMAIN txn_dag
    /\ \A t \in ToSet(Batched) : Waiting(txn_dag, t) = {}

Sound == LET sound[t \in Txns] == t \in Correct /\ \A p \in Parents(t) : sound[p]
         IN  {t \in Txns : sound[t]}

\* What decide gets to vote on is the peer's block, with placeholders for
\* exactly those transactions that are incorrect or have an incorrect
\* ancestor, at whatever depth the ancestors had to be asked for.
EmittedAsValidated ==
    \A b \in DOMAIN emitted :
        emitted[b] = [i \in DOMAIN PeerBlocks[b] |->
                        IF PeerBlocks[b][i] \in Sound THEN PeerBlocks[b][i] ELSE PlaceHolder]

\* Every block of a peer reaches decide in the end, unless a request for
\* missing transactions failed.
PeerBlocksEmitted ==
    \A b \in DOMAIN PeerBlocks : <>(b \in DOMAIN emitted \cup lost)

\* What is at the frontier gets batched, unless a request failed: a block
\* that only added to the frontier wakes nobody, but its completion does
\* (the pending_blk arm).
FrontierLeaves ==
    \A t \in Txns :
        t \in ToSet(dag_frontier) \cap DOMAIN txn_dag ~> t \notin DOMAIN txn_dag \/ lost # {}

\* A transaction none of whose inputs waits in the DAG is at the frontier
\* (prepare_new_block: "if all parents removed, add it to frontier").
FreeInFrontier ==
    \A t \in DOMAIN txn_dag : Waiting(txn_dag, t) = {} => t \in ToSet(dag_frontier)
=============================================================================
