----------------------- MODULE BitcoinBlockManagement -----------------------
(***************************************************************************)
(* Block management of a Bitcoin node (basic variant): the mempool, the    *)
(* block under construction, the pool of blocks with its orphans, and the  *)
(* move to a longer chain with its undo and redo of unspent outputs.       *)
(*                                                                         *)
(* Blocks of peers come in any order, each validated once (blks_seen of    *)
(* block_management_thread); proof of work ends whenever it likes.         *)
(***************************************************************************)
EXTENDS Integers, Sequences, SequencesExt, FiniteSets, FiniteSetsExt

CONSTANTS
    Txn,            \* id -> [inputs, sender, outputs, owners, balanced, script_succeed]
    PeerBlocks,     \* id -> [prev, txns]: blocks that peers may send
    OwnIds,         \* ids of the node's own blocks, in order of proposal
    Zero,           \* the prev_hash of a first block
    MaxBlockTxns    \* transactions that make a block full

Txns == DOMAIN Txn
Ids == DOMAIN PeerBlocks \cup ToSet(OwnIds)

ASSUME BlocksAssumption ==
    /\ Zero \notin Ids
    /\ IsInjective(OwnIds) /\ ToSet(OwnIds) \cap DOMAIN PeerBlocks = {}
    /\ \A b \in DOMAIN PeerBlocks : PeerBlocks[b].prev \in DOMAIN PeerBlocks \cup {Zero}
    /\ MaxBlockTxns \in Nat \ {0}

VARIABLES
    txn_pool,
    block_pool,     \* id -> [prev, txns, height]; height 0 while an ancestor is missing
    utxo,
    chain_tail,
    pending_txns,
    block_under_construction,
    new_utxo,
    utxo_spent,
    pow,            \* pow_time and merkle_root are set
    orphan_blocks,  \* missing or orphaned parent -> its children
    blk_state,
    blks_seen,
    requested,      \* ancestors asked for with a BlockReq
    given,          \* transactions that came from txn_dissemination
    spinning,       \* prepare_new_block never returns
    new_block_pipe

buildVars == <<block_under_construction, new_utxo, utxo_spent, pow>>
bmVars == <<txn_pool, block_pool, utxo, chain_tail, pending_txns, buildVars,
            orphan_blocks, blk_state, blks_seen, requested, given, spinning,
            new_block_pipe>>

Empty == [x \in {} |-> x]

BMInit ==
    /\ txn_pool = {}
    /\ block_pool = Empty
    /\ utxo = {}
    /\ chain_tail = Zero
    /\ pending_txns = <<>>
    /\ block_under_construction = <<>>
    /\ new_utxo = {} /\ utxo_spent = {}
    /\ pow = FALSE
    /\ orphan_blocks = Empty
    /\ blk_state = "Working"
    /\ blks_seen = {}
    /\ requested = {}
    /\ given = {}
    /\ spinning = FALSE
    /\ new_block_pipe = <<>>

\* The keys of utxo that t spends and creates.
Spends(t) == {<<i, Txn[t].sender>> : i \in Txn[t].inputs}
Creates(t) == {<<t, o>> : o \in Txn[t].outputs}

\* get_chain_length
ChainLength == IF chain_tail = Zero THEN 0 ELSE block_pool[chain_tail].height

\* The ids from the first block to b, which has no missing ancestor.
ChainTo(pool, b) ==
    LET up[x \in Ids \cup {Zero}] == IF x = Zero THEN <<>> ELSE Append(up[pool[x].prev], x)
    IN  up[b]

\* The transactions of blocks, in order.
TxnsOf(pool, ids) == FlattenSeq([i \in DOMAIN ids |-> pool[ids[i]].txns])

----------------------------------------------------------------------------
\* Building a block

\* Mutant: a duplicate is queued again.
RecordNewTxnAgain(t) ==
    /\ ~ spinning
    /\ t \notin given /\ Txn[t].inputs \subseteq given
    /\ given' = given \cup {t}
    /\ pending_txns' = Append(pending_txns, t)
    /\ txn_pool' = txn_pool \cup {t}
    /\ blk_state' = IF blk_state = "EmptyMempool" THEN "Working" ELSE blk_state
    /\ UNCHANGED <<block_pool, utxo, chain_tail, buildVars, orphan_blocks, blks_seen,
                   requested, spinning, new_block_pipe>>

\* record_new_txn; txn_validation lets a transaction through after its inputs.
RecordNewTxn(t) ==
    /\ ~ spinning
    /\ t \notin given /\ Txn[t].inputs \subseteq given
    /\ given' = given \cup {t}
    /\ pending_txns' = IF t \in txn_pool THEN pending_txns ELSE Append(pending_txns, t)
    /\ txn_pool' = txn_pool \cup {t}
    /\ blk_state' = IF blk_state = "EmptyMempool" THEN "Working" ELSE blk_state
    /\ UNCHANGED <<block_pool, utxo, chain_tail, buildVars, orphan_blocks, blks_seen,
                   requested, spinning, new_block_pipe>>

\* Mutant: an output spent within the block may be spent again.
SpendableTwice(b, t) ==
    /\ Spends(t) \subseteq utxo \cup b.new
    /\ Txn[t].script_succeed

\* What prepare_new_block asks of a transaction before it takes it.
Spendable(b, t) ==
    /\ Spends(t) \subseteq (utxo \cup b.new) \ b.spent
    /\ Txn[t].script_succeed

\* One round of the loop in prepare_new_block: a transaction that cannot be
\* taken goes to the back of the queue.
TakeNext(b) ==
    IF b.queue = <<>> \/ Len(b.txns) >= MaxBlockTxns THEN b
    ELSE LET t == Head(b.queue) IN
         IF Spendable(b, t)
         THEN [queue |-> Tail(b.queue), txns |-> Append(b.txns, t),
               spent |-> b.spent \cup Spends(t), new |-> b.new \cup Creates(t)]
         ELSE [b EXCEPT !.queue = Append(Tail(@), t)]

\* prepare_new_block.  Once a round of the whole queue takes nothing, none
\* will: the loop, which leaves only on a full block or an empty queue, has
\* no other end, and no await that would let another task of the stage run.
PrepareNewBlock ==
    /\ ~ spinning
    /\ blk_state = "Working"
    /\ LET n == Len(pending_txns)
           done == FoldLeft(LAMBDA b, i : TakeNext(b),
                            [queue |-> pending_txns, txns |-> block_under_construction,
                             spent |-> utxo_spent, new |-> new_utxo],
                            [i \in 1 .. n * (n + 1) |-> i])
           full == Len(done.txns) >= MaxBlockTxns
       IN  IF done.queue # <<>> /\ ~ full
           THEN spinning' = TRUE /\ UNCHANGED <<pending_txns, buildVars, blk_state>>
           ELSE /\ pending_txns' = done.queue
                /\ block_under_construction' = done.txns
                /\ utxo_spent' = done.spent
                /\ new_utxo' = done.new
                /\ pow' = TRUE
                /\ blk_state' = IF full THEN "Full" ELSE "EmptyMempool"
                /\ UNCHANGED spinning
    /\ UNCHANGED <<txn_pool, block_pool, utxo, chain_tail, orphan_blocks, blks_seen,
                   requested, given, new_block_pipe>>

\* The propose arm: wait_to_propose, get_new_block and the send.
GetNewBlock ==
    /\ ~ spinning
    /\ pow
    /\ \E i \in DOMAIN OwnIds :
          /\ OwnIds[i] \notin DOMAIN block_pool
          /\ \A j \in 1 .. i - 1 : OwnIds[j] \in DOMAIN block_pool
          /\ block_pool' = OwnIds[i] :> [prev |-> chain_tail, txns |-> block_under_construction,
                                         height |-> ChainLength + 1] @@ block_pool
          /\ chain_tail' = OwnIds[i]
          /\ blks_seen' = blks_seen \cup {OwnIds[i]}
          /\ new_block_pipe' = Append(new_block_pipe, <<OwnIds[i]>>)
    /\ utxo' = (utxo \cup new_utxo) \ utxo_spent
    /\ block_under_construction' = <<>>
    /\ new_utxo' = {} /\ utxo_spent' = {}
    /\ pow' = FALSE
    /\ blk_state' = "Working"
    /\ UNCHANGED <<txn_pool, pending_txns, orphan_blocks, requested, given, spinning>>

----------------------------------------------------------------------------
\* Moving to another chain

\* Mutant: outputs of the undone transaction stay.
UndoTxnKeepsCreated(u, t) ==
    [u EXCEPT !.restored = (@ \cup Spends(t)) \ Creates(t), !.txns = @ \cup {t}]

\* Undoing one transaction of the old chain, the last first.
UndoTxn(u, t) ==
    LET restored == u.restored \cup Spends(t)
    IN  [restored |-> restored \ Creates(t),
         removed  |-> u.removed \cup (Creates(t) \ restored),
         txns     |-> u.txns \cup {t}]

\* Applying one transaction of the new chain on top of that; `ok' turns false
\* on a double spend or a failing script.
ApplyTxn(a, t) ==
    LET spent == a.spent \cup (Spends(t) \ a.new)
    IN  IF /\ a.ok
           /\ Spends(t) \subseteq a.new \cup (utxo \ a.spent)
           /\ Txn[t].script_succeed
        THEN [ok |-> TRUE,
              new |-> (a.new \ Spends(t)) \cup (Creates(t) \ spent),
              spent |-> spent \ Creates(t),
              undo |-> a.undo \ {t},
              applied |-> IF t \in a.undo THEN a.applied ELSE a.applied \cup {t}]
        ELSE [a EXCEPT !.ok = FALSE]

\* The chain that ends in `tail' is longer than the node's.
Longer(tail, pool) == pool[tail].height > ChainLength

\* Mutant: the block under construction is forgotten.
ReturnedWithoutBuild(back, applied) ==
    SelectSeq(pending_txns \o back, LAMBDA t : t \notin applied)

\* pending_txns after a move: what was being built and what was undone come
\* back, what the new chain holds goes.
Returned(back, applied) ==
    SelectSeq(pending_txns \o block_under_construction \o back, LAMBDA t : t \notin applied)

\* The tail of validate_block, from the comparison of lengths on: move to the
\* chain that ends in `tail', of the blocks in `pool', if it is longer and
\* every transaction of it applies.
MoveTo(tail, pool) ==
    LET new == ChainTo(pool, tail)
        old == IF chain_tail = Zero THEN <<>> ELSE ChainTo(pool, chain_tail)
        fork == Max({i \in 0 .. Min({Len(new), Len(old)}) :
                       SubSeq(new, 1, i) = SubSeq(old, 1, i)})
        new_chain == SubSeq(new, fork + 1, Len(new))
        undone == FoldLeft(UndoTxn, [restored |-> {}, removed |-> {}, txns |-> {}],
                           Reverse(TxnsOf(pool, SubSeq(old, fork + 1, Len(old)))))
        done == FoldLeft(ApplyTxn,
                         [ok |-> TRUE, new |-> undone.restored, spent |-> undone.removed,
                          undo |-> undone.txns, applied |-> {}],
                         TxnsOf(pool, new_chain))
    IN  IF ~ Longer(tail, pool) \/ ~ done.ok
        THEN UNCHANGED <<utxo, chain_tail, pending_txns, buildVars, blk_state, new_block_pipe>>
        ELSE /\ chain_tail' = tail
             /\ utxo' = (utxo \cup done.new) \ done.spent
             /\ \E back \in SetToSeqs(done.undo) :
                   pending_txns' = Returned(back, done.applied)
             /\ block_under_construction' = <<>>
             /\ new_utxo' = {} /\ utxo_spent' = {}
             /\ pow' = FALSE
             /\ blk_state' = "Working"
             /\ new_block_pipe' = Append(new_block_pipe, new_chain)

\* update_orphans_and_return_tail: the block and the orphans that hang on it,
\* each with its height.
Adopted(b, height) ==
    LET from[x \in Ids, h \in Nat] ==
            {<<x, h>>} \cup
            (IF x \in DOMAIN orphan_blocks
             THEN UNION {from[y, h + 1] : y \in orphan_blocks[x]} ELSE {})
    IN  from[b, height]

\* The first ancestor of b that the pool does not hold.
MissingAncestor(pool, b) ==
    LET up[x \in Ids] == IF x \in DOMAIN pool THEN up[pool[x].prev] ELSE x
    IN  up[b]

\* The BlockReq that validate_block sends for an orphan.
Request(pool, prev) == {MissingAncestor(pool, prev)}

\* validate_txn: inputs known, owned by the sender, and of the right value.
ValidateTxn(pool, t) ==
    /\ \A i \in Txn[t].inputs : i \in pool /\ Txn[t].sender \in Txn[i].owners
    /\ Txn[t].balanced

\* The transactions of a block that validate_block gets to record, and
\* whether it got through all of them.
RecordBlockTxns(txns) ==
    FoldLeft(LAMBDA r, t :
               IF r.ok /\ (t \in r.pool \/ ValidateTxn(r.pool, t))
               THEN [r EXCEPT !.pool = @ \cup {t}] ELSE [r EXCEPT !.ok = FALSE],
             [ok |-> TRUE, pool |-> txn_pool], txns)

\* Mutant: orphans are adopted without their heights.
AdoptHeightsForgotten(pool, adopted) == pool

\* Heights of the adopted blocks are known now.
AdoptHeights(pool, adopted) ==
    [x \in DOMAIN pool |->
        IF x \in {a[1] : a \in adopted}
        THEN [pool[x] EXCEPT !.height = (CHOOSE a \in adopted : a[1] = x)[2]]
        ELSE pool[x]]

\* The pending_blk arm: validate_block as a whole.
ValidateBlock(b) ==
    /\ ~ spinning
    /\ b \notin blks_seen
    /\ blks_seen' = blks_seen \cup {b}
    /\ LET prev == PeerBlocks[b].prev
           checked == RecordBlockTxns(PeerBlocks[b].txns)
           height == IF prev = Zero THEN 1
                     ELSE IF prev \in DOMAIN block_pool /\ block_pool[prev].height > 0
                          THEN block_pool[prev].height + 1 ELSE 0
           pool == b :> [prev |-> prev, txns |-> PeerBlocks[b].txns, height |-> height]
                   @@ block_pool
           adopted == Adopted(b, height)
           top == Max({a[2] : a \in adopted})
       IN  /\ txn_pool' = checked.pool
           /\ CASE ~ checked.ok ->
                     UNCHANGED <<block_pool, orphan_blocks, requested, utxo, chain_tail,
                                 pending_txns, buildVars, blk_state, new_block_pipe>>
                [] checked.ok /\ height = 0 ->
                     /\ block_pool' = pool
                     /\ orphan_blocks' = prev :> (IF prev \in DOMAIN orphan_blocks
                                                  THEN orphan_blocks[prev] \cup {b} ELSE {b})
                                         @@ orphan_blocks
                     /\ requested' = requested \cup Request(pool, prev)
                     /\ UNCHANGED <<utxo, chain_tail, pending_txns, buildVars, blk_state,
                                    new_block_pipe>>
                [] OTHER ->
                     /\ block_pool' = AdoptHeights(pool, adopted)
                     /\ orphan_blocks' = Restrict(orphan_blocks,
                                           DOMAIN orphan_blocks \ {a[1] : a \in adopted})
                     /\ \E a \in adopted :
                           a[2] = top /\ MoveTo(a[1], AdoptHeights(pool, adopted))
                     /\ UNCHANGED requested
    /\ UNCHANGED <<given, spinning>>

BMNext ==
    \/ \E t \in Txns : RecordNewTxn(t)
    \/ PrepareNewBlock
    \/ GetNewBlock
    \/ \E b \in DOMAIN PeerBlocks : ValidateBlock(b)
=============================================================================
