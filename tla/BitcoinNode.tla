----------------------------- MODULE BitcoinNode -----------------------------
(***************************************************************************)
(* A Bitcoin node: block management, block dissemination and decide.  Each *)
(* entry of the new_block pipe is the new part of the chain; dissemination *)
(* passes it to decide, which forgets the blocks it replaces and commits   *)
(* what lies commit_depth blocks deep.                                     *)
(***************************************************************************)
EXTENDS BitcoinBlockManagement

CONSTANTS
    commit_depth,
    MaxDrops        \* bound: failed disseminations

ASSUME DecideAssumption == commit_depth \in Nat /\ MaxDrops \in Nat

VARIABLES
    blk_height,         \* decide's block_pool: id -> height
    undecided,          \* decide's chain_tail
    first_block_seen,
    pruned,             \* decide warned that a committed block may be undone
    panicked,           \* decide ran into unreachable! or unimplemented!
    committed,          \* [id, height] handed to the commit stage
    drops               \* failed disseminations

decideVars == <<blk_height, undecided, first_block_seen, pruned, panicked, committed>>
vars == <<bmVars, decideVars, drops>>

Init ==
    /\ BMInit
    /\ blk_height = Empty
    /\ undecided = <<>>
    /\ first_block_seen = FALSE
    /\ pruned = FALSE
    /\ panicked = FALSE
    /\ committed = <<>>
    /\ drops = 0

BlockManagement == BMNext /\ UNCHANGED <<decideVars, drops>>

\* Everything of block management except the pipe it feeds.
bmOwnVars == <<txn_pool, block_pool, utxo, chain_tail, pending_txns, buildVars,
               orphan_blocks, blk_state, blks_seen, requested, given, spinning>>

\* disseminate returns an error: the new part of the chain is dropped.
DisseminateFails ==
    /\ new_block_pipe # <<>>
    /\ drops < MaxDrops
    /\ drops' = drops + 1
    /\ new_block_pipe' = Tail(new_block_pipe)
    /\ UNCHANGED <<bmOwnVars, decideVars>>

\* Mutant: replaced blocks of the same height stay.
KeptBelowLoose(first_height) == SelectSeq(undecided, LAMBDA b : blk_height[b] <= first_height)

\* What is left of decide's chain below the first block of the new part.
KeptBelow(first_height) == SelectSeq(undecided, LAMBDA b : blk_height[b] < first_height)

\* new_tail of decide.
NewTail ==
    /\ new_block_pipe # <<>>
    /\ ~ panicked
    /\ new_block_pipe' = Tail(new_block_pipe)
    /\ LET tail == Head(new_block_pipe)
           ancestor == block_pool[Head(tail)].prev
           known == ancestor = Zero \/ ancestor \in DOMAIN blk_height
           first_height == IF ancestor = Zero THEN 1 ELSE blk_height[ancestor] + 1
           kept == KeptBelow(first_height)
       IN  IF ~ known \/ (kept # <<>> /\ Last(kept) # ancestor)
           THEN panicked' = TRUE
                /\ UNCHANGED <<blk_height, undecided, first_block_seen, pruned, committed>>
           ELSE /\ blk_height' = [b \in ToSet(tail) |->
                                     first_height + (CHOOSE i \in DOMAIN tail : tail[i] = b) - 1]
                                 @@ blk_height
                /\ undecided' = kept \o tail
                /\ first_block_seen' = (first_block_seen \/ kept = <<>>)
                /\ pruned' = (pruned \/ (kept = <<>> /\ first_block_seen))
                /\ UNCHANGED <<panicked, committed>>
    /\ UNCHANGED <<bmOwnVars, drops>>

\* commit_ready and next_to_commit.
NextToCommit ==
    /\ ~ panicked
    /\ Len(undecided) > commit_depth
    /\ committed' = Append(committed, [id |-> Head(undecided), height |-> blk_height[Head(undecided)]])
    /\ undecided' = Tail(undecided)
    /\ UNCHANGED <<bmVars, blk_height, first_block_seen, pruned, panicked, drops>>

Next == BlockManagement \/ DisseminateFails \/ NewTail \/ NextToCommit

Spec == Init /\ [][Next]_vars

----------------------------------------------------------------------------
\* Properties

\* The unspent outputs after a sequence of transactions, by definition; each
\* one must spend outputs that exist.
Replay(txns) ==
    FoldLeft(LAMBDA r, t : [ok |-> r.ok /\ Spends(t) \subseteq r.utxo,
                            utxo |-> (r.utxo \ Spends(t)) \cup Creates(t)],
             [ok |-> TRUE, utxo |-> {}], txns)

Chain == ChainTo(block_pool, chain_tail)
ChainTxns == TxnsOf(block_pool, Chain)

\* utxo is what replaying the chain from its first block leaves unspent, and
\* no transaction of the chain spends twice, whatever was undone and redone
\* on the way (validate_block, get_new_block).
UtxoIsReplay == Replay(ChainTxns) = [ok |-> TRUE, utxo |-> utxo]

\* The block under construction applies to the chain it will extend, and
\* new_utxo and utxo_spent are its effect, after any change of chain.
NextBlockApplies ==
    Replay(ChainTxns \o block_under_construction)
        = [ok |-> TRUE, utxo |-> (utxo \cup new_utxo) \ utxo_spent]

\* The height in block_pool is the length of the chain to the block when all
\* its ancestors are in the pool, and 0 otherwise, in whatever order the
\* blocks came; the asserts on heights in validate_block rest on it.
HeightsExact ==
    \A b \in DOMAIN block_pool :
        LET depth[x \in Ids \cup {Zero}, n \in Nat] ==
                IF x = Zero THEN n
                ELSE IF x \in DOMAIN block_pool THEN depth[block_pool[x].prev, n + 1] ELSE 0
        IN  block_pool[b].height = depth[b, 0]

Mempool == pending_txns \o block_under_construction

\* A transaction is pending, in the block under construction or on the chain
\* at most once and in one of these places only.
MempoolDisjoint == IsInjective(Mempool \o ChainTxns)

\* What is in one of these places stays in one of them: moving to another
\* chain returns every undone transaction to the mempool and forgets none.
NothingForgotten ==
    [][ToSet(Mempool \o ChainTxns) \subseteq ToSet(Mempool \o ChainTxns)']_vars

\* Decide meets an unreachable! or unimplemented! only after a dissemination
\* failed, and until it warns, what it committed and what it holds form one
\* chain from the first block, of heights 1, 2, 3, ...; with nothing left in
\* the pipe it is the chain of block management.  Warned or not, failures or
\* not, no committed height skips over its parent's, as the client of the
\* commit stage asserts (txn_committed of BitcoinFlowGen).
DecideFollows ==
    /\ panicked => drops > 0
    /\ drops = 0 /\ ~ pruned =>
         LET all == [i \in DOMAIN committed |-> committed[i].id] \o undecided
         IN  /\ \A i \in DOMAIN all :
                   /\ block_pool[all[i]].prev = IF i = 1 THEN Zero ELSE all[i - 1]
                   /\ blk_height[all[i]] = i
             /\ new_block_pipe = <<>> => all = Chain
    /\ \A i \in DOMAIN committed :
          committed[i].height <= 1 + (IF i = 1 THEN 0 ELSE committed[i - 1].height)

\* prepare_new_block returns: a transaction that cannot be taken yet waits
\* for a later round (its comment: "some dependencies might be missing, retry
\* later").
PreparationEnds == ~ spinning
=============================================================================
