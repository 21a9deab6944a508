-------------------------- MODULE ChainReplication --------------------------
(***************************************************************************)
(* A cluster that runs chain replication.  The head batches transactions   *)
(* into blocks; a block travels down the chain, each replica passing it on *)
(* before its own decide stage sees it; the tail's decide stage            *)
(* acknowledges to the head, which commits in the order of block ids.      *)
(*                                                                         *)
(* Replicas are numbered along config.order, so 1 is the head and N the    *)
(* tail.  Per replica the block passes the stages of node.rs:              *)
(*                                                                         *)
(*   net -> validating -> pending -> new_block -> block_ready -> decide    *)
(*                                                                         *)
(* `validating' is a set: block_management_thread validates every peer     *)
(* block in a task of its own, and the tasks may finish in any order.      *)
(* Replicas other than the head ignore transactions and prepare nothing.   *)
(***************************************************************************)
EXTENDS Integers, Sequences, FiniteSets, Functions, Flatten

CONSTANTS
    N,              \* replicas
    Size,           \* Size[t]: get_size of the t-th transaction to arrive
    block_size,     \* blk_size of the configuration
    MaxLosses       \* bound: sends that fail

ASSUME ReplicasAssumption == N \in Nat \ {0}
ASSUME SizeAssumption == Size \in Seq(Nat \ {0}) /\ block_size \in Nat \ {0}
ASSUME LossAssumption == MaxLosses \in Nat

VARIABLES
    arrived,            \* transactions that have reached the head
    mem_pool,           \* the head's mem_pool, as transaction numbers
    curr_batch_len,
    curr_batch_size,
    blk_state,          \* CurBlockState of the head
    next_blk_id,
    net,                \* net[n]: blocks sent to n by its predecessor
    blks_seen,          \* block ids that block management of n has met
    validating,         \* spawned validation tasks
    pending,            \* pending_blk channel
    new_block,          \* new_block pipe
    block_ready,        \* block_ready pipe
    acks,               \* the tail's messages to the head
    inflight_blks,      \* the head's decide stage
    commit_ready,
    next_to_commit,
    committed,          \* what went down the head's commit pipe
    lost                \* ids of blocks that a send, or the ack, failed for

batchVars == <<arrived, mem_pool, curr_batch_len, curr_batch_size, blk_state, next_blk_id>>
recvVars == <<blks_seen, validating, pending>>
headVars == <<inflight_blks, commit_ready, next_to_commit, committed>>
vars == <<batchVars, net, recvVars, new_block, block_ready, acks, headVars, lost>>

Replicas == 1 .. N
Head1 == 1      \* the head of the chain
TxnNumbers == DOMAIN Size

\* The total get_size of a sequence of transactions.
TotalSize(txns) == SumFunction([i \in DOMAIN txns |-> Size[txns[i]]])

Init ==
    /\ arrived = 0
    /\ mem_pool = <<>>
    /\ curr_batch_len = 0
    /\ curr_batch_size = 0
    /\ blk_state = "Working"
    /\ next_blk_id = 1
    /\ net = [n \in Replicas |-> <<>>]
    /\ blks_seen = [n \in Replicas |-> {}]
    /\ validating = [n \in Replicas |-> {}]
    /\ pending = [n \in Replicas |-> <<>>]
    /\ new_block = [n \in Replicas |-> <<>>]
    /\ block_ready = [n \in Replicas |-> <<>>]
    /\ acks = <<>>
    /\ inflight_blks = {}
    /\ commit_ready = {}
    /\ next_to_commit = 1
    /\ committed = <<>>
    /\ lost = {}

----------------------------------------------------------------------------
\* Block management of the head

\* Mutant: a new batch does not wake the preparation of blocks.
RecordNewTxnsAsleep ==
    /\ arrived < Len(Size)
    /\ \E upto \in arrived + 1 .. Len(Size) :
          /\ arrived' = upto
          /\ mem_pool' = mem_pool \o [i \in 1 .. upto - arrived |-> arrived + i]
    /\ UNCHANGED <<curr_batch_len, curr_batch_size, blk_state, next_blk_id, net,
                   recvVars, new_block, block_ready, acks, headVars, lost>>

\* The txn_ready arm: a batch of one or more transactions.
RecordNewTxns ==
    /\ arrived < Len(Size)
    /\ \E upto \in arrived + 1 .. Len(Size) :
          /\ arrived' = upto
          /\ mem_pool' = mem_pool \o [i \in 1 .. upto - arrived |-> arrived + i]
    /\ blk_state' = IF blk_state = "EmptyMempool" THEN "Working" ELSE blk_state
    /\ UNCHANGED <<curr_batch_len, curr_batch_size, next_blk_id, net,
                   recvVars, new_block, block_ready, acks, headVars, lost>>

\* prepare_new_block: take transactions until the block is full or the pool
\* is exhausted.
PrepareNewBlock ==
    /\ blk_state = "Working"
    /\ \E len \in curr_batch_len .. Len(mem_pool) :
          LET size(m) == curr_batch_size
                         + TotalSize(SubSeq(mem_pool, curr_batch_len + 1, m))
          IN  /\ \A m \in curr_batch_len .. len - 1 : size(m) < block_size
              /\ size(len) >= block_size \/ len = Len(mem_pool)
              /\ curr_batch_len' = len
              /\ curr_batch_size' = size(len)
              /\ blk_state' = IF size(len) >= block_size THEN "Full" ELSE "EmptyMempool"
    /\ UNCHANGED <<arrived, mem_pool, next_blk_id, net, recvVars, new_block,
                   block_ready, acks, headVars, lost>>

\* The propose arm: wait_to_propose, get_new_block and the send.
GetNewBlock ==
    /\ curr_batch_size >= block_size
    /\ new_block' = [new_block EXCEPT ![Head1] = Append(@,
                        [id |-> next_blk_id, txns |-> SubSeq(mem_pool, 1, curr_batch_len)])]
    /\ mem_pool' = SubSeq(mem_pool, curr_batch_len + 1, Len(mem_pool))
    /\ curr_batch_len' = 0
    /\ curr_batch_size' = 0
    /\ next_blk_id' = next_blk_id + 1
    /\ blk_state' = "Working"
    /\ UNCHANGED <<arrived, net, recvVars, block_ready, acks, headVars, lost>>

----------------------------------------------------------------------------
\* Block dissemination, and block management of the other replicas

\* Mutant: the block goes to the own decide stage only.
DisseminateLocally(n) ==
    /\ new_block[n] # <<>>
    /\ new_block' = [new_block EXCEPT ![n] = Tail(@)]
    /\ block_ready' = [block_ready EXCEPT ![n] = Append(@, Head(new_block[n]))]
    /\ UNCHANGED <<batchVars, net, recvVars, acks, headVars, lost>>

\* LinearBlockDissemination: to the successor first, to decide afterwards.
Disseminate(n) ==
    /\ new_block[n] # <<>>
    /\ new_block' = [new_block EXCEPT ![n] = Tail(@)]
    /\ block_ready' = [block_ready EXCEPT ![n] = Append(@, Head(new_block[n]))]
    /\ net' = IF n = N THEN net
              ELSE [net EXCEPT ![n + 1] = Append(@, Head(new_block[n]))]
    /\ UNCHANGED <<batchVars, recvVars, acks, headVars, lost>>

\* The send fails: the arm logs and continues, own decide stage included.
DisseminateFails(n) ==
    /\ n # N
    /\ new_block[n] # <<>>
    /\ Cardinality(lost) < MaxLosses
    /\ new_block' = [new_block EXCEPT ![n] = Tail(@)]
    /\ lost' = lost \cup {Head(new_block[n]).id}
    /\ UNCHANGED <<batchVars, net, recvVars, block_ready, acks, headVars>>

\* The peer_blk arm: a block met before is ignored, else a task is spawned.
ReceivePeerBlk(n) ==
    /\ net[n] # <<>>
    /\ net' = [net EXCEPT ![n] = Tail(@)]
    /\ IF Head(net[n]).id \in blks_seen[n] THEN UNCHANGED <<blks_seen, validating>>
       ELSE /\ blks_seen' = [blks_seen EXCEPT ![n] = @ \cup {Head(net[n]).id}]
            /\ validating' = [validating EXCEPT ![n] = @ \cup {Head(net[n])}]
    /\ UNCHANGED <<batchVars, pending, new_block, block_ready, acks, headVars, lost>>

\* A validation task ends; the head only batches valid transactions.
FinishValidation(n) ==
    \E blk \in validating[n] :
        /\ validating' = [validating EXCEPT ![n] = @ \ {blk}]
        /\ pending' = [pending EXCEPT ![n] = Append(@, blk)]
        /\ UNCHANGED <<batchVars, net, blks_seen, new_block, block_ready, acks,
                       headVars, lost>>

\* The pending_blk arm; validate_block accepts every block.
ValidateBlock(n) ==
    /\ pending[n] # <<>>
    /\ pending' = [pending EXCEPT ![n] = Tail(@)]
    /\ new_block' = [new_block EXCEPT ![n] = Append(@, Head(pending[n]))]
    /\ UNCHANGED <<batchVars, net, blks_seen, validating, block_ready, acks,
                   headVars, lost>>

----------------------------------------------------------------------------
\* Decide

\* Mutant: a replica in the middle of the chain acknowledges too.
NewTailAnyAcks(n) ==
    /\ block_ready[n] # <<>>
    /\ block_ready' = [block_ready EXCEPT ![n] = Tail(@)]
    /\ inflight_blks' = IF n = Head1 THEN inflight_blks \cup {Head(block_ready[n])}
                        ELSE inflight_blks
    /\ acks' = IF n # Head1 THEN Append(acks, Head(block_ready[n]).id) ELSE acks
    /\ UNCHANGED <<batchVars, net, recvVars, new_block, commit_ready,
                   next_to_commit, committed, lost>>

\* new_tail by role: the head remembers the block, the tail acknowledges it.
NewTail(n) ==
    /\ block_ready[n] # <<>>
    /\ block_ready' = [block_ready EXCEPT ![n] = Tail(@)]
    /\ inflight_blks' = IF n = Head1 THEN inflight_blks \cup {Head(block_ready[n])}
                        ELSE inflight_blks
    /\ acks' = IF n = N /\ n # Head1 THEN Append(acks, Head(block_ready[n]).id) ELSE acks
    /\ UNCHANGED <<batchVars, net, recvVars, new_block, commit_ready,
                   next_to_commit, committed, lost>>

\* The tail's ack cannot be sent.
NewTailAckFails ==
    /\ N # Head1
    /\ block_ready[N] # <<>>
    /\ Cardinality(lost) < MaxLosses
    /\ block_ready' = [block_ready EXCEPT ![N] = Tail(@)]
    /\ lost' = lost \cup {Head(block_ready[N]).id}
    /\ UNCHANGED <<batchVars, net, recvVars, new_block, acks, headVars>>

Inflight == {blk.id : blk \in inflight_blks}

\* handle_peer_msg at the head: an ack for a block that is not in flight is
\* logged and forgotten.
HandlePeerMsg ==
    /\ acks # <<>>
    /\ acks' = Tail(acks)
    /\ IF Head(acks) \in Inflight
       THEN commit_ready' = commit_ready \cup {Head(acks)} /\ UNCHANGED lost
       ELSE lost' = lost \cup {Head(acks)} /\ UNCHANGED commit_ready
    /\ UNCHANGED <<batchVars, net, recvVars, new_block, block_ready,
                   inflight_blks, next_to_commit, committed>>

\* Mutant: commits whatever is ready.
NextToCommitAny ==
    \E blk \in inflight_blks :
        /\ blk.id \in commit_ready
        /\ commit_ready' = commit_ready \ {blk.id}
        /\ inflight_blks' = inflight_blks \ {blk}
        /\ committed' = Append(committed, blk)
        /\ next_to_commit' = next_to_commit + 1
        /\ UNCHANGED <<batchVars, net, recvVars, new_block, block_ready, acks, lost>>

\* The commit arm: commit_ready and next_to_commit.
NextToCommit ==
    /\ next_to_commit \in commit_ready
    /\ commit_ready' = commit_ready \ {next_to_commit}
    /\ \E blk \in inflight_blks :
          /\ blk.id = next_to_commit
          /\ inflight_blks' = inflight_blks \ {blk}
          /\ committed' = Append(committed, blk)
    /\ next_to_commit' = next_to_commit + 1
    /\ UNCHANGED <<batchVars, net, recvVars, new_block, block_ready, acks, lost>>

----------------------------------------------------------------------------
NodeStep(n) ==
    \/ Disseminate(n)
    \/ DisseminateFails(n)
    \/ ReceivePeerBlk(n)
    \/ FinishValidation(n)
    \/ ValidateBlock(n)
    \/ NewTail(n)

Next ==
    \/ RecordNewTxns
    \/ PrepareNewBlock
    \/ GetNewBlock
    \/ \E n \in Replicas : NodeStep(n)
    \/ NewTailAckFails
    \/ HandlePeerMsg
    \/ NextToCommit

Spec == Init /\ [][Next]_vars

\* Every stage is a task that tokio keeps polling, and what the mailbox has
\* accepted it delivers.
Fairness ==
    /\ WF_vars(PrepareNewBlock)
    /\ WF_vars(GetNewBlock)
    /\ \A n \in Replicas :
          /\ WF_vars(Disseminate(n) \/ DisseminateFails(n))
          /\ WF_vars(ReceivePeerBlk(n))
          /\ WF_vars(FinishValidation(n))
          /\ WF_vars(ValidateBlock(n))
          /\ WF_vars(NewTail(n))
    /\ WF_vars(HandlePeerMsg)
    /\ WF_vars(NextToCommit)

FairSpec == Spec /\ Fairness

----------------------------------------------------------------------------
\* Properties

BlockIds == 1 .. Len(Size)

\* The head commits the blocks 1, 2, 3, ... without a gap, and with them the
\* transactions in the order of their arrival, although replicas may pass
\* blocks on in another order (next_to_commit, get_new_block).
CommittedInOrder ==
    /\ \A i \in DOMAIN committed : committed[i].id = i
    /\ LET log == FlattenSeq([i \in DOMAIN committed |-> committed[i].txns])
       IN  \A i \in DOMAIN log : log[i] = i

\* The promise of chain replication: a block is committed at the head only
\* after every replica has received it.
CommittedIsReplicated ==
    \A i \in DOMAIN committed : \A n \in Replicas \ {Head1} :
        committed[i].id \in blks_seen[n]

\* A mem_pool that can fill a block does not stay so: no wake-up of
\* prepare_new_block or wait_to_propose is missed.
FullBlocksLeave == []<>(TotalSize(mem_pool) < block_size)

\* Every block is committed, unless it or an earlier one was lost to a failed
\* send or to an ack that found no block in flight.  This is about chains of
\* two or more: a head that is its own tail sends no ack and commits nothing.
CommitsUnlessLost ==
    \A b \in BlockIds :
        next_blk_id > b ~> (next_to_commit > b \/ \E l \in lost : l <= b)
=============================================================================
