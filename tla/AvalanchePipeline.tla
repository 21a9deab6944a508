------------------------- MODULE AvalanchePipeline -------------------------
(***************************************************************************)
(* The block pipeline of one Avalanche node, as the stages of node.rs pass *)
(* a block around:                                                         *)
(*                                                                         *)
(*   pacemaker -> block management -> block dissemination -> decide        *)
(*       ^                                                     |           *)
(*       +-------------------- feedback -----------------------+           *)
(*                                                                         *)
(* The pacemaker keeps at most MaxInflight of the node's own blocks in     *)
(* flight.  A block polls K - 1 sampled peers and the node itself; decide  *)
(* closes the poll when all K votes are in or when the vote timer fires.   *)
(* What a vote says about a transaction is left to AvalancheDecide: here a *)
(* vote only counts.  Blocks proposed by other nodes take no quota and are *)
(* left out.                                                               *)
(***************************************************************************)
EXTENDS Integers, Sequences, FiniteSets

CONSTANTS
    MaxInflight,    \* max_inflight_blk of the configuration
    K,              \* sample size k, the node itself included
    Peers,          \* neighbours of the node
    MaxBlk,         \* bound: own blocks proposed in a behaviour
    MaxDrops        \* bound: blocks lost to a failed dissemination

ASSUME InflightAssumption == MaxInflight \in Nat \ {0}
\* NodeConfig::validate clamps k to the number of neighbours plus one.
ASSUME SampleAssumption ==
    /\ K \in Nat \ {0}
    /\ IsFiniteSet(Peers)
    /\ K - 1 <= Cardinality(Peers)
ASSUME BoundAssumption == MaxBlk \in Nat /\ MaxDrops \in Nat

VARIABLES
    pmaker_quota,       \* FixedInflightBlkPaceMaker.quota
    pacemaker_pipe,     \* propose messages (all empty) on their way
    blk_quota,          \* AvalancheBlockManagement.blk_quota
    blk_counter,        \* AvalancheBlockManagement.blk_counter
    new_block_pipe,     \* block management -> block dissemination
    block_ready_pipe,   \* block dissemination -> decide
    polled,             \* polled[b]: sampled peers whose vote is still out
    query_pool,         \* own blocks under poll in decide
    votes,              \* votes received; 0 stands for an absent map entry
    finished_query,     \* polls that were closed
    vote_timeouts,      \* blocks with an entry in vote_timeout_queue
    commit_queue,       \* closed polls not yet handed to the commit stage
    commit_pipe,        \* everything handed to the commit stage
    feedback_pipe,      \* feedback messages on their way to the pacemaker
    dropped             \* blocks whose dissemination failed

vars == <<pmaker_quota, pacemaker_pipe, blk_quota, blk_counter,
          new_block_pipe, block_ready_pipe, polled, query_pool, votes,
          finished_query, vote_timeouts, commit_queue, commit_pipe,
          feedback_pipe, dropped>>

pmakerVars == <<pmaker_quota, pacemaker_pipe>>
blkMgmtVars == <<blk_quota, blk_counter>>
decideVars == <<query_pool, votes, finished_query, vote_timeouts,
                commit_queue, feedback_pipe>>

Blocks == 1 .. MaxBlk

Init ==
    /\ pmaker_quota = MaxInflight
    /\ pacemaker_pipe = 0
    /\ blk_quota = 0
    /\ blk_counter = 0
    /\ new_block_pipe = <<>>
    /\ block_ready_pipe = <<>>
    /\ polled = [b \in Blocks |-> {}]
    /\ query_pool = {}
    /\ votes = [b \in Blocks |-> 0]
    /\ finished_query = {}
    /\ vote_timeouts = {}
    /\ commit_queue = <<>>
    /\ commit_pipe = <<>>
    /\ feedback_pipe = 0
    /\ dropped = {}

----------------------------------------------------------------------------
\* Pacemaker

\* The propose arm of pacemaker_thread: wait_to_propose passes while quota is
\* left; get_propose_msg takes one unit and the message goes down the pipe.
PmakerPropose ==
    /\ pmaker_quota > 0
    /\ pmaker_quota' = pmaker_quota - 1
    /\ pacemaker_pipe' = pacemaker_pipe + 1
    /\ UNCHANGED <<blkMgmtVars, new_block_pipe, block_ready_pipe, polled,
                   decideVars, commit_pipe, dropped>>

\* The feedback arm of pacemaker_thread.
HandleFeedback ==
    /\ feedback_pipe > 0
    /\ feedback_pipe' = feedback_pipe - 1
    /\ pmaker_quota' = pmaker_quota + 1
    /\ UNCHANGED <<pacemaker_pipe, blkMgmtVars, new_block_pipe,
                   block_ready_pipe, polled, query_pool, votes,
                   finished_query, vote_timeouts, commit_queue, commit_pipe,
                   dropped>>

----------------------------------------------------------------------------
\* Block management and dissemination

HandlePmakerMsg ==
    /\ pacemaker_pipe > 0
    /\ pacemaker_pipe' = pacemaker_pipe - 1
    /\ blk_quota' = blk_quota + 1
    /\ UNCHANGED <<pmaker_quota, blk_counter, new_block_pipe,
                   block_ready_pipe, polled, decideVars, commit_pipe, dropped>>

\* wait_to_propose lets a non-empty batch through once there is quota; the
\* batch itself is the business of AvalancheBlockManagement.
GetNewBlock ==
    /\ blk_quota > 0
    /\ blk_counter < MaxBlk
    /\ blk_quota' = blk_quota - 1
    /\ blk_counter' = blk_counter + 1
    /\ new_block_pipe' = Append(new_block_pipe, blk_counter + 1)
    /\ UNCHANGED <<pmakerVars, block_ready_pipe, polled, decideVars,
                   commit_pipe, dropped>>

\* The block goes to K - 1 sampled peers first and to decide afterwards, so a
\* peer may answer before decide has seen the block.
Disseminate ==
    /\ new_block_pipe # <<>>
    /\ \E sample \in SUBSET Peers :
          /\ Cardinality(sample) = K - 1
          /\ polled' = [polled EXCEPT ![Head(new_block_pipe)] = sample]
    /\ block_ready_pipe' = Append(block_ready_pipe, Head(new_block_pipe))
    /\ new_block_pipe' = Tail(new_block_pipe)
    /\ UNCHANGED <<pmakerVars, blkMgmtVars, decideVars, commit_pipe, dropped>>

\* disseminate returns an error: the arm logs it and continues, and the block
\* never reaches decide.  Some of the sample may have been sent the block.
DisseminateFails ==
    /\ new_block_pipe # <<>>
    /\ Cardinality(dropped) < MaxDrops
    /\ \E sample \in SUBSET Peers :
          /\ Cardinality(sample) < K - 1
          /\ polled' = [polled EXCEPT ![Head(new_block_pipe)] = sample]
    /\ dropped' = dropped \cup {Head(new_block_pipe)}
    /\ new_block_pipe' = Tail(new_block_pipe)
    /\ UNCHANGED <<pmakerVars, blkMgmtVars, block_ready_pipe, decideVars,
                   commit_pipe>>

----------------------------------------------------------------------------
\* Decide

\* Mutant of CloseQuery: the timer entry is left behind.
CloseQueryKeepsTimer(b, pool, timers) ==
    /\ query_pool' = pool \ {b}
    /\ votes' = [votes EXCEPT ![b] = 0]
    /\ finished_query' = finished_query \cup {b}
    /\ vote_timeouts' = timers
    /\ commit_queue' = Append(commit_queue, b)
    /\ feedback_pipe' = feedback_pipe + 1

\* Mutant of CloseQuery: the pacemaker gets no feedback.
CloseQueryNoFeedback(b, pool, timers) ==
    /\ query_pool' = pool \ {b}
    /\ votes' = [votes EXCEPT ![b] = 0]
    /\ finished_query' = finished_query \cup {b}
    /\ vote_timeouts' = timers \ {b}
    /\ commit_queue' = Append(commit_queue, b)
    /\ UNCHANGED feedback_pipe

\* handle_votes of a block in query_pool, reached with `pool' and `timers' as
\* the open polls and armed timers: the poll is closed, its votes and timer
\* entries go, a commit entry is queued and the pacemaker is told.
CloseQuery(b, pool, timers) ==
    /\ query_pool' = pool \ {b}
    /\ votes' = [votes EXCEPT ![b] = 0]
    /\ finished_query' = finished_query \cup {b}
    /\ vote_timeouts' = timers \ {b}
    /\ commit_queue' = Append(commit_queue, b)
    /\ feedback_pipe' = feedback_pipe + 1

\* record_votes: a late vote for a finished poll is ignored; the K-th vote
\* runs handle_votes, which returns at once when the poll is not open.
RecordVotes(b, pool, timers) ==
    IF b \notin finished_query /\ votes[b] + 1 >= K /\ b \in pool
    THEN CloseQuery(b, pool, timers)
    ELSE /\ votes' = IF b \in finished_query THEN votes
                     ELSE [votes EXCEPT ![b] = @ + 1]
         /\ query_pool' = pool
         /\ vote_timeouts' = timers
         /\ UNCHANGED <<finished_query, commit_queue, feedback_pipe>>

\* new_tail of an own block: the poll opens, its timer is armed and the
\* node's own votes are recorded.
NewTail ==
    /\ block_ready_pipe # <<>>
    /\ block_ready_pipe' = Tail(block_ready_pipe)
    /\ LET b == Head(block_ready_pipe)
       IN RecordVotes(b, query_pool \cup {b}, vote_timeouts \cup {b})
    /\ UNCHANGED <<pmakerVars, blkMgmtVars, new_block_pipe, polled,
                   commit_pipe, dropped>>

\* A sampled peer's vote arrives.  Votes of different peers are unordered,
\* and a vote may never come.
HandlePeerMsg(p, b) ==
    /\ p \in polled[b]
    /\ polled' = [polled EXCEPT ![b] = @ \ {p}]
    /\ RecordVotes(b, query_pool, vote_timeouts)
    /\ UNCHANGED <<pmakerVars, blkMgmtVars, new_block_pipe, block_ready_pipe,
                   commit_pipe, dropped>>

\* Mutant of HandleTimeout: the expired entry is popped and the poll left open.
HandleTimeoutPopsOnly(b) ==
    /\ b \in vote_timeouts
    /\ \A c \in vote_timeouts : b <= c
    /\ vote_timeouts' = vote_timeouts \ {b}
    /\ UNCHANGED <<pmakerVars, blkMgmtVars, new_block_pipe, block_ready_pipe,
                   polled, query_pool, votes, finished_query, commit_queue,
                   commit_pipe, feedback_pipe, dropped>>

\* The vote timer at the front of the queue fires.  All timers run for the
\* same vote_timeout and blocks enter decide in the order of their ids, so
\* the front is the smallest id.
HandleTimeout(b) ==
    /\ b \in vote_timeouts
    /\ \A c \in vote_timeouts : b <= c
    /\ IF b \in finished_query \/ b \notin query_pool
       THEN /\ vote_timeouts' = vote_timeouts \ {b}
            /\ UNCHANGED <<query_pool, votes, finished_query, commit_queue,
                           feedback_pipe>>
       ELSE CloseQuery(b, query_pool, vote_timeouts)
    /\ UNCHANGED <<pmakerVars, blkMgmtVars, new_block_pipe, block_ready_pipe,
                   polled, commit_pipe, dropped>>

\* Mutant of NextToCommit: the entry stays in the queue.
NextToCommitKeepsEntry ==
    /\ commit_queue # <<>>
    /\ commit_pipe' = Append(commit_pipe, Head(commit_queue))
    /\ UNCHANGED <<pmakerVars, blkMgmtVars, new_block_pipe, block_ready_pipe,
                   polled, decideVars, dropped>>

NextToCommit ==
    /\ commit_queue # <<>>
    /\ commit_queue' = Tail(commit_queue)
    /\ commit_pipe' = Append(commit_pipe, Head(commit_queue))
    /\ UNCHANGED <<pmakerVars, blkMgmtVars, new_block_pipe, block_ready_pipe,
                   polled, query_pool, votes, finished_query, vote_timeouts,
                   feedback_pipe, dropped>>

Next ==
    \/ PmakerPropose
    \/ HandleFeedback
    \/ HandlePmakerMsg
    \/ GetNewBlock
    \/ Disseminate
    \/ DisseminateFails
    \/ NewTail
    \/ \E b \in Blocks, p \in Peers : HandlePeerMsg(p, b)
    \/ \E b \in Blocks : HandleTimeout(b)
    \/ NextToCommit

Spec == Init /\ [][Next]_vars

\* Every stage is a task that tokio keeps polling and every armed timer
\* expires; peers owe nothing, and transactions may stop coming in.
Fairness ==
    /\ WF_vars(PmakerPropose)
    /\ WF_vars(HandleFeedback)
    /\ WF_vars(HandlePmakerMsg)
    /\ WF_vars(Disseminate \/ DisseminateFails)
    /\ WF_vars(NewTail)
    /\ WF_vars(\E b \in Blocks : HandleTimeout(b))
    /\ WF_vars(NextToCommit)

FairSpec == Spec /\ Fairness

----------------------------------------------------------------------------
\* Properties

\* The values each stage's fields and pipes range over.
TypeOK ==
    /\ pmaker_quota \in 0 .. MaxInflight
    /\ pacemaker_pipe \in 0 .. MaxInflight
    /\ blk_quota \in 0 .. MaxInflight
    /\ blk_counter \in 0 .. MaxBlk
    /\ new_block_pipe \in Seq(Blocks)
    /\ block_ready_pipe \in Seq(Blocks)
    /\ polled \in [Blocks -> SUBSET Peers]
    /\ query_pool \subseteq Blocks
    /\ votes \in [Blocks -> 0 .. K]
    /\ finished_query \subseteq Blocks
    /\ vote_timeouts \subseteq Blocks
    /\ commit_queue \in Seq(Blocks)
    /\ commit_pipe \in Seq(Blocks)
    /\ feedback_pipe \in 0 .. MaxInflight
    /\ dropped \subseteq Blocks

\* Quota is neither minted nor lost: every unit of max_inflight_blk is with
\* the pacemaker, with block management, in a pipe, with a block on its way
\* to decide or under poll, or was burnt by a failed dissemination (whose
\* error path sends no feedback).  `quota - 1' therefore never underflows and
\* no more than max_inflight_blk own blocks are undecided at any time.
QuotaConserved ==
    pmaker_quota + pacemaker_pipe + blk_quota + Len(new_block_pipe)
      + Len(block_ready_pipe) + Cardinality(query_pool) + feedback_pipe
      + Cardinality(dropped) = MaxInflight

\* What handle_votes relies on: an open poll has a votes entry (the unwrap of
\* votes.remove cannot fail), has not been left open with all K votes in, and
\* has a timer that will close it.  What record_votes promises: a closed poll
\* keeps no votes entry and no timer, however late its votes come.
PollBookkeeping ==
    /\ \A b \in query_pool : votes[b] \in 1 .. K - 1 /\ b \in vote_timeouts
    /\ \A b \in finished_query :
          votes[b] = 0 /\ b \notin vote_timeouts /\ b \notin query_pool

\* The commit stage gets exactly one entry for every closed poll, whichever
\* of the last vote and the timer closes it first.
CommittedOnce ==
    LET log == commit_pipe \o commit_queue
    IN  /\ \A i, j \in 1 .. Len(log) : log[i] = log[j] => i = j
        /\ {log[i] : i \in 1 .. Len(log)} = finished_query

\* Every proposed block is handed to the commit stage or was lost to a failed
\* dissemination, even if no sampled peer ever votes.
EveryBlockSettles ==
    \A b \in Blocks :
        b <= blk_counter ~>
            (b \in dropped \/ \E i \in 1 .. Len(commit_pipe) : commit_pipe[i] = b)

\* Seen from its neighbours, decide opens one poll per own block, closes each
\* once and hands them on in the order they closed, whether the votes or the
\* timer close them: the pipeline implements PollRounds, progress included.
PollsMapped == INSTANCE PollRounds WITH
    open <- query_pool, closed <- commit_queue, handed <- commit_pipe
PollsKept == PollsMapped!PollSpec

\* Block management gets quota again and again, unless failed disseminations
\* have burnt all of it.
QuotaReturns == []<>(blk_quota > 0 \/ Cardinality(dropped) >= MaxInflight)
=============================================================================
