-------------------------- MODULE AvalancheDecide ---------------------------
(***************************************************************************)
(* The decide stage of an Avalanche node: it votes on the blocks it is     *)
(* asked about, polls its own blocks, closes a poll when all answers are   *)
(* in or its timer fires, and hands what was accepted to the commit stage. *)
(* The configuration names the variant: basic and Blizzard, whose handlers *)
(* are the same but for what AvalancheVotes tells apart, or VoteNo, a node *)
(* that answers no to every question, proposes nothing and so decides      *)
(* nothing.                                                                *)
(*                                                                         *)
(* The environment: the node's own blocks come in the order block          *)
(* management proposed them (a parent never after its child), blocks of    *)
(* peers come in any order, and the peers polled about an own block answer *)
(* as they like, once each, early, late or never.                          *)
(***************************************************************************)
EXTENDS AvalancheVotes

CONSTANTS
    Variants,       \* the variants to choose from
    OwnBatches,     \* the transactions of the node's own blocks, in order
    PeerBatches,    \* PeerBatches[q]: what the block q of a peer asks about
    k,
    BlizzardOwnBatches, BlizzardPeerBatches, bk,    \* the same for Blizzard
    MaxInflight     \* max_inflight_blk: own blocks undecided at a time

ASSUME ParameterAssumption ==
    /\ vote_thresh <= k /\ k \in Nat /\ MaxInflight \in Nat \ {0}
    /\ bvote_thresh <= bk /\ bk \in Nat
    /\ OwnBatches \in Seq(Seq(Txns)) /\ BlizzardOwnBatches \in Seq(Seq(Txns))
    /\ Len(BlizzardOwnBatches) = Len(OwnBatches)
    /\ \A q \in DOMAIN PeerBatches : PeerBatches[q] \in Seq(Txns \cup {PlaceHolder})
    /\ \A q \in DOMAIN BlizzardPeerBatches :
          BlizzardPeerBatches[q] \in Seq(Txns \cup {PlaceHolder})

VARIABLES
    txn_pool,           \* recorded transactions
    txn_dag,            \* undecided transactions and their children
    conflict_sets,      \* utxo -> [has_conflicts, pref, ...]
    confidence,
    preference_cache,
    query_pool,         \* own block -> transactions under poll
    finished_query,
    votes,              \* own block -> [received, accept]
    vote_time_queue,
    commit_queue,       \* [blk, txns], closed polls to be handed on
    commit_pipe,        \* what was handed to the commit stage
    feedback,           \* feedback messages sent to the pacemaker
    own_seen,           \* own blocks that have reached decide
    awaited,            \* polled peers whose vote is still out, per own block
    vote_msgs           \* peer's block -> the vote sent to its proposer

viewVars == <<txn_pool, txn_dag, conflict_sets, confidence, preference_cache>>
pollVars == <<query_pool, finished_query, votes, vote_time_queue,
              commit_queue, feedback>>
vars == <<variant, viewVars, pollVars, commit_pipe, own_seen, awaited, vote_msgs>>

OwnBlocks == DOMAIN OwnBatches
OwnTxns(b) == IF IsBlizzard THEN BlizzardOwnBatches[b] ELSE OwnBatches[b]
Asked == IF IsBlizzard THEN BlizzardPeerBatches ELSE PeerBatches
Voters == IF IsBlizzard THEN bk ELSE k
Empty == [x \in {} |-> x]

Init ==
    /\ variant \in Variants
    /\ txn_pool = {}
    /\ txn_dag = Empty
    /\ conflict_sets = Empty
    /\ confidence = Empty
    /\ preference_cache = Empty
    /\ query_pool = Empty
    /\ finished_query = {}
    /\ votes = Empty
    /\ vote_time_queue = <<>>
    /\ commit_queue = <<>>
    /\ commit_pipe = <<>>
    /\ feedback = 0
    /\ own_seen = 0
    /\ awaited = [b \in OwnBlocks |-> Voters - 1]
    /\ vote_msgs = Empty

\* The node's view of the transactions, as the handlers thread it through.
View == [pool |-> txn_pool, dag |-> txn_dag, cs |-> conflict_sets,
         conf |-> confidence, cache |-> preference_cache]

SetView(v) ==
    /\ txn_pool' = v.pool
    /\ txn_dag' = v.dag
    /\ conflict_sets' = v.cs
    /\ confidence' = v.conf
    /\ preference_cache' = v.cache

\* handle_votes of a block with an entry in `pool' (query_pool) and the vote
\* entry `tally'.
HandleVotes(b, v, pool, tally, queue) ==
    LET outcome == Settle(v, pool[b], tally.accept)
    IN  /\ SetView(outcome.view)
        /\ query_pool' = Restrict(pool, DOMAIN pool \ {b})
        /\ votes' = Restrict(votes, DOMAIN votes \ {b})
        /\ finished_query' = finished_query \cup {b}
        /\ vote_time_queue' = SelectSeq(queue, LAMBDA x : x # b)
        /\ commit_queue' = Append(commit_queue, [blk |-> b, txns |-> outcome.list])
        /\ feedback' = feedback + 1

\* record_votes, after the check that the poll is not finished.
RecordVotes(b, ballot, v, pool, queue) ==
    LET old == IF b \in DOMAIN votes THEN votes[b]
               ELSE [received |-> 0, accept |-> [i \in DOMAIN ballot |-> 0]]
        tally == [received |-> old.received + 1,
                  accept |-> [i \in DOMAIN ballot |->
                                 old.accept[i] + (IF ballot[i] THEN 1 ELSE 0)]]
    IN  IF tally.received >= Voters /\ b \in DOMAIN pool
        THEN HandleVotes(b, v, pool, tally, queue)
        ELSE /\ votes' = Insert(votes, b, tally)
             /\ SetView(v)
             /\ query_pool' = pool
             /\ vote_time_queue' = queue
             /\ UNCHANGED <<finished_query, commit_queue, feedback>>

----------------------------------------------------------------------------
\* Handlers

\* new_tail of an own block.
NewTailOwn ==
    /\ own_seen < Len(OwnBatches)
    /\ own_seen < Cardinality(finished_query) + MaxInflight
    /\ own_seen' = own_seen + 1
    /\ LET b == own_seen + 1
           done == VoteOnTxns(View, OwnTxns(b))
       IN  RecordVotes(b, done.votes, done.view, Insert(query_pool, b, OwnTxns(b)),
                       Append(vote_time_queue, b))
    /\ UNCHANGED <<commit_pipe, awaited, vote_msgs>>

\* new_tail of a peer's block: the vote goes back to the proposer.
NewTailPeer(q) ==
    /\ q \notin DOMAIN vote_msgs
    /\ LET done == VoteOnTxns(View, Asked[q])
       IN  /\ SetView(done.view)
           /\ vote_msgs' = Insert(vote_msgs, q, done.votes)
    /\ UNCHANGED <<pollVars, commit_pipe, own_seen, awaited>>

\* A polled peer's vote arrives, possibly before decide has the block.
HandlePeerMsg(b) ==
    /\ awaited[b] > 0
    /\ b <= Cardinality(finished_query) + MaxInflight
    /\ awaited' = [awaited EXCEPT ![b] = @ - 1]
    /\ IF b \in finished_query THEN UNCHANGED <<viewVars, pollVars>>
       ELSE \E ballot \in [DOMAIN OwnTxns(b) -> BOOLEAN] :
               RecordVotes(b, ballot, View, query_pool, vote_time_queue)
    /\ UNCHANGED <<commit_pipe, own_seen, vote_msgs>>

\* The oldest vote timer fires.
HandleTimeout ==
    /\ vote_time_queue # <<>>
    /\ LET b == Head(vote_time_queue)
           queue == Tail(vote_time_queue)
       IN  IF b \in finished_query \/ b \notin DOMAIN query_pool
           THEN /\ vote_time_queue' = queue
                /\ UNCHANGED <<viewVars, query_pool, finished_query, votes,
                               commit_queue, feedback>>
           ELSE HandleVotes(b, View, query_pool, votes[b], queue)
    /\ UNCHANGED <<commit_pipe, own_seen, awaited, vote_msgs>>

\* Mutant: the newest entry goes first.
NextToCommitNewest ==
    /\ commit_queue # <<>>
    /\ commit_queue' = SubSeq(commit_queue, 1, Len(commit_queue) - 1)
    /\ commit_pipe' = Append(commit_pipe, commit_queue[Len(commit_queue)])
    /\ UNCHANGED <<viewVars, query_pool, finished_query, votes, vote_time_queue,
                   feedback, own_seen, awaited, vote_msgs>>

NextToCommit ==
    /\ commit_queue # <<>>
    /\ commit_queue' = Tail(commit_queue)
    /\ commit_pipe' = Append(commit_pipe, Head(commit_queue))
    /\ UNCHANGED <<viewVars, query_pool, finished_query, votes, vote_time_queue,
                   feedback, own_seen, awaited, vote_msgs>>

\* VoteNo: new_tail of a peer's block.
VoteNo(q) ==
    /\ q \notin DOMAIN vote_msgs
    /\ vote_msgs' = Insert(vote_msgs, q, [i \in DOMAIN PeerBatches[q] |-> FALSE])
    /\ UNCHANGED <<viewVars, pollVars, commit_pipe, own_seen, awaited>>

Handle ==
    \/ NewTailOwn
    \/ \E q \in DOMAIN Asked : NewTailPeer(q)
    \/ \E b \in OwnBlocks : HandlePeerMsg(b)
    \/ HandleTimeout
    \/ NextToCommit

Next ==
    /\ \/ variant # "vote_no" /\ Handle
       \/ variant = "vote_no" /\ \E q \in DOMAIN PeerBatches : VoteNo(q)
    /\ UNCHANGED variant

Spec == Init /\ [][Next]_vars

----------------------------------------------------------------------------
\* Properties

Spenders(u) == {t \in txn_pool : u \in Utxos(t)}
Handed == commit_pipe \o commit_queue
AcceptedTxns == FlattenSeq([i \in DOMAIN Handed |-> Handed[i].txns])

\* The preferred spender of a utxo is one of highest confidence among the
\* recorded spenders (the switch in handle_votes_helper), through any order
\* of polls, and also when the rivals are decided meanwhile.
PrefHasMaxConfidence ==
    \A u \in DOMAIN conflict_sets : \A t \in Spenders(u) :
        confidence[t] <= confidence[conflict_sets[u].pref]

\* Every success of a transaction also counts for its undecided parents
\* (the recursion of handle_votes_helper), so an undecided parent is never
\* less confident than a child recorded after it.
AncestorsLead ==
    \A p \in DOMAIN txn_dag : \A c \in txn_dag[p] : confidence[c] <= confidence[p]

\* The lists handed to the commit stage hold each accepted transaction once,
\* and no other: whatever left the DAG was committed, in one block only,
\* although several polls reach the same ancestor.
AcceptedOnce ==
    /\ IsInjective(AcceptedTxns)
    /\ Range(AcceptedTxns) = txn_pool \ DOMAIN txn_dag

\* Each own block opens one poll, closes it once, by the last vote or by the
\* timer, and is handed on in the order of closing (record_votes,
\* handle_timeout, next_to_commit): decide implements PollRounds.
PollsMapped == INSTANCE PollRounds WITH
    Blocks <- OwnBlocks,
    open <- DOMAIN query_pool,
    closed <- [i \in DOMAIN commit_queue |-> commit_queue[i].blk],
    handed <- [i \in DOMAIN commit_pipe |-> commit_pipe[i].blk]
PollsKept == PollsMapped!PollSafety

\* In Blizzard, total_rounds is the sum of the confidence of the spenders
\* recorded so far, as its declaration says, whichever of them were accepted
\* or recorded late; so conflict_count in handle_votes_helper, a difference
\* of unsigned numbers, never underflows.
RoundsSumConfidence ==
    IsBlizzard => \A u \in DOMAIN conflict_sets :
        conflict_sets[u].total_rounds = SumOver(confidence, Spenders(u))

\* In Blizzard, accepting a second spender of a utxo takes a confidence that
\* leads the one accepted before it, early commitment or not, by beta2 (the
\* test for acceptance in handle_votes_helper).
AcceptedRivalsFarApart ==
    IsBlizzard => \A u \in DOMAIN conflict_sets :
        \A s, t \in Spenders(u) \ DOMAIN txn_dag :
            s # t => \/ confidence[s] >= bbeta2 + confidence[t]
                     \/ confidence[t] >= bbeta2 + confidence[s]

\* When a utxo changes its preferred spender from `old', no cached answer
\* remains for `old' or its offspring (the comment at the switch in
\* handle_votes_helper: "invalidate preference cache for ct.pref, next_txn
\* and their offsprings").
DisplacedInvalidated ==
    [][\A u \in DOMAIN conflict_sets :
          conflict_sets'[u].pref # conflict_sets[u].pref =>
              Offspring(txn_dag', conflict_sets[u].pref)
                  \cap DOMAIN preference_cache' = {}]_vars
=============================================================================
