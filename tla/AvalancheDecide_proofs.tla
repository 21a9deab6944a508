----------------------- MODULE AvalancheDecide_proofs -----------------------
(***************************************************************************)
(* The properties of AvalancheDecide, for every choice of the constants.   *)
(*                                                                         *)
(* First what the loops of AvalancheVotes do to a view, in the terms of    *)
(* AvalancheDag_proofs; then that every handler takes a step of one of the *)
(* kinds listed there (Kinds); then the inductive invariant DecideInv, the *)
(* invariants of the runs, which follow from it, and the refinement of     *)
(* PollRounds.                                                             *)
(***************************************************************************)
EXTENDS AvalancheDecide, AvalancheDag_proofs

----------------------------------------------------------------------------
\* What the handlers do to a view

\* One transaction of handle_votes_helper: confidence, preference, the list.
LEMMA SupportEffect ==
    ASSUME NEW acc, NEW t
    PROVE  Supported(acc.view, Support(acc, t).view, t) /\ Listed(acc, Support(acc, t), t)
<1>1. Listed(acc, Support(acc, t), t)
  BY ZenonT(30) DEF Support, Listed
<1>2. Supported(acc.view, Support(acc, t).view, t)
  BY ZenonT(30) DEF Support, Supported, Overtakes, Overtaken, CountSuccess, BlizzardCountSuccess
<1> QED
  BY <1>1, <1>2

\* In Blizzard it counts a round for each input, and accepts only what leads
\* the rounds of its rivals.
LEMMA CountsRoundEffect ==
    ASSUME IsBlizzard, NEW acc, NEW t, Counted(acc.view), Shape(acc.view), IsFiniteSet(acc.view.pool)
    PROVE  CountsRound(acc.view, Support(acc, t).view, t, bbeta2)
<1>1. PICK v, w : v = acc.view /\ w = Support(acc, t).view
  OBVIOUS
<1>2. \A u \in DOMAIN v.cs :
         /\ w.cs[u].has_conflicts = v.cs[u].has_conflicts
         /\ w.cs[u].total_rounds = IF u \in Utxos(t) THEN v.cs[u].total_rounds + 1 ELSE v.cs[u].total_rounds
  BY <1>1, ZenonT(30) DEF Support, BlizzardCountSuccess
<1>3. \A u \in DOMAIN v.cs : v.cs[u].total_rounds \in Nat
  <2> SUFFICES ASSUME NEW u \in DOMAIN v.cs PROVE SumOver(v.conf, Spends(v, u)) \in Nat
    BY <1>1, Zenon DEF Counted
  <2>1. IsFiniteSet(Spends(v, u)) /\ \A x \in Spends(v, u) : v.conf[x] \in Nat
    BY <1>1, SpendsType
  <2> QED
    BY <2>1, SumOverAtLeast, ZenonT(30)
<1>4. ASSUME t \in DOMAIN v.dag, t \notin DOMAIN w.dag
      PROVE  Overcomes(w.cs, t, v.conf[t] + 1, bbeta2)
  <2>1. PICK score : score = v.conf[t] + 1
    OBVIOUS
  <2>2. ~ BlizzardIsAccepted(v.dag, w.cs, t, score) => w.dag = v.dag
    BY <1>1, <2>1, Zenon DEF Support
  <2>3. ASSUME NEW u \in Utxos(t), w.cs[u].has_conflicts = TRUE
        PROVE  score >= bbeta2 + RivalRounds(w.cs, t, score)
    BY <1>4, <2>2, <2>3 DEF BlizzardIsAccepted, IsEarly
  <2> QED
    BY <2>1, <2>3, Zenon DEF Overcomes, RivalRounds
<1>5. \A u \in DOMAIN v.cs :
         w.cs[u].total_rounds = v.cs[u].total_rounds + (IF u \in Utxos(t) THEN 1 ELSE 0)
  BY <1>2, <1>3
<1> QED
  BY <1>1, <1>2, <1>4, <1>5, Zenon DEF CountsRound

\* new_tail's records for a transaction.
LEMMA RecordEffect ==
    ASSUME NEW v, NEW t, t \notin v.pool
    PROVE  Recorded(v, RecordTxn(v, t), t) /\ (IsBlizzard => JoinsRounds(v, RecordTxn(v, t), t))
<1>1. PICK w : w = RecordTxn(v, t)
  OBVIOUS
<1>2. /\ w.pool = v.pool \cup {t} /\ w.dag = AddNode(v.dag, t) /\ w.conf = Insert(v.conf, t, 0)
      /\ w.cs = Joined(v.cs, t)
  BY <1>1 DEF RecordTxn
<1>3. /\ DOMAIN w.cs = DOMAIN v.cs \cup Utxos(t)
      /\ \A u \in DOMAIN w.cs : w.cs[u].pref = IF u \in DOMAIN v.cs THEN v.cs[u].pref ELSE t
  BY <1>2 DEF Joined, JoinConflictSet, BlizzardJoinConflictSet
<1>4. IsBlizzard => JoinsRounds(v, w, t)
  BY <1>2 DEF Joined, BlizzardJoinConflictSet, JoinsRounds
<1> QED
  BY <1>1, <1>2, <1>3, <1>4, Zenon DEF Recorded

\* Where new_tail's loop, started from v, has come to: nothing is decided.
Asking(v, acc) == Fine(variant, acc.view, bbeta2) /\ SameDecided(v, acc.view)

\* One transaction of a block in new_tail.
LEMMA VoteOnKeeps ==
    ASSUME NEW v0, NEW acc, NEW t \in Txns \cup {PlaceHolder}, Asking(v0, acc)
    PROVE  Asking(v0, VoteOn(acc, t))
<1>1. PICK v, r, w : v = acc.view /\ r = RecordTxn(acc.view, t) /\ w = VoteOn(acc, t).view
  OBVIOUS
<1>2. Fine(variant, v, bbeta2) /\ SameDecided(v0, v)
  BY <1>1, Zenon DEF Asking
<1>3. CASE t = PlaceHolder
  BY <1>1, <1>2, <1>3, Zenon DEF VoteOn, Asking
<1>4. CASE t # PlaceHolder
  <2>1. SameView(r, w)
    BY <1>1, <1>4, Zenon DEF VoteOn, SameView
  <2>2. Fine(variant, r, bbeta2) /\ SameDecided(v0, r)
    <3>1. CASE t \in v.pool
      BY <1>1, <1>2, <3>1, Zenon DEF RecordTxn
    <3>2. CASE t \notin v.pool
      <4>1. Recorded(v, r, t) /\ (IsBlizzard => JoinsRounds(v, r, t))
        BY <1>1, <3>2, RecordEffect
      <4>2. ViewOK(r) /\ SameDecided(v, r)
        BY <1>2, <1>4, <3>2, <4>1, RecordKeeps DEF Fine
      <4>3. variant = "blizzard" => RoundsOK(r, bbeta2)
        BY <1>2, <1>4, <3>2, <4>1, RoundsRecorded DEF Fine, IsBlizzard
      <4> QED
        BY <1>2, <4>2, <4>3, SameDecidedTrans DEF Fine
    <3> QED
      BY <3>1, <3>2
  <2> QED
    BY <1>1, <2>1, <2>2, VotedView, Zenon DEF Asking, SameView, SameDecided
<1> QED
  BY <1>3, <1>4

\* A block in new_tail: the view stays right and nothing is decided.
LEMMA VoteOnTxnsKeeps ==
    ASSUME NEW v, Fine(variant, v, bbeta2), NEW txns \in Seq(Txns \cup {PlaceHolder})
    PROVE  Fine(variant, VoteOnTxns(v, txns).view, bbeta2) /\ SameDecided(v, VoteOnTxns(v, txns).view)
<1>1. Len(txns) \in Nat /\ \A i \in 1 .. Len(txns) : txns[i] \in Txns \cup {PlaceHolder}
  BY LenProperties, ElementOfSeq
<1>2. PICK a : a = [view |-> v, votes |-> <<>>]
  BY Zenon
<1>3. PICK after : /\ after[0] = a
                   /\ \A i \in 1 .. Len(txns) : after[i] = VoteOn(after[i - 1], txns[i])
                   /\ Voting!Fold(a, txns) = after[Len(txns)]
  BY <1>1, FoldInduction, Voting!FoldSteps
<1> DEFINE Q == {n \in 0 .. Len(txns) : Asking(v, after[n])}
<1>4. 0 \in Q
  BY <1>1, <1>2, <1>3 DEF Asking, SameDecided
<1>5. ASSUME NEW i \in 1 .. Len(txns), i - 1 \in Q PROVE i \in Q
  <2>1. i \in 0 .. Len(txns) /\ Asking(v, after[i - 1])
    BY <1>5
  <2> QED
    BY <1>1, <1>3, <2>1, VoteOnKeeps
<1> HIDE DEF Q
<1>6. Len(txns) \in Q
  BY <1>1, <1>4, <1>5, LoopInduction
<1> QED
  BY <1>2, <1>3, <1>6, Zenon DEF Q, Asking, VoteOnTxns

\* Where handle_votes' loop, started from v, has come to.
Going(v, acc) == Progress(v, acc) /\ (variant = "blizzard" => RoundsOK(acc.view, bbeta2))

\* Support along a walk.
LEMMA SupportingKeeps ==
    ASSUME NEW v, NEW acc, Going(v, acc), NEW r, WalkOf(acc.view.dag, r)
    PROVE  Going(v, Supporting!Fold(acc, r))
<1>1. Len(r) \in Nat
  BY LenProperties DEF WalkOf
<1>2. PICK after :
           /\ after[0] = acc
           /\ \A i \in 1 .. Len(r) : after[i] = Support(after[i - 1], r[i])
           /\ Supporting!Fold(acc, r) = after[Len(r)]
  BY <1>1, FoldInduction, Supporting!FoldSteps
<1>3. \A i \in 1 .. Len(r) : /\ Supported(after[i - 1].view, after[i].view, r[i])
                             /\ Listed(after[i - 1], after[i], r[i])
  BY <1>2, SupportEffect, Zenon
<1>4. /\ Progress(v, after[Len(r)])
      /\ \A i \in 1 .. Len(r) : Progress(v, after[i - 1]) /\ r[i] \in DOMAIN after[i - 1].view.dag
  BY <1>2, <1>3, SupportLoop, Zenon DEF Going
<1> DEFINE Q == {n \in 0 .. Len(r) : variant = "blizzard" => RoundsOK(after[n].view, bbeta2)}
<1>5. 0 \in Q
  BY <1>1, <1>2 DEF Going
<1>6. ASSUME NEW i \in 1 .. Len(r), i - 1 \in Q PROVE i \in Q
  <2> SUFFICES ASSUME IsBlizzard PROVE RoundsOK(after[i].view, bbeta2)
    BY DEF IsBlizzard
  <2>1. PICK b, c, t : b = after[i - 1] /\ c = after[i] /\ t = r[i]
    OBVIOUS
  <2>2. /\ Supported(b.view, c.view, t) /\ Listed(b, c, t) /\ Progress(v, b) /\ t \in DOMAIN b.view.dag
        /\ c = Support(b, t)
    BY <1>2, <1>3, <1>4, <2>1, Zenon
  <2>3. RoundsOK(b.view, bbeta2)
    BY <1>6, <2>1 DEF IsBlizzard
  <2>4. Shape(b.view) /\ PrefMax(b.view) /\ Counted(b.view) /\ IsFiniteSet(b.view.pool)
    BY <2>2, <2>3 DEF Progress, ViewOK, RoundsOK
  <2>5. CountsRound(b.view, c.view, t, bbeta2)
    BY <2>2, <2>4, CountsRoundEffect
  <2>6. RoundsOK(c.view, bbeta2)
    BY <2>2, <2>3, <2>4, <2>5, VotesAssumption, RoundsSupported
  <2> QED
    BY <2>1, <2>6
<1> HIDE DEF Q
<1>7. Len(r) \in Q
  BY <1>1, <1>5, <1>6, LoopInduction
<1> QED
  BY <1>2, <1>4, <1>7, Zenon DEF Q, Going

\* One transaction of a block in handle_votes: support for it and for its
\* undecided ancestors, or the end of their streaks.
LEMMA SettleTxnKeeps ==
    ASSUME NEW v, NEW acc, Going(v, acc), NEW poll, poll.txn \in Txns
    PROVE  Going(v, SettleTxn(acc, poll))
<1>1. CASE poll.accept >= Threshold
  <2>1. PICK r : r = Ancestry(acc.view.dag, poll.txn)
    OBVIOUS
  <2>2. Going(v, Supporting!Fold(acc, r))
    BY <2>1, AncestryWalk, SupportingKeeps
  <2> QED
    BY <1>1, <2>1, <2>2, Zenon DEF SettleTxn
<1>2. CASE ~ (poll.accept >= Threshold) /\ IsBlizzard
  BY <1>2, Zenon DEF SettleTxn
<1>3. CASE ~ (poll.accept >= Threshold) /\ ~ IsBlizzard
  <2>1. PICK w, out : w = Discourage(acc.view, poll.txn) /\ out = SettleTxn(acc, poll)
    OBVIOUS
  <2>2. LikeView(acc.view, w)
    BY <2>1, Zenon DEF LikeView, Discourage
  <2>3. ViewOK(w)
    BY <2>2, LikeViewOK, Zenon DEF Going, Progress
  <2>4. out.view = w /\ out.list = acc.list
    BY <1>3, <2>1 DEF SettleTxn
  <2>5. Progress(v, out)
    BY <2>2, <2>3, <2>4, Zenon DEF Going, Progress, ListOK, LikeView
  <2> QED
    BY <1>3, <2>1, <2>5, Zenon DEF Going, IsBlizzard
<1> QED
  BY <1>1, <1>2, <1>3

\* The body of handle_votes keeps the view right and lists what it accepts.
LEMMA SettleKeeps ==
    ASSUME NEW v, Fine(variant, v, bbeta2), NEW txns \in Seq(Txns), NEW accept
    PROVE  Going(v, Settle(v, txns, accept))
<1>1. PICK s, a : /\ s = [i \in DOMAIN txns |-> [txn |-> txns[i], accept |-> accept[i]]]
                  /\ a = [view |-> v, list |-> <<>>]
  BY Zenon
<1>2. Len(s) \in Nat /\ \A i \in 1 .. Len(s) : s[i].txn \in Txns
  BY <1>1
<1>3. PICK after :
         /\ after[0] = a
         /\ \A i \in 1 .. Len(s) : after[i] = SettleTxn(after[i - 1], s[i])
         /\ Settling!Fold(a, s) = after[Len(s)]
  BY <1>2, FoldInduction, Settling!FoldSteps, ZenonT(30)
<1> DEFINE Q == {n \in 0 .. Len(s) : Going(v, after[n])}
<1>4. 0 \in Q
  <2>1. Progress(v, a) /\ a.view = v
    BY <1>1, NothingSettled DEF Fine
  <2> QED
    BY <1>2, <1>3, <2>1 DEF Going, Fine
<1>5. ASSUME NEW i \in 1 .. Len(s), i - 1 \in Q PROVE i \in Q
  <2>1. i \in 0 .. Len(s) /\ Going(v, after[i - 1])
    BY <1>5
  <2> QED
    BY <1>2, <1>3, <2>1, SettleTxnKeeps
<1> HIDE DEF Q
<1>6. Len(s) \in Q
  BY <1>2, <1>4, <1>5, LoopInduction
<1> QED
  BY <1>1, <1>3, <1>6, Zenon DEF Q, Settle

----------------------------------------------------------------------------
\* The invariant and the steps

\* The polls, as AvalancheDag_proofs looks at them.
Polls == [seen |-> own_seen, open |-> DOMAIN query_pool, queue |-> commit_queue, pipe |-> commit_pipe,
          view |-> View]

\* Polls are about transactions.
PollsTyped(pool) == \A b \in DOMAIN pool : pool[b] \in Seq(Txns)

\* The inductive invariant.
DecideInv ==
    /\ Fine(variant, View, bbeta2)
    /\ PollsTyped(query_pool)
    /\ own_seen <= Len(OwnBatches)
    /\ PollsOK(Polls)

\* A step that leaves the view right and is of one of the kinds.
Step ==
    /\ Fine(variant, View', bbeta2)
    /\ PollsTyped(query_pool')
    /\ own_seen' <= Len(OwnBatches)
    /\ Kinds(Polls, Polls')

\* record_votes: the view v, kept or settled.
Kept(v, pool) == SetView(v) /\ query_pool' = pool /\ commit_queue' = commit_queue

\* record_votes: handle_votes was called.
Settled(b, v, pool) ==
    /\ b \in DOMAIN pool
    /\ query_pool' = Restrict(pool, DOMAIN pool \ {b})
    /\ \E o : /\ Going(v, o) /\ SetView(o.view)
              /\ commit_queue' = Append(commit_queue, [blk |-> b, txns |-> o.list])

\* The parts of Polls before and after a step.
LEMMA PollsParts ==
    /\ Polls.seen = own_seen /\ Polls.open = DOMAIN query_pool /\ Polls.queue = commit_queue
    /\ Polls.pipe = commit_pipe /\ Polls.view = View
    /\ Polls'.seen = own_seen' /\ Polls'.open = DOMAIN query_pool' /\ Polls'.queue = commit_queue'
    /\ Polls'.pipe = commit_pipe' /\ Polls'.view = View'
BY DEF Polls

\* The view that a handler leaves.
LEMMA SetViewEffect ==
    ASSUME NEW v, SetView(v)
    PROVE  SameView(v, View')
BY DEF SetView, View, SameView

\* A handler that decides nothing.
LEMMA KeptEffect ==
    ASSUME NEW v, NEW pool, Kept(v, pool), Fine(variant, v, bbeta2), SameDecided(View, v)
    PROVE  Fine(variant, View', bbeta2) /\ query_pool' = pool /\ Unsettled(Polls, Polls')
<1>1. Fine(variant, View', bbeta2) /\ SameFate(View, View')
  BY SetViewEffect, VotedView DEF Kept
<1> QED
  BY <1>1, PollsParts, Zenon DEF Kept, Unsettled

\* A handler that closes the poll of b.
LEMMA SettledEffect ==
    ASSUME NEW b, NEW v, NEW pool, Settled(b, v, pool), Fine(variant, v, bbeta2), SameDecided(View, v),
           PollsTyped(pool)
    PROVE  /\ Fine(variant, View', bbeta2) /\ PollsTyped(query_pool') /\ Accepts(Polls, Polls', b)
           /\ DOMAIN query_pool' = DOMAIN pool \ {b}
<1>1. PICK o : /\ Going(v, o) /\ SetView(o.view)
               /\ commit_queue' = Append(commit_queue, [blk |-> b, txns |-> o.list])
  BY Zenon DEF Settled
<1>2. Fine(variant, View', bbeta2) /\ Accepting(View, View', o.list)
  BY <1>1, SetViewEffect, SettledView, Zenon DEF Going, Fine
<1>3. Accepts(Polls, Polls', b)
  BY <1>1, <1>2, PollsParts, Zenon DEF Accepts
<1>4. DOMAIN query_pool' = DOMAIN pool \ {b} /\ PollsTyped(query_pool')
  BY DEF Settled, Restrict, PollsTyped
<1> QED
  BY <1>2, <1>3, <1>4

\* What the invariant says of a state.
LEMMA InvFacts ==
    ASSUME DecideInv
    PROVE  /\ Fine(variant, View, bbeta2) /\ SameDecided(View, View) /\ PollsTyped(query_pool)
           /\ own_seen \in Nat
BY PollsParts DEF DecideInv, PollsOK, SameDecided

\* handle_votes.
LEMMA HandleVotesEffect ==
    ASSUME NEW b, NEW v, NEW pool, NEW tally, NEW queue, HandleVotes(b, v, pool, tally, queue),
           Fine(variant, v, bbeta2), PollsTyped(pool), b \in DOMAIN pool
    PROVE  Settled(b, v, pool)
<1>1. PICK o : o = Settle(v, pool[b], tally.accept)
  OBVIOUS
<1>2. Going(v, o)
  BY <1>1, SettleKeeps DEF PollsTyped
<1> QED
  BY <1>1, <1>2, Zenon DEF HandleVotes, Settled

\* record_votes.
LEMMA RecordVotesEffect ==
    ASSUME NEW b, NEW ballot, NEW v, NEW pool, NEW queue, RecordVotes(b, ballot, v, pool, queue),
           Fine(variant, v, bbeta2), PollsTyped(pool)
    PROVE  Kept(v, pool) \/ Settled(b, v, pool)
<1>1. Kept(v, pool) \/ (b \in DOMAIN pool /\ \E tally : HandleVotes(b, v, pool, tally, queue))
  BY Zenon DEF RecordVotes, Kept
<1> QED
  BY <1>1, HandleVotesEffect

\* A vote or a timer, or new_tail of a peer's block.
LEMMA PollStep ==
    ASSUME DecideInv, NEW v, Fine(variant, v, bbeta2), SameDecided(View, v),
           own_seen' = own_seen, commit_pipe' = commit_pipe,
           Kept(v, query_pool) \/ \E b : Settled(b, v, query_pool)
    PROVE  Step
<1>1. Stays(Polls, Polls') /\ own_seen' <= Len(OwnBatches) /\ PollsTyped(query_pool)
  BY PollsParts DEF Stays, DecideInv
<1>2. CASE Kept(v, query_pool)
  <2>1. Fine(variant, View', bbeta2) /\ query_pool' = query_pool /\ Unsettled(Polls, Polls')
    BY <1>2, KeptEffect
  <2>2. Votes(Polls, Polls')
    BY <1>1, <2>1, PollsParts DEF Votes
  <2> QED
    BY <1>1, <2>1, <2>2 DEF Step, Kinds
<1>3. ASSUME NEW b, Settled(b, v, query_pool) PROVE Step
  <2>1. /\ Fine(variant, View', bbeta2) /\ PollsTyped(query_pool') /\ Accepts(Polls, Polls', b)
        /\ DOMAIN query_pool' = DOMAIN query_pool \ {b}
    BY <1>1, <1>3, SettledEffect, Zenon
  <2>2. b \in DOMAIN query_pool
    BY <1>3 DEF Settled
  <2>3. Closes(Polls, Polls', b)
    BY <1>1, <2>1, <2>2, PollsParts DEF Closes
  <2> QED
    BY <1>1, <2>1, <2>3 DEF Step, Kinds
<1> QED
  BY <1>2, <1>3

\* new_tail of an own block, its transactions recorded in v.
LEMMA OwnStep ==
    ASSUME DecideInv, NEW v, NEW txns \in Seq(Txns), Fine(variant, v, bbeta2), SameDecided(View, v),
           NEW b, b = own_seen + 1, b <= Len(OwnBatches), own_seen' = b, commit_pipe' = commit_pipe,
           NEW pool, pool = Insert(query_pool, b, txns), Kept(v, pool) \/ Settled(b, v, pool)
    PROVE  Step
<1>1. Comes(Polls, Polls', b) /\ own_seen' <= Len(OwnBatches)
  BY PollsParts DEF Comes
<1>2. PollsTyped(pool) /\ DOMAIN pool = DOMAIN query_pool \cup {b}
  BY DEF Insert, DecideInv, PollsTyped
<1>3. CASE Kept(v, pool)
  <2>1. Fine(variant, View', bbeta2) /\ query_pool' = pool /\ Unsettled(Polls, Polls')
    BY <1>3, KeptEffect
  <2>2. Opens(Polls, Polls', b)
    BY <1>1, <1>2, <2>1, PollsParts DEF Opens
  <2> QED
    BY <1>1, <1>2, <2>1, <2>2 DEF Step, Kinds
<1>4. CASE Settled(b, v, pool)
  <2>1. /\ Fine(variant, View', bbeta2) /\ PollsTyped(query_pool') /\ Accepts(Polls, Polls', b)
        /\ DOMAIN query_pool' = DOMAIN pool \ {b}
    BY <1>2, <1>4, SettledEffect, Zenon
  <2>2. OpensAndCloses(Polls, Polls', b)
    BY <1>1, <1>2, <2>1, PollsParts DEF OpensAndCloses
  <2> QED
    BY <1>1, <2>1, <2>2 DEF Step, Kinds
<1> QED
  BY <1>3, <1>4

\* A step that touches none of this.
LEMMA SameStep ==
    ASSUME DecideInv, UNCHANGED viewVars, UNCHANGED <<own_seen, query_pool, commit_queue, commit_pipe>>
    PROVE  Step
<1>1. Kept(View, query_pool)
  BY DEF Kept, SetView, View, viewVars
<1> QED
  BY <1>1, InvFacts, PollStep

\* The next own block.
LEMMA OwnBatchType ==
    ASSUME own_seen \in Nat, own_seen < Len(OwnBatches)
    PROVE  own_seen + 1 <= Len(OwnBatches) /\ OwnTxns(own_seen + 1) \in Seq(Txns)
<1>1. /\ OwnBatches \in Seq(Seq(Txns)) /\ BlizzardOwnBatches \in Seq(Seq(Txns))
      /\ Len(BlizzardOwnBatches) = Len(OwnBatches) /\ Len(OwnBatches) \in Nat
  BY ParameterAssumption, LenProperties
<1>2. own_seen + 1 \in 1 .. Len(OwnBatches)
  BY <1>1
<1>3. OwnBatches[own_seen + 1] \in Seq(Txns) /\ BlizzardOwnBatches[own_seen + 1] \in Seq(Txns)
  BY <1>1, <1>2, ElementOfSeq
<1> QED
  BY <1>2, <1>3 DEF OwnTxns

----------------------------------------------------------------------------
\* The handlers

\* new_tail of an own block.
LEMMA NewTailOwnStep ==
    ASSUME DecideInv, NewTailOwn
    PROVE  Step
<1>1. PICK b, txns, o : b = own_seen + 1 /\ txns = OwnTxns(b) /\ o = VoteOnTxns(View, txns)
  OBVIOUS
<1>2. own_seen < Len(OwnBatches) /\ own_seen' = b /\ commit_pipe' = commit_pipe
  BY <1>1 DEF NewTailOwn
<1>3. PICK pool : pool = Insert(query_pool, b, txns)
  OBVIOUS
<1>4. RecordVotes(b, o.votes, o.view, pool, Append(vote_time_queue, b))
  BY <1>1, <1>3, Zenon DEF NewTailOwn
<1>5. b <= Len(OwnBatches) /\ txns \in Seq(Txns) /\ txns \in Seq(Txns \cup {PlaceHolder})
  BY <1>1, <1>2, InvFacts, OwnBatchType
<1>6. Fine(variant, o.view, bbeta2) /\ SameDecided(View, o.view)
  BY <1>1, <1>5, InvFacts, VoteOnTxnsKeeps
<1>7. PollsTyped(pool)
  BY <1>3, <1>5, InvFacts DEF Insert, PollsTyped
<1>8. Kept(o.view, pool) \/ Settled(b, o.view, pool)
  BY <1>4, <1>6, <1>7, RecordVotesEffect
<1> QED
  BY <1>1, <1>2, <1>3, <1>5, <1>6, <1>8, OwnStep

\* new_tail of a peer's block.
LEMMA NewTailPeerStep ==
    ASSUME DecideInv, NEW q \in DOMAIN Asked, NewTailPeer(q)
    PROVE  Step
<1>1. PICK v : v = VoteOnTxns(View, Asked[q]).view
  OBVIOUS
<1>2. SetView(v) /\ UNCHANGED <<pollVars, commit_pipe, own_seen>>
  BY <1>1 DEF NewTailPeer
<1>3. Asked[q] \in Seq(Txns \cup {PlaceHolder})
  BY ParameterAssumption DEF Asked
<1>4. Fine(variant, v, bbeta2) /\ SameDecided(View, v)
  BY <1>1, <1>3, InvFacts, VoteOnTxnsKeeps
<1>5. Kept(v, query_pool) /\ own_seen' = own_seen /\ commit_pipe' = commit_pipe
  BY <1>2 DEF Kept, pollVars
<1> QED
  BY <1>4, <1>5, PollStep

\* The vote of a polled peer.
LEMMA HandlePeerMsgStep ==
    ASSUME DecideInv, NEW b, HandlePeerMsg(b)
    PROVE  Step
<1>1. own_seen' = own_seen /\ commit_pipe' = commit_pipe
  BY DEF HandlePeerMsg
<1>2. CASE b \in finished_query
  BY <1>2, SameStep DEF HandlePeerMsg, pollVars
<1>3. CASE b \notin finished_query
  <2>1. PICK ballot : RecordVotes(b, ballot, View, query_pool, vote_time_queue)
    BY <1>3 DEF HandlePeerMsg
  <2>2. Kept(View, query_pool) \/ Settled(b, View, query_pool)
    BY <2>1, InvFacts, RecordVotesEffect
  <2> QED
    BY <1>1, <2>2, InvFacts, PollStep
<1> QED
  BY <1>2, <1>3

\* The timer of a poll.
LEMMA HandleTimeoutStep ==
    ASSUME DecideInv, HandleTimeout
    PROVE  Step
<1>1. own_seen' = own_seen /\ commit_pipe' = commit_pipe
  BY DEF HandleTimeout
<1>2. \/ UNCHANGED viewVars /\ UNCHANGED <<query_pool, commit_queue>>
      \/ \E b \in DOMAIN query_pool : HandleVotes(b, View, query_pool, votes[b], Tail(vote_time_queue))
  BY DEF HandleTimeout
<1>3. CASE UNCHANGED viewVars /\ UNCHANGED <<query_pool, commit_queue>>
  BY <1>1, <1>3, SameStep
<1>4. ASSUME NEW b \in DOMAIN query_pool, HandleVotes(b, View, query_pool, votes[b], Tail(vote_time_queue))
      PROVE  Step
  <2>1. Settled(b, View, query_pool)
    BY <1>4, InvFacts, HandleVotesEffect
  <2> QED
    BY <1>1, <2>1, InvFacts, PollStep
<1> QED
  BY <1>2, <1>3, <1>4

\* A closed poll is handed to the commit stage.
LEMMA NextToCommitStep ==
    ASSUME DecideInv, NextToCommit
    PROVE  Step
<1>1. /\ UNCHANGED <<own_seen, query_pool>> /\ View' = View
      /\ commit_queue # <<>> /\ commit_queue' = Tail(commit_queue)
      /\ commit_pipe' = Append(commit_pipe, Head(commit_queue))
  BY DEF NextToCommit, viewVars, View
<1>2. Fine(variant, View', bbeta2) /\ SameFate(View, View') /\ PollsTyped(query_pool')
  BY <1>1, InvFacts DEF SameFate
<1>3. HandsOver(Polls, Polls')
  BY <1>1, <1>2, PollsParts, Zenon DEF HandsOver
<1> QED
  BY <1>1, <1>2, <1>3 DEF Step, Kinds, DecideInv

\* Every step is of one of the kinds; VoteNo's answer is a vote of no
\* consequence.
LEMMA NextStep ==
    ASSUME DecideInv, [Next]_vars
    PROVE  Step /\ variant' = variant
<1>1. ASSUME Handle PROVE Step
  BY <1>1, NewTailOwnStep, NewTailPeerStep, HandlePeerMsgStep, HandleTimeoutStep, NextToCommitStep DEF Handle
<1>2. ASSUME NEW q, VoteNo(q) PROVE Step
  BY <1>2, SameStep DEF VoteNo, pollVars
<1>3. ASSUME UNCHANGED vars PROVE Step
  BY <1>3, SameStep DEF vars, viewVars, pollVars
<1>4. variant' = variant
  BY DEF Next, vars
<1> QED
  BY <1>1, <1>2, <1>3, <1>4 DEF Next

----------------------------------------------------------------------------
\* The theorems

\* Nothing recorded, nothing polled.
LEMMA InitKeeps ==
    ASSUME Init
    PROVE  DecideInv
<1>1. /\ View.pool = {} /\ DOMAIN View.dag = {} /\ DOMAIN View.cs = {} /\ View.conf \in [{} -> Nat]
      /\ DOMAIN query_pool = {}
  BY DEF Init, View, Empty
<1>2. ViewOK(View) /\ RoundsOK(View, bbeta2) /\ ListsOK(View, <<>>)
  BY <1>1, NothingRecorded, Zenon
<1>3. own_seen = 0 /\ commit_queue = <<>> /\ commit_pipe = <<>> /\ <<>> \o <<>> = <<>> /\ <<>> \in Seq(Entry(0))
  BY DEF Init
<1>4. PollsOK(Polls)
  BY <1>1, <1>2, <1>3, PollsParts DEF PollsOK
<1>5. Len(OwnBatches) \in Nat
  BY ParameterAssumption, LenProperties
<1> QED
  BY <1>1, <1>2, <1>3, <1>4, <1>5 DEF DecideInv, Fine, PollsTyped

\* DecideInv is an invariant: every step is of one of the kinds, and these
\* keep it.
THEOREM DecideInvariant == Spec => []DecideInv
<1>1. Init => DecideInv
  BY InitKeeps
<1>2. ASSUME DecideInv, [Next]_vars PROVE DecideInv'
  <2>1. Step /\ variant' = variant
    BY <1>2, NextStep
  <2>2. PollsOK(Polls')
    BY <1>2, <2>1, KindsKeep DEF DecideInv, Step
  <2>3. PollsOK(Polls)'
    BY <2>2 DEF PollsOK, Polls
  <2> QED
    BY <2>1, <2>2, Zenon DEF DecideInv, Step
<1> QED
  BY <1>1, <1>2, PTL DEF Spec

\* In every variant the preferred spender of a utxo is one of highest
\* confidence (the switch in handle_votes_helper), whatever the polls, the
\* votes and the parameters.
THEOREM PrefHasMaxConfidenceHolds == Spec => []PrefHasMaxConfidence
<1>1. DecideInv => PrefHasMaxConfidence
  BY DEF DecideInv, Fine, ViewOK, PrefMax, View, PrefHasMaxConfidence, Spenders
<1> QED
  BY <1>1, DecideInvariant, PTL

\* An undecided parent is never less confident than a child recorded after
\* it: the recursion of handle_votes_helper counts a success for every
\* undecided ancestor once.
THEOREM AncestorsLeadHolds == Spec => []AncestorsLead
<1>1. DecideInv => AncestorsLead
  BY Zenon DEF DecideInv, Fine, ViewOK, Leads, View, AncestorsLead
<1> QED
  BY <1>1, DecideInvariant, PTL

\* The lists handed to the commit stage hold each accepted transaction once,
\* and what they hold is what has left the DAG (handle_votes).
THEOREM AcceptedOnceHolds == Spec => []AcceptedOnce
<1>1. ASSUME DecideInv PROVE AcceptedOnce
  <2>1. PICK h, n : h = Handed /\ n = own_seen
    OBVIOUS
  <2>2. /\ ListsOK(View, h) /\ commit_queue \in Seq(Entry(n)) /\ commit_pipe \in Seq(Entry(n))
    BY <1>1, <2>1, PollsParts DEF DecideInv, PollsOK, Handed
  <2>3. PICK S : S = Entry(n)
    OBVIOUS
  <2>4. h \in Seq(S)
    BY <2>1, <2>2, <2>3, ConcatProperties DEF Handed
  <2>5. IsInjective(Accepted(h)) /\ Range(Accepted(h)) = View.pool \ DOMAIN View.dag
    BY <2>2, <2>3, <2>4, AcceptedProperties
  <2>6. AcceptedTxns = Accepted(h)
    BY <2>1, Zenon DEF AcceptedTxns, Accepted, ListsOf
  <2>7. View.pool = txn_pool /\ View.dag = txn_dag
    BY DEF View
  <2> QED
    BY <2>5, <2>6, <2>7, Zenon DEF AcceptedOnce
<1> QED
  BY <1>1, DecideInvariant, PTL

\* In Blizzard total_rounds is the sum of the confidence of the recorded
\* spenders, so that conflict_count never underflows.
THEOREM RoundsSumConfidenceHolds == Spec => []RoundsSumConfidence
<1>1. ASSUME DecideInv, IsBlizzard, NEW u \in DOMAIN conflict_sets
      PROVE  conflict_sets[u].total_rounds = SumOver(confidence, Spenders(u))
  <2>1. Spenders(u) = Spends(View, u)
    BY DEF Spenders, Spends, View
  <2>2. conflict_sets[u].total_rounds = SumOver(confidence, Spends(View, u))
    BY <1>1 DEF DecideInv, Fine, RoundsOK, Counted, View, IsBlizzard
  <2> QED
    BY <2>1, <2>2, Zenon
<1>2. DecideInv => RoundsSumConfidence
  BY <1>1 DEF RoundsSumConfidence
<1> QED
  BY <1>2, DecideInvariant, PTL

\* In Blizzard two accepted spenders of a utxo are beta2 apart, however
\* early one of them was committed (the test for acceptance).
THEOREM AcceptedRivalsFarApartHolds == Spec => []AcceptedRivalsFarApart
<1>1. ASSUME DecideInv, variant = "blizzard"
      PROVE  \A s, t \in txn_pool : \A u \in Utxos(s) :
                s # t /\ u \in Utxos(t) /\ s \notin DOMAIN txn_dag /\ t \notin DOMAIN txn_dag =>
                    confidence[s] >= bbeta2 + confidence[t] \/ confidence[t] >= bbeta2 + confidence[s]
  BY <1>1, Zenon DEF DecideInv, Fine, RoundsOK, FarApart, View
<1>2. DecideInv => AcceptedRivalsFarApart
  BY <1>1 DEF AcceptedRivalsFarApart, IsBlizzard, Spenders
<1> QED
  BY <1>2, DecideInvariant, PTL

\* Every step maps to a step of PollRounds or to none.
LEMMA StepRefines ==
    ASSUME DecideInv, Step
    PROVE  [PollsMapped!PollNext]_(PollsMapped!pollVars)
<1>1. PICK p, q : p = Polls /\ q = Polls'
  OBVIOUS
<1>2. PollsOK(p) /\ Kinds(p, q) /\ own_seen \in Nat
  BY <1>1, InvFacts DEF DecideInv, Step
<1>3. /\ p.open = DOMAIN query_pool /\ q.open = (DOMAIN query_pool)' /\ p.seen = own_seen /\ q.seen = own_seen'
      /\ BlocksOf(p.queue) = [i \in DOMAIN commit_queue |-> commit_queue[i].blk]
      /\ BlocksOf(p.pipe) = [i \in DOMAIN commit_pipe |-> commit_pipe[i].blk]
      /\ BlocksOf(q.queue) = [i \in DOMAIN commit_queue |-> commit_queue[i].blk]'
      /\ BlocksOf(q.pipe) = [i \in DOMAIN commit_pipe |-> commit_pipe[i].blk]'
  BY <1>1, PollsParts DEF BlocksOf
<1>4. OwnBlocks = 1 .. Len(OwnBatches) /\ Len(OwnBatches) \in Nat
  BY ParameterAssumption, LenProperties DEF OwnBlocks
<1>5. ASSUME NEW b, Comes(p, q, b) PROVE ~ PollsMapped!Known(b) /\ b \in OwnBlocks /\ b \in 1 .. b
  <2>1. /\ b \in Nat \ {0} /\ b \notin p.open
        /\ \A i \in DOMAIN BlocksOf(p.queue) : BlocksOf(p.queue)[i] # b
        /\ \A i \in DOMAIN BlocksOf(p.pipe) : BlocksOf(p.pipe)[i] # b
    BY <1>2, <1>5, ComesUnknown, ZenonT(30)
  <2>2. b \in OwnBlocks /\ b \in 1 .. b
    BY <1>3, <1>4, <1>5, <2>1 DEF Comes, Step
  <2> QED
    BY <1>3, <2>1, <2>2, Zenon DEF PollsMapped!Known
<1>6. CASE Votes(p, q)
  <2>1. UNCHANGED PollsMapped!pollVars
    BY <1>3, <1>6 DEF Votes, Stays, Unsettled, PollsMapped!pollVars
  <2> QED
    BY <2>1
<1>7. CASE HandsOver(p, q)
  <2>1. /\ BlocksOf(p.queue) # <<>> /\ BlocksOf(q.queue) = Tail(BlocksOf(p.queue))
        /\ BlocksOf(q.pipe) = Append(BlocksOf(p.pipe), Head(BlocksOf(p.queue)))
    BY <1>2, <1>7, HandsOverShifts
  <2>2. q.open = p.open
    BY <1>7 DEF HandsOver
  <2>3. PollsMapped!HandOver
    BY <1>3, <2>1, <2>2, Zenon DEF PollsMapped!HandOver
  <2> QED
    BY <2>3 DEF PollsMapped!PollNext
<1>8. ASSUME NEW b, Opens(p, q, b) PROVE PollsMapped!PollNext
  <2>1. PollsMapped!OpenPoll(b) /\ b \in OwnBlocks
    BY <1>3, <1>5, <1>8, Zenon DEF Opens, Comes, Unsettled, PollsMapped!OpenPoll
  <2> QED
    BY <2>1 DEF PollsMapped!PollNext
<1>9. ASSUME NEW b, OpensAndCloses(p, q, b) PROVE PollsMapped!PollNext
  <2>1. ~ PollsMapped!Known(b) /\ b \in OwnBlocks /\ b \in 1 .. b /\ b \in Nat /\ b = p.seen + 1
    BY <1>2, <1>3, <1>5, <1>9 DEF OpensAndCloses, Comes
  <2>2. BlocksOf(q.queue) = Append(BlocksOf(p.queue), b)
    BY <1>2, <1>9, <2>1, AcceptsJoins DEF OpensAndCloses, Comes
  <2>3. b \notin p.open
    BY <1>3, <2>1, Zenon DEF PollsMapped!Known
  <2>4. q.open = p.open /\ q.pipe = p.pipe
    BY <1>9, <2>3 DEF OpensAndCloses, Comes
  <2>5. PollsMapped!OpenAndClosePoll(b)
    BY <1>3, <2>1, <2>2, <2>4, Zenon DEF PollsMapped!OpenAndClosePoll
  <2> QED
    BY <2>1, <2>5 DEF PollsMapped!PollNext
<1>10. ASSUME NEW b, Closes(p, q, b) PROVE PollsMapped!PollNext
  <2>1. b \in 1 .. p.seen /\ p.seen \in Nat /\ b \in OwnBlocks
    <3>1. b \in p.open /\ p.open \subseteq 1 .. p.seen /\ p.seen \in Nat
      BY <1>2, <1>10, Zenon DEF Closes, PollsOK
    <3>2. p.seen <= Len(OwnBatches)
      BY <1>3, Zenon DEF DecideInv
    <3> QED
      BY <1>4, <3>1, <3>2
  <2>2. BlocksOf(q.queue) = Append(BlocksOf(p.queue), b)
    BY <1>2, <1>10, <2>1, AcceptsJoins DEF Closes, Stays
  <2>3. PollsMapped!ClosePoll(b)
    BY <1>3, <1>10, <2>2, Zenon DEF Closes, Stays, PollsMapped!ClosePoll
  <2> QED
    BY <2>1, <2>3 DEF PollsMapped!PollNext
<1> QED
  BY <1>2, <1>6, <1>7, <1>8, <1>9, <1>10 DEF Kinds

\* Decide implements PollRounds: every own block opens one poll, closes it
\* once and is handed over in the order of closing.
THEOREM PollsKeptHolds == Spec => PollsKept
<1>1. Init => PollsMapped!PollInit
  BY DEF Init, PollsMapped!PollInit, Empty
<1>2. DecideInv /\ [Next]_vars => [PollsMapped!PollNext]_(PollsMapped!pollVars)
  BY NextStep, StepRefines
<1> QED
  BY <1>1, <1>2, DecideInvariant, PTL DEF Spec, PollsKept, PollsMapped!PollSafety
=============================================================================
