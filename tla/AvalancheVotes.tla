-------------------------- MODULE AvalancheVotes ----------------------------
(***************************************************************************)
(* What decide does with the transactions of a block: new_tail records     *)
(* them and votes on them, handle_votes turns the outcome of a poll into   *)
(* confidence, preferences and accepted transactions.  A view is what a    *)
(* node knows of the transactions, as the handlers thread it through:      *)
(* [pool, dag, cs, conf, cache].                                           *)
(*                                                                         *)
(* The basic and the Blizzard variant share these loops and differ in the  *)
(* test for acceptance: basic counts successes in a row of one spender, a  *)
(* streak that a failed poll ends; Blizzard counts the rounds of all       *)
(* spenders of a conflict set, and a transaction is accepted when its      *)
(* confidence leads the rounds of its rivals by beta1 or beta2.            *)
(***************************************************************************)
EXTENDS AvalancheDag, Summation

CONSTANTS
    NoTxn,                          \* ConflictSet.last before the first success
    vote_thresh, beta1, beta2,
    bvote_thresh, bbeta1, bbeta2    \* the same for Blizzard

ASSUME VotesAssumption ==
    /\ vote_thresh \in Nat \ {0} /\ beta1 \in Nat /\ beta2 \in Nat
    /\ bvote_thresh \in Nat \ {0} /\ bbeta1 \in Nat /\ bbeta2 \in Nat
    /\ NoTxn \notin Txns

VARIABLE variant        \* AvalancheConfig, fixed when the node starts

IsBlizzard == variant = "blizzard"
Threshold == IF IsBlizzard THEN bvote_thresh ELSE vote_thresh

----------------------------------------------------------------------------
\* Recording transactions and voting on them

\* The conflict set of a utxo when t is recorded as a spender of it.
JoinConflictSet(cs, u, t) ==
    IF u \in DOMAIN cs
    THEN [has_conflicts |-> TRUE, pref |-> cs[u].pref, last |-> cs[u].last, count |-> cs[u].count]
    ELSE [has_conflicts |-> FALSE, pref |-> t, last |-> NoTxn, count |-> 0]

BlizzardJoinConflictSet(cs, u, t) ==
    IF u \in DOMAIN cs
    THEN [has_conflicts |-> TRUE, pref |-> cs[u].pref, total_rounds |-> cs[u].total_rounds]
    ELSE [has_conflicts |-> FALSE, pref |-> t, total_rounds |-> 0]

Joined(cs, t) ==
    [u \in DOMAIN cs \cup Utxos(t) |->
        IF u \notin Utxos(t) THEN cs[u]
        ELSE IF IsBlizzard THEN BlizzardJoinConflictSet(cs, u, t) ELSE JoinConflictSet(cs, u, t)]

\* Mutant: recorded again, a transaction starts from no confidence.
RecordTxnAfresh(v, t) ==
    [pool |-> v.pool \cup {t}, dag |-> AddNode(v.dag, t), conf |-> Insert(v.conf, t, 0),
     cs |-> Joined(v.cs, t), cache |-> v.cache]

\* new_tail's records for a transaction that decide has not met.
RecordTxn(v, t) ==
    IF t \in v.pool THEN v
    ELSE [pool |-> v.pool \cup {t}, dag |-> AddNode(v.dag, t), conf |-> Insert(v.conf, t, 0),
          cs |-> Joined(v.cs, t), cache |-> v.cache]

\* One transaction of a block in new_tail: record it, then vote; a grant
\* conflicts with nothing and a placeholder is never valid.
VoteOn(acc, t) ==
    IF t = PlaceHolder THEN [view |-> acc.view, votes |-> Append(acc.votes, FALSE)]
    ELSE LET v == RecordTxn(acc.view, t)
             ask == AskPreferred(v.dag, v.cs, v.cache, t)
         IN  IF IsSend(t)
             THEN [view |-> [pool |-> v.pool, dag |-> v.dag, conf |-> v.conf, cs |-> v.cs,
                             cache |-> ask.cache],
                   votes |-> Append(acc.votes, ask.answer)]
             ELSE [view |-> v, votes |-> Append(acc.votes, TRUE)]
Voting == INSTANCE Folding WITH Op <- VoteOn

VoteOnTxns(v, txns) == Voting!Fold([view |-> v, votes |-> <<>>], txns)

----------------------------------------------------------------------------
\* The outcome of a poll

\* Mutant: compares with the confidence read before the increment.
OvertakenStale(v, t) ==
    {u \in Utxos(t) : v.cs[u].pref # t /\ v.conf[v.cs[u].pref] < v.conf[t]}

\* The inputs of t whose preferred spender falls behind t with its new unit
\* of confidence.
Overtaken(v, t) ==
    {u \in Utxos(t) : v.cs[u].pref # t /\ v.conf[v.cs[u].pref] < v.conf[t] + 1}

\* A success of t in a conflict set that then prefers `pref'.
CountSuccess(ct, t, pref) ==
    [has_conflicts |-> ct.has_conflicts, pref |-> pref, last |-> t,
     count |-> IF ct.last = t THEN ct.count + 1 ELSE 1]

BlizzardCountSuccess(ct, pref) ==
    [has_conflicts |-> ct.has_conflicts, pref |-> pref, total_rounds |-> ct.total_rounds + 1]

\* With no undecided parent and no rival, t is committed early.
IsEarly(dag, cs, t) ==
    /\ Parents(t) \cap DOMAIN dag = {}
    /\ \A u \in Utxos(t) : ~ cs[u].has_conflicts

\* is_accepted: the shortest streak of t in its conflict sets.
IsAccepted(dag, cs, t, score) ==
    Min({score} \cup {cs[u].count : u \in Utxos(t)})
        >= (IF IsEarly(dag, cs, t) THEN beta1 ELSE beta2)

\* Mutant: the rounds of rivals do not count.
RivalRoundsIgnored(cs, t, score) == 0

\* conflict_count: the rounds that rivals of t have won, over all its inputs.
RivalRounds(cs, t, score) ==
    SumOver([u \in Utxos(t) |-> cs[u].total_rounds - score], Utxos(t))

BlizzardIsAccepted(dag, cs, t, score) ==
    score >= (IF IsEarly(dag, cs, t) THEN bbeta1 ELSE bbeta2) + RivalRounds(cs, t, score)

\* One transaction in handle_votes_helper, its undecided parents done: one
\* more unit of confidence, preference to the more confident spender, the
\* success counted in each of its conflict sets, and acceptance.
Support(acc, t) ==
    LET v == acc.view
        score == v.conf[t] + 1
        won == Overtaken(v, t)
        pref(u) == IF u \in won THEN t ELSE v.cs[u].pref
        cs == [u \in DOMAIN v.cs |->
                 IF u \notin Utxos(t) THEN v.cs[u]
                 ELSE IF IsBlizzard THEN BlizzardCountSuccess(v.cs[u], pref(u))
                 ELSE CountSuccess(v.cs[u], t, pref(u))]
        kept == DOMAIN v.cache \ (IF won = {} THEN {} ELSE Offspring(v.dag, t))
        accepted == IF IsBlizzard THEN BlizzardIsAccepted(v.dag, cs, t, score)
                    ELSE IsAccepted(v.dag, cs, t, score)
    IN  [view |-> [pool |-> v.pool,
                   dag  |-> IF accepted THEN Restrict(v.dag, DOMAIN v.dag \ {t}) ELSE v.dag,
                   conf |-> Insert(v.conf, t, score),
                   cs   |-> cs,
                   cache |-> Restrict(v.cache, IF accepted THEN kept \ {t} ELSE kept)],
         list |-> IF accepted THEN Append(acc.list, t) ELSE acc.list]
Supporting == INSTANCE Folding WITH Op <- Support

\* A failed poll of t, basic: the streaks of t and its undecided ancestors
\* end.
Discourage(v, t) ==
    LET hit == UNION {Utxos(a) : a \in Range(Ancestry(v.dag, t))}
    IN  [pool |-> v.pool, dag |-> v.dag, conf |-> v.conf, cache |-> v.cache,
         cs |-> [u \in DOMAIN v.cs |->
                   IF u \notin hit THEN v.cs[u]
                   ELSE [has_conflicts |-> v.cs[u].has_conflicts, pref |-> v.cs[u].pref,
                         last |-> v.cs[u].last, count |-> 0]]]

\* Mutant: walks the DAG as it was before the block's earlier transactions.
SettleStaleDag(v, txns, accept) ==
    LET after[i \in 0 .. Len(txns)] ==
            IF i = 0 THEN [view |-> v, list |-> <<>>]
            ELSE IF accept[i] >= Threshold
            THEN Supporting!Fold(after[i - 1], Ancestry(v.dag, txns[i]))
            ELSE IF IsBlizzard THEN after[i - 1]
            ELSE [view |-> Discourage(after[i - 1].view, txns[i]), list |-> after[i - 1].list]
    IN  after[Len(txns)]

\* One transaction of a block in handle_votes; in Blizzard a poll that fails
\* changes nothing.
SettleTxn(acc, poll) ==
    IF poll.accept >= Threshold
    THEN Supporting!Fold(acc, Ancestry(acc.view.dag, poll.txn))
    ELSE IF IsBlizzard THEN acc
    ELSE [view |-> Discourage(acc.view, poll.txn), list |-> acc.list]
Settling == INSTANCE Folding WITH Op <- SettleTxn

\* The body of handle_votes: the transactions of the block in turn.
Settle(v, txns, accept) ==
    Settling!Fold([view |-> v, list |-> <<>>],
                  [i \in DOMAIN txns |-> [txn |-> txns[i], accept |-> accept[i]]])
=============================================================================
