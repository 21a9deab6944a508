------------------------------ MODULE FlowGen ------------------------------
(***************************************************************************)
(* The load generators of copycat_flowgen and the loop of copycat_cluster  *)
(* that drives them: one task that generates a batch of transactions when  *)
(* there is room for more in flight, gives it to the nodes, and takes in   *)
(* the blocks that nodes commit.  get_flow_gen chooses one of three        *)
(* generators; the Avalanche one also makes pairs of rivals that spend the *)
(* same output, of which the chain is to commit only one.                  *)
(*                                                                         *)
(* Transactions are numbered in the order of their making.  Accounts are   *)
(* left out but for the choice of receivers that keeps two rivals apart,   *)
(* and so is which account's output is spent next.  Time is left out.      *)
(***************************************************************************)
EXTENDS Integers, Sequences, FiniteSets, FiniteSetsExt, Flatten

CONSTANTS
    NumClients,
    NumAccounts,        \* accounts of each client
    NumNodes,           \* nodes of this machine
    TxnSpan,            \* txn_span: nodes that get a client's transactions; 0 is all
    Chains,             \* chain types
    MaxInflight,        \* max_inflight; UNSET is no limit
    Frequencies,        \* values of frequency; UNSET is no limit
    MAX_BATCH_FREQ,
    CommitDepth,        \* avax_commit_depth
    Pay,                \* what a transaction pays, and an Avalanche grant
    BitcoinGrant,
    MaxSingles,         \* per chain type: bound on transactions without rival
    MaxConflicts,       \* bound on generated conflicts
    MaxHeight           \* bound on heights of committed blocks

UNSET == 0

\* With two accounts, which its assertion allows, the Avalanche generator
\* divides by zero when it chooses the receiver of a second rival.
ASSUME ClientsAssumption ==
    NumClients \in Nat \ {0} /\ NumAccounts \in Nat /\ NumAccounts > 2 /\ NumNodes \in Nat \ {0}
ASSUME SizesAssumption ==
    /\ MaxInflight \in Nat /\ Frequencies \subseteq Nat /\ MAX_BATCH_FREQ \in Nat \ {0}
    /\ CommitDepth \in Nat /\ TxnSpan \in Nat /\ MaxHeight \in Nat
ASSUME ValuesAssumption == Pay \in Nat \ {0} /\ BitcoinGrant \in Nat \ {0}

VARIABLES
    chain,              \* the chain type
    batch_size,
    pc,                 \* the driver: "select" or "generate"
    room,               \* what the batch still lacks
    singles, fights,    \* how many transactions without rival, and conflicts
    spends,             \* transaction made -> the output that it spends
    given,              \* node -> transactions sent to it, in sequence
    utxos,              \* client -> unspent outputs
    conflicting_utxos,  \* unspent outputs that the next conflict is about
    in_flight,
    in_flight_conflict, \* transaction -> its rival
    conflict_set,       \* transactions whose rival was committed
    conflicts_sent, conflicts_recv, conflicts_committed,
    chain_length,       \* node -> height of its last block (Bitcoin)
    txn_count           \* node -> heights with a transaction count (Bitcoin)

conflicts == <<in_flight_conflict, conflict_set, conflicts_sent, conflicts_recv, conflicts_committed>>
outputs == <<singles, fights, spends, given, utxos, conflicting_utxos>>
chain_info == <<chain_length, txn_count>>
vars == <<chain, batch_size, pc, room, outputs, in_flight, conflicts, chain_info>>

Clients == 0 .. NumClients - 1
Nodes == 0 .. NumNodes - 1

\* req_dsts: the nodes that get the transactions of client c.
Dsts(c) == IF TxnSpan = 0 THEN Nodes ELSE {(c + offset) % NumNodes : offset \in 0 .. TxnSpan - 1}

\* What node n gets of a batch, a sequence of pairs of a client and a
\* transaction.
Share(n, batch) ==
    FlattenSeq([i \in DOMAIN batch |->
                  IF n \in Dsts(batch[i][1]) THEN <<batch[i][2]>> ELSE <<>>])

\* send_req of all that is in the batch, in its order.
Send(batch) == given' = [n \in Nodes |-> given[n] \o Share(n, batch)]

\* A transaction's identity, which stands for its hash: the setup grants of
\* a client, the n-th single transaction, and of the n-th conflict the grant
\* and the two sides of each level.
Txn(kind, n, level, side) == [kind |-> kind, n |-> n, level |-> level, side |-> side]
SetupGrant(c, a) == Txn("setup", c, a, 0)
Single(n) == Txn("single", n, 0, 0)
Grant(n) == Txn("grant", n, 0, 0)
Rival(n, level, side) == Txn("rival", n, level, side)

\* The other of two rivals.
Twin(t) == [t EXCEPT !.side = 3 - @]

\* An output: of which transaction, whether what it pays or what remains, and
\* how much.
Output(t, part, value) == [txn |-> t, part |-> part, value |-> value]
NoOutput == Output(Txn("none", 0, 0, 0), "paid", 0)

\* setup_txns: a grant to each account.
SetupValue == IF chain = "Bitcoin" THEN BitcoinGrant ELSE Pay
SetupTxns(c) ==
    IF chain = "ChainReplication" THEN {} ELSE {SetupGrant(c, a) : a \in 1 .. NumAccounts}

\* Batch size as the frequency has it.
BatchSize(frequency) ==
    IF frequency = UNSET THEN MaxInflight
    ELSE IF frequency < MAX_BATCH_FREQ THEN 1
    ELSE frequency \div MAX_BATCH_FREQ

\* The elements of S in some order.
Listed(S) == CHOOSE q \in Injection(1 .. Cardinality(S), S) : TRUE

Init ==
    /\ chain \in Chains /\ batch_size \in {BatchSize(f) : f \in Frequencies}
    /\ pc = "select" /\ room = 0 /\ singles = 0 /\ fights = 0
    /\ given = [n \in Nodes |-> Listed(UNION {SetupTxns(c) : c \in {d \in Clients : n \in Dsts(d)}})]
    /\ spends = [t \in {} |-> NoOutput]
    /\ utxos = [c \in Clients |-> {Output(t, "paid", SetupValue) : t \in SetupTxns(c)}]
    /\ conflicting_utxos = {}
    /\ in_flight = {} /\ in_flight_conflict = [t \in {} |-> t] /\ conflict_set = {}
    /\ conflicts_sent = 0 /\ conflicts_recv = 0 /\ conflicts_committed = 0
    /\ chain_length = [n \in Nodes |-> 0] /\ txn_count = [n \in Nodes |-> {}]

----------------------------------------------------------------------------
\* wait_next and next_txn_batch

\* Mutant: a conflict weighs as much as its transactions in flight.
get_inflight_count_all == Cardinality(in_flight)

\* A conflict weighs one until the first of the two is committed, and then
\* nothing: its loser stays in flight for ever.
get_inflight_count ==
    Cardinality(in_flight) - Cardinality(DOMAIN in_flight_conflict)
        + conflicts_sent - conflicts_recv

wait_next ==
    /\ pc = "select" /\ pc' = "generate"
    /\ MaxInflight # UNSET => get_inflight_count < MaxInflight
    /\ room' = IF MaxInflight = UNSET THEN batch_size
               ELSE Min({batch_size, MaxInflight - get_inflight_count})
    /\ UNCHANGED <<chain, batch_size, outputs, in_flight, conflicts, chain_info>>

\* One transaction of chain replication; it spends nothing.
generate_chain_replication ==
    /\ pc = "generate" /\ room > 0 /\ chain = "ChainReplication" /\ singles < MaxSingles[chain]
    /\ \E c \in Clients : Send(<<<<c, Single(singles)>>>>)
    /\ spends' = [t \in DOMAIN spends \cup {Single(singles)} |->
                    IF t = Single(singles) THEN NoOutput ELSE spends[t]]
    /\ in_flight' = in_flight \cup {Single(singles)}
    /\ singles' = singles + 1 /\ room' = room - 1
    /\ UNCHANGED <<chain, batch_size, pc, fights, utxos, conflicting_utxos, conflicts, chain_info>>

\* The outputs of a transaction that spends u: at most Pay is paid, the rest
\* remains with the sender.
SpentFor(t, u) ==
    {o \in {Output(t, "paid", Min({u.value, Pay})), Output(t, "rest", u.value - Min({u.value, Pay}))} :
        o.value > 0}

\* Mutant: the output is read and stays on offer.
TakenStays(offered, u) == offered

\* An output that a transaction will spend is taken from those on offer.
Taken(offered, u) == offered \ {u}

\* A transaction of client c that spends u.
Spend(c, u) ==
    /\ utxos' = [utxos EXCEPT ![c] = Taken(@, u) \cup SpentFor(Single(singles), u)]
    /\ Send(<<<<c, Single(singles)>>>>)
    /\ spends' = [t \in DOMAIN spends \cup {Single(singles)} |->
                    IF t = Single(singles) THEN u ELSE spends[t]]
    /\ in_flight' = in_flight \cup {Single(singles)}
    /\ singles' = singles + 1 /\ room' = room - 1
    /\ UNCHANGED <<chain, batch_size, pc, fights, conflicting_utxos, conflicts, chain_info>>

\* One transaction of Bitcoin; an account without outputs is passed over.
generate_bitcoin ==
    /\ pc = "generate" /\ room > 0 /\ chain = "Bitcoin" /\ singles < MaxSingles[chain]
    /\ \E c \in Clients : \E u \in utxos[c] : Spend(c, u)

\* The branch of Avalanche's next_txn_batch without conflict.
generate_avalanche ==
    /\ pc = "generate" /\ room > 0 /\ chain = "Avalanche" /\ singles < MaxSingles[chain]
    /\ \E c \in Clients : \E u \in utxos[c] : Spend(c, u)

\* The receivers of two rivals, from random numbers below NumAccounts - 1 and
\* NumAccounts - 2.  The first is not the sender; the second is not the first,
\* though it may be the sender.
Recver1(sender, random) == IF random >= sender THEN random + 1 ELSE random

\* Mutant: the second receiver is chosen like the first.
Recver2Like1(sender, recver1, random) == Recver1(sender, random)

Recver2(sender, recver1, random) ==
    LET recver == IF random >= sender THEN random + 1 ELSE random
    IN  IF recver >= recver1 THEN recver + 1 ELSE recver

\* Two rivals with the same receiver are one transaction: whether two that
\* were chosen at random have the same.
SameReceivers(same) ==
    \E sender \in 0 .. NumAccounts - 1, r1 \in 0 .. NumAccounts - 2, r2 \in 0 .. NumAccounts - 3 :
        same <=> (Recver1(sender, r1) = Recver2(sender, Recver1(sender, r1), r2))

\* Mutant: the grant goes to one client only.
GrantBatchOnce(clients, grants) == [i \in 1 .. Cardinality(grants) |-> <<clients[i], CHOOSE g \in grants : TRUE>>]

\* The grant goes to both clients.
GrantBatch(clients, grants) ==
    IF grants = {} THEN <<>> ELSE LET g == CHOOSE g \in grants : TRUE IN <<<<clients[1], g>>, <<clients[2], g>>>>

\* A side of a level of the n-th conflict, and all of them.
Side(n, same, level, side) == IF level = 0 /\ same THEN Rival(n, 0, 1) ELSE Rival(n, level, side)
Sides(n, same) == {Side(n, same, level, side) : level \in 0 .. CommitDepth, side \in {1, 2}}

\* Both sides of each level go to both clients, to the second in the other
\* order.
ConflictBatch(n, clients, same) ==
    FlattenSeq([i \in 1 .. CommitDepth + 1 |->
        LET one == Side(n, same, i - 1, 1) two == Side(n, same, i - 1, 2)
        IN  <<<<clients[1], one>>, <<clients[1], two>>, <<clients[2], two>>, <<clients[2], one>>>>])

\* The n-th conflict: two rivals that spend u, and CommitDepth transactions
\* after each that spend the one before.  The last of each side is what
\* later conflicts are about.  grants is the grant made for the conflict, if
\* one had to be.
Conflict(n, u, grants, same) ==
    LET news == Sides(n, same)
        Other(t) == Side(n, same, t.level, 3 - t.side)
        Before(t) == IF t.level = 0 THEN u.txn ELSE Side(n, same, t.level - 1, t.side)
    IN  /\ Send(GrantBatch(u.clients, grants) \o ConflictBatch(n, u.clients, same))
        /\ spends' = [t \in DOMAIN spends \cup grants \cup news |->
                        IF t \in news THEN Output(Before(t), "paid", Pay)
                        ELSE IF t \in grants THEN NoOutput
                        ELSE spends[t]]
        /\ conflicting_utxos' = Taken(conflicting_utxos, u)
                \cup {[txn |-> Side(n, same, CommitDepth, side), clients |-> u.clients] : side \in {1, 2}}
        /\ in_flight' = in_flight \cup grants \cup news
        /\ in_flight_conflict' = [t \in DOMAIN in_flight_conflict \cup news |->
                IF t \in news THEN Other(t) ELSE in_flight_conflict[t]]
        /\ conflicts_sent' = conflicts_sent + CommitDepth + 1
        /\ room' = room - Cardinality(grants) - (CommitDepth + 1)

\* The branch of next_txn_batch that makes a conflict, about an output of an
\* earlier one or, if there is none, of a new grant.
generate_conflict ==
    /\ pc = "generate" /\ room > 0 /\ chain = "Avalanche" /\ fights < MaxConflicts
    /\ \E same \in BOOLEAN :
       /\ SameReceivers(same)
       /\ IF conflicting_utxos # {}
          THEN \E u \in conflicting_utxos : Conflict(fights, u, {}, same)
          ELSE \E c \in Clients :
                  LET u == [txn |-> Grant(fights), clients |-> <<c, (c + 1) % NumClients>>]
                  IN  Conflict(fights, u, {Grant(fights)}, same)
    /\ fights' = fights + 1
    /\ UNCHANGED <<chain, batch_size, pc, singles, utxos, conflict_set, conflicts_recv,
                   conflicts_committed, chain_info>>

\* The bounds leave nothing to generate.
Exhausted ==
    /\ singles = MaxSingles[chain]
    /\ chain = "Avalanche" => fights = MaxConflicts

\* The batch is complete and sent.
batch_sent ==
    /\ pc = "generate" /\ (room <= 0 \/ Exhausted)
    /\ pc' = "select"
    /\ UNCHANGED <<chain, batch_size, room, outputs, in_flight, conflicts, chain_info>>

----------------------------------------------------------------------------
\* txn_committed

\* Mutant: the loop that drops the heights of a fork stops one too early.
CountedTop(heights, length, height) == (heights \ (height .. length - 1)) \cup {height}

\* Bitcoin: a block at a height that was committed before replaces the one
\* there and all above it.
Counted(heights, length, height) == (heights \ (height .. length)) \cup {height}

\* The first of two rivals to be committed, and the second.
SettleConflict(t) ==
    IF t \notin DOMAIN in_flight_conflict
    THEN UNCHANGED <<conflict_set, conflicts_recv, conflicts_committed>>
    ELSE IF t \in conflict_set
    THEN /\ conflicts_committed' = conflicts_committed + 1
         /\ conflict_set' = conflict_set \ {t}
         /\ UNCHANGED conflicts_recv
    ELSE /\ conflicts_recv' = conflicts_recv + 1
         /\ conflict_set' = conflict_set \cup {in_flight_conflict[t]}
         /\ UNCHANGED conflicts_committed

\* A node committed a block with t, one of the transactions made, perhaps
\* after another node did.  The transactions of a larger block are dealt with
\* one by one in the same way.  A replica's blocks come in order
\* (CommittedInOrder of ChainReplication), so its heights are left out.
txn_committed_chain_replication(t) ==
    /\ pc = "select" /\ chain = "ChainReplication"
    /\ in_flight' = in_flight \ {t}
    /\ UNCHANGED <<chain, batch_size, pc, room, outputs, conflicts, chain_info>>

\* In Bitcoin a block follows the node's last one or an earlier one.
txn_committed_bitcoin(node, t) ==
    /\ pc = "select" /\ chain = "Bitcoin"
    /\ \E height \in 1 .. Min({chain_length[node] + 1, MaxHeight}) :
          /\ txn_count' = [txn_count EXCEPT ![node] = Counted(@, chain_length[node], height)]
          /\ chain_length' = [chain_length EXCEPT ![node] = height]
    /\ in_flight' = in_flight \ {t}
    /\ UNCHANGED <<chain, batch_size, pc, room, outputs, conflicts>>

txn_committed_avalanche(t) ==
    /\ pc = "select" /\ chain = "Avalanche"
    /\ in_flight' = in_flight \ {t}
    /\ in_flight_conflict' = [r \in DOMAIN in_flight_conflict \ {t} |-> in_flight_conflict[r]]
    /\ SettleConflict(t)
    /\ UNCHANGED <<chain, batch_size, pc, room, outputs, conflicts_sent, chain_info>>

Next ==
    \/ wait_next
    \/ generate_chain_replication \/ generate_bitcoin \/ generate_avalanche \/ generate_conflict
    \/ batch_sent
    \/ \E t \in DOMAIN spends :
          \/ txn_committed_chain_replication(t)
          \/ \E node \in Nodes : txn_committed_bitcoin(node, t)
          \/ txn_committed_avalanche(t)

Spec == Init /\ [][Next]_vars

----------------------------------------------------------------------------
\* Properties

\* The transactions that no other is a rival of.
Uncontested ==
    {Single(n) : n \in 0 .. Max({MaxSingles[ch] : ch \in Chains}) - 1}
        \cup {Grant(n) : n \in 0 .. MaxConflicts - 1}

\* The driver's select! takes a ready arm at random and its handlers end; the
\* chain commits every transaction that has no rival.  Of rivals nothing is
\* assumed: the chain may commit both of a pair, one or neither.
FairSpec ==
    /\ Spec
    /\ SF_vars(wait_next)
    /\ WF_vars(\/ generate_chain_replication \/ generate_bitcoin \/ generate_avalanche
               \/ generate_conflict \/ batch_sent)
    /\ \A t \in Uncontested : []<>(t \notin in_flight)

\* The pairs of rivals made so far, and those of which none, or one at least,
\* or both are committed.
Pairs == {{Rival(n, l, 1), Rival(n, l, 2)} : n \in 0 .. fights - 1, l \in 0 .. CommitDepth}
OpenPairs == {p \in Pairs : p \subseteq in_flight}
LostPairs == {p \in Pairs : p \cap in_flight = {}}

\* get_inflight_count is what it is meant to be, the transactions without a
\* rival plus the conflicts of which none is committed, and its unsigned
\* subtractions never go below zero; conflicts_recv and conflicts_committed,
\* which the reported commit confidence divides, count the conflicts of which
\* one, and of which both, were committed.  All this however the commits of
\* different nodes interleave and repeat.
CountersExact ==
    /\ Cardinality(DOMAIN in_flight_conflict) <= Cardinality(in_flight)
    /\ conflicts_recv <= conflicts_sent
    /\ get_inflight_count = Cardinality({t \in in_flight : t.kind # "rival"}) + Cardinality(OpenPairs)
    /\ conflicts_recv = Cardinality(Pairs) - Cardinality(OpenPairs)
    /\ conflicts_committed = Cardinality(LostPairs)

\* No output is spent twice but by two rivals.
OnlyRivalsConflict ==
    \A t1, t2 \in DOMAIN spends :
        t1 # t2 /\ spends[t1] = spends[t2] /\ spends[t1] # NoOutput
            => t1.kind = "rival" /\ t2 = Twin(t1)

\* Every node that is sent a transaction was sent the one that its input
\* comes from before: no node waits for an input that only others have.
SentAfterInputs ==
    \A n \in Nodes : \A i \in 1 .. Len(given[n]) :
        LET t == given[n][i]
        IN  t \in DOMAIN spends /\ spends[t] # NoOutput
                => \E j \in 1 .. i - 1 : given[n][j] = spends[t].txn

\* get_stats finds a count for every height of a node's chain and for no
\* other, after any forks.
HeightsCounted == \A n \in Nodes : txn_count[n] = 1 .. chain_length[n]

\* The generator goes on, unless the conflicts of which no side was committed
\* alone use up max_inflight.  Losers of decided conflicts, which stay in
\* flight for ever, do not hold it up; but next_txn_batch also makes conflicts
\* about the output of a loser, of which no side ever can be committed, and
\* CommitDepth + 1 pairs of each are counted for good.
KeepsGenerating ==
    <>Exhausted \/ <>[](MaxInflight # UNSET /\ Cardinality(OpenPairs) >= MaxInflight)
=============================================================================
