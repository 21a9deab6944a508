--------------------------- MODULE TxnValidation ---------------------------
(***************************************************************************)
(* The txn_validation stage (basic Avalanche and Bitcoin, which share the  *)
(* algorithm).  Transactions come from clients and peers, in any order and *)
(* in several copies.  Tasks check signatures in batches, concurrently,    *)
(* and drop what txns_seen holds already; the stage then holds each        *)
(* transaction back until its inputs have been validated.                  *)
(*                                                                         *)
(* txns_seen is shared with block management, whose tasks enter the        *)
(* transactions of peers' blocks.  A task keeps its permit of the core     *)
(* group until its batch is in the pending_txns pipe, and the stage, which *)
(* empties that pipe, needs a permit for every batch; other stages hold    *)
(* permits for a while and are left out.                                   *)
(***************************************************************************)
EXTENDS Integers, Sequences, FiniteSets, FiniteSetsExt, Flatten

CONSTANTS
    Txns,
    InUtxo,         \* InUtxo[t]: the transactions whose outputs t spends
    Signed,         \* transactions with a valid signature
    Correct,        \* transactions whose inputs and outputs match
    BlockTxns,      \* transactions that a peer's block may bring
    Tasks,          \* numbers for the validation tasks that run at a time
    BatchSize,      \* VALIDATION_BATCH_SIZE
    Cores,          \* permits of the core group
    PipeSize,       \* capacity of the pending_txns pipe
    MaxCopies       \* bound: MaxCopies[t], copies of t that arrive

ASSUME TxnsAssumption ==
    /\ IsFiniteSet(Txns) /\ InUtxo \in [Txns -> SUBSET Txns]
    /\ Signed \subseteq Txns /\ Correct \subseteq Txns /\ BlockTxns \subseteq Txns
ASSUME BoundsAssumption ==
    /\ BatchSize \in Nat \ {0} /\ Cores \in Nat \ {0} /\ PipeSize \in Nat \ {0}
    /\ MaxCopies \in [Txns -> Nat]
    /\ IsFiniteSet(Tasks) /\ Tasks = 1 .. Cardinality(Tasks)

VARIABLES
    arrived,        \* copies of each transaction received
    txn_buffer,
    tasks,          \* task -> [todo, checked, correct, at]
    txns_seen,
    from_blocks,    \* what block management entered into txns_seen first
    pending,        \* pending_txns pipe: batches of correct transactions
    hand,           \* the batch the stage received, until it has a permit
    txn_pool,
    pending_txns,   \* missing input -> transactions that wait for it
    validated       \* what went down the validated_txn pipe

vars == <<arrived, txn_buffer, tasks, txns_seen, from_blocks, pending, hand, txn_pool,
          pending_txns, validated>>

Idle == [todo |-> <<>>, checked |-> FALSE, correct |-> <<>>, at |-> "none"]

\* The tasks that hold a permit, and whether one is free.
Holders == {k \in Tasks : tasks[k].at = "running"}

PermitFree == Cardinality(Holders) < Cores

Init ==
    /\ arrived = [t \in Txns |-> 0]
    /\ txn_buffer = <<>>
    /\ tasks = [k \in Tasks |-> Idle]
    /\ txns_seen = {}
    /\ from_blocks = {}
    /\ pending = <<>>
    /\ hand = <<>>
    /\ txn_pool = {}
    /\ pending_txns = [t \in Txns |-> {}]
    /\ validated = <<>>

----------------------------------------------------------------------------
\* Arrival, and the signature checks of the tasks

\* The req and the peer_txn arm: a transaction from a client, for whom the
\* buffer is bounded, or from a peer.
Receive(t) ==
    /\ arrived[t] < MaxCopies[t] /\ hand = <<>>
    /\ arrived' = [arrived EXCEPT ![t] = @ + 1]
    /\ txn_buffer' = Append(txn_buffer, t)
    /\ UNCHANGED <<tasks, txns_seen, from_blocks, pending, hand, txn_pool, pending_txns, validated>>

\* The wait_validation_batch arm: a task for the next batch (tasks have no
\* identity: it gets the first free number).
StartBatch(k) ==
    /\ txn_buffer # <<>> /\ hand = <<>>
    /\ k = Min({j \in Tasks : tasks[j].at = "none"} \cup {Cardinality(Tasks) + 1})
    /\ LET n == Min({BatchSize, Len(txn_buffer)})
       IN  /\ tasks' = [tasks EXCEPT ![k] = [Idle EXCEPT !.todo = SubSeq(txn_buffer, 1, n),
                                                         !.at = "spawned"]]
           /\ txn_buffer' = SubSeq(txn_buffer, n + 1, Len(txn_buffer))
    /\ UNCHANGED <<arrived, txns_seen, from_blocks, pending, hand, txn_pool, pending_txns, validated>>

\* sem.acquire
AcquirePermit(k) ==
    /\ tasks[k].at = "spawned" /\ PermitFree
    /\ tasks' = [tasks EXCEPT ![k].at = "running"]
    /\ UNCHANGED <<arrived, txn_buffer, txns_seen, from_blocks, pending, hand, txn_pool,
                   pending_txns, validated>>

\* contains_key: a transaction seen before is skipped.
CheckSeen(k) ==
    /\ tasks[k].at = "running" /\ tasks[k].todo # <<>> /\ ~ tasks[k].checked
    /\ tasks' = IF Head(tasks[k].todo) \in txns_seen
                THEN [tasks EXCEPT ![k].todo = Tail(@)]
                ELSE [tasks EXCEPT ![k].checked = TRUE]
    /\ UNCHANGED <<arrived, txn_buffer, txns_seen, from_blocks, pending, hand, txn_pool,
                   pending_txns, validated>>

\* The check of the signature, the insert into txns_seen, which another task
\* may have made meanwhile, and the push to correct_txns.
RecordSeen(k) ==
    /\ tasks[k].checked
    /\ LET t == Head(tasks[k].todo)
       IN  /\ txns_seen' = txns_seen \cup {t}
           /\ tasks' = [tasks EXCEPT ![k].todo = Tail(@),
                                     ![k].checked = FALSE,
                                     ![k].correct = IF t \in Signed THEN Append(@, t) ELSE @]
    /\ UNCHANGED <<arrived, txn_buffer, from_blocks, pending, hand, txn_pool, pending_txns, validated>>

\* The task sends its batch when the pipe has room, and ends; the permit
\* goes with it.
FinishBatch(k) ==
    /\ tasks[k].at = "running" /\ tasks[k].todo = <<>>
    /\ Len(pending) < PipeSize
    /\ pending' = Append(pending, tasks[k].correct)
    /\ tasks' = [tasks EXCEPT ![k] = Idle]
    /\ UNCHANGED <<arrived, txn_buffer, txns_seen, from_blocks, hand, txn_pool, pending_txns, validated>>

\* A validation task of block management meets t in a block.
SeenInBlock(t) ==
    /\ t \in BlockTxns \ txns_seen
    /\ txns_seen' = txns_seen \cup {t}
    /\ from_blocks' = from_blocks \cup {t}
    /\ UNCHANGED <<arrived, txn_buffer, tasks, pending, hand, txn_pool, pending_txns, validated>>

----------------------------------------------------------------------------
\* Waiting for inputs

\* The transactions of `waiting', in the iteration order of the hash map.
Woken(order, waiting) ==
    FlattenSeq([i \in DOMAIN order |-> IF order[i] \in waiting THEN <<order[i]>> ELSE <<>>])

\* Mutant: a transaction with missing inputs is dropped.
ValidateInnerForgets(v, order) ==
    IF v.todo = <<>> THEN v
    ELSE LET t == Head(v.todo)
             rest == Tail(v.todo)
             missing == InUtxo[t] \ v.pool
         IN  CASE t \in v.pool \/ (missing = {} /\ t \notin Correct) -> [v EXCEPT !.todo = rest]
               [] t \notin v.pool /\ missing # {} ->
                    [v EXCEPT !.todo = rest]
               [] OTHER ->
                    [v EXCEPT !.todo = Woken(order, v.wait[t]) \o rest,
                              !.pool = @ \cup {t}, !.wait[t] = {}, !.out = Append(@, t)]

\* Mutant: relies on txns_seen to have removed all duplicates.
ValidateInnerTrusting(v, order) ==
    IF v.todo = <<>> THEN v
    ELSE LET t == Head(v.todo)
             rest == Tail(v.todo)
             missing == InUtxo[t] \ v.pool
         IN  CASE missing = {} /\ t \notin Correct -> [v EXCEPT !.todo = rest]
               [] missing # {} ->
                    [v EXCEPT !.todo = rest,
                              !.wait = [p \in Txns |-> IF p \in missing THEN @[p] \cup {t} ELSE @[p]]]
               [] OTHER ->
                    [v EXCEPT !.todo = Woken(order, v.wait[t]) \o rest,
                              !.pool = @ \cup {t}, !.wait[t] = {}, !.out = Append(@, t)]

\* One call of validate_inner; the calls it makes for waiting children come
\* next.
ValidateInner(v, order) ==
    IF v.todo = <<>> THEN v
    ELSE LET t == Head(v.todo)
             rest == Tail(v.todo)
             missing == InUtxo[t] \ v.pool
         IN  CASE t \in v.pool \/ (missing = {} /\ t \notin Correct) -> [v EXCEPT !.todo = rest]
               [] t \notin v.pool /\ missing # {} ->
                    [v EXCEPT !.todo = rest,
                              !.wait = [p \in Txns |-> IF p \in missing THEN @[p] \cup {t} ELSE @[p]]]
               [] OTHER ->
                    [v EXCEPT !.todo = Woken(order, v.wait[t]) \o rest,
                              !.pool = @ \cup {t}, !.wait[t] = {}, !.out = Append(@, t)]

\* The state after n calls of validate_inner.
AfterCalls(n, start, order) ==
    LET after[i \in 0 .. n] == IF i = 0 THEN start ELSE ValidateInner(after[i - 1], order)
    IN  after[n]

\* The pending_txns arm receives a batch, and then runs nothing else until
\* a permit is free.
RecvBatch ==
    /\ hand = <<>> /\ pending # <<>>
    /\ hand' = <<Head(pending)>>
    /\ pending' = Tail(pending)
    /\ UNCHANGED <<arrived, txn_buffer, tasks, txns_seen, from_blocks, txn_pool,
                   pending_txns, validated>>

\* How many transactions spend t: t wakes no more, and once, which bounds the
\* calls.
Spenders == [t \in Txns |-> Cardinality({c \in Txns : t \in InUtxo[c]})]

\* The transactions that validate may have to wake, and the orders in which
\* the elements of a set can be listed.
Wakeable == (UNION Range(pending_txns)) \cup Range(Head(hand))
Listings(S) == Injection(1 .. Cardinality(S), S)

\* The rest of the arm: validate on the batch, and the send.
Validate ==
    /\ hand # <<>> /\ PermitFree
    /\ hand' = <<>>
    /\ \E order \in Listings(Wakeable) :
          LET calls == Len(Head(hand)) + MapThenSumSet(LAMBDA t : Spenders[t], Txns)
              done == AfterCalls(calls, [todo |-> Head(hand), pool |-> txn_pool,
                                         wait |-> pending_txns, out |-> <<>>], order)
          IN  /\ txn_pool' = done.pool
              /\ pending_txns' = done.wait
              /\ validated' = validated \o done.out
    /\ UNCHANGED <<arrived, txn_buffer, tasks, txns_seen, from_blocks, pending>>

Next ==
    \/ \E t \in Txns : Receive(t)
    \/ \E k \in Tasks : StartBatch(k)
    \/ \E k \in Tasks : AcquirePermit(k)
    \/ \E k \in Tasks : CheckSeen(k)
    \/ \E k \in Tasks : RecordSeen(k)
    \/ \E k \in Tasks : FinishBatch(k)
    \/ \E t \in BlockTxns : SeenInBlock(t)
    \/ RecvBatch
    \/ Validate

Spec == Init /\ [][Next]_vars

\* tokio keeps polling the stage and its tasks, a batch is started at the
\* latest when its timer fires, and permits are handed out first come, first
\* served.  The last conjunct is strong fairness of Validate with its ENABLED
\* predicate written out.
Fairness ==
    /\ WF_vars(\E k \in Tasks : StartBatch(k))
    /\ \A k \in Tasks : SF_vars(AcquirePermit(k))
    /\ \A k \in Tasks : WF_vars(CheckSeen(k) \/ RecordSeen(k) \/ FinishBatch(k))
    /\ WF_vars(RecvBatch)
    /\ <>[](hand = <<>> \/ ~ PermitFree) \/ []<><<Validate>>_vars

FairSpec == Spec /\ Fairness

----------------------------------------------------------------------------
\* Properties

\* The stage lets every transaction through at most once, and after its
\* inputs, although two tasks may both find one of two copies unseen
\* (contains_key and insert) and inputs may come last.
ReleasedOnceInOrder ==
    /\ IsInjective(validated)
    /\ txn_pool = Range(validated) /\ txn_pool \subseteq Correct \cap Signed
    /\ \A i \in DOMAIN validated :
          InUtxo[validated[i]] \subseteq Range(SubSeq(validated, 1, i - 1))

InFlight ==
    Range(txn_buffer) \cup Range(FlattenSeq(pending \o hand))
        \cup UNION {Range(tasks[k].todo \o tasks[k].correct) : k \in Tasks}

\* A good transaction that was received has been let through, is under way
\* to validate, or waits under every input of it that is missing, and the
\* input then wakes it (validate_inner), unless it was taken for a duplicate
\* because a block brought it first.
WaitsForMissing ==
    \A t \in Correct \cap Signed :
        arrived[t] > 0 =>
            \/ t \in txn_pool \cup InFlight \cup from_blocks
            \/ /\ InUtxo[t] \ txn_pool # {}
               /\ \A p \in InUtxo[t] \ txn_pool : t \in pending_txns[p]

Family == LET family[t \in Txns] == {t} \cup UNION {family[p] : p \in InUtxo[t]}
          IN  family

\* The circular wait: the stage waits for a permit with a batch in hand, and
\* all permits are with tasks that wait for room in the pipe it empties.
Wedged ==
    /\ hand # <<>> /\ ~ PermitFree
    /\ Len(pending) = PipeSize /\ \A k \in Holders : tasks[k].todo = <<>>

\* A good transaction whose ancestors are good and all arrive is let through
\* in the end, with two exceptions and no other.  A block of a peer may have
\* brought one of them before clients or peers did: txns_seen then makes the
\* stage drop the later copy, which its children keep waiting for.  And more
\* batches than the pipe holds, one per core and one in hand may be under
\* way: tasks then wait for the stage and the stage for their permits.
ReleasedInTheEnd ==
    \A t \in Txns :
        (\A a \in Family[t] : arrived[a] > 0 /\ a \in Correct \cap Signed)
            ~> (t \in txn_pool \/ Family[t] \cap from_blocks # {} \/ Wedged)
=============================================================================
