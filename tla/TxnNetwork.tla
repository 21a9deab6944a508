----------------------------- MODULE TxnNetwork -----------------------------
(***************************************************************************)
(* How transactions spread: the txn_dissemination stages of all nodes, the *)
(* peer messengers between them, and of txn_validation what matters to the *)
(* others, that it lets each transaction through once (TxnValidation shows *)
(* how; the transactions here wait for no others).  Clients give a         *)
(* transaction to one or more nodes; nodes gossip, broadcast or keep it; a *)
(* dissemination may fail half way.                                        *)
(*                                                                         *)
(* A message stays in the network until the receiver's txn_validation has  *)
(* dealt with it.  The mailbox delivers every message once, in any order.  *)
(***************************************************************************)
EXTENDS Integers, FiniteSets, FiniteSetsExt

CONSTANTS
    Nodes,
    Pipes,          \* the pairs of nodes of the topology file
    Txns,
    Clients,        \* Clients[t]: the nodes that a client gives t to
    Patterns,       \* dissemination patterns
    DISSEM_BATCH_SIZE,
    MaxFailures     \* bound on failing disseminations

ASSUME NodesAssumption == IsFiniteSet(Nodes) /\ Pipes \subseteq Nodes \X Nodes
ASSUME ClientsAssumption == Clients \in [Txns -> SUBSET Nodes]
ASSUME PatternsAssumption == Patterns \subseteq {"gossip", "broadcast", "passthrough"}
ASSUME NumbersAssumption == DISSEM_BATCH_SIZE \in Nat \ {0} /\ MaxFailures \in Nat

VARIABLES
    pattern,        \* get_txn_dissemination's choice
    asked,          \* <<node, t>>: a client has given t to the node
    txns_seen,      \* node -> transactions it has seen
    batch,          \* node -> <<src, t>>: validated, not yet disseminated
    txn_ready,      \* node -> transactions handed on to block management
    gone,           \* node -> seen transactions that it will not hand on
    wire,            \* <<src, dst, t>> on their way
    carried,        \* how often <<src, dst, t>> was sent (history)
    failures

netVars == <<pattern, asked, txns_seen, batch, txn_ready, gone, wire, carried, failures>>

Messages == Nodes \X Nodes \X Txns

NetInit ==
    /\ pattern \in Patterns
    /\ asked = {}
    /\ txns_seen = [n \in Nodes |-> {}]
    /\ batch = [n \in Nodes |-> {}]
    /\ txn_ready = [n \in Nodes |-> {}]
    /\ gone = [n \in Nodes |-> {}]
    /\ wire = {}
    /\ carried = [m \in Messages |-> 0]
    /\ failures = 0

\* get_neighbors and get_topology: a pipe joins its ends both ways.
Neighbors(n) == {m \in Nodes : <<n, m>> \in Pipes \/ <<m, n>> \in Pipes}

----------------------------------------------------------------------------
\* txn_validation

\* Mutant: duplicates are let through.
ValidateAgain(n, src, t) ==
    /\ txns_seen' = [txns_seen EXCEPT ![n] = @ \cup {t}]
    /\ batch' = [batch EXCEPT ![n] = @ \cup {<<src, t>>}]

\* A transaction that was seen before is dropped; another one goes on to
\* dissemination with the node it came from.
Validate(n, src, t) ==
    IF t \in txns_seen[n]
    THEN UNCHANGED <<txns_seen, batch>>
    ELSE /\ txns_seen' = [txns_seen EXCEPT ![n] = @ \cup {t}]
         /\ batch' = [batch EXCEPT ![n] = @ \cup {<<src, t>>}]

\* The req arm: from a client, in the node's own name.
Request(n, t) ==
    /\ n \in Clients[t] /\ <<n, t>> \notin asked
    /\ asked' = asked \cup {<<n, t>>}
    /\ Validate(n, n, t)
    /\ UNCHANGED <<pattern, txn_ready, gone, wire, carried, failures>>

\* peer_receiver_thread and the peer_txn arm, which ignores what the node
\* sent to itself.
Receive(src, n, t) ==
    /\ <<src, n, t>> \in wire
    /\ wire' = wire \ {<<src, n, t>>}
    /\ IF src = n THEN UNCHANGED <<txns_seen, batch>> ELSE Validate(n, src, t)
    /\ UNCHANGED <<pattern, asked, txn_ready, gone, carried, failures>>

\* Block management meets t in a block of a peer, which took it from its own
\* txn_ready, before txn_validation does.
SeenInBlock(n, t) ==
    /\ t \notin txns_seen[n] /\ \E m \in Nodes : t \in txn_ready[m]
    /\ txns_seen' = [txns_seen EXCEPT ![n] = @ \cup {t}]
    /\ gone' = [gone EXCEPT ![n] = @ \cup {t}]
    /\ UNCHANGED <<pattern, asked, batch, txn_ready, wire, carried, failures>>

----------------------------------------------------------------------------
\* txn_dissemination

\* Mutant: gossip goes only to the neighbours with a pipe from this node.
GossipDestsOneWay(n, src) == {m \in Nodes : <<n, m>> \in Pipes} \ {src, n}

\* gossip: all neighbours but the one it came from.
GossipDests(n, src) == Neighbors(n) \ {src, n}

\* broadcast: all nodes, from the node that had it from a client.
BroadcastDests(n, src) == IF src = n THEN Nodes ELSE {}

\* Where the transactions that came from src go.
Dests(n, src) ==
    CASE pattern = "gossip" -> GossipDests(n, src)
      [] pattern = "broadcast" -> BroadcastDests(n, src)
      [] pattern = "passthrough" -> {}

\* One message per source to each of its destinations.
Group(n, S, src, dests) == {<<n, d, st[2]>> : d \in dests, st \in {x \in S : x[1] = src}}

Groups(n, S, srcs) == UNION {Group(n, S, src, Dests(n, src)) : src \in srcs}

\* The arm takes DISSEM_BATCH_SIZE transactions, or all if there are fewer
\* when the timer fires; which ones of a longer batch is left open.
Drained(n) ==
    {S \in SUBSET batch[n] :
        /\ S # {}
        /\ Cardinality(S) = Min({DISSEM_BATCH_SIZE, Cardinality(batch[n])})}

Post(msgs) ==
    /\ wire' = wire \cup msgs
    /\ carried' = [m \in Messages |-> IF m \in msgs THEN carried[m] + 1 ELSE carried[m]]

Taken(S) == {st[2] : st \in S}

\* disseminate succeeds: the batch goes on to txn_ready.
DisseminateTxns(n) ==
    \E S \in Drained(n) :
        /\ batch' = [batch EXCEPT ![n] = @ \ S]
        /\ Post(Groups(n, S, Nodes))
        /\ txn_ready' = [txn_ready EXCEPT ![n] = @ \cup Taken(S)]
        /\ UNCHANGED <<pattern, asked, txns_seen, gone, failures>>

\* Mutant: a batch whose dissemination failed goes on to txn_ready.
DisseminateTxnsHandsOn(n) ==
    \E S \in Drained(n), bad \in Nodes :
        /\ failures < MaxFailures /\ failures' = failures + 1
        /\ bad \in {st[1] : st \in S} /\ Dests(n, bad) # {}
        /\ batch' = [batch EXCEPT ![n] = @ \ S]
        /\ \E done \in SUBSET (Nodes \ {bad}), reached \in SUBSET Dests(n, bad) :
              Post(Group(n, S, bad, reached) \cup Groups(n, S, done))
        /\ txn_ready' = [txn_ready EXCEPT ![n] = @ \cup Taken(S)]
        /\ UNCHANGED <<pattern, asked, txns_seen, gone>>

\* disseminate fails at the group of one source: some groups are sent before
\* it, none after it, it may itself reach some; and the batch is dropped.
DisseminateTxnsFails(n) ==
    \E S \in Drained(n), bad \in Nodes :
        /\ failures < MaxFailures /\ failures' = failures + 1
        /\ bad \in {st[1] : st \in S} /\ Dests(n, bad) # {}
        /\ batch' = [batch EXCEPT ![n] = @ \ S]
        /\ \E done \in SUBSET (Nodes \ {bad}), reached \in SUBSET Dests(n, bad) :
              Post(Group(n, S, bad, reached) \cup Groups(n, S, done))
        /\ gone' = [gone EXCEPT ![n] = @ \cup Taken(S)]
        /\ UNCHANGED <<pattern, asked, txns_seen, txn_ready>>

NetNext ==
    \/ \E n \in Nodes, t \in Txns : Request(n, t)
    \/ \E src, n \in Nodes, t \in Txns : Receive(src, n, t)
    \/ \E n \in Nodes, t \in Txns : SeenInBlock(n, t)
    \/ \E n \in Nodes : DisseminateTxns(n)
    \/ \E n \in Nodes : DisseminateTxnsFails(n)

NetSpec == NetInit /\ [][NetNext]_netVars

\* The mailbox delivers, and a batch leaves when its timer fires; clients
\* may stop and disseminations need not fail.  Both conjuncts are weak
\* fairness with the ENABLED predicate written out.
NetFairness ==
    /\ []<>(wire = {}) \/ []<><<\E src, n \in Nodes, t \in Txns : Receive(src, n, t)>>_netVars
    /\ \A n \in Nodes :
          []<>(batch[n] = {}) \/ []<><<DisseminateTxns(n) \/ DisseminateTxnsFails(n)>>_netVars

FairNetSpec == NetSpec /\ NetFairness

----------------------------------------------------------------------------
\* Properties

\* The variables have the values of the code's collections.
NetTypeOK ==
    /\ pattern \in Patterns /\ failures \in 0 .. MaxFailures
    /\ asked \subseteq Nodes \X Txns
    /\ wire \subseteq Messages /\ carried \in [Messages -> Nat]
    /\ txns_seen \in [Nodes -> SUBSET Txns] /\ batch \in [Nodes -> SUBSET (Nodes \X Txns)]
    /\ txn_ready \in [Nodes -> SUBSET Txns] /\ gone \in [Nodes -> SUBSET Txns]

\* Each node sends a transaction over a link at most once, whatever cycles
\* the topology has, from however many sides the transaction comes and
\* whichever disseminations fail half way.
OncePerLink == \A m \in Messages : carried[m] <= 1

\* A node that handed a gossiped transaction on has left none of its
\* neighbours without it, the one it had it from included: each has seen it,
\* or it is on the way there.
NoNeighbourLeftOut ==
    pattern = "gossip" =>
        \A a \in Nodes : \A b \in Neighbors(a) : \A t \in txn_ready[a] :
            t \in txns_seen[b] \/ \E src \in Nodes : <<src, b, t>> \in wire

\* A broadcast transaction that some node handed on is missing at another
\* only while it is on the way there, or if some node will not hand it on:
\* its broadcast failed half way there, or a block had brought it first.  No
\* other node repeats it.
BroadcastReachesAll ==
    pattern = "broadcast" =>
        \A a, b \in Nodes : \A t \in txn_ready[a] :
            \/ t \in txns_seen[b] \/ \E src \in Nodes : <<src, b, t>> \in wire
            \/ \E c \in Nodes : t \in gone[c]

\* Gossip goes round failures: in the end, when clients ask for nothing new,
\* every neighbour of a node that handed a transaction on has done so too,
\* or has dropped it itself (its dissemination failed, or a block brought it
\* first).  Only nodes cut off from the client by such neighbours may never
\* hear of it.
GossipSpreads ==
    <>[](pattern = "gossip" =>
            \A a \in Nodes : \A b \in Neighbors(a) : txn_ready[a] \subseteq txn_ready[b] \cup gone[b])
=============================================================================
