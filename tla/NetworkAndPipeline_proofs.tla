--------------------- MODULE NetworkAndPipeline_proofs ----------------------
(***************************************************************************)
(* Proofs about what goes round between nodes and within one: transactions *)
(* from node to node (TxnNetwork), and quota and polls in the ring of an   *)
(* Avalanche node's stages (AvalanchePipeline).                            *)
(***************************************************************************)
EXTENDS TxnNetwork, AvalanchePipeline, FiniteSetTheorems, TLAPS

----------------------------------------------------------------------------
(***************************************************************************)
(* Proofs about TxnNetwork, for every set of nodes, topology, set of       *)
(* transactions, dissemination pattern and batch size, and any number of   *)
(* failing disseminations.                                                 *)
(***************************************************************************)

\* What a node has seen is waiting for dissemination, handed on or gone, and
\* no two of these; it waits under one source only.
Parted ==
    \A n \in Nodes :
        /\ txn_ready[n] \subseteq txns_seen[n] /\ gone[n] \subseteq txns_seen[n]
        /\ \A s \in Nodes, t \in Txns :
              <<s, t>> \in batch[n] =>
                  /\ t \in txns_seen[n] /\ t \notin txn_ready[n] /\ t \notin gone[n]
                  /\ \A u \in Nodes : <<u, t>> \in batch[n] => u = s

\* A node that a transaction came from has finished with it.
Sourced ==
    \A s, n \in Nodes, t \in Txns :
        /\ <<s, n, t>> \in wire => t \in txn_ready[s] \cup gone[s]
        /\ s # n /\ <<s, t>> \in batch[n] => t \in txn_ready[s] \cup gone[s]

\* What a node has sent it has finished with, and it sent it once.
SentOnce ==
    \A n, d \in Nodes, t \in Txns :
        /\ carried[<<n, d, t>>] \in {0, 1}
        /\ carried[<<n, d, t>>] = 1 => t \in txn_ready[n] \cup gone[n]

NetInv == NetTypeOK /\ Parted /\ Sourced /\ SentOnce /\ NoNeighbourLeftOut /\ BroadcastReachesAll

----------------------------------------------------------------------------
\* The invariant holds before any client has asked.
LEMMA InitNetInv == NetInit => NetInv
<1> SUFFICES ASSUME NetInit PROVE NetInv
  OBVIOUS
<1>1. NetTypeOK
  BY NumbersAssumption DEF NetInit, NetTypeOK, Messages
<1>2. Parted /\ Sourced
  BY DEF NetInit, Parted, Sourced
<1>3. SentOnce
  BY DEF NetInit, SentOnce, Messages
<1>4. NoNeighbourLeftOut /\ BroadcastReachesAll
  BY DEF NetInit, NoNeighbourLeftOut, BroadcastReachesAll, Neighbors
<1> QED
  BY <1>1, <1>2, <1>3, <1>4 DEF NetInv

----------------------------------------------------------------------------
\* What txn_validation does with a transaction of the node itself, or of a
\* node that has finished with it, keeps the parts of the invariant about
\* what nodes hold; what they have seen only grows.
LEMMA ValidateTxnStep ==
    ASSUME NetInv, NEW n \in Nodes, NEW s \in Nodes, NEW t \in Txns, Validate(n, s, t),
           s # n => t \in txn_ready[s] \cup gone[s],
           UNCHANGED <<pattern, txn_ready, gone, carried, failures>>, wire' \subseteq wire,
           asked' \subseteq Nodes \X Txns
    PROVE  /\ NetTypeOK' /\ Parted' /\ Sourced' /\ SentOnce'
           /\ t \in txns_seen'[n]
           /\ \A m \in Nodes : txns_seen[m] \subseteq txns_seen'[m]
<1>0. NetTypeOK /\ Parted /\ Sourced /\ SentOnce
  BY DEF NetInv
<1>1. /\ txns_seen' \in [Nodes -> SUBSET Txns] /\ batch' \in [Nodes -> SUBSET (Nodes \X Txns)]
  BY <1>0 DEF NetTypeOK, Validate
<1>2. NetTypeOK'
  BY <1>0, <1>1 DEF NetTypeOK
<1>3. /\ t \in txns_seen'[n]
      /\ \A m \in Nodes : txns_seen[m] \subseteq txns_seen'[m]
  BY <1>0 DEF NetTypeOK, Validate
<1>4. \A m, u \in Nodes, v \in Txns :
         <<u, v>> \in batch'[m] =>
             \/ <<u, v>> \in batch[m]
             \/ m = n /\ u = s /\ v = t /\ t \notin txns_seen[n]
  BY <1>0 DEF NetTypeOK, Validate
<1>5. Parted'
  BY <1>0, <1>3, <1>4 DEF Parted
<1>6. Sourced'
  BY <1>0, <1>4, Zenon DEF Sourced
<1>7. SentOnce'
  BY <1>0, Zenon DEF SentOnce
<1> QED
  BY <1>2, <1>3, <1>5, <1>6, <1>7

\* While nodes hand nothing new on, what they have seen only grows, and what
\* leaves the network was seen by its receiver, nobody is newly left out.
LEMMA StillReached ==
    ASSUME NetInv, UNCHANGED <<pattern, txn_ready>>,
           \A m \in Nodes : txns_seen[m] \subseteq txns_seen'[m],
           \A m \in Nodes : gone[m] \subseteq gone'[m],
           \A s, m \in Nodes, t \in Txns :
               <<s, m, t>> \in wire => <<s, m, t>> \in wire' \/ t \in txns_seen'[m]
    PROVE  NoNeighbourLeftOut' /\ BroadcastReachesAll'
<1>0. NetTypeOK /\ NoNeighbourLeftOut /\ BroadcastReachesAll
  BY DEF NetInv
<1>1. \A a \in Nodes : Neighbors(a) \subseteq Nodes /\ txn_ready[a] \subseteq Txns
  BY <1>0 DEF Neighbors, NetTypeOK
<1>2. NoNeighbourLeftOut'
  BY <1>0, <1>1, Zenon DEF NoNeighbourLeftOut, Neighbors
<1>3. BroadcastReachesAll'
  <2> SUFFICES ASSUME pattern = "broadcast", NEW a \in Nodes, NEW b \in Nodes,
                      NEW t \in txn_ready[a]
               PROVE  \/ t \in txns_seen'[b] \/ \E src \in Nodes : <<src, b, t>> \in wire'
                      \/ \E c \in Nodes : t \in gone'[c]
    BY DEF BroadcastReachesAll
  <2>1. t \in Txns
    BY <1>1
  <2>2. \/ t \in txns_seen[b] \/ \E src \in Nodes : <<src, b, t>> \in wire
        \/ \E c \in Nodes : t \in gone[c]
    BY <1>0 DEF BroadcastReachesAll
  <2>3. CASE t \in txns_seen[b]
    BY <2>3
  <2>4. ASSUME NEW src \in Nodes, <<src, b, t>> \in wire
        PROVE  t \in txns_seen'[b] \/ <<src, b, t>> \in wire'
    BY <2>1, <2>4
  <2>5. ASSUME NEW c \in Nodes, t \in gone[c]
        PROVE  t \in gone'[c]
    BY <2>5
  <2> QED
    BY <2>2, <2>3, <2>4, <2>5
<1> QED
  BY <1>2, <1>3

\* A client's request preserves the invariant.
LEMMA RequestStep ==
    ASSUME NetInv, NEW n \in Nodes, NEW t \in Txns, Request(n, t)
    PROVE  NetInv'
<1>1. /\ Validate(n, n, t) /\ UNCHANGED <<pattern, txn_ready, gone, wire, carried, failures>>
      /\ asked' \subseteq Nodes \X Txns
  BY DEF Request, NetInv, NetTypeOK
<1>2. /\ NetTypeOK' /\ Parted' /\ Sourced' /\ SentOnce'
      /\ \A m \in Nodes : txns_seen[m] \subseteq txns_seen'[m]
  BY <1>1, ValidateTxnStep
<1>3. NoNeighbourLeftOut' /\ BroadcastReachesAll'
  BY <1>1, <1>2, StillReached
<1> QED
  BY <1>2, <1>3 DEF NetInv

\* A message from a peer preserves it.
LEMMA ReceiveTxnsStep ==
    ASSUME NetInv, NEW s \in Nodes, NEW n \in Nodes, NEW t \in Txns, Receive(s, n, t)
    PROVE  NetInv'
<1>0. NetTypeOK /\ Parted /\ Sourced /\ SentOnce
  BY DEF NetInv
<1>1. /\ <<s, n, t>> \in wire /\ wire' = wire \ {<<s, n, t>>}
      /\ UNCHANGED <<pattern, asked, txn_ready, gone, carried, failures>>
  BY DEF Receive
<1>2. t \in txn_ready[s] \cup gone[s]
  BY <1>0, <1>1, Zenon DEF Sourced
<1>3. /\ NetTypeOK' /\ Parted' /\ Sourced' /\ SentOnce'
      /\ t \in txns_seen'[n]
      /\ \A m \in Nodes : txns_seen[m] \subseteq txns_seen'[m]
  <2>1. CASE s = n
    <3>1. UNCHANGED <<txns_seen, batch>>
      BY <2>1 DEF Receive
    <3>2. NetTypeOK'
      BY <1>0, <1>1, <3>1 DEF NetTypeOK
    <3>3. Parted' /\ Sourced' /\ SentOnce'
      BY <1>0, <1>1, <3>1 DEF Parted, Sourced, SentOnce
    <3>4. t \in txns_seen[n]
      BY <1>0, <1>2, <2>1 DEF Parted
    <3> QED
      BY <3>1, <3>2, <3>3, <3>4
  <2>2. CASE s # n
    <3>1. Validate(n, s, t) /\ asked' \subseteq Nodes \X Txns
      BY <1>0, <1>1, <2>2 DEF Receive, NetTypeOK
    <3> QED
      BY <1>1, <1>2, <3>1, ValidateTxnStep
  <2> QED
    BY <2>1, <2>2
<1>4. \A u, m \in Nodes, v \in Txns :
         <<u, m, v>> \in wire => <<u, m, v>> \in wire' \/ v \in txns_seen'[m]
  BY <1>1, <1>3
<1>5. NoNeighbourLeftOut' /\ BroadcastReachesAll'
  BY <1>1, <1>3, <1>4, StillReached
<1> QED
  BY <1>3, <1>5 DEF NetInv

\* A block that brings the transaction first preserves it.
LEMMA SeenInBlockStep ==
    ASSUME NetInv, NEW n \in Nodes, NEW t \in Txns, SeenInBlock(n, t)
    PROVE  NetInv'
<1>0. NetTypeOK /\ Parted /\ Sourced /\ SentOnce
  BY DEF NetInv
<1>1. /\ t \notin txns_seen[n]
      /\ txns_seen' = [txns_seen EXCEPT ![n] = @ \cup {t}]
      /\ gone' = [gone EXCEPT ![n] = @ \cup {t}]
      /\ UNCHANGED <<pattern, asked, batch, txn_ready, wire, carried, failures>>
  BY DEF SeenInBlock
<1>2. NetTypeOK'
  BY <1>0, <1>1 DEF NetTypeOK
<1>3. /\ \A m \in Nodes : txns_seen[m] \subseteq txns_seen'[m] /\ gone[m] \subseteq gone'[m]
      /\ \A m \in Nodes : gone'[m] \subseteq txns_seen'[m] <=> gone[m] \subseteq txns_seen'[m]
      /\ \A m \in Nodes, v \in Txns : v \in gone'[m] => v \in gone[m] \/ (m = n /\ v = t)
  BY <1>0, <1>1 DEF NetTypeOK
<1>4. Parted'
  BY <1>0, <1>1, <1>3 DEF Parted
<1>5. Sourced' /\ SentOnce'
  BY <1>0, <1>1, <1>3 DEF Sourced, SentOnce
<1>6. NoNeighbourLeftOut' /\ BroadcastReachesAll'
  BY <1>1, <1>3, StillReached
<1> QED
  BY <1>2, <1>4, <1>5, <1>6 DEF NetInv

----------------------------------------------------------------------------
\* A message of a group carries a transaction of the batch.
LEMMA GroupMembers ==
    ASSUME NEW n \in Nodes, NEW S \in SUBSET (Nodes \X Txns), NEW src \in Nodes,
           NEW dests \in SUBSET Nodes
    PROVE  /\ Group(n, S, src, dests) \subseteq Messages
           /\ \A m, d \in Nodes, t \in Txns :
                 <<m, d, t>> \in Group(n, S, src, dests)
                     <=> m = n /\ d \in dests /\ <<src, t>> \in S
BY DEF Group, Messages

\* The destinations of a group are nodes.
LEMMA DestsNodes ==
    ASSUME NetTypeOK, NEW n \in Nodes, NEW src
    PROVE  Dests(n, src) \in SUBSET Nodes
BY PatternsAssumption DEF NetTypeOK, Dests, GossipDests, BroadcastDests, Neighbors

\* The messages of several groups: which links they use and what they carry.
LEMMA AllGroups ==
    ASSUME NetTypeOK, NEW n \in Nodes, NEW S \in SUBSET (Nodes \X Txns),
           NEW srcs \in SUBSET Nodes
    PROVE  /\ Groups(n, S, srcs) \in SUBSET Messages
           /\ \A m, d \in Nodes, t \in Txns :
                 <<m, d, t>> \in Groups(n, S, srcs)
                     <=> m = n /\ \E s \in srcs : d \in Dests(n, s) /\ <<s, t>> \in S
<1> DEFINE G(src) == Group(n, S, src, Dests(n, src))
<1>1. ASSUME NEW src \in srcs
      PROVE  /\ G(src) \subseteq Messages
             /\ \A m, d \in Nodes, t \in Txns :
                   <<m, d, t>> \in G(src) <=> m = n /\ d \in Dests(n, src) /\ <<src, t>> \in S
  <2>1. src \in Nodes /\ Dests(n, src) \in SUBSET Nodes
    BY <1>1, DestsNodes
  <2> QED
    BY <2>1, GroupMembers
<1>2. \A x : x \in Groups(n, S, srcs) <=> \E src \in srcs : x \in G(src)
  BY DEF Groups
<1> HIDE DEF G
<1>3. Groups(n, S, srcs) \in SUBSET Messages
  BY <1>1, <1>2
<1>4. ASSUME NEW m \in Nodes, NEW d \in Nodes, NEW t \in Txns
      PROVE  <<m, d, t>> \in Groups(n, S, srcs)
                 <=> m = n /\ \E s \in srcs : d \in Dests(n, s) /\ <<s, t>> \in S
  <2>1. ASSUME <<m, d, t>> \in Groups(n, S, srcs)
        PROVE  m = n /\ \E s \in srcs : d \in Dests(n, s) /\ <<s, t>> \in S
    <3>1. PICK src \in srcs : <<m, d, t>> \in G(src)
      BY <1>2, <2>1
    <3> QED
      BY <1>1, <3>1, Zenon
  <2>2. ASSUME m = n, NEW s \in srcs, d \in Dests(n, s), <<s, t>> \in S
        PROVE  <<m, d, t>> \in Groups(n, S, srcs)
    <3>1. <<m, d, t>> \in G(s)
      BY <1>1, <2>2
    <3> QED
      BY <1>2, <3>1
  <2> QED
    BY <2>1, <2>2, Zenon
<1> QED
  BY <1>3, <1>4

\* The transactions of a batch.
LEMMA TakenMembers ==
    ASSUME NEW S \in SUBSET (Nodes \X Txns)
    PROVE  /\ Taken(S) \subseteq Txns
           /\ \A t \in Taken(S) : \E s \in Nodes : <<s, t>> \in S
           /\ \A s \in Nodes, t \in Txns : <<s, t>> \in S => t \in Taken(S)
<1>1. ASSUME NEW t \in Taken(S) PROVE t \in Txns /\ \E s \in Nodes : <<s, t>> \in S
  <2>1. PICK st \in S : t = st[2]
    BY <1>1 DEF Taken
  <2>2. st = <<st[1], t>> /\ st[1] \in Nodes /\ t \in Txns
    BY <2>1
  <2> QED
    BY <2>2
<1>2. ASSUME NEW s \in Nodes, NEW t \in Txns, <<s, t>> \in S PROVE t \in Taken(S)
  <2>1. <<s, t>>[2] = t
    OBVIOUS
  <2> QED
    BY <1>2, <2>1 DEF Taken
<1> QED
  BY <1>1, <1>2, Zenon

\* Sending, once, messages that carry transactions of a batch S of n while S
\* goes to txn_ready or is gone preserves what the invariant says of every
\* node's transactions.
LEMMA DispatchStep ==
    ASSUME NetInv, NEW n \in Nodes, NEW S \in SUBSET batch[n], NEW msgs \in SUBSET Messages,
           \A m, d \in Nodes, t \in Txns :
               <<m, d, t>> \in msgs => m = n /\ \E s \in Nodes : <<s, t>> \in S,
           batch' = [batch EXCEPT ![n] = @ \ S], Post(msgs),
           \/ txn_ready' = [txn_ready EXCEPT ![n] = @ \cup Taken(S)] /\ gone' = gone
           \/ gone' = [gone EXCEPT ![n] = @ \cup Taken(S)] /\ txn_ready' = txn_ready,
           UNCHANGED <<pattern, asked, txns_seen>>, failures' \in 0 .. MaxFailures
    PROVE  NetTypeOK' /\ Parted' /\ Sourced' /\ SentOnce'
<1>0. NetTypeOK /\ Parted /\ Sourced /\ SentOnce
  BY DEF NetInv
<1>1. S \subseteq Nodes \X Txns
  BY <1>0 DEF NetTypeOK
<1>2. /\ Taken(S) \subseteq Txns
      /\ \A t \in Txns : t \in Taken(S) <=> \E s \in Nodes : <<s, t>> \in S
  BY <1>1, TakenMembers, Zenon
<1>3. NetTypeOK'
  <2>1. carried' \in [Messages -> Nat] /\ wire' \subseteq Messages
    BY <1>0 DEF NetTypeOK, Post
  <2>2. batch' \in [Nodes -> SUBSET (Nodes \X Txns)]
    BY <1>0 DEF NetTypeOK
  <2>3. txn_ready' \in [Nodes -> SUBSET Txns] /\ gone' \in [Nodes -> SUBSET Txns]
    BY <1>0, <1>2 DEF NetTypeOK
  <2> QED
    BY <1>0, <2>1, <2>2, <2>3 DEF NetTypeOK
<1>4. \A m \in Nodes, t \in Txns :
         t \in txn_ready'[m] \cup gone'[m]
             <=> t \in txn_ready[m] \cup gone[m] \/ (m = n /\ t \in Taken(S))
  BY <1>0, <1>2 DEF NetTypeOK
<1>5. \A m, s \in Nodes, t \in Txns :
         <<s, t>> \in batch'[m] <=> <<s, t>> \in batch[m] /\ ~ (m = n /\ <<s, t>> \in S)
  BY <1>0 DEF NetTypeOK
<1>6. \A s, m \in Nodes, t \in Txns :
         <<s, t>> \in batch'[m] => ~ (m = n /\ t \in Taken(S))
  <2> SUFFICES ASSUME NEW s \in Nodes, NEW t \in Txns, <<s, t>> \in batch'[n], t \in Taken(S)
               PROVE  FALSE
    OBVIOUS
  <2>1. PICK u \in Nodes : <<u, t>> \in S
    BY <1>2
  <2>2. <<s, t>> \in batch[n] /\ <<u, t>> \in batch[n] /\ <<s, t>> \notin S
    BY <1>5, <2>1
  <2>3. u = s
    BY <1>0, <2>2 DEF Parted
  <2> QED
    BY <2>1, <2>2, <2>3
<1>7. Parted'
  <2>1. \A m \in Nodes : txn_ready'[m] \subseteq txns_seen'[m] /\ gone'[m] \subseteq txns_seen'[m]
    <3>1. \A t \in Taken(S) : t \in txns_seen[n]
      BY <1>0, <1>2, Zenon DEF Parted
    <3> QED
      BY <1>0, <3>1 DEF Parted, NetTypeOK
  <2>2. \A m, s \in Nodes, t \in Txns :
           <<s, t>> \in batch'[m] =>
               /\ t \in txns_seen'[m] /\ t \notin txn_ready'[m] /\ t \notin gone'[m]
               /\ \A u \in Nodes : <<u, t>> \in batch'[m] => u = s
    BY <1>0, <1>4, <1>5, <1>6 DEF Parted
  <2> QED
    BY <2>1, <2>2 DEF Parted
<1>8. Sourced'
  <2>1. \A s, m \in Nodes, t \in Txns :
           <<s, m, t>> \in wire' => <<s, m, t>> \in wire \/ (s = n /\ t \in Taken(S))
    BY <1>2 DEF Post
  <2> QED
    BY <1>0, <1>4, <1>5, <2>1, Zenon DEF Sourced
<1>9. SentOnce'
  <2> SUFFICES ASSUME NEW m \in Nodes, NEW d \in Nodes, NEW t \in Txns
               PROVE  /\ carried'[<<m, d, t>>] \in {0, 1}
                      /\ carried'[<<m, d, t>>] = 1 => t \in txn_ready'[m] \cup gone'[m]
    BY Zenon DEF SentOnce
  <2>1. <<m, d, t>> \in Messages
    BY DEF Messages
  <2>2. CASE <<m, d, t>> \in msgs
    <3>1. m = n /\ t \in Taken(S)
      BY <1>2, <2>2, Zenon
    <3>2. carried[<<m, d, t>>] = 0
      <4>1. PICK s \in Nodes : <<s, t>> \in S
        BY <1>2, <3>1
      <4>2. t \notin txn_ready[n] \cup gone[n]
        BY <1>0, <4>1 DEF Parted
      <4> QED
        BY <1>0, <3>1, <4>2 DEF SentOnce
    <3> QED
      BY <1>4, <2>1, <2>2, <3>1, <3>2 DEF Post
  <2>3. CASE <<m, d, t>> \notin msgs
    BY <1>0, <1>4, <2>1, <2>3 DEF Post, SentOnce
  <2> QED
    BY <2>2, <2>3
<1> QED
  BY <1>3, <1>7, <1>8, <1>9

\* A dissemination that succeeds preserves the invariant: gossip leaves out
\* only the source, which has seen the transaction, and a broadcast that
\* the node does not repeat was made, or failed, at the source.
LEMMA DisseminateTxnsStep ==
    ASSUME NetInv, NEW n \in Nodes, DisseminateTxns(n)
    PROVE  NetInv'
<1>0. NetTypeOK /\ Parted /\ Sourced /\ NoNeighbourLeftOut /\ BroadcastReachesAll
  BY DEF NetInv
<1> DEFINE Out(S) == Groups(n, S, Nodes)
<1>1. PICK S \in Drained(n) :
        /\ batch' = [batch EXCEPT ![n] = @ \ S]
        /\ Post(Out(S))
        /\ txn_ready' = [txn_ready EXCEPT ![n] = @ \cup Taken(S)]
        /\ UNCHANGED <<pattern, asked, txns_seen, gone, failures>>
  BY Zenon DEF DisseminateTxns
<1>2. S \in SUBSET batch[n] /\ S \in SUBSET (Nodes \X Txns)
  BY <1>0, <1>1 DEF Drained, NetTypeOK
<1>3. /\ Out(S) \in SUBSET Messages
      /\ \A m, d \in Nodes, t \in Txns :
            <<m, d, t>> \in Out(S)
                <=> m = n /\ \E s \in Nodes : d \in Dests(n, s) /\ <<s, t>> \in S
  BY <1>0, <1>2, AllGroups, Zenon
<1>4. \A t \in Txns : t \in Taken(S) <=> \E s \in Nodes : <<s, t>> \in S
  BY <1>2, TakenMembers, Zenon
<1>5. NetTypeOK' /\ Parted' /\ Sourced' /\ SentOnce'
  <2>1. \A m, d \in Nodes, t \in Txns :
           <<m, d, t>> \in Out(S) => m = n /\ \E s \in Nodes : <<s, t>> \in S
    BY <1>3, Zenon
  <2>2. failures' \in 0 .. MaxFailures
    BY <1>0, <1>1 DEF NetTypeOK
  <2> HIDE DEF Out
  <2> QED
    BY <1>1, <1>2, <1>3, <2>1, <2>2, DispatchStep, Zenon
<1>6. \A m \in Nodes, t \in Txns :
         t \in txn_ready'[m] => t \in txn_ready[m] \/ (m = n /\ \E s \in Nodes : <<s, t>> \in S)
  BY <1>0, <1>1, <1>4, Zenon DEF NetTypeOK
<1>7. \A s, d \in Nodes, t \in Txns : <<s, d, t>> \in wire => <<s, d, t>> \in wire'
  BY <1>1 DEF Post
<1>8. \A s, d \in Nodes, t \in Txns :
         <<s, t>> \in S /\ d \in Dests(n, s) => <<n, d, t>> \in wire'
  BY <1>1, <1>3 DEF Post
<1>9. \A s \in Nodes, t \in Txns :
         <<s, t>> \in S => /\ t \in txns_seen[n] /\ t \in txns_seen[s]
                           /\ s # n => t \in txn_ready[s] \cup gone[s]
  BY <1>0, <1>2, Zenon DEF Parted, Sourced
<1>10. NoNeighbourLeftOut'
  <2> SUFFICES ASSUME pattern' = "gossip", NEW a \in Nodes, NEW b \in Neighbors(a),
                      NEW t \in txn_ready'[a]
               PROVE  t \in txns_seen'[b] \/ \E src \in Nodes : <<src, b, t>> \in wire'
    BY DEF NoNeighbourLeftOut, Neighbors
  <2>1. b \in Nodes /\ t \in Txns
    BY <1>5 DEF Neighbors, NetTypeOK
  <2>2. CASE t \in txn_ready[a]
    <3>1. t \in txns_seen[b] \/ \E src \in Nodes : <<src, b, t>> \in wire
      BY <1>0, <1>1, <2>2 DEF NoNeighbourLeftOut
    <3> QED
      BY <1>1, <1>7, <2>1, <3>1
  <2>3. ASSUME a = n, NEW s \in Nodes, <<s, t>> \in S
        PROVE  t \in txns_seen'[b] \/ \E src \in Nodes : <<src, b, t>> \in wire'
    <3>1. CASE b \in {s, n}
      BY <1>1, <1>9, <2>1, <2>3, <3>1
    <3>2. CASE b \notin {s, n}
      <4>1. b \in Dests(n, s)
        BY <1>1, <2>3, <3>2 DEF Dests, GossipDests, BroadcastDests
      <4> QED
        BY <1>8, <2>1, <2>3, <4>1
    <3> QED
      BY <3>1, <3>2
  <2> QED
    BY <1>6, <2>1, <2>2, <2>3, Zenon
<1>11. BroadcastReachesAll'
  <2> SUFFICES ASSUME pattern' = "broadcast", NEW a \in Nodes, NEW b \in Nodes,
                      NEW t \in txn_ready'[a]
               PROVE  \/ t \in txns_seen'[b] \/ \E src \in Nodes : <<src, b, t>> \in wire'
                      \/ \E c \in Nodes : t \in gone'[c]
    BY DEF BroadcastReachesAll
  <2>1. t \in Txns
    BY <1>5 DEF NetTypeOK
  <2>2. ASSUME NEW c \in Nodes, t \in txn_ready[c]
        PROVE  \/ t \in txns_seen'[b] \/ \E src \in Nodes : <<src, b, t>> \in wire'
               \/ \E e \in Nodes : t \in gone'[e]
    <3>1. \/ t \in txns_seen[b] \/ \E src \in Nodes : <<src, b, t>> \in wire
          \/ \E e \in Nodes : t \in gone[e]
      BY <1>0, <1>1, <2>2 DEF BroadcastReachesAll
    <3> QED
      BY <1>1, <1>7, <2>1, <3>1
  <2>3. ASSUME a = n, NEW s \in Nodes, <<s, t>> \in S
        PROVE  \/ t \in txns_seen'[b] \/ \E src \in Nodes : <<src, b, t>> \in wire'
               \/ \E c \in Nodes : t \in gone'[c]
    <3>1. CASE s = n
      <4>1. b \in Dests(n, s)
        BY <1>1, <3>1 DEF Dests, GossipDests, BroadcastDests
      <4> QED
        BY <1>8, <2>1, <2>3, <4>1
    <3>2. CASE s # n
      BY <1>1, <1>9, <2>1, <2>2, <2>3, <3>2
    <3> QED
      BY <3>1, <3>2
  <2> QED
    BY <1>6, <2>1, <2>2, <2>3, Zenon
<1> QED
  BY <1>5, <1>10, <1>11 DEF NetInv

\* A dissemination that fails half way preserves it: nothing is handed on.
LEMMA DisseminateTxnsFailsStep ==
    ASSUME NetInv, NEW n \in Nodes, DisseminateTxnsFails(n)
    PROVE  NetInv'
<1>0. NetTypeOK
  BY DEF NetInv
<1> DEFINE Out(S, bad, done, reached) ==
        Group(n, S, bad, reached) \cup Groups(n, S, done)
<1>1. PICK S \in Drained(n), bad \in Nodes :
        /\ failures < MaxFailures /\ failures' = failures + 1
        /\ batch' = [batch EXCEPT ![n] = @ \ S]
        /\ \E done \in SUBSET (Nodes \ {bad}), reached \in SUBSET Dests(n, bad) :
              Post(Out(S, bad, done, reached))
        /\ gone' = [gone EXCEPT ![n] = @ \cup Taken(S)]
        /\ UNCHANGED <<pattern, asked, txns_seen, txn_ready>>
  BY Zenon DEF DisseminateTxnsFails
<1>2. PICK done \in SUBSET (Nodes \ {bad}), reached \in SUBSET Dests(n, bad) :
        Post(Out(S, bad, done, reached))
  BY <1>1, Zenon
<1>3. S \in SUBSET batch[n] /\ S \in SUBSET (Nodes \X Txns) /\ reached \in SUBSET Nodes
  BY <1>0, <1>1, <1>2, DestsNodes DEF Drained, NetTypeOK
<1>4. /\ Out(S, bad, done, reached) \in SUBSET Messages
      /\ \A m, d \in Nodes, t \in Txns :
            <<m, d, t>> \in Out(S, bad, done, reached)
                => m = n /\ \E s \in Nodes : <<s, t>> \in S
  <2>1. /\ Group(n, S, bad, reached) \subseteq Messages
        /\ \A m, d \in Nodes, t \in Txns :
              <<m, d, t>> \in Group(n, S, bad, reached) => m = n /\ <<bad, t>> \in S
    <3> HIDE DEF Out
    <3>1. /\ Group(n, S, bad, reached) \subseteq Messages
          /\ \A m, d \in Nodes, t \in Txns :
                <<m, d, t>> \in Group(n, S, bad, reached)
                    <=> m = n /\ d \in reached /\ <<bad, t>> \in S
      BY <1>3, GroupMembers, Zenon
    <3> QED
      BY <3>1
  <2>2. /\ Groups(n, S, done) \in SUBSET Messages
        /\ \A m, d \in Nodes, t \in Txns :
              <<m, d, t>> \in Groups(n, S, done)
                  <=> m = n /\ \E s \in done : d \in Dests(n, s) /\ <<s, t>> \in S
    <3>1. done \in SUBSET Nodes
      BY <1>2
    <3> QED
      BY <1>0, <1>3, <3>1, AllGroups, Zenon
  <2> QED
    BY <1>2, <2>1, <2>2, Zenon
<1>5. failures' \in 0 .. MaxFailures
  BY <1>0, <1>1, NumbersAssumption DEF NetTypeOK
<1>6. NetTypeOK' /\ Parted' /\ Sourced' /\ SentOnce'
  <2> DEFINE msgs == Out(S, bad, done, reached)
  <2>1. /\ msgs \in SUBSET Messages /\ Post(msgs)
        /\ \A m, d \in Nodes, t \in Txns :
              <<m, d, t>> \in msgs => m = n /\ \E s \in Nodes : <<s, t>> \in S
    BY <1>2, <1>4
  <2> HIDE DEF msgs
  <2> QED
    BY <1>1, <1>3, <1>5, <2>1, DispatchStep, Zenon
<1>7. /\ \A m \in Nodes : gone[m] \subseteq gone'[m]
      /\ wire \subseteq wire'
  BY <1>0, <1>1, <1>2 DEF NetTypeOK, Post
<1>8. NoNeighbourLeftOut' /\ BroadcastReachesAll'
  BY <1>1, <1>7, StillReached
<1> QED
  BY <1>6, <1>8 DEF NetInv

----------------------------------------------------------------------------
\* Every step preserves the invariant.
LEMMA NextNetInv == NetInv /\ [NetNext]_netVars => NetInv'
<1> SUFFICES ASSUME NetInv, [NetNext]_netVars PROVE NetInv'
  OBVIOUS
<1>1. CASE UNCHANGED netVars
  <2>1. NetTypeOK' /\ SentOnce'
    BY <1>1 DEF NetInv, netVars, NetTypeOK, SentOnce
  <2>2. Parted' /\ Sourced'
    BY <1>1 DEF NetInv, netVars, Parted, Sourced
  <2>3. NoNeighbourLeftOut' /\ BroadcastReachesAll'
    BY <1>1, StillReached DEF netVars
  <2> QED
    BY <2>1, <2>2, <2>3 DEF NetInv
<1>2. CASE NetNext
  BY <1>2, RequestStep, ReceiveTxnsStep, SeenInBlockStep, DisseminateTxnsStep, DisseminateTxnsFailsStep
     DEF NetNext
<1> QED
  BY <1>1, <1>2

\* The inductive invariant holds in every behaviour.
LEMMA NetInvHolds == NetSpec => []NetInv
BY InitNetInv, NextNetInv, PTL DEF NetSpec

\* On any topology a node sends a transaction over each of its links at most
\* once, because txn_validation drops duplicates and a batch whose
\* dissemination failed is not tried again (txn_dissemination_thread).
THEOREM LinksCarryOnce == NetSpec => []OncePerLink
<1>1. NetInv => OncePerLink
  BY DEF NetInv, SentOnce, OncePerLink, Messages
<1> QED
  BY <1>1, NetInvHolds, PTL

\* On any topology gossip leaves no neighbour of a node that handed a
\* transaction on without it (GossipTxnDissemination::disseminate skips the
\* source, which has it).
THEOREM GossipReachesNeighbours == NetSpec => []NoNeighbourLeftOut
BY NetInvHolds, PTL DEF NetInv

\* A broadcast transaction that one node handed on reaches all nodes unless
\* a dissemination of it failed or a block brought it first
\* (BroadcastTxnDissemination::disseminate).
THEOREM BroadcastCovers == NetSpec => []BroadcastReachesAll
BY NetInvHolds, PTL DEF NetInv

----------------------------------------------------------------------------
(***************************************************************************)
(* Proofs of the safety invariants of AvalanchePipeline, for every quota,  *)
(* sample size, set of peers and bound.                                    *)
(***************************************************************************)

\* The types of the state without the bounds that only quota conservation
\* gives.
Typed ==
    /\ pmaker_quota \in Nat
    /\ pacemaker_pipe \in Nat
    /\ blk_quota \in Nat
    /\ blk_counter \in 0 .. MaxBlk
    /\ new_block_pipe \in Seq(Blocks)
    /\ block_ready_pipe \in Seq(Blocks)
    /\ polled \in [Blocks -> SUBSET Peers]
    /\ query_pool \in SUBSET Blocks
    /\ votes \in [Blocks -> Nat]
    /\ finished_query \in SUBSET Blocks
    /\ vote_timeouts \in SUBSET Blocks
    /\ commit_queue \in Seq(Blocks)
    /\ commit_pipe \in Seq(Blocks)
    /\ feedback_pipe \in Nat
    /\ dropped \in SUBSET Blocks

\* Where a block is: no pipe holds a block twice, and a proposed block is in
\* one place only.
Placed ==
    /\ \A i, j \in 1 .. Len(new_block_pipe) :
          new_block_pipe[i] = new_block_pipe[j] => i = j
    /\ \A i, j \in 1 .. Len(block_ready_pipe) :
          block_ready_pipe[i] = block_ready_pipe[j] => i = j
    /\ \A i \in 1 .. Len(new_block_pipe), j \in 1 .. Len(block_ready_pipe) :
          new_block_pipe[i] # block_ready_pipe[j]
    /\ \A i \in 1 .. Len(new_block_pipe) :
          /\ new_block_pipe[i] <= blk_counter
          /\ new_block_pipe[i] \notin query_pool \cup finished_query \cup dropped
    /\ \A i \in 1 .. Len(block_ready_pipe) :
          /\ block_ready_pipe[i] <= blk_counter
          /\ block_ready_pipe[i] \notin query_pool \cup finished_query \cup dropped
    /\ \A b \in query_pool \cup finished_query \cup dropped : b <= blk_counter
    /\ query_pool \cap finished_query = {}
    /\ dropped \cap (query_pool \cup finished_query) = {}

\* The votes a block has and may still get leave room for the node's own vote
\* until decide has seen the block, and no more than K in all afterwards.
VotesBounded ==
    /\ \A i \in 1 .. Len(new_block_pipe) :
          /\ votes[new_block_pipe[i]] = 0
          /\ polled[new_block_pipe[i]] = {}
    /\ \A b \in Blocks : b > blk_counter => votes[b] = 0 /\ polled[b] = {}
    /\ \A b \in Blocks \ (query_pool \cup finished_query) :
          votes[b] + Cardinality(polled[b]) <= K - 1
    /\ vote_timeouts = query_pool
    /\ \A b \in query_pool : votes[b] \in 1 .. K - 1
    /\ \A b \in finished_query : votes[b] = 0

IInv == Typed /\ Placed /\ VotesBounded /\ QuotaConserved

----------------------------------------------------------------------------
\* Sets of blocks and of peers are finite, so their cardinalities count.
LEMMA FiniteSets ==
    /\ \A S \in SUBSET Blocks : IsFiniteSet(S) /\ Cardinality(S) \in Nat
    /\ \A S \in SUBSET Peers : IsFiniteSet(S) /\ Cardinality(S) \in Nat
<1>1. MaxBlk \in Nat
  BY BoundAssumption
<1>2. IsFiniteSet(Blocks)
  BY <1>1, FS_Interval DEF Blocks
<1>3. IsFiniteSet(Peers)
  BY SampleAssumption
<1> QED
  BY <1>2, <1>3, FS_Subset, FS_CardinalityType

\* Opening or closing a poll changes the number of open polls by one, and a
\* vote that arrives takes one peer off the polled set.
LEMMA CountOne ==
    ASSUME NEW S, IsFiniteSet(S), NEW x
    PROVE  /\ x \notin S => Cardinality(S \cup {x}) = Cardinality(S) + 1
           /\ x \in S => Cardinality(S \ {x}) = Cardinality(S) - 1
BY FS_AddElement, FS_RemoveElement

\* The invariant holds when Node::init has laid the pipes.
THEOREM InitIInv == Init => IInv
<1> SUFFICES ASSUME Init PROVE IInv
  OBVIOUS
<1> USE InflightAssumption, SampleAssumption, BoundAssumption
<1>1. Cardinality({}) = 0
  BY FS_EmptySet
<1>2. Typed
  BY DEF Init, Typed, Blocks
<1>3. Placed
  BY DEF Init, Placed
<1>4. VotesBounded
  BY <1>1 DEF Init, VotesBounded, Blocks
<1>5. QuotaConserved
  BY <1>1 DEF Init, QuotaConserved
<1> QED
  BY <1>2, <1>3, <1>4, <1>5 DEF IInv

\* Every term of the conserved sum is a natural number.
LEMMA Counts ==
    ASSUME Typed
    PROVE  /\ Len(new_block_pipe) \in Nat /\ Len(block_ready_pipe) \in Nat
           /\ Cardinality(query_pool) \in Nat /\ Cardinality(dropped) \in Nat
<1>1. new_block_pipe \in Seq(Blocks) /\ block_ready_pipe \in Seq(Blocks)
  BY DEF Typed
<1>2. query_pool \in SUBSET Blocks /\ dropped \in SUBSET Blocks
  BY DEF Typed
<1> QED
  BY <1>1, <1>2, FiniteSets

\* The steps of the pacemaker and of block management that only move quota.
LEMMA QuotaStep ==
    ASSUME IInv, PmakerPropose \/ HandleFeedback \/ HandlePmakerMsg
    PROVE  IInv'
<1> USE DEF IInv
<1>0. UNCHANGED <<blk_counter, new_block_pipe, block_ready_pipe, polled,
                  query_pool, votes, finished_query, vote_timeouts, commit_queue,
                  commit_pipe, dropped>>
  BY DEF PmakerPropose, HandleFeedback, HandlePmakerMsg, blkMgmtVars, decideVars
<1>1. Placed' /\ VotesBounded'
  BY <1>0 DEF Placed, VotesBounded, Blocks
<1>2. /\ Cardinality(query_pool)' = Cardinality(query_pool)
      /\ Cardinality(dropped)' = Cardinality(dropped)
      /\ Len(new_block_pipe)' = Len(new_block_pipe)
      /\ Len(block_ready_pipe)' = Len(block_ready_pipe)
  BY <1>0
<1>3. CASE PmakerPropose
  <2>1. Typed'
    BY <1>0, <1>3 DEF Typed, PmakerPropose, Blocks, blkMgmtVars, decideVars
  <2>2. QuotaConserved'
    BY <1>2, <1>3, Counts DEF Typed, QuotaConserved, PmakerPropose, blkMgmtVars,
                              decideVars
  <2> QED
    BY <1>1, <2>1, <2>2
<1>4. CASE HandleFeedback
  <2>1. Typed'
    BY <1>0, <1>4 DEF Typed, HandleFeedback, Blocks, blkMgmtVars
  <2>2. QuotaConserved'
    BY <1>2, <1>4, Counts DEF Typed, QuotaConserved, HandleFeedback, blkMgmtVars
  <2> QED
    BY <1>1, <2>1, <2>2
<1>5. CASE HandlePmakerMsg
  <2>1. Typed'
    BY <1>0, <1>5 DEF Typed, HandlePmakerMsg, Blocks, decideVars
  <2>2. QuotaConserved'
    BY <1>2, <1>5, Counts DEF Typed, QuotaConserved, HandlePmakerMsg, decideVars
  <2> QED
    BY <1>1, <2>1, <2>2
<1> QED
  BY <1>3, <1>4, <1>5

\* Appending to a pipe, element by element.
LEMMA AppendFacts ==
    ASSUME NEW S, NEW s \in Seq(S), NEW e \in S
    PROVE  /\ Append(s, e) \in Seq(S)
           /\ Len(Append(s, e)) = Len(s) + 1
           /\ \A i \in 1 .. Len(s) : Append(s, e)[i] = s[i]
           /\ Append(s, e)[Len(s) + 1] = e
OBVIOUS

\* What taking the head of a pipe leaves behind.
LEMMA TailFacts ==
    ASSUME NEW S, NEW s \in Seq(S), s # <<>>
    PROVE  /\ Len(s) \in Nat \ {0}
           /\ Head(s) = s[1]
           /\ Head(s) \in S
           /\ Tail(s) \in Seq(S)
           /\ Len(Tail(s)) = Len(s) - 1
           /\ \A i \in 1 .. Len(s) - 1 : Tail(s)[i] = s[i + 1]
OBVIOUS

\* get_new_block preserves the invariant: the id it gives out is fresh.
LEMMA GetNewBlockStep ==
    ASSUME IInv, GetNewBlock
    PROVE  IInv'
<1> USE DEF IInv
<1> DEFINE b == blk_counter + 1
<1>0. UNCHANGED <<pmaker_quota, pacemaker_pipe, block_ready_pipe, polled,
                  query_pool, votes, finished_query, vote_timeouts, commit_queue,
                  commit_pipe, feedback_pipe, dropped>>
  BY DEF GetNewBlock, pmakerVars, decideVars
<1>1. b \in Blocks /\ blk_counter \in Nat /\ blk_counter' = b
  BY BoundAssumption DEF Typed, GetNewBlock, Blocks
<1>2. new_block_pipe \in Seq(Blocks) /\ new_block_pipe' = Append(new_block_pipe, b)
  BY DEF Typed, GetNewBlock
<1> HIDE DEF b
<1>3. /\ new_block_pipe' \in Seq(Blocks)
      /\ Len(new_block_pipe') = Len(new_block_pipe) + 1
      /\ Len(new_block_pipe) \in Nat
      /\ \A i \in 1 .. Len(new_block_pipe) : new_block_pipe'[i] = new_block_pipe[i]
      /\ new_block_pipe'[Len(new_block_pipe) + 1] = b
  BY <1>1, <1>2, AppendFacts
<1>4. Typed'
  BY <1>0, <1>1, <1>3 DEF Typed, GetNewBlock, Blocks
<1>5. \A i \in 1 .. Len(new_block_pipe') :
         \/ i \in 1 .. Len(new_block_pipe) /\ new_block_pipe'[i] = new_block_pipe[i]
         \/ i = Len(new_block_pipe) + 1 /\ new_block_pipe'[i] = b
  BY <1>3
<1>6. /\ \A i \in 1 .. Len(new_block_pipe) : new_block_pipe[i] # b
      /\ \A i \in 1 .. Len(block_ready_pipe) : block_ready_pipe[i] # b
      /\ b \notin query_pool \cup finished_query \cup dropped
      /\ votes[b] = 0 /\ polled[b] = {}
  BY <1>1 DEF b, Typed, Placed, VotesBounded, Blocks
<1>7. Placed'
  <2>1. \A i, j \in 1 .. Len(new_block_pipe') :
           new_block_pipe'[i] = new_block_pipe'[j] => i = j
    BY <1>5, <1>6 DEF Placed
  <2>2. \A i \in 1 .. Len(new_block_pipe'), j \in 1 .. Len(block_ready_pipe) :
           new_block_pipe'[i] # block_ready_pipe[j]
    BY <1>5, <1>6 DEF Placed
  <2>3. \A i \in 1 .. Len(new_block_pipe') :
          /\ new_block_pipe'[i] <= b
          /\ new_block_pipe'[i] \notin query_pool \cup finished_query \cup dropped
    <3>1. \A i \in 1 .. Len(new_block_pipe) : new_block_pipe[i] \in Blocks
      BY <1>2
    <3> QED
      BY <1>1, <1>5, <1>6, <3>1 DEF b, Placed, Blocks
  <2>4. \A i \in 1 .. Len(block_ready_pipe) : block_ready_pipe[i] <= b
    <3>1. \A i \in 1 .. Len(block_ready_pipe) : block_ready_pipe[i] \in Blocks
      BY DEF Typed
    <3> QED
      BY <1>1, <3>1 DEF b, Placed, Blocks
  <2>5. \A c \in query_pool \cup finished_query \cup dropped : c <= b
    BY <1>1 DEF b, Typed, Placed, Blocks
  <2> QED
    BY <1>0, <1>1, <2>1, <2>2, <2>3, <2>4, <2>5 DEF Placed
<1>8. VotesBounded'
  <2>1. \A i \in 1 .. Len(new_block_pipe') :
          votes[new_block_pipe'[i]] = 0 /\ polled[new_block_pipe'[i]] = {}
    BY <1>5, <1>6 DEF VotesBounded
  <2>2. \A c \in Blocks : c > b => votes[c] = 0 /\ polled[c] = {}
    BY <1>1 DEF b, VotesBounded, Blocks
  <2> QED
    BY <1>0, <1>1, <2>1, <2>2 DEF VotesBounded, Blocks
<1>9. QuotaConserved'
  <2>1. /\ Cardinality(query_pool)' = Cardinality(query_pool)
        /\ Cardinality(dropped)' = Cardinality(dropped)
        /\ Len(block_ready_pipe)' = Len(block_ready_pipe)
        /\ Len(new_block_pipe)' = Len(new_block_pipe) + 1
    BY <1>0, <1>3
  <2>2. blk_quota \in Nat /\ blk_quota' = blk_quota - 1
    BY DEF Typed, GetNewBlock
  <2> QED
    BY <1>0, <2>1, <2>2, Counts DEF Typed, QuotaConserved
<1> QED
  BY <1>4, <1>7, <1>8, <1>9

\* What is known of the block that dissemination takes off its pipe.
LEMMA NextToDisseminate ==
    ASSUME IInv, new_block_pipe # <<>>
    PROVE  LET b == Head(new_block_pipe)
               rest == Tail(new_block_pipe)
           IN  /\ b \in Blocks /\ b <= blk_counter
               /\ b \notin query_pool \cup finished_query \cup dropped
               /\ votes[b] = 0
               /\ \A j \in 1 .. Len(block_ready_pipe) : block_ready_pipe[j] # b
               /\ rest \in Seq(Blocks)
               /\ Len(rest) = Len(new_block_pipe) - 1
               /\ Len(new_block_pipe) \in Nat
               /\ \A i \in 1 .. Len(rest) :
                     /\ i \in 1 .. Len(new_block_pipe)
                     /\ i + 1 \in 1 .. Len(new_block_pipe)
                     /\ rest[i] = new_block_pipe[i + 1]
                     /\ rest[i] # b
<1> USE DEF IInv
<1> DEFINE b == Head(new_block_pipe)
           rest == Tail(new_block_pipe)
<1>1. new_block_pipe \in Seq(Blocks)
  BY DEF Typed
<1>2. /\ Len(new_block_pipe) \in Nat \ {0} /\ b = new_block_pipe[1] /\ b \in Blocks
      /\ rest \in Seq(Blocks) /\ Len(rest) = Len(new_block_pipe) - 1
      /\ \A i \in 1 .. Len(new_block_pipe) - 1 : rest[i] = new_block_pipe[i + 1]
  BY <1>1, TailFacts
<1> HIDE DEF b, rest
<1>3. 1 \in 1 .. Len(new_block_pipe)
  BY <1>2
<1>4. \A i \in 1 .. Len(rest) :
         /\ i \in 1 .. Len(new_block_pipe) /\ i + 1 \in 1 .. Len(new_block_pipe)
         /\ i + 1 # 1 /\ rest[i] = new_block_pipe[i + 1]
  BY <1>2
<1>5. \A i \in 1 .. Len(rest) : rest[i] # b
  BY <1>2, <1>3, <1>4 DEF Placed
<1>6. /\ b <= blk_counter /\ votes[b] = 0
      /\ b \notin query_pool \cup finished_query \cup dropped
      /\ \A j \in 1 .. Len(block_ready_pipe) : block_ready_pipe[j] # b
  BY <1>2, <1>3 DEF Placed, VotesBounded
<1> QED
  BY <1>2, <1>4, <1>5, <1>6 DEF b, rest

\* Either outcome of a dissemination leaves the rest of the pipe placed.
LEMMA DisseminatePlaced ==
    ASSUME IInv, Disseminate \/ DisseminateFails
    PROVE  Placed'
<1> USE DEF IInv
<1> DEFINE b == Head(new_block_pipe)
           rest == Tail(new_block_pipe)
<1>0. new_block_pipe # <<>> /\ new_block_pipe' = rest
  BY DEF Disseminate, DisseminateFails
<1>1. UNCHANGED <<blk_counter, query_pool, finished_query>>
  BY DEF Disseminate, DisseminateFails, blkMgmtVars, decideVars
<1>2. /\ b \in Blocks /\ b <= blk_counter
      /\ b \notin query_pool \cup finished_query \cup dropped
      /\ \A j \in 1 .. Len(block_ready_pipe) : block_ready_pipe[j] # b
      /\ \A i \in 1 .. Len(rest) :
            /\ i + 1 \in 1 .. Len(new_block_pipe)
            /\ rest[i] = new_block_pipe[i + 1] /\ rest[i] # b
      /\ Len(rest) = Len(new_block_pipe) - 1 /\ Len(new_block_pipe) \in Nat
  BY <1>0, NextToDisseminate, Zenon
<1>3. block_ready_pipe \in Seq(Blocks)
  BY DEF Typed
<1> HIDE DEF b, rest
<1>4. \A i, j \in 1 .. Len(rest) : rest[i] = rest[j] => i = j
  <2> SUFFICES ASSUME NEW i \in 1 .. Len(rest), NEW j \in 1 .. Len(rest),
                      rest[i] = rest[j]
               PROVE  i = j
    OBVIOUS
  <2>1. i + 1 = j + 1
    BY <1>2 DEF Placed
  <2> QED
    BY <1>2, <2>1
<1>5. \A i \in 1 .. Len(rest), j \in 1 .. Len(block_ready_pipe) :
         rest[i] # block_ready_pipe[j]
  BY <1>2 DEF Placed
<1>6. \A i \in 1 .. Len(rest) :
         /\ rest[i] <= blk_counter
         /\ rest[i] \notin query_pool \cup finished_query \cup dropped \cup {b}
  BY <1>2 DEF Placed
<1>7. CASE Disseminate
  <2>1. block_ready_pipe' = Append(block_ready_pipe, b) /\ dropped' = dropped
    BY <1>7 DEF Disseminate, b
  <2>2. /\ Len(block_ready_pipe) \in Nat
        /\ Len(block_ready_pipe') = Len(block_ready_pipe) + 1
        /\ \A i \in 1 .. Len(block_ready_pipe) : block_ready_pipe'[i] = block_ready_pipe[i]
        /\ block_ready_pipe'[Len(block_ready_pipe) + 1] = b
    BY <1>2, <1>3, <2>1, AppendFacts
  <2>3. \A i \in 1 .. Len(block_ready_pipe') :
           \/ i \in 1 .. Len(block_ready_pipe) /\ block_ready_pipe'[i] = block_ready_pipe[i]
           \/ i = Len(block_ready_pipe) + 1 /\ block_ready_pipe'[i] = b
    BY <2>2
  <2>4. \A i, j \in 1 .. Len(block_ready_pipe') :
           block_ready_pipe'[i] = block_ready_pipe'[j] => i = j
    BY <1>2, <2>3 DEF Placed
  <2>5. \A i \in 1 .. Len(rest), j \in 1 .. Len(block_ready_pipe') :
           rest[i] # block_ready_pipe'[j]
    BY <1>2, <1>5, <2>3
  <2>6. \A i \in 1 .. Len(block_ready_pipe') :
           /\ block_ready_pipe'[i] <= blk_counter
           /\ block_ready_pipe'[i] \notin query_pool \cup finished_query \cup dropped
    BY <1>2, <2>3 DEF Placed
  <2> QED
    BY <1>0, <1>1, <1>4, <1>6, <2>1, <2>4, <2>5, <2>6 DEF Placed
<1>8. CASE DisseminateFails
  <2>1. block_ready_pipe' = block_ready_pipe /\ dropped' = dropped \cup {b}
    BY <1>8 DEF DisseminateFails, b
  <2> QED
    BY <1>0, <1>1, <1>2, <1>4, <1>5, <1>6, <2>1 DEF Placed
<1> QED
  BY <1>7, <1>8

\* Both outcomes of the dissemination arm preserve the invariant.
LEMMA DisseminateStep ==
    ASSUME IInv, Disseminate \/ DisseminateFails
    PROVE  IInv'
<1> USE DEF IInv
<1> DEFINE b == Head(new_block_pipe)
           rest == Tail(new_block_pipe)
<1>0. new_block_pipe # <<>> /\ new_block_pipe' = rest
  BY DEF Disseminate, DisseminateFails
<1>1. UNCHANGED <<pmaker_quota, pacemaker_pipe, blk_quota, blk_counter, query_pool,
                  votes, finished_query, vote_timeouts, commit_queue, commit_pipe,
                  feedback_pipe>>
  BY DEF Disseminate, DisseminateFails, pmakerVars, blkMgmtVars, decideVars
<1>2. PICK sample \in SUBSET Peers :
         /\ Cardinality(sample) <= K - 1
         /\ polled' = [polled EXCEPT ![b] = sample]
  <2>1. \A S \in SUBSET Peers : Cardinality(S) \in Nat
    BY FiniteSets
  <2>2. PICK S \in SUBSET Peers :
           /\ Cardinality(S) = K - 1 \/ Cardinality(S) < K - 1
           /\ polled' = [polled EXCEPT ![b] = S]
    BY DEF Disseminate, DisseminateFails
  <2>3. Cardinality(S) <= K - 1
    BY <2>1, <2>2, SampleAssumption
  <2> QED
    BY <2>2, <2>3, Zenon
<1>3. /\ b \in Blocks /\ b <= blk_counter
      /\ b \notin query_pool \cup finished_query \cup dropped
      /\ votes[b] = 0
      /\ rest \in Seq(Blocks)
      /\ Len(rest) = Len(new_block_pipe) - 1
      /\ Len(new_block_pipe) \in Nat
      /\ \A i \in 1 .. Len(rest) :
            /\ i + 1 \in 1 .. Len(new_block_pipe)
            /\ rest[i] = new_block_pipe[i + 1] /\ rest[i] # b
  BY <1>0, NextToDisseminate, Zenon
<1>4. block_ready_pipe \in Seq(Blocks) /\ polled \in [Blocks -> SUBSET Peers]
  BY DEF Typed
<1> HIDE DEF b, rest
<1>5. /\ block_ready_pipe' \in Seq(Blocks)
      /\ dropped' \in SUBSET Blocks
      /\ QuotaConserved'
  <2>0. /\ Len(new_block_pipe)' = Len(new_block_pipe) - 1
        /\ Cardinality(query_pool)' = Cardinality(query_pool)
    BY <1>0, <1>1, <1>3
  <2>1. CASE Disseminate
    <3>1. block_ready_pipe' = Append(block_ready_pipe, b) /\ dropped' = dropped
      BY <2>1 DEF Disseminate, b
    <3>2. /\ block_ready_pipe' \in Seq(Blocks)
          /\ Len(block_ready_pipe)' = Len(block_ready_pipe) + 1
          /\ Cardinality(dropped)' = Cardinality(dropped)
      BY <1>3, <1>4, <3>1, AppendFacts
    <3>3. QuotaConserved'
      BY <1>1, <2>0, <3>2, Counts, SMTT(30) DEF Typed, QuotaConserved
    <3> QED
      BY <3>1, <3>2, <3>3 DEF Typed
  <2>2. CASE DisseminateFails
    <3>1. block_ready_pipe' = block_ready_pipe /\ dropped' = dropped \cup {b}
      BY <2>2 DEF DisseminateFails, b
    <3>2. dropped \in SUBSET Blocks
      BY DEF Typed
    <3>3. Cardinality(dropped \cup {b}) = Cardinality(dropped) + 1
      BY <1>3, <3>2, FiniteSets, CountOne
    <3>4. /\ Cardinality(dropped)' = Cardinality(dropped) + 1
          /\ Len(block_ready_pipe)' = Len(block_ready_pipe)
      BY <3>1, <3>3
    <3>5. QuotaConserved'
      BY <1>1, <2>0, <3>4, Counts, SMTT(30) DEF Typed, QuotaConserved
    <3> QED
      BY <1>3, <1>4, <3>1, <3>2, <3>5
  <2> QED
    BY <2>1, <2>2
<1>6. Typed'
  BY <1>0, <1>1, <1>2, <1>3, <1>4, <1>5 DEF Typed, Blocks
<1>7. VotesBounded'
  <2>1. \A c \in Blocks : polled'[c] = IF c = b THEN sample ELSE polled[c]
    BY <1>2, <1>4
  <2>2. \A i \in 1 .. Len(rest) : rest[i] \in Blocks
    BY <1>3
  <2>3. \A i \in 1 .. Len(rest) : votes[rest[i]] = 0 /\ polled'[rest[i]] = {}
    <3> SUFFICES ASSUME NEW i \in 1 .. Len(rest)
                 PROVE  votes[rest[i]] = 0 /\ polled'[rest[i]] = {}
      OBVIOUS
    <3>1. /\ i + 1 \in 1 .. Len(new_block_pipe) /\ rest[i] = new_block_pipe[i + 1]
          /\ rest[i] # b /\ rest[i] \in Blocks
      BY <1>3, <2>2
    <3>2. votes[rest[i]] = 0 /\ polled[rest[i]] = {}
      BY <3>1 DEF VotesBounded
    <3> QED
      BY <2>1, <3>1, <3>2
  <2>4. \A c \in Blocks : c > blk_counter => votes[c] = 0 /\ polled'[c] = {}
    BY <1>3, <2>1 DEF Typed, VotesBounded, Blocks
  <2>5. \A c \in Blocks \ (query_pool \cup finished_query) :
           votes[c] + Cardinality(polled'[c]) <= K - 1
    BY <1>2, <1>3, <2>1, FiniteSets, SMTT(30) DEF Typed, VotesBounded
  <2> QED
    BY <1>0, <1>1, <2>3, <2>4, <2>5 DEF VotesBounded, Blocks
<1> QED
  BY <1>5, <1>6, <1>7, DisseminatePlaced

\* The two outcomes of a step of decide for block b, flattened: the poll is
\* closed, or it is (still) open or not yet open and has one more vote.
Closed(b) ==
    /\ query_pool' = query_pool \ {b}
    /\ votes' = [votes EXCEPT ![b] = 0]
    /\ finished_query' = finished_query \cup {b}
    /\ vote_timeouts' = vote_timeouts \ {b}
    /\ commit_queue' = Append(commit_queue, b)
    /\ feedback_pipe' = feedback_pipe + 1

Counted(b, pool) ==
    /\ query_pool' = pool
    /\ vote_timeouts' = pool
    /\ votes' = [votes EXCEPT ![b] = @ + 1]
    /\ UNCHANGED <<finished_query, commit_queue, feedback_pipe>>

\* new_tail preserves the invariant, also when its own vote is the last.
LEMMA NewTailStep ==
    ASSUME IInv, NewTail
    PROVE  IInv'
<1> USE DEF IInv
<1> DEFINE b == Head(block_ready_pipe)
           rest == Tail(block_ready_pipe)
<1>0. /\ block_ready_pipe # <<>> /\ block_ready_pipe' = rest
      /\ RecordVotes(b, query_pool \cup {b}, vote_timeouts \cup {b})
      /\ UNCHANGED <<pmaker_quota, pacemaker_pipe, blk_quota, blk_counter,
                     new_block_pipe, polled, commit_pipe, dropped>>
  BY DEF NewTail, pmakerVars, blkMgmtVars
<1>1. block_ready_pipe \in Seq(Blocks) /\ votes \in [Blocks -> Nat]
      /\ polled \in [Blocks -> SUBSET Peers]
  BY DEF Typed
<1>2. /\ Len(block_ready_pipe) \in Nat \ {0} /\ b = block_ready_pipe[1] /\ b \in Blocks
      /\ rest \in Seq(Blocks) /\ Len(rest) = Len(block_ready_pipe) - 1
      /\ \A i \in 1 .. Len(block_ready_pipe) - 1 : rest[i] = block_ready_pipe[i + 1]
  BY <1>0, <1>1, TailFacts
<1> HIDE DEF b, rest
<1>3. 1 \in 1 .. Len(block_ready_pipe)
  BY <1>2
<1>4. /\ b \notin query_pool \cup finished_query \cup dropped /\ b <= blk_counter
      /\ \A i \in 1 .. Len(new_block_pipe) : new_block_pipe[i] # b
  BY <1>2, <1>3 DEF Placed
<1>5. votes[b] \in Nat /\ Cardinality(polled[b]) \in Nat
  BY <1>1, <1>2, FiniteSets
<1>6. votes[b] + 1 <= K
  BY <1>2, <1>4, <1>5, SampleAssumption DEF VotesBounded
<1>7. \A i \in 1 .. Len(rest) :
         /\ i + 1 \in 1 .. Len(block_ready_pipe) /\ i + 1 # 1
         /\ rest[i] = block_ready_pipe[i + 1]
  BY <1>2
<1>8. \A i \in 1 .. Len(rest) :
         /\ rest[i] <= blk_counter /\ rest[i] # b
         /\ rest[i] \notin query_pool \cup finished_query \cup dropped
         /\ \A j \in 1 .. Len(new_block_pipe) : new_block_pipe[j] # rest[i]
  BY <1>2, <1>3, <1>7 DEF Placed
<1>9. \A i, j \in 1 .. Len(rest) : rest[i] = rest[j] => i = j
  <2> SUFFICES ASSUME NEW i \in 1 .. Len(rest), NEW j \in 1 .. Len(rest),
                      rest[i] = rest[j]
               PROVE  i = j
    OBVIOUS
  <2>1. i + 1 = j + 1
    BY <1>7 DEF Placed
  <2> QED
    BY <1>2, <2>1
<1>10. Closed(b) \/ (Counted(b, query_pool \cup {b}) /\ votes[b] + 1 < K)
  <2>1. vote_timeouts = query_pool /\ b \notin query_pool /\ b \notin finished_query
    BY <1>4, Zenon DEF VotesBounded
  <2>2. CASE votes[b] + 1 >= K
    <3>1. CloseQuery(b, query_pool \cup {b}, query_pool \cup {b})
      BY <1>0, <2>1, <2>2, Zenon DEF RecordVotes
    <3>2. (query_pool \cup {b}) \ {b} = query_pool \ {b}
      OBVIOUS
    <3> QED
      BY <2>1, <3>1, <3>2, Zenon DEF CloseQuery, Closed
  <2>3. CASE ~ (votes[b] + 1 >= K)
    <3>1. Counted(b, query_pool \cup {b})
      BY <1>0, <2>1, <2>3, Zenon DEF RecordVotes, Counted
    <3>2. votes[b] + 1 < K
      BY <1>5, <2>3, SampleAssumption
    <3> QED
      BY <3>1, <3>2
  <2> QED
    BY <2>2, <2>3
<1>11. /\ finished_query' \in {finished_query, finished_query \cup {b}}
       /\ query_pool' \in {query_pool, query_pool \cup {b}}
       /\ query_pool' \cap finished_query' = {}
       /\ vote_timeouts' = query_pool'
  <2>1. vote_timeouts = query_pool /\ query_pool \cap finished_query = {}
    BY DEF Placed, VotesBounded
  <2>2. CASE Closed(b)
    <3>1. query_pool \ {b} = query_pool
      BY <1>4
    <3> QED
      BY <1>4, <2>1, <2>2, <3>1 DEF Closed
  <2>3. CASE Counted(b, query_pool \cup {b})
    BY <1>4, <2>1, <2>3 DEF Counted
  <2> QED
    BY <1>10, <2>2, <2>3
<1>12. Placed'
  <2>1. UNCHANGED <<blk_counter, new_block_pipe, dropped>> /\ block_ready_pipe' = rest
    BY <1>0
  <2>2. \A c \in query_pool' \cup finished_query' \cup dropped' :
           c = b \/ c \in query_pool \cup finished_query \cup dropped
    BY <1>11, <2>1
  <2>3. \A c \in query_pool' \cup finished_query' \cup dropped' : c <= blk_counter
    BY <1>4, <2>2 DEF Placed
  <2>4. dropped' \cap (query_pool' \cup finished_query') = {}
    BY <1>4, <1>11, <2>1 DEF Placed
  <2>5. \A i \in 1 .. Len(new_block_pipe) :
           /\ new_block_pipe[i] <= blk_counter
           /\ new_block_pipe[i] \notin query_pool' \cup finished_query' \cup dropped'
    BY <1>4, <2>2 DEF Placed
  <2>6. \A i \in 1 .. Len(rest) :
           /\ rest[i] <= blk_counter
           /\ rest[i] \notin query_pool' \cup finished_query' \cup dropped'
           /\ \A j \in 1 .. Len(new_block_pipe) : new_block_pipe[j] # rest[i]
    BY <1>8, <2>2
  <2>7. \A i, j \in 1 .. Len(new_block_pipe) : new_block_pipe[i] = new_block_pipe[j] => i = j
    BY DEF Placed
  <2> QED
    BY <1>9, <1>11, <2>1, <2>3, <2>4, <2>5, <2>6, <2>7, Zenon DEF Placed
<1>13. Typed'
  <2>1. commit_queue' \in Seq(Blocks) /\ feedback_pipe' \in Nat
        /\ votes' \in [Blocks -> Nat]
    <3>1. CASE Closed(b)
      BY <1>1, <1>2, <3>1, AppendFacts DEF Typed, Closed
    <3>2. CASE Counted(b, query_pool \cup {b})
      BY <1>1, <1>2, <1>5, <3>2 DEF Typed, Counted
    <3> QED
      BY <1>10, <3>1, <3>2
  <2>2. /\ query_pool' \in SUBSET Blocks /\ finished_query' \in SUBSET Blocks
        /\ vote_timeouts' \in SUBSET Blocks
    BY <1>2, <1>11 DEF Typed
  <2> QED
    BY <1>0, <1>2, <2>1, <2>2 DEF Typed, Blocks
<1>14. VotesBounded'
  <2>1. /\ \A c \in Blocks \ {b} : votes'[c] = votes[c]
        /\ votes'[b] \in Nat
        /\ b \in query_pool' => votes'[b] \in 1 .. K - 1
        /\ b \in finished_query' => votes'[b] = 0
        /\ b \in query_pool' \cup finished_query'
    <3>1. CASE Closed(b)
      BY <1>1, <1>2, <1>4, <3>1 DEF Closed
    <3>2. CASE Counted(b, query_pool \cup {b}) /\ votes[b] + 1 < K
      BY <1>1, <1>2, <1>4, <1>5, <3>2, SampleAssumption DEF Counted
    <3> QED
      BY <1>10, <3>1, <3>2
  <2>2. \A i \in 1 .. Len(new_block_pipe) : new_block_pipe[i] \in Blocks
    BY DEF Typed
  <2>3. \A c \in Blocks : c > blk_counter => c # b
    BY <1>4 DEF Typed, Blocks
  <2>4. UNCHANGED <<new_block_pipe, polled, blk_counter>>
    BY <1>0
  <2>5. \A i \in 1 .. Len(new_block_pipe) :
           votes'[new_block_pipe[i]] = 0 /\ polled[new_block_pipe[i]] = {}
    BY <1>4, <2>1, <2>2 DEF VotesBounded
  <2>6. \A c \in Blocks : c > blk_counter => votes'[c] = 0 /\ polled[c] = {}
    BY <2>1, <2>3 DEF VotesBounded
  <2>7. \A c \in Blocks \ (query_pool' \cup finished_query') :
           votes'[c] + Cardinality(polled[c]) <= K - 1
    BY <1>11, <2>1 DEF VotesBounded
  <2>8. /\ \A c \in query_pool' : votes'[c] \in 1 .. K - 1
        /\ \A c \in finished_query' : votes'[c] = 0
    BY <1>11, <2>1, Zenon DEF VotesBounded, Typed
  <2> QED
    BY <1>11, <2>4, <2>5, <2>6, <2>7, <2>8, Zenon DEF VotesBounded, Blocks
<1>15. QuotaConserved'
  <2>1. /\ Len(block_ready_pipe)' = Len(block_ready_pipe) - 1
        /\ Len(new_block_pipe)' = Len(new_block_pipe)
        /\ Cardinality(dropped)' = Cardinality(dropped)
    BY <1>0, <1>2
  <2>0. UNCHANGED <<pmaker_quota, pacemaker_pipe, blk_quota>>
    BY <1>0
  <2>2. CASE Closed(b)
    <3>0. query_pool \ {b} = query_pool
      BY <1>4
    <3>1. Cardinality(query_pool)' = Cardinality(query_pool)
      BY <2>2, <3>0, Zenon DEF Closed
    <3>2. feedback_pipe' = feedback_pipe + 1
      BY <2>2 DEF Closed
    <3>3. /\ pmaker_quota \in Nat /\ pacemaker_pipe \in Nat
          /\ blk_quota \in Nat /\ feedback_pipe \in Nat
      BY DEF Typed
    <3> QED
      BY <2>0, <2>1, <3>1, <3>2, <3>3, Counts DEF QuotaConserved
  <2>3. CASE Counted(b, query_pool \cup {b})
    <3>1. Cardinality(query_pool \cup {b}) = Cardinality(query_pool) + 1
      BY <1>4, FiniteSets, CountOne, Zenon DEF Typed
    <3>2. /\ Cardinality(query_pool)' = Cardinality(query_pool) + 1
          /\ feedback_pipe' = feedback_pipe
      BY <2>3, <3>1 DEF Counted
    <3> QED
      BY <2>0, <2>1, <3>2, Counts DEF Typed, QuotaConserved
  <2> QED
    BY <1>10, <2>2, <2>3
<1> QED
  BY <1>12, <1>13, <1>14, <1>15

\* A poll that closes hands its unit of quota to the feedback pipe.
LEMMA CloseQuota ==
    ASSUME IInv, NEW b \in query_pool, Closed(b),
           UNCHANGED <<pmaker_quota, pacemaker_pipe, blk_quota,
                       new_block_pipe, block_ready_pipe, dropped>>
    PROVE  QuotaConserved'
<1> USE DEF IInv
<1>1. Cardinality(query_pool \ {b}) = Cardinality(query_pool) - 1
  BY FiniteSets, CountOne, Zenon DEF Typed
<1>2. /\ Cardinality(query_pool)' = Cardinality(query_pool) - 1
      /\ Cardinality(dropped)' = Cardinality(dropped)
      /\ Len(new_block_pipe)' = Len(new_block_pipe)
      /\ Len(block_ready_pipe)' = Len(block_ready_pipe)
  BY <1>1 DEF Closed
<1>3. feedback_pipe' = feedback_pipe + 1
  BY DEF Closed
<1>4. /\ pmaker_quota \in Nat /\ pacemaker_pipe \in Nat
      /\ blk_quota \in Nat /\ feedback_pipe \in Nat
  BY DEF Typed
<1> QED
  BY <1>2, <1>3, <1>4, Counts DEF QuotaConserved

\* Closing an open poll, which the last vote and the timer both do.
LEMMA CloseStep ==
    ASSUME IInv, NEW b \in query_pool, Closed(b),
           UNCHANGED <<pmaker_quota, pacemaker_pipe, blk_quota, blk_counter,
                       new_block_pipe, block_ready_pipe, commit_pipe, dropped>>,
           polled' \in [Blocks -> SUBSET Peers],
           \A c \in Blocks \ {b} : polled'[c] = polled[c]
    PROVE  IInv'
<1> USE DEF IInv
<1>1. /\ b \in Blocks /\ b \notin finished_query /\ b \notin dropped /\ b <= blk_counter
      /\ \A i \in 1 .. Len(new_block_pipe) : new_block_pipe[i] # b
      /\ \A i \in 1 .. Len(block_ready_pipe) : block_ready_pipe[i] # b
      /\ vote_timeouts = query_pool
  BY DEF Typed, Placed, VotesBounded
<1>2. /\ query_pool' = query_pool \ {b} /\ finished_query' = finished_query \cup {b}
      /\ vote_timeouts' = query_pool'
  BY <1>1 DEF Closed
<1>3. Placed'
  BY <1>1, <1>2 DEF Placed
<1>4. Typed'
  <2>1. commit_queue' \in Seq(Blocks) /\ feedback_pipe' \in Nat /\ votes' \in [Blocks -> Nat]
    BY <1>1, AppendFacts DEF Typed, Closed
  <2> QED
    BY <1>1, <1>2, <2>1 DEF Typed, Blocks
<1>5. VotesBounded'
  <2>1. /\ \A c \in Blocks \ {b} : votes'[c] = votes[c]
        /\ votes'[b] = 0
    BY <1>1 DEF Closed, Typed
  <2>2. \A i \in 1 .. Len(new_block_pipe) :
           /\ new_block_pipe[i] \in Blocks \ {b}
           /\ votes[new_block_pipe[i]] = 0 /\ polled[new_block_pipe[i]] = {}
    BY <1>1 DEF Typed, VotesBounded
  <2>3. \A c \in Blocks : c > blk_counter => c # b
    BY <1>1 DEF Typed, Blocks
  <2>4. \A c \in Blocks : c > blk_counter => votes'[c] = 0 /\ polled'[c] = {}
    BY <2>1, <2>3, Zenon DEF VotesBounded
  <2>5. \A i \in 1 .. Len(new_block_pipe) :
           votes'[new_block_pipe[i]] = 0 /\ polled'[new_block_pipe[i]] = {}
    BY <2>1, <2>2, Zenon
  <2>6. \A c \in Blocks \ (query_pool' \cup finished_query') :
           votes'[c] + Cardinality(polled'[c]) <= K - 1
    <3> SUFFICES ASSUME NEW c \in Blocks \ (query_pool' \cup finished_query')
                 PROVE  votes'[c] + Cardinality(polled'[c]) <= K - 1
      OBVIOUS
    <3>1. c \in Blocks \ (query_pool \cup finished_query) /\ c # b
      BY <1>2
    <3>2. votes'[c] = votes[c] /\ polled'[c] = polled[c]
      BY <2>1, <3>1
    <3> QED
      BY <3>1, <3>2 DEF VotesBounded
  <2>7. /\ \A c \in query_pool' : votes'[c] \in 1 .. K - 1
        /\ \A c \in finished_query' : votes'[c] = 0
    BY <1>1, <1>2, <2>1 DEF VotesBounded, Typed
  <2> QED
    BY <1>2, <2>4, <2>5, <2>6, <2>7, Zenon DEF VotesBounded, Blocks
<1> QED
  BY <1>3, <1>4, <1>5, CloseQuota

\* A peer's vote preserves the invariant, be it early, on time or late.
LEMMA HandlePeerMsgStep ==
    ASSUME IInv, NEW b \in Blocks, NEW p \in Peers, HandlePeerMsg(p, b)
    PROVE  IInv'
<1> USE DEF IInv
<1>0. /\ p \in polled[b] /\ polled' = [polled EXCEPT ![b] = @ \ {p}]
      /\ RecordVotes(b, query_pool, vote_timeouts)
      /\ UNCHANGED <<pmaker_quota, pacemaker_pipe, blk_quota, blk_counter,
                     new_block_pipe, block_ready_pipe, commit_pipe, dropped>>
  BY DEF HandlePeerMsg, pmakerVars, blkMgmtVars
<1>1. polled \in [Blocks -> SUBSET Peers] /\ votes \in [Blocks -> Nat]
      /\ vote_timeouts = query_pool
  BY DEF Typed, VotesBounded
<1>2. /\ polled' \in [Blocks -> SUBSET Peers]
      /\ \A c \in Blocks \ {b} : polled'[c] = polled[c]
      /\ polled'[b] = polled[b] \ {p}
  BY <1>0, <1>1
<1>3. /\ Cardinality(polled[b]) \in Nat
      /\ Cardinality(polled[b] \ {p}) = Cardinality(polled[b]) - 1
  BY <1>0, <1>1, FiniteSets, CountOne
<1>4. /\ \A i \in 1 .. Len(new_block_pipe) :
            new_block_pipe[i] \in Blocks /\ new_block_pipe[i] # b
      /\ \A c \in Blocks : c > blk_counter => c # b
  BY <1>0 DEF Typed, VotesBounded
<1>5. CASE b \in query_pool /\ votes[b] + 1 >= K
  <2>1. b \notin finished_query
    BY <1>5 DEF Placed
  <2>2. Closed(b)
    BY <1>0, <1>5, <2>1 DEF RecordVotes, CloseQuery, Closed
  <2> QED
    BY <1>0, <1>2, <1>5, <2>2, CloseStep
<1>6. CASE ~(b \in query_pool /\ votes[b] + 1 >= K)
  <2>1. /\ UNCHANGED <<query_pool, vote_timeouts, finished_query, commit_queue,
                       feedback_pipe>>
        /\ votes' = IF b \in finished_query THEN votes ELSE [votes EXCEPT ![b] = @ + 1]
    BY <1>0, <1>6 DEF RecordVotes
  <2>2. /\ votes' \in [Blocks -> Nat]
        /\ \A c \in Blocks \ {b} : votes'[c] = votes[c]
        /\ votes'[b] = IF b \in finished_query THEN votes[b] ELSE votes[b] + 1
        /\ votes[b] \in Nat
    BY <1>1, <2>1
  <2>3. Typed'
    BY <1>0, <1>2, <2>1, <2>2 DEF Typed, Blocks
  <2>4. Placed'
    BY <1>0, <2>1 DEF Placed
  <2>5. VotesBounded'
    <3>1. \A i \in 1 .. Len(new_block_pipe) :
             votes'[new_block_pipe[i]] = 0 /\ polled'[new_block_pipe[i]] = {}
      BY <1>2, <1>4, <2>2, Zenon DEF VotesBounded
    <3>2. \A c \in Blocks : c > blk_counter => votes'[c] = 0 /\ polled'[c] = {}
      BY <1>2, <1>4, <2>2 DEF VotesBounded
    <3>3. \A c \in Blocks \ (query_pool \cup finished_query) :
             votes'[c] + Cardinality(polled'[c]) <= K - 1
      <4>1. b \notin query_pool \cup finished_query =>
               votes[b] + Cardinality(polled[b]) <= K - 1
        BY DEF VotesBounded
      <4>2. b \notin query_pool \cup finished_query =>
               votes'[b] + Cardinality(polled'[b]) <= K - 1
        BY <1>2, <1>3, <2>2, <4>1, SampleAssumption
      <4> QED
        BY <1>2, <2>2, <4>2, Zenon DEF VotesBounded
    <3>4. \A c \in query_pool : votes'[c] \in 1 .. K - 1
      <4>1. b \in query_pool => votes'[b] \in 1 .. K - 1
        <5>1. b \in query_pool => b \notin finished_query /\ votes[b] \in 1 .. K - 1
          BY Zenon DEF Placed, VotesBounded
        <5> QED
          BY <1>6, <2>2, <5>1, SampleAssumption
      <4> QED
        BY <2>2, <4>1, Zenon DEF Typed, VotesBounded
    <3>5. \A c \in finished_query : votes'[c] = 0
      BY <2>2 DEF Typed, VotesBounded
    <3> QED
      BY <1>0, <1>1, <2>1, <3>1, <3>2, <3>3, <3>4, <3>5, Zenon DEF VotesBounded, Blocks
  <2>6. QuotaConserved'
    BY <1>0, <2>1 DEF QuotaConserved
  <2> QED
    BY <2>3, <2>4, <2>5, <2>6
<1> QED
  BY <1>5, <1>6

\* The vote timer preserves the invariant.
LEMMA HandleTimeoutStep ==
    ASSUME IInv, NEW b \in Blocks, HandleTimeout(b)
    PROVE  IInv'
<1> USE DEF IInv
<1>1. b \in query_pool /\ b \notin finished_query
  BY DEF HandleTimeout, Placed, VotesBounded
<1>2. Closed(b)
  BY <1>1 DEF HandleTimeout, CloseQuery, Closed
<1>3. UNCHANGED <<pmaker_quota, pacemaker_pipe, blk_quota, blk_counter, polled,
                  new_block_pipe, block_ready_pipe, commit_pipe, dropped>>
  BY DEF HandleTimeout, pmakerVars, blkMgmtVars
<1>4. polled \in [Blocks -> SUBSET Peers]
  BY DEF Typed
<1> QED
  BY <1>1, <1>2, <1>3, <1>4, CloseStep

\* Handing a batch to the commit stage, and stuttering.
LEMMA NextToCommitStep ==
    ASSUME IInv, NextToCommit \/ UNCHANGED vars
    PROVE  IInv'
<1> USE DEF IInv
<1>1. UNCHANGED <<pmaker_quota, pacemaker_pipe, blk_quota, blk_counter, polled,
                  new_block_pipe, block_ready_pipe, dropped, query_pool, votes,
                  finished_query, vote_timeouts, feedback_pipe>>
  BY DEF NextToCommit, pmakerVars, blkMgmtVars, vars
<1>2. commit_queue' \in Seq(Blocks) /\ commit_pipe' \in Seq(Blocks)
  <2>1. commit_queue \in Seq(Blocks) /\ commit_pipe \in Seq(Blocks)
    BY DEF Typed
  <2>2. CASE NextToCommit
    BY <2>1, <2>2, AppendFacts, TailFacts DEF NextToCommit
  <2>3. CASE UNCHANGED vars
    BY <2>1, <2>3 DEF vars
  <2> QED
    BY <2>2, <2>3
<1>3. Typed'
  BY <1>1, <1>2 DEF Typed, Blocks
<1>4. Placed' /\ VotesBounded' /\ QuotaConserved'
  BY <1>1 DEF Placed, VotesBounded, QuotaConserved, Blocks
<1> QED
  BY <1>3, <1>4

\* IInv is inductive: every stage's step keeps it.
LEMMA NextIInv == IInv /\ [Next]_vars => IInv'
<1> SUFFICES ASSUME IInv, [Next]_vars PROVE IInv'
  OBVIOUS
<1>1. CASE PmakerPropose \/ HandleFeedback \/ HandlePmakerMsg
  BY <1>1, QuotaStep
<1>2. CASE GetNewBlock
  BY <1>2, GetNewBlockStep
<1>3. CASE Disseminate \/ DisseminateFails
  BY <1>3, DisseminateStep
<1>4. CASE NewTail
  BY <1>4, NewTailStep
<1>5. CASE \E b \in Blocks, p \in Peers : HandlePeerMsg(p, b)
  BY <1>5, HandlePeerMsgStep
<1>6. CASE \E b \in Blocks : HandleTimeout(b)
  BY <1>6, HandleTimeoutStep
<1>7. CASE NextToCommit \/ UNCHANGED vars
  BY <1>7, NextToCommitStep
<1> QED
  BY <1>1, <1>2, <1>3, <1>4, <1>5, <1>6, <1>7 DEF Next

\* The inductive invariant holds in every behaviour.
LEMMA Invariance == Spec => []IInv
BY InitIInv, NextIInv, PTL DEF Spec

\* The quota of max_inflight_blk is conserved across pacemaker, block
\* management, dissemination, decide and the pipes between them, for every
\* quota, sample size and set of peers.
THEOREM QuotaIsConserved == Spec => []QuotaConserved
<1>1. IInv => QuotaConserved
  BY DEF IInv
<1> QED
  BY <1>1, Invariance, PTL

\* Decide's bookkeeping of open and closed polls is consistent whatever the
\* order of blocks, votes and timeouts: the unwrap in handle_votes is safe,
\* no complete poll is left open, every open poll has a timer, and a late
\* vote leaves nothing behind.
THEOREM PollsAreConsistent == Spec => []PollBookkeeping
<1>1. IInv => PollBookkeeping
  BY DEF IInv, Placed, VotesBounded, PollBookkeeping
<1> QED
  BY <1>1, Invariance, PTL

\* The fields of every stage stay in their types; in particular no quota
\* counter goes below zero or above max_inflight_blk, and no block gets more
\* than K votes.
THEOREM TypesHold == Spec => []TypeOK
<1>1. IInv => TypeOK
  <2> SUFFICES ASSUME IInv PROVE TypeOK
    OBVIOUS
  <2> USE DEF IInv
  <2>1. /\ Len(new_block_pipe) \in Nat /\ Len(block_ready_pipe) \in Nat
        /\ Cardinality(query_pool) \in Nat /\ Cardinality(dropped) \in Nat
    BY Counts
  <2>2. /\ pmaker_quota \in Nat /\ pacemaker_pipe \in Nat
        /\ blk_quota \in Nat /\ feedback_pipe \in Nat
    BY DEF Typed
  <2>3. /\ pmaker_quota <= MaxInflight /\ pacemaker_pipe <= MaxInflight
        /\ blk_quota <= MaxInflight /\ feedback_pipe <= MaxInflight
    BY <2>1, <2>2, InflightAssumption DEF QuotaConserved
  <2>4. votes \in [Blocks -> 0 .. K]
    <3>1. \A b \in Blocks : votes[b] \in 0 .. K
      <4> SUFFICES ASSUME NEW b \in Blocks PROVE votes[b] \in 0 .. K
        OBVIOUS
      <4>1. votes[b] \in Nat /\ Cardinality(polled[b]) \in Nat
        BY FiniteSets DEF Typed
      <4>2. CASE b \in query_pool \cup finished_query
        BY <4>1, <4>2, SampleAssumption DEF VotesBounded
      <4>3. CASE b \notin query_pool \cup finished_query
        <5>1. votes[b] + Cardinality(polled[b]) <= K - 1
          BY <4>3 DEF VotesBounded
        <5> QED
          BY <4>1, <5>1, SampleAssumption
      <4> QED
        BY <4>2, <4>3
    <3> QED
      BY <3>1 DEF Typed
  <2> QED
    BY <2>2, <2>3, <2>4, InflightAssumption DEF Typed, TypeOK
<1> QED
  BY <1>1, Invariance, PTL

----------------------------------------------------------------------------
\* The commit log: what is queued for, and what was handed to, the commit
\* stage are the closed polls, each once.
LogOnce ==
    /\ \A i, j \in 1 .. Len(commit_queue) : commit_queue[i] = commit_queue[j] => i = j
    /\ \A i, j \in 1 .. Len(commit_pipe) : commit_pipe[i] = commit_pipe[j] => i = j
    /\ \A i \in 1 .. Len(commit_pipe), j \in 1 .. Len(commit_queue) :
          commit_pipe[i] # commit_queue[j]
    /\ \A i \in 1 .. Len(commit_queue) : commit_queue[i] \in finished_query
    /\ \A i \in 1 .. Len(commit_pipe) : commit_pipe[i] \in finished_query
    /\ \A b \in finished_query :
          \/ \E i \in 1 .. Len(commit_queue) : commit_queue[i] = b
          \/ \E i \in 1 .. Len(commit_pipe) : commit_pipe[i] = b

\* A poll that closes was not in the log before.
LEMMA CloseLogs ==
    ASSUME Typed, LogOnce, NEW b \in Blocks \ finished_query, Closed(b),
           UNCHANGED commit_pipe
    PROVE  LogOnce'
<1>1. commit_queue \in Seq(Blocks) /\ commit_queue' = Append(commit_queue, b)
      /\ finished_query' = finished_query \cup {b}
  BY DEF Typed, Closed
<1>2. /\ Len(commit_queue) \in Nat
      /\ Len(commit_queue') = Len(commit_queue) + 1
      /\ \A i \in 1 .. Len(commit_queue) : commit_queue'[i] = commit_queue[i]
      /\ commit_queue'[Len(commit_queue) + 1] = b
  BY <1>1, AppendFacts
<1>3. /\ \A i \in 1 .. Len(commit_queue') :
            \/ i \in 1 .. Len(commit_queue) /\ commit_queue'[i] = commit_queue[i]
            \/ i = Len(commit_queue) + 1 /\ commit_queue'[i] = b
      /\ \A i \in 1 .. Len(commit_queue) : i \in 1 .. Len(commit_queue')
      /\ Len(commit_queue) + 1 \in 1 .. Len(commit_queue')
  BY <1>2
<1>4. \A i, j \in 1 .. Len(commit_queue') : commit_queue'[i] = commit_queue'[j] => i = j
  BY <1>3 DEF LogOnce
<1>5. \A i \in 1 .. Len(commit_pipe), j \in 1 .. Len(commit_queue') :
         commit_pipe[i] # commit_queue'[j]
  BY <1>3 DEF LogOnce
<1>6. \A i \in 1 .. Len(commit_queue') : commit_queue'[i] \in finished_query'
  BY <1>1, <1>3 DEF LogOnce
<1>7. \A c \in finished_query' :
         \/ \E i \in 1 .. Len(commit_queue') : commit_queue'[i] = c
         \/ \E i \in 1 .. Len(commit_pipe) : commit_pipe[i] = c
  <2> SUFFICES ASSUME NEW c \in finished_query',
                      ~ \E i \in 1 .. Len(commit_pipe) : commit_pipe[i] = c
               PROVE  \E i \in 1 .. Len(commit_queue') : commit_queue'[i] = c
    OBVIOUS
  <2>1. CASE c = b
    BY <1>2, <1>3, <2>1
  <2>2. CASE c \in finished_query
    <3>1. PICK i \in 1 .. Len(commit_queue) : commit_queue[i] = c
      BY <2>2 DEF LogOnce
    <3>2. i \in 1 .. Len(commit_queue') /\ commit_queue'[i] = c
      BY <1>2, <1>3, <3>1
    <3> QED
      BY <3>2
  <2> QED
    BY <1>1, <2>1, <2>2
<1>8. /\ \A i, j \in 1 .. Len(commit_pipe) : commit_pipe[i] = commit_pipe[j] => i = j
      /\ \A i \in 1 .. Len(commit_pipe) : commit_pipe[i] \in finished_query'
  BY <1>1 DEF LogOnce
<1> QED
  BY <1>4, <1>5, <1>6, <1>7, <1>8 DEF LogOnce

\* next_to_commit moves the oldest entry.
LEMMA NextToCommitLogs ==
    ASSUME Typed, LogOnce, NextToCommit
    PROVE  LogOnce'
<1> DEFINE b == Head(commit_queue)
           rest == Tail(commit_queue)
           pipe == Append(commit_pipe, b)
<1>1. /\ commit_queue \in Seq(Blocks) /\ commit_pipe \in Seq(Blocks)
      /\ commit_queue # <<>> /\ commit_queue' = rest /\ commit_pipe' = pipe
      /\ finished_query' = finished_query
  BY DEF Typed, NextToCommit
<1>2. /\ Len(commit_queue) \in Nat \ {0} /\ b = commit_queue[1] /\ b \in Blocks
      /\ Len(rest) = Len(commit_queue) - 1
      /\ \A i \in 1 .. Len(commit_queue) - 1 : rest[i] = commit_queue[i + 1]
  BY <1>1, TailFacts
<1>3. /\ Len(commit_pipe) \in Nat
      /\ Len(pipe) = Len(commit_pipe) + 1
      /\ \A i \in 1 .. Len(commit_pipe) : pipe[i] = commit_pipe[i]
      /\ pipe[Len(commit_pipe) + 1] = b
  BY <1>1, <1>2, AppendFacts
<1> HIDE DEF b, rest, pipe
<1>4. /\ 1 \in 1 .. Len(commit_queue)
      /\ \A i \in 1 .. Len(rest) :
            /\ i + 1 \in 1 .. Len(commit_queue) /\ i + 1 # 1
            /\ rest[i] = commit_queue[i + 1]
      /\ \A i \in 1 .. Len(commit_queue) :
            i = 1 \/ (i - 1 \in 1 .. Len(rest) /\ rest[i - 1] = commit_queue[i])
  BY <1>2
<1>5. /\ \A i \in 1 .. Len(pipe) :
            \/ i \in 1 .. Len(commit_pipe) /\ pipe[i] = commit_pipe[i]
            \/ i = Len(commit_pipe) + 1 /\ pipe[i] = b
      /\ \A i \in 1 .. Len(commit_pipe) : i \in 1 .. Len(pipe)
      /\ Len(commit_pipe) + 1 \in 1 .. Len(pipe)
  BY <1>3
<1>6. \A i, j \in 1 .. Len(rest) : rest[i] = rest[j] => i = j
  <2> SUFFICES ASSUME NEW i \in 1 .. Len(rest), NEW j \in 1 .. Len(rest),
                      rest[i] = rest[j]
               PROVE  i = j
    OBVIOUS
  <2>1. i + 1 = j + 1
    BY <1>4 DEF LogOnce
  <2> QED
    BY <1>2, <2>1
<1>7. /\ \A i \in 1 .. Len(rest) : rest[i] # b
      /\ \A i \in 1 .. Len(commit_pipe) : commit_pipe[i] # b
      /\ b \in finished_query
  BY <1>2, <1>4 DEF LogOnce
<1>8. \A i, j \in 1 .. Len(pipe) : pipe[i] = pipe[j] => i = j
  BY <1>5, <1>7 DEF LogOnce
<1>9. \A i \in 1 .. Len(pipe), j \in 1 .. Len(rest) : pipe[i] # rest[j]
  BY <1>4, <1>5, <1>7 DEF LogOnce
<1>10. /\ \A i \in 1 .. Len(rest) : rest[i] \in finished_query
       /\ \A i \in 1 .. Len(pipe) : pipe[i] \in finished_query
  <2>1. ASSUME NEW i \in 1 .. Len(rest) PROVE rest[i] \in finished_query
    BY <1>4, Zenon DEF LogOnce
  <2>2. ASSUME NEW i \in 1 .. Len(pipe) PROVE pipe[i] \in finished_query
    BY <1>5, <1>7, Zenon DEF LogOnce
  <2> QED
    BY <2>1, <2>2
<1>11. \A c \in finished_query :
          \/ \E i \in 1 .. Len(rest) : rest[i] = c
          \/ \E i \in 1 .. Len(pipe) : pipe[i] = c
  <2> SUFFICES ASSUME NEW c \in finished_query,
                      ~ \E i \in 1 .. Len(rest) : rest[i] = c
               PROVE  \E i \in 1 .. Len(pipe) : pipe[i] = c
    OBVIOUS
  <2>1. c = b \/ \E i \in 1 .. Len(commit_pipe) : commit_pipe[i] = c
    <3>1. CASE \E i \in 1 .. Len(commit_queue) : commit_queue[i] = c
      <4>1. PICK i \in 1 .. Len(commit_queue) : commit_queue[i] = c
        BY <3>1
      <4>2. i = 1
        BY <1>4, <4>1, Zenon
      <4> QED
        BY <1>2, <4>1, <4>2
    <3> QED
      BY <3>1 DEF LogOnce
  <2>2. CASE c = b
    BY <1>3, <1>5, <2>2
  <2>3. CASE \E i \in 1 .. Len(commit_pipe) : commit_pipe[i] = c
    <3>1. PICK i \in 1 .. Len(commit_pipe) : commit_pipe[i] = c
      BY <2>3
    <3>2. i \in 1 .. Len(pipe) /\ pipe[i] = c
      BY <1>3, <1>5, <3>1
    <3> QED
      BY <3>2
  <2> QED
    BY <2>1, <2>2, <2>3
<1> QED
  BY <1>1, <1>6, <1>8, <1>9, <1>10, <1>11 DEF LogOnce

\* A step of decide closes one poll that was not closed before, or leaves the
\* log alone; so does every other step.
LEMMA NextLogOnce ==
    ASSUME IInv, LogOnce, [Next]_vars
    PROVE  LogOnce'
<1> USE DEF IInv
<1>1. CASE UNCHANGED <<commit_queue, commit_pipe, finished_query>>
  BY <1>1, Zenon DEF LogOnce
<1>2. CASE NextToCommit
  BY <1>2, NextToCommitLogs
<1>3. ASSUME NEW b \in Blocks, b \notin finished_query, NEW pool, NEW timers,
             CloseQuery(b, pool, timers), UNCHANGED commit_pipe,
             pool \ {b} = query_pool \ {b}, timers \ {b} = vote_timeouts \ {b}
      PROVE  LogOnce'
  <2>1. Closed(b)
    BY <1>3 DEF CloseQuery, Closed
  <2> QED
    BY <1>3, <2>1, CloseLogs
<1>4. CASE NewTail
  <2> DEFINE b == Head(block_ready_pipe)
  <2>1. RecordVotes(b, query_pool \cup {b}, vote_timeouts \cup {b}) /\ UNCHANGED commit_pipe
    BY <1>4 DEF NewTail
  <2>2. b \in Blocks
    BY <1>4, TailFacts DEF NewTail, Typed
  <2>3. /\ (query_pool \cup {b}) \ {b} = query_pool \ {b}
        /\ (vote_timeouts \cup {b}) \ {b} = vote_timeouts \ {b}
    OBVIOUS
  <2> HIDE DEF b
  <2> QED
    BY <1>1, <1>3, <2>1, <2>2, <2>3 DEF RecordVotes
<1>5. ASSUME NEW b \in Blocks, NEW p \in Peers, HandlePeerMsg(p, b)
      PROVE  LogOnce'
  <2>1. RecordVotes(b, query_pool, vote_timeouts) /\ UNCHANGED commit_pipe
    BY <1>5 DEF HandlePeerMsg
  <2> QED
    BY <1>1, <1>3, <2>1 DEF RecordVotes
<1>6. ASSUME NEW b \in Blocks, HandleTimeout(b)
      PROVE  LogOnce'
  BY <1>1, <1>3, <1>6 DEF HandleTimeout
<1> QED
  BY <1>1, <1>2, <1>4, <1>5, <1>6
     DEF Next, PmakerPropose, HandleFeedback, HandlePmakerMsg, GetNewBlock,
         Disseminate, DisseminateFails, decideVars, vars

\* Every closed poll reaches the commit stage exactly once, whether its last
\* vote or its timer closed it.
THEOREM CommitsAreUnique == Spec => []CommittedOnce
<1>1. Init => LogOnce
  BY DEF Init, LogOnce
<1>2. IInv /\ LogOnce /\ [Next]_vars => LogOnce'
  BY NextLogOnce
<1>3. IInv /\ LogOnce => CommittedOnce
  <2> SUFFICES ASSUME Typed, LogOnce PROVE CommittedOnce
    BY DEF IInv
  <2> DEFINE log == commit_pipe \o commit_queue
             n == Len(commit_pipe)
             m == Len(commit_queue)
  <2>1. commit_pipe \in Seq(Blocks) /\ commit_queue \in Seq(Blocks)
    BY DEF Typed
  <2>2. /\ n \in Nat /\ m \in Nat /\ Len(log) = n + m
        /\ \A i \in 1 .. n : log[i] = commit_pipe[i]
        /\ \A i \in n + 1 .. n + m : log[i] = commit_queue[i - n]
    BY <2>1
  <2> HIDE DEF log, n, m
  <2>3. /\ \A i \in 1 .. n + m :
              \/ i \in 1 .. n /\ log[i] = commit_pipe[i]
              \/ i - n \in 1 .. m /\ log[i] = commit_queue[i - n]
        /\ \A i \in 1 .. n : i \in 1 .. n + m /\ log[i] = commit_pipe[i]
        /\ \A i \in 1 .. m : i + n \in 1 .. n + m /\ log[i + n] = commit_queue[i]
    BY <2>2
  <2>4. \A i, j \in 1 .. n + m : log[i] = log[j] => i = j
    <3> SUFFICES ASSUME NEW i \in 1 .. n + m, NEW j \in 1 .. n + m, log[i] = log[j]
                 PROVE  i = j
      OBVIOUS
    <3>1. i = j \/ i - n = j - n
      BY <2>3 DEF LogOnce, n, m
    <3> QED
      BY <2>2, <3>1
  <2>5. \A i \in 1 .. n + m : log[i] \in finished_query
    BY <2>3 DEF LogOnce, n, m
  <2>6. \A b \in finished_query : \E i \in 1 .. n + m : log[i] = b
    <3> SUFFICES ASSUME NEW b \in finished_query
                 PROVE  \E i \in 1 .. n + m : log[i] = b
      OBVIOUS
    <3>1. CASE \E i \in 1 .. m : commit_queue[i] = b
      <4>1. PICK i \in 1 .. m : commit_queue[i] = b
        BY <3>1
      <4>2. i + n \in 1 .. n + m /\ log[i + n] = b
        BY <2>3, <4>1
      <4> QED
        BY <4>2
    <3>2. CASE \E i \in 1 .. n : commit_pipe[i] = b
      BY <2>3, <3>2
    <3> QED
      BY <3>1, <3>2 DEF LogOnce, n, m
  <2>7. {log[i] : i \in 1 .. n + m} = finished_query
    BY <2>5, <2>6
  <2> QED
    BY <2>2, <2>4, <2>7 DEF CommittedOnce, log
<1> QED
  BY <1>1, <1>2, <1>3, Invariance, PTL DEF Spec

----------------------------------------------------------------------------
\* A block that new_tail takes from its pipe was never polled before.
LEMMA HeadIsFresh ==
    ASSUME IInv, LogOnce, block_ready_pipe # <<>>
    PROVE  /\ Head(block_ready_pipe) \in Blocks
           /\ Head(block_ready_pipe) \notin query_pool
           /\ ~ PollsMapped!Known(Head(block_ready_pipe))
<1>1. block_ready_pipe \in Seq(Blocks) /\ commit_queue \in Seq(Blocks)
      /\ commit_pipe \in Seq(Blocks)
  BY DEF IInv, Typed
<1>2. /\ Head(block_ready_pipe) = block_ready_pipe[1]
      /\ 1 \in 1 .. Len(block_ready_pipe) /\ Head(block_ready_pipe) \in Blocks
  BY <1>1, TailFacts
<1>3. Head(block_ready_pipe) \notin query_pool \cup finished_query
  BY <1>2 DEF IInv, Placed
<1>4. DOMAIN commit_queue = 1 .. Len(commit_queue) /\ DOMAIN commit_pipe = 1 .. Len(commit_pipe)
  BY <1>1
<1> QED
  BY <1>2, <1>3, <1>4 DEF LogOnce, PollsMapped!Known

\* A step of the pipeline opens one poll, closes one, hands one over, or does
\* nothing that PollRounds speaks of.
LEMMA StepsMap ==
    ASSUME IInv, LogOnce, [Next]_vars
    PROVE  [PollsMapped!PollNext]_(PollsMapped!pollVars)
<1>1. CASE UNCHANGED <<query_pool, commit_queue, commit_pipe>>
  BY <1>1 DEF PollsMapped!pollVars
<1>2. CASE NextToCommit
  BY <1>2 DEF NextToCommit, PollsMapped!PollNext, PollsMapped!HandOver
<1>3. ASSUME NEW b \in Blocks, b \in query_pool,
             CloseQuery(b, query_pool, vote_timeouts), UNCHANGED commit_pipe
      PROVE  PollsMapped!PollNext
  BY <1>3 DEF CloseQuery, PollsMapped!PollNext, PollsMapped!ClosePoll
<1>4. CASE NewTail
  <2> DEFINE b == Head(block_ready_pipe)
  <2>1. /\ RecordVotes(b, query_pool \cup {b}, vote_timeouts \cup {b})
        /\ UNCHANGED commit_pipe /\ block_ready_pipe # <<>>
    BY <1>4 DEF NewTail
  <2>2. b \in Blocks /\ b \notin query_pool /\ ~ PollsMapped!Known(b)
    BY <2>1, HeadIsFresh
  <2> HIDE DEF b
  <2>3. CASE CloseQuery(b, query_pool \cup {b}, vote_timeouts \cup {b})
    <3>1. query_pool' = query_pool /\ commit_queue' = Append(commit_queue, b)
      BY <2>2, <2>3 DEF CloseQuery
    <3> QED
      BY <2>1, <2>2, <3>1 DEF PollsMapped!PollNext, PollsMapped!OpenAndClosePoll
  <2>4. CASE query_pool' = query_pool \cup {b} /\ UNCHANGED commit_queue
    BY <2>1, <2>2, <2>4 DEF PollsMapped!PollNext, PollsMapped!OpenPoll
  <2> QED
    BY <2>1, <2>3, <2>4 DEF RecordVotes
<1>5. ASSUME NEW b \in Blocks, NEW p \in Peers, HandlePeerMsg(p, b)
      PROVE  [PollsMapped!PollNext]_(PollsMapped!pollVars)
  <2>1. RecordVotes(b, query_pool, vote_timeouts) /\ UNCHANGED commit_pipe
    BY <1>5 DEF HandlePeerMsg
  <2> QED
    BY <1>1, <1>3, <2>1 DEF RecordVotes
<1>6. ASSUME NEW b \in Blocks, HandleTimeout(b)
      PROVE  [PollsMapped!PollNext]_(PollsMapped!pollVars)
  BY <1>1, <1>3, <1>6 DEF HandleTimeout
<1> QED
  BY <1>1, <1>2, <1>4, <1>5, <1>6
     DEF Next, PmakerPropose, HandleFeedback, HandlePmakerMsg, GetNewBlock,
         Disseminate, DisseminateFails, decideVars, vars

\* To its neighbours decide keeps the promise of PollRounds: one poll per own
\* block, closed once by the last vote or by the timer, and handed to the
\* commit stage in the order of closing (new_tail, record_votes,
\* handle_timeout, next_to_commit).
THEOREM PollsRefined == Spec => PollsMapped!PollSafety
<1>1. Init => LogOnce
  BY DEF Init, LogOnce
<1>2. IInv /\ LogOnce /\ [Next]_vars => LogOnce'
  BY NextLogOnce
<1>3. Init => PollsMapped!PollInit
  BY DEF Init, PollsMapped!PollInit
<1>4. IInv /\ LogOnce /\ [Next]_vars => [PollsMapped!PollNext]_(PollsMapped!pollVars)
  BY StepsMap
<1> QED
  BY <1>1, <1>2, <1>3, <1>4, Invariance, PTL DEF Spec, PollsMapped!PollSafety
=============================================================================
