--------------------------- MODULE FlowGen_proofs ---------------------------
(***************************************************************************)
(* For any number of clients, accounts and nodes, any batch size and any   *)
(* depth of conflicts: no output is spent twice but by two rivals,         *)
(* Bitcoin's counts have no gap after any forks, and the counters of what  *)
(* is in flight are exact.                                                 *)
(*                                                                         *)
(* OnlyRivalsConflict is not inductive: that an output on offer is unspent *)
(* rests on what it is an output of, an older transaction of the right     *)
(* kind (Known), and on each being offered once (UtxosUnspent and          *)
(* OffersUnspent).                                                         *)
(*                                                                         *)
(* The counters rest on which rivals are in flight and whose rival was     *)
(* committed (Fighting): each commit then changes one pair, and            *)
(* Cardinality counts the pairs.                                           *)
(*                                                                         *)
(* Nodes are sent a transaction after what it spends: SentAfterInputs      *)
(* rests on the nodes of a client having been sent whatever the client's   *)
(* outputs on offer come from (Given).  A conflict's batch has one level   *)
(* after the other, and so the proof is by induction on the levels.        *)
(***************************************************************************)
EXTENDS FlowGen, InductionLemmas, FiniteSetTheorems, TLAPS

\* Transactions made so far, setup grants excepted.
Made ==
    {Single(m) : m \in 0 .. singles - 1} \cup {Grant(m) : m \in 0 .. fights - 1}
        \cup {Rival(m, l, s) : m \in 0 .. fights - 1, l \in 0 .. CommitDepth, s \in {1, 2}}

\* What a transaction spends, if it spends anything.
Source(t) == spends[t].txn

Typed ==
    /\ singles \in Nat /\ fights \in Nat
    /\ utxos = [c \in Clients |-> utxos[c]]
    /\ DOMAIN spends \subseteq Made

\* What is spent was made before, and by a transaction of the kind that the
\* spender's branch of the generator spends.
Known ==
    \A t \in DOMAIN spends :
        \/ spends[t] = NoOutput
        \/ t.kind = "single" /\ Source(t).kind = "setup"
        \/ t.kind = "single" /\ Source(t).kind = "single" /\ Source(t) \in Made
        \/ t.kind = "rival" /\ Source(t).kind \in {"grant", "rival"} /\ Source(t) \in Made

\* The outputs that clients hold are unspent and each is held by one client.
UtxosUnspent ==
    \A c \in Clients : \A u \in utxos[c] :
        /\ u.txn.kind \in {"setup", "single"}
        /\ u.txn.kind = "single" => u.txn \in Made
        /\ \A t \in DOMAIN spends : spends[t] # u
        /\ \A d \in Clients : u \in utxos[d] => d = c

\* So are those that the next conflict is about.
OffersUnspent ==
    \A v \in conflicting_utxos :
        /\ v.txn.kind = "rival" /\ v.txn \in Made
        /\ \A w \in conflicting_utxos : w.txn = v.txn => w = v
        /\ \A t \in DOMAIN spends : Source(t) # v.txn

IInv == Typed /\ Known /\ UtxosUnspent /\ OffersUnspent /\ OnlyRivalsConflict

----------------------------------------------------------------------------
\* Transactions

LEMMA TxnFields ==
    /\ \A m : Single(m).kind = "single" /\ Single(m).n = m
    /\ \A m : Grant(m).kind = "grant" /\ Grant(m).n = m
    /\ \A m, l, s : /\ Rival(m, l, s).kind = "rival" /\ Rival(m, l, s).n = m
                    /\ Rival(m, l, s).level = l /\ Rival(m, l, s).side = s
    /\ \A c, a : SetupGrant(c, a).kind = "setup" /\ SetupGrant(c, a).n = c
    /\ NoOutput.txn.kind = "none"
BY DEF Single, Grant, Rival, SetupGrant, NoOutput, Output, Txn

LEMMA GrantKind == \A m : Grant(m).kind = "grant"
BY TxnFields, Zenon

LEMMA RivalKind == \A m, l, s : Rival(m, l, s).kind = "rival"
BY TxnFields, Zenon

LEMMA RivalPlace == \A m, l, s : Rival(m, l, s).level = l /\ Rival(m, l, s).side = s
BY TxnFields

LEMMA OutputFields ==
    \A t, p, v : Output(t, p, v).txn = t /\ Output(t, p, v).part = p /\ Output(t, p, v).value = v
BY DEF Output

\* The receivers of two rivals differ.
LEMMA ReceiversDiffer ==
    ASSUME NEW same \in BOOLEAN, SameReceivers(same)
    PROVE  same = FALSE
<1>1. PICK sender \in 0 .. NumAccounts - 1, r1 \in 0 .. NumAccounts - 2,
           r2 \in 0 .. NumAccounts - 3 :
          same <=> (Recver1(sender, r1) = Recver2(sender, Recver1(sender, r1), r2))
  BY Zenon DEF SameReceivers
<1>2. Recver1(sender, r1) # Recver2(sender, Recver1(sender, r1), r2)
  BY ClientsAssumption DEF Recver1, Recver2
<1> QED
  BY <1>1, <1>2, Zenon

LEMMA InitIInv == Init => IInv
<1> SUFFICES ASSUME Init PROVE IInv
  OBVIOUS
<1>1. /\ singles = 0 /\ fights = 0 /\ DOMAIN spends = {} /\ conflicting_utxos = {}
      /\ utxos = [c \in Clients |-> {Output(t, "paid", SetupValue) : t \in SetupTxns(c)}]
  BY DEF Init
<1>2. Typed /\ Known /\ OffersUnspent /\ OnlyRivalsConflict
  BY <1>1 DEF Typed, Known, OffersUnspent, OnlyRivalsConflict
<1>3. \A c \in Clients : \A u \in utxos[c] : u.txn.kind = "setup" /\ u.txn.n = c
  <2> SUFFICES ASSUME NEW c \in Clients, NEW t \in SetupTxns(c)
               PROVE  Output(t, "paid", SetupValue).txn.kind = "setup"
                      /\ Output(t, "paid", SetupValue).txn.n = c
    BY <1>1
  <2>1. t.kind = "setup" /\ t.n = c
    BY TxnFields DEF SetupTxns
  <2> QED
    BY <2>1, OutputFields
<1>4. UtxosUnspent
  BY <1>1, <1>3 DEF UtxosUnspent
<1> QED
  BY <1>2, <1>4 DEF IInv

----------------------------------------------------------------------------
\* Transactions without a rival

\* The next single transaction is new, and older ones stay made.
LEMMA NextSingle ==
    ASSUME Typed, singles' = singles + 1, fights' = fights
    PROVE  /\ Single(singles) \notin Made /\ Single(singles) \in Made'
           /\ Made \subseteq Made'
<1>1. singles \in Nat /\ fights \in Nat
  BY DEF Typed
<1>2. Single(singles) \notin Made
  BY <1>1, TxnFields DEF Made
<1>3. 0 .. singles - 1 \subseteq 0 .. singles' - 1 /\ singles \in 0 .. singles' - 1
  BY <1>1
<1>4. Single(singles) \in Made'
  BY <1>3 DEF Made
<1>5. Made \subseteq Made'
  BY <1>3 DEF Made
<1> QED
  BY <1>2, <1>4, <1>5

\* Nothing made or offered so far comes from a transaction that is not made.
LEMMA NotYetSource ==
    ASSUME IInv, NEW x, x \notin Made, x.kind \in {"single", "grant", "rival"}
    PROVE  /\ \A t \in DOMAIN spends : Source(t) # x
           /\ \A c \in Clients : \A u \in utxos[c] : u.txn # x
           /\ \A v \in conflicting_utxos : v.txn # x
<1>1. \A t \in DOMAIN spends : Source(t) # x
  BY TxnFields DEF IInv, Known, Source
<1>2. \A c \in Clients : \A u \in utxos[c] : u.txn # x
  BY DEF IInv, UtxosUnspent
<1>3. \A v \in conflicting_utxos : v.txn # x
  BY DEF IInv, OffersUnspent
<1> QED
  BY <1>1, <1>2, <1>3

LEMMA SpentForTxn == \A t, u : \A o \in SpentFor(t, u) : o.txn = t
BY OutputFields DEF SpentFor

LEMMA SpendStep ==
    ASSUME IInv, NEW c \in Clients, NEW u \in utxos[c], Spend(c, u)
    PROVE  IInv'
<1> DEFINE new == Single(singles)
           outs == SpentFor(new, u)
<1>1. singles' = singles + 1 /\ fights' = fights /\ conflicting_utxos' = conflicting_utxos
  BY DEF Spend
<1>2. Typed /\ Known /\ UtxosUnspent /\ OffersUnspent /\ OnlyRivalsConflict
  BY DEF IInv
<1>3. /\ new \notin Made /\ new \in Made' /\ Made \subseteq Made' /\ new.kind = "single"
  BY <1>1, <1>2, NextSingle, TxnFields
<1>4. /\ \A t \in DOMAIN spends : Source(t) # new
      /\ \A d \in Clients : \A o \in utxos[d] : o.txn # new
      /\ \A v \in conflicting_utxos : v.txn # new
  BY <1>3, NotYetSource
<1>5. \A o \in outs : o.txn = new
  BY SpentForTxn
<1> HIDE DEF outs, new
<1>6. new \notin DOMAIN spends
  BY <1>2, <1>3 DEF Typed
<1>7. /\ DOMAIN spends' = DOMAIN spends \cup {new}
      /\ spends'[new] = u
      /\ \A t \in DOMAIN spends : spends'[t] = spends[t]
  BY <1>6 DEF Spend, new
<1>8. /\ utxos' = [d \in Clients |-> utxos'[d]]
      /\ utxos'[c] = (utxos[c] \ {u}) \cup outs
      /\ \A d \in Clients : d # c => utxos'[d] = utxos[d]
  BY <1>2, Zenon DEF Spend, Typed, Taken, new, outs
<1>9. /\ u.txn.kind \in {"setup", "single"} /\ (u.txn.kind = "single" => u.txn \in Made)
      /\ \A t \in DOMAIN spends : spends[t] # u
      /\ \A d \in Clients : u \in utxos[d] => d = c
  BY <1>2 DEF UtxosUnspent
<1>10. Typed'
  BY <1>1, <1>2, <1>3, <1>7, <1>8 DEF Typed
<1>11. Known'
  <2> SUFFICES ASSUME NEW t \in DOMAIN spends'
               PROVE  \/ spends'[t] = NoOutput
                      \/ t.kind = "single" /\ spends'[t].txn.kind = "setup"
                      \/ t.kind = "single" /\ spends'[t].txn.kind = "single"
                         /\ spends'[t].txn \in Made'
                      \/ t.kind = "rival" /\ spends'[t].txn.kind \in {"grant", "rival"}
                         /\ spends'[t].txn \in Made'
    BY DEF Known, Source
  <2>1. CASE t = new
    BY <1>3, <1>7, <1>9, <2>1
  <2>2. CASE t \in DOMAIN spends
    BY <1>2, <1>3, <1>7, <2>2 DEF Known, Source
  <2> QED
    BY <1>7, <2>1, <2>2
<1>12. UtxosUnspent'
  <2> SUFFICES ASSUME NEW d \in Clients, NEW o \in utxos'[d]
               PROVE  /\ o.txn.kind \in {"setup", "single"}
                      /\ o.txn.kind = "single" => o.txn \in Made'
                      /\ \A t \in DOMAIN spends' : spends'[t] # o
                      /\ \A e \in Clients : o \in utxos'[e] => e = d
    BY DEF UtxosUnspent
  <2>1. CASE o \in outs
    <3>1. o.txn = new /\ d = c
      BY <1>4, <1>5, <1>8, <2>1
    <3>2. \A t \in DOMAIN spends' : spends'[t] # o
      BY <1>4, <1>7, <3>1 DEF Source
    <3>3. \A e \in Clients : o \in utxos'[e] => e = c
      BY <1>4, <1>8, <3>1
    <3> QED
      BY <1>3, <3>1, <3>2, <3>3
  <2>2. CASE o \notin outs
    <3>1. o \in utxos[d] /\ o # u
      BY <1>8, <1>9, <2>2
    <3>2. /\ o.txn.kind \in {"setup", "single"} /\ (o.txn.kind = "single" => o.txn \in Made)
          /\ \A t \in DOMAIN spends : spends[t] # o
          /\ \A e \in Clients : o \in utxos[e] => e = d
      BY <1>2, <3>1 DEF UtxosUnspent
    <3>3. \A e \in Clients : o \in utxos'[e] => e = d
      BY <1>8, <2>2, <3>2
    <3> QED
      BY <1>3, <1>7, <3>1, <3>2, <3>3
  <2> QED
    BY <2>1, <2>2
<1>13. OffersUnspent'
  <2>1. \A v \in conflicting_utxos : v.txn # u.txn
    BY <1>2, <1>9 DEF OffersUnspent
  <2> QED
    BY <1>1, <1>2, <1>3, <1>7, <2>1 DEF OffersUnspent, Source
<1>14. OnlyRivalsConflict'
  BY <1>2, <1>7, <1>9 DEF OnlyRivalsConflict, Twin
<1> QED
  BY <1>10, <1>11, <1>12, <1>13, <1>14 DEF IInv

LEMMA ChainReplicationStep ==
    ASSUME IInv, generate_chain_replication
    PROVE  IInv'
<1> DEFINE new == Single(singles)
<1>1. /\ singles' = singles + 1 /\ fights' = fights
      /\ conflicting_utxos' = conflicting_utxos /\ utxos' = utxos
  BY DEF generate_chain_replication
<1>2. Typed /\ Known /\ UtxosUnspent /\ OffersUnspent /\ OnlyRivalsConflict
  BY DEF IInv
<1>3. /\ new \notin Made /\ new \in Made' /\ Made \subseteq Made' /\ new.kind = "single"
  BY <1>1, <1>2, NextSingle, TxnFields
<1> HIDE DEF new
<1>4. new \notin DOMAIN spends
  BY <1>2, <1>3 DEF Typed
<1>5. /\ DOMAIN spends' = DOMAIN spends \cup {new}
      /\ spends'[new] = NoOutput
      /\ \A t \in DOMAIN spends : spends'[t] = spends[t]
  BY <1>4 DEF generate_chain_replication, new
<1>6. Typed'
  BY <1>1, <1>2, <1>3, <1>5 DEF Typed
<1>7. Known'
  BY <1>2, <1>3, <1>5 DEF Known, Source
<1>8. UtxosUnspent'
  BY <1>1, <1>2, <1>3, <1>5, TxnFields DEF UtxosUnspent
<1>9. OffersUnspent'
  BY <1>1, <1>2, <1>3, <1>5, TxnFields DEF OffersUnspent, Source
<1>10. OnlyRivalsConflict'
  BY <1>2, <1>5 DEF OnlyRivalsConflict, Twin
<1> QED
  BY <1>6, <1>7, <1>8, <1>9, <1>10 DEF IInv

----------------------------------------------------------------------------
\* Conflicts

LEMMA TwinOfRival == \A m, l, s : Twin(Rival(m, l, s)) = Rival(m, l, 3 - s)
BY DEF Twin, Rival, Txn

\* The transactions of the next conflict are new.
LEMMA NextConflict ==
    ASSUME Typed, fights' = fights + 1, singles' = singles
    PROVE  /\ Grant(fights) \notin Made /\ Grant(fights) \in Made'
           /\ \A l, s : Rival(fights, l, s) \notin Made
           /\ \A l \in 0 .. CommitDepth, s \in {1, 2} : Rival(fights, l, s) \in Made'
           /\ Made \subseteq Made'
<1>1. singles \in Nat /\ fights \in Nat
  BY DEF Typed
<1>2. Grant(fights) \notin Made /\ \A l, s : Rival(fights, l, s) \notin Made
  BY <1>1, TxnFields DEF Made
<1>3. 0 .. fights - 1 \subseteq 0 .. fights' - 1 /\ fights \in 0 .. fights' - 1
  BY <1>1
<1>4. Grant(fights) \in Made'
  BY <1>3 DEF Made
<1>5. \A l \in 0 .. CommitDepth, s \in {1, 2} : Rival(fights, l, s) \in Made'
  BY <1>3 DEF Made
<1>6. Made \subseteq Made'
  BY <1>3 DEF Made
<1> QED
  BY <1>2, <1>4, <1>5, <1>6

\* What Conflict does when its rivals differ: t is one of them, and what it
\* spends.
OfConflict(t) == \E l \in 0 .. CommitDepth, s \in {1, 2} : t = Rival(fights, l, s)
Spent(u, t) == IF t.level = 0 THEN u.txn ELSE Rival(fights, t.level - 1, t.side)

\* The sides of the next conflict, when its rivals differ.
LEMMA SidesAre == \A t : t \in Sides(fights, FALSE) <=> OfConflict(t)
<1>0. \A l, s : Side(fights, FALSE, l, s) = Rival(fights, l, s)
  BY DEF Side
<1>1. \A t : t \in Sides(fights, FALSE) <=>
          \E l \in 0 .. CommitDepth, s \in {1, 2} : t = Side(fights, FALSE, l, s)
  BY DEF Sides
<1>2. ASSUME NEW t, t \in Sides(fights, FALSE) PROVE OfConflict(t)
  <2>1. PICK l \in 0 .. CommitDepth, s \in {1, 2} : t = Side(fights, FALSE, l, s)
    BY <1>1, <1>2, Zenon
  <2> QED
    BY <1>0, <2>1, Zenon DEF OfConflict
<1>3. ASSUME NEW t, OfConflict(t) PROVE t \in Sides(fights, FALSE)
  <2>1. PICK l \in 0 .. CommitDepth, s \in {1, 2} : t = Rival(fights, l, s)
    BY <1>3 DEF OfConflict
  <2>2. t = Side(fights, FALSE, l, s)
    BY <1>0, <2>1, Zenon
  <2> QED
    BY <1>1, <2>2, Zenon
<1> QED
  BY <1>2, <1>3, Zenon

LEMMA ConflictEffect ==
    ASSUME NEW u, NEW grants, Conflict(fights, u, grants, FALSE), DOMAIN spends \subseteq Made,
           \A l, s : Rival(fights, l, s) \notin Made, \A g \in grants : g.kind = "grant" /\ g \notin Made
    PROVE  /\ \A t : t \in DOMAIN spends' <=> t \in DOMAIN spends \/ t \in grants \/ OfConflict(t)
           /\ \A t : OfConflict(t) => spends'[t] = Output(Spent(u, t), "paid", Pay)
           /\ \A t \in grants : spends'[t] = NoOutput
           /\ \A t \in DOMAIN spends : spends'[t] = spends[t]
           /\ conflicting_utxos' = (conflicting_utxos \ {u})
                \cup {[txn |-> Rival(fights, CommitDepth, side), clients |-> u.clients] : side \in {1, 2}}
<1> DEFINE news == Sides(fights, FALSE)
<1>0. \A l, s : Side(fights, FALSE, l, s) = Rival(fights, l, s)
  BY DEF Side
<1>1. \A t : t \in news <=> OfConflict(t)
  BY SidesAre, Zenon
<1>2. /\ spends' = [t \in DOMAIN spends \cup grants \cup news |->
                      IF t \in news THEN Output(Spent(u, t), "paid", Pay)
                      ELSE IF t \in grants THEN NoOutput
                      ELSE spends[t]]
      /\ conflicting_utxos' = (conflicting_utxos \ {u})
            \cup {[txn |-> Rival(fights, CommitDepth, side), clients |-> u.clients] : side \in {1, 2}}
  BY <1>0, ZenonT(30) DEF Conflict, Spent, Taken
<1> HIDE DEF news
<1>3. \A t \in news : t.kind = "rival" /\ t \notin Made
  BY <1>1, TxnFields DEF OfConflict
<1>4. \A t : t \in DOMAIN spends' <=> t \in DOMAIN spends \/ t \in grants \/ OfConflict(t)
  BY <1>1, <1>2
<1>5. \A t : OfConflict(t) => spends'[t] = Output(Spent(u, t), "paid", Pay)
  BY <1>1, <1>2
<1>6. \A t \in grants : spends'[t] = NoOutput
  BY <1>2, <1>3
<1>7. \A t \in DOMAIN spends : spends'[t] = spends[t]
  BY <1>2, <1>3
<1> QED
  BY <1>2, <1>4, <1>5, <1>6, <1>7, Zenon

LEMMA ConflictStep ==
    ASSUME IInv, NEW u, NEW grants, Conflict(fights, u, grants, FALSE),
           fights' = fights + 1, singles' = singles, utxos' = utxos,
           \/ u \in conflicting_utxos /\ grants = {}
           \/ conflicting_utxos = {} /\ u.txn = Grant(fights) /\ grants = {Grant(fights)}
    PROVE  IInv'
<1>1. Typed /\ Known /\ UtxosUnspent /\ OffersUnspent /\ OnlyRivalsConflict
  BY DEF IInv
<1>2. /\ Grant(fights) \notin Made /\ Grant(fights) \in Made'
      /\ \A l, s : Rival(fights, l, s) \notin Made
      /\ \A l \in 0 .. CommitDepth, s \in {1, 2} : Rival(fights, l, s) \in Made'
      /\ Made \subseteq Made'
  BY <1>1, NextConflict
<1>3. \A g \in grants : g.kind = "grant" /\ g \notin Made /\ g \in Made'
  BY <1>2, TxnFields
<1>4. DOMAIN spends \subseteq Made
  BY <1>1 DEF Typed
<1>5. /\ \A t : t \in DOMAIN spends' <=> t \in DOMAIN spends \/ t \in grants \/ OfConflict(t)
      /\ \A t : OfConflict(t) => spends'[t] = Output(Spent(u, t), "paid", Pay)
      /\ \A t \in grants : spends'[t] = NoOutput
      /\ \A t \in DOMAIN spends : spends'[t] = spends[t]
      /\ conflicting_utxos' = (conflicting_utxos \ {u})
            \cup {[txn |-> Rival(fights, CommitDepth, side), clients |-> u.clients] : side \in {1, 2}}
  BY <1>2, <1>3, <1>4, ConflictEffect, Zenon
\* What the new rivals spend: the output u of the conflict, which nothing
\* else spends, or the rival before.
<1>6. /\ u.txn.kind \in {"grant", "rival"} /\ u.txn \in Made'
      /\ \A t \in DOMAIN spends : Source(t) # u.txn
      /\ \A v \in conflicting_utxos : v.txn = u.txn => v = u
      /\ \A l, s : u.txn # Rival(fights, l, s)
  <2>1. CASE u \in conflicting_utxos
    BY <1>1, <1>2, <2>1 DEF OffersUnspent
  <2>2. CASE conflicting_utxos = {} /\ u.txn = Grant(fights)
    BY <1>2, <2>2, NotYetSource, TxnFields
  <2> QED
    BY <2>1, <2>2
<1>7. \A l, s : /\ \A t \in DOMAIN spends : Source(t) # Rival(fights, l, s)
                /\ \A v \in conflicting_utxos : v.txn # Rival(fights, l, s)
  BY <1>2, NotYetSource, TxnFields
<1>8. ASSUME NEW l \in 0 .. CommitDepth, NEW s \in {1, 2}
      PROVE  /\ spends'[Rival(fights, l, s)].txn
                  = IF l = 0 THEN u.txn ELSE Rival(fights, l - 1, s)
             /\ l # 0 => l - 1 \in 0 .. CommitDepth /\ l - 1 # CommitDepth
             /\ spends'[Rival(fights, l, s)].txn.kind \in {"grant", "rival"}
             /\ spends'[Rival(fights, l, s)].txn \in Made'
  <2>1. OfConflict(Rival(fights, l, s))
    BY DEF OfConflict
  <2>2. spends'[Rival(fights, l, s)].txn = Spent(u, Rival(fights, l, s))
    BY <1>5, <2>1, OutputFields
  <2>3. spends'[Rival(fights, l, s)].txn = IF l = 0 THEN u.txn ELSE Rival(fights, l - 1, s)
    BY <2>2, TxnFields DEF Spent
  <2>4. l # 0 => l - 1 \in 0 .. CommitDepth /\ l - 1 # CommitDepth
    BY SizesAssumption
  <2> QED
    BY <1>2, <1>6, <2>3, <2>4, TxnFields
<1>9. Typed'
  <2>1. \A t \in DOMAIN spends' : t \in Made'
    BY <1>2, <1>3, <1>4, <1>5 DEF OfConflict
  <2> QED
    BY <1>1, <2>1 DEF Typed
<1>10. Known'
  <2> SUFFICES ASSUME NEW t \in DOMAIN spends'
               PROVE  \/ spends'[t] = NoOutput
                      \/ t.kind = "single" /\ spends'[t].txn.kind = "setup"
                      \/ t.kind = "single" /\ spends'[t].txn.kind = "single"
                         /\ spends'[t].txn \in Made'
                      \/ t.kind = "rival" /\ spends'[t].txn.kind \in {"grant", "rival"}
                         /\ spends'[t].txn \in Made'
    BY DEF Known, Source
  <2>1. CASE t \in DOMAIN spends
    BY <1>1, <1>2, <1>5, <2>1, SMTT(30) DEF Known, Source
  <2>2. CASE t \in grants
    BY <1>5, <2>2
  <2>3. CASE OfConflict(t)
    BY <1>8, <2>3, TxnFields DEF OfConflict
  <2> QED
    BY <1>5, <2>1, <2>2, <2>3
<1>11. UtxosUnspent'
  <2>1. \A c \in Clients : \A o \in utxos[c] : \A t \in DOMAIN spends' : spends'[t] # o
    BY <1>1, <1>5, <1>8, TxnFields DEF UtxosUnspent, OfConflict
  <2> QED
    BY <1>1, <1>2, <2>1 DEF UtxosUnspent
<1>12. OffersUnspent'
  <2> SUFFICES ASSUME NEW v \in conflicting_utxos'
               PROVE  /\ v.txn.kind = "rival" /\ v.txn \in Made'
                      /\ \A w \in conflicting_utxos' : w.txn = v.txn => w = v
                      /\ \A t \in DOMAIN spends' : spends'[t].txn # v.txn
    BY DEF OffersUnspent, Source
  <2>1. \A w \in conflicting_utxos' :
            \/ w \in conflicting_utxos /\ w # u
            \/ \E side \in {1, 2} :
                  w = [txn |-> Rival(fights, CommitDepth, side), clients |-> u.clients]
    BY <1>5
  <2>2. \A t \in grants : spends'[t].txn.kind = "none"
    BY <1>5, TxnFields
  <2>3. CASE v \in conflicting_utxos /\ v # u
    <3>1. /\ v.txn.kind = "rival" /\ v.txn \in Made /\ v.txn # u.txn
          /\ \A l, s : v.txn # Rival(fights, l, s)
          /\ \A w \in conflicting_utxos : w.txn = v.txn => w = v
          /\ \A t \in DOMAIN spends : spends[t].txn # v.txn
      BY <1>1, <1>6, <1>7, <2>3 DEF OffersUnspent, Source
    <3>2. \A w \in conflicting_utxos' : w.txn = v.txn => w = v
      BY <2>1, <3>1
    <3>3. \A t : OfConflict(t) => spends'[t].txn # v.txn
      BY <1>8, <3>1, SMTT(30) DEF OfConflict
    <3> QED
      BY <1>2, <1>5, <2>2, <3>1, <3>2, <3>3
  <2>4. ASSUME NEW side \in {1, 2},
               v = [txn |-> Rival(fights, CommitDepth, side), clients |-> u.clients]
        PROVE  /\ v.txn.kind = "rival" /\ v.txn \in Made'
               /\ \A w \in conflicting_utxos' : w.txn = v.txn => w = v
               /\ \A t \in DOMAIN spends' : spends'[t].txn # v.txn
    <3>1. v.txn = Rival(fights, CommitDepth, side) /\ v.txn.kind = "rival"
      BY <2>4, TxnFields
    <3>2. CommitDepth \in 0 .. CommitDepth
      BY SizesAssumption
    <3>3. v.txn \in Made'
      BY <1>2, <3>1, <3>2
    <3>4. \A w \in conflicting_utxos' : w.txn = v.txn => w = v
      BY <1>7, <2>1, <2>4, <3>1
    <3>5. \A t : OfConflict(t) => spends'[t].txn # v.txn
      BY <1>6, <1>8, <3>1, TxnFields DEF OfConflict
    <3>6. \A t \in DOMAIN spends : spends'[t].txn # v.txn
      BY <1>5, <1>7, <3>1 DEF Source
    <3> QED
      BY <1>5, <2>2, <3>1, <3>3, <3>4, <3>5, <3>6, SMTT(30)
  <2> QED
    BY <2>1, <2>3, <2>4
<1>13. OnlyRivalsConflict'
  <2> SUFFICES ASSUME NEW t1 \in DOMAIN spends', NEW t2 \in DOMAIN spends',
                      t1 # t2, spends'[t1] = spends'[t2], spends'[t1] # NoOutput
               PROVE  t1.kind = "rival" /\ t2 = Twin(t1)
    BY DEF OnlyRivalsConflict
  <2>1. CASE t1 \in DOMAIN spends /\ t2 \in DOMAIN spends
    BY <1>1, <1>5, <2>1 DEF OnlyRivalsConflict
  <2>2. \A x \in DOMAIN spends : \A y : OfConflict(y) => spends'[x].txn # spends'[y].txn
    BY <1>5, <1>6, <1>7, <1>8 DEF OfConflict, Source
  <2>3. CASE OfConflict(t1) /\ OfConflict(t2)
    <3>1. PICK l1 \in 0 .. CommitDepth, s1 \in {1, 2} : t1 = Rival(fights, l1, s1)
      BY <2>3 DEF OfConflict
    <3>2. PICK l2 \in 0 .. CommitDepth, s2 \in {1, 2} : t2 = Rival(fights, l2, s2)
      BY <2>3 DEF OfConflict
    <3>3. /\ spends'[t1].txn = IF l1 = 0 THEN u.txn ELSE Rival(fights, l1 - 1, s1)
          /\ spends'[t2].txn = IF l2 = 0 THEN u.txn ELSE Rival(fights, l2 - 1, s2)
      BY <1>8, <3>1, <3>2
    <3>4. CASE l1 = 0 /\ l2 = 0
      <4>1. s2 = 3 - s1
        BY <3>1, <3>2, <3>4
      <4> QED
        BY <3>1, <3>2, <3>4, <4>1, TxnFields, TwinOfRival
    <3>5. CASE l1 # 0 /\ l2 # 0
      <4>1. Rival(fights, l1 - 1, s1) = Rival(fights, l2 - 1, s2)
        BY <3>3, <3>5
      <4>2. l1 - 1 = l2 - 1 /\ s1 = s2
        BY <4>1, TxnFields
      <4>3. l1 = l2
        BY <4>2, SizesAssumption
      <4> QED
        BY <3>1, <3>2, <4>2, <4>3
    <3>6. CASE (l1 = 0) # (l2 = 0)
      BY <1>6, <3>3, <3>6
    <3> QED
      BY <3>4, <3>5, <3>6
  <2> QED
    BY <1>5, <2>1, <2>2, <2>3
<1> QED
  BY <1>9, <1>10, <1>11, <1>12, <1>13 DEF IInv

----------------------------------------------------------------------------
\* Conclusions

LEMMA NextIInv == IInv /\ [Next]_vars => IInv'
<1> SUFFICES ASSUME IInv, [Next]_vars PROVE IInv'
  OBVIOUS
<1>1. ASSUME UNCHANGED <<singles, fights, spends, utxos, conflicting_utxos>> PROVE IInv'
  <2>1. Made' = Made
    BY <1>1 DEF Made
  <2>2. Typed' /\ Known' /\ UtxosUnspent' /\ OffersUnspent' /\ OnlyRivalsConflict'
    BY <1>1, <2>1 DEF IInv, Typed, Known, UtxosUnspent, OffersUnspent, OnlyRivalsConflict, Source
  <2> QED
    BY <2>2 DEF IInv
<1>2. CASE wait_next \/ batch_sent
  BY <1>1, <1>2 DEF wait_next, batch_sent, outputs
<1>3. CASE generate_chain_replication
  BY <1>3, ChainReplicationStep
<1>4. CASE generate_bitcoin \/ generate_avalanche
  BY <1>4, SpendStep DEF generate_bitcoin, generate_avalanche
<1>5. CASE generate_conflict
  <2>1. fights' = fights + 1 /\ singles' = singles /\ utxos' = utxos
    BY <1>5 DEF generate_conflict
  <2>2. PICK same \in BOOLEAN :
          /\ SameReceivers(same)
          /\ IF conflicting_utxos # {}
             THEN \E u \in conflicting_utxos : Conflict(fights, u, {}, same)
             ELSE \E c \in Clients :
                    Conflict(fights, [txn |-> Grant(fights), clients |-> <<c, (c + 1) % NumClients>>],
                             {Grant(fights)}, same)
    BY <1>5, Zenon DEF generate_conflict
  <2>3. same = FALSE
    BY <2>2, ReceiversDiffer, Zenon
  <2>4. CASE conflicting_utxos # {}
    <3>1. PICK u \in conflicting_utxos : Conflict(fights, u, {}, FALSE)
      BY <2>2, <2>3, <2>4, Zenon
    <3> QED
      BY <2>1, <3>1, ConflictStep, Zenon
  <2>5. CASE conflicting_utxos = {}
    <3>1. PICK c \in Clients :
            Conflict(fights, [txn |-> Grant(fights), clients |-> <<c, (c + 1) % NumClients>>],
                     {Grant(fights)}, FALSE)
      BY <2>2, <2>3, <2>5, Zenon
    <3> DEFINE u == [txn |-> Grant(fights), clients |-> <<c, (c + 1) % NumClients>>]
    <3>2. u.txn = Grant(fights)
      OBVIOUS
    <3>3. Conflict(fights, u, {Grant(fights)}, FALSE)
      BY <3>1, Zenon
    <3> HIDE DEF u
    <3> QED
      BY <2>1, <2>5, <3>2, <3>3, ConflictStep, Zenon
  <2> QED
    BY <2>4, <2>5
<1>6. ASSUME NEW t \in DOMAIN spends,
             \/ txn_committed_chain_replication(t)
             \/ \E node \in Nodes : txn_committed_bitcoin(node, t)
             \/ txn_committed_avalanche(t)
      PROVE  IInv'
  <2>1. CASE txn_committed_chain_replication(t)
    BY <1>1, <2>1 DEF txn_committed_chain_replication, outputs
  <2>2. ASSUME NEW node \in Nodes, txn_committed_bitcoin(node, t) PROVE IInv'
    BY <1>1, <2>2 DEF txn_committed_bitcoin, outputs
  <2>3. CASE txn_committed_avalanche(t)
    BY <1>1, <2>3 DEF txn_committed_avalanche, outputs
  <2> QED
    BY <1>6, <2>1, <2>2, <2>3
<1>7. CASE UNCHANGED vars
  BY <1>1, <1>7 DEF vars, outputs
<1> QED
  BY <1>2, <1>3, <1>4, <1>5, <1>6, <1>7 DEF Next

\* No output is spent twice but by two rivals of a conflict: next_txn_batch
\* takes each output once, and a rival's own receiver makes it a transaction
\* other than its twin.
THEOREM RivalsOnly == Spec => []OnlyRivalsConflict
<1>1. IInv => OnlyRivalsConflict
  BY DEF IInv
<1> QED
  BY InitIInv, NextIInv, <1>1, PTL DEF Spec

\* Heights and counts are functions on the nodes.
HInv ==
    /\ chain_length \in [Nodes -> Nat]
    /\ txn_count = [n \in Nodes |-> txn_count[n]]
    /\ HeightsCounted

LEMMA NextHInv == HInv /\ [Next]_vars => HInv'
<1> SUFFICES ASSUME HInv, [Next]_vars PROVE HInv'
  OBVIOUS
<1>1. ASSUME UNCHANGED <<chain_length, txn_count>> PROVE HInv'
  BY <1>1 DEF HInv, HeightsCounted
<1>2. ASSUME NEW t \in DOMAIN spends, NEW node \in Nodes, txn_committed_bitcoin(node, t)
      PROVE  HInv'
  <2>1. PICK height \in 1 .. Min({chain_length[node] + 1, MaxHeight}) :
          /\ txn_count' = [txn_count EXCEPT ![node] = Counted(@, chain_length[node], height)]
          /\ chain_length' = [chain_length EXCEPT ![node] = height]
    BY <1>2, Zenon DEF txn_committed_bitcoin
  <2>2. chain_length[node] \in Nat
    BY DEF HInv
  <2>3. height \in Nat /\ 1 <= height /\ height <= chain_length[node] + 1
    <3> DEFINE bounds == {chain_length[node] + 1, MaxHeight}
    <3>1. \E x \in bounds : \A y \in bounds : x =< y
      BY <2>2, SizesAssumption
    <3>2. Min(bounds) \in bounds /\ \A y \in bounds : Min(bounds) =< y
      <4> HIDE DEF bounds
      <4> QED
        BY <3>1, Zenon DEF Min
    <3>3. Min(bounds) \in Nat /\ Min(bounds) <= chain_length[node] + 1
      BY <2>2, <3>2, SizesAssumption
    <3> HIDE DEF bounds
    <3>4. height \in 1 .. Min(bounds)
      BY <2>1 DEF bounds
    <3> QED
      BY <2>2, <3>3, <3>4
  <2>4. txn_count[node] = 1 .. chain_length[node]
    BY DEF HInv, HeightsCounted
  <2>5. Counted(txn_count[node], chain_length[node], height) = 1 .. height
    BY <2>2, <2>3, <2>4 DEF Counted
  <2> QED
    BY <2>1, <2>3, <2>5 DEF HInv, HeightsCounted
<1>3. CASE wait_next \/ batch_sent \/ generate_chain_replication
  BY <1>1, <1>3 DEF wait_next, batch_sent, generate_chain_replication, chain_info
<1>4. CASE generate_bitcoin \/ generate_avalanche
  BY <1>1, <1>4, Zenon DEF generate_bitcoin, generate_avalanche, Spend, chain_info
<1>5. CASE generate_conflict
  BY <1>1, <1>5 DEF generate_conflict, chain_info
<1>6. ASSUME NEW t \in DOMAIN spends,
             txn_committed_chain_replication(t) \/ txn_committed_avalanche(t)
      PROVE  HInv'
  BY <1>1, <1>6, Zenon DEF txn_committed_chain_replication, txn_committed_avalanche, chain_info
<1>7. CASE UNCHANGED vars
  BY <1>1, <1>7 DEF vars, chain_info
<1> QED
  BY <1>2, <1>3, <1>4, <1>5, <1>6, <1>7 DEF Next

\* Bitcoin's counts have no gap and no leftover of a fork: whatever heights
\* are committed, in any order that extends or forks a node's chain,
\* get_stats finds a count for each height of the chain.
THEOREM CountsHaveNoGap == Spec => []HeightsCounted
<1>1. Init => HInv
  BY DEF Init, HInv, HeightsCounted
<1>2. HInv => HeightsCounted
  BY DEF HInv
<1> QED
  BY NextHInv, <1>1, <1>2, PTL DEF Spec

----------------------------------------------------------------------------
\* The counters

Rivals == {t \in in_flight : t.kind = "rival"}

PairOf(n, l) == {Rival(n, l, 1), Rival(n, l, 2)}

\* What the generator keeps of the conflicts in flight is what it should be:
\* the rivals in flight, and those whose twin is not.
Fighting ==
    /\ chain # "Avalanche" => fights = 0
    /\ in_flight \subseteq Made /\ IsFiniteSet(in_flight)
    /\ DOMAIN in_flight_conflict = Rivals
    /\ \A t \in Rivals : in_flight_conflict[t] = Twin(t)
    /\ conflict_set = {t \in Rivals : Twin(t) \notin in_flight}

\* And so are the numbers.
Counting ==
    /\ IsFiniteSet(Pairs)
    /\ conflicts_sent = Cardinality(Pairs)
    /\ conflicts_recv = Cardinality(Pairs) - Cardinality(OpenPairs)
    /\ conflicts_committed = Cardinality(LostPairs)

CInv == Fighting /\ Counting

\* Membership in Pairs and of the rivals in Made.
LEMMA PairsAre == \A p : p \in Pairs <=>
                    \E n \in 0 .. fights - 1, l \in 0 .. CommitDepth : p = PairOf(n, l)
BY DEF Pairs, PairOf

LEMMA MadeRivals ==
    ASSUME NEW t \in Made, t.kind = "rival"
    PROVE  \E n \in 0 .. fights - 1, l \in 0 .. CommitDepth, s \in {1, 2} : t = Rival(n, l, s)
<1>1. \A m : Single(m) # t /\ Grant(m) # t
  BY TxnFields
<1> QED
  BY <1>1, SMTT(30) DEF Made

\* A pair holds a rival and its twin, and no other pair does.
LEMMA PairOfRival ==
    ASSUME NEW n, NEW l, NEW s \in {1, 2}
    PROVE  /\ PairOf(n, l) = {Rival(n, l, s), Twin(Rival(n, l, s))}
           /\ Twin(Rival(n, l, s)) # Rival(n, l, s)
           /\ Twin(Twin(Rival(n, l, s))) = Rival(n, l, s)
           /\ Twin(Rival(n, l, s)).kind = "rival"
           /\ \A m, k : Rival(n, l, s) \in PairOf(m, k) => m = n /\ k = l
<1>1. Twin(Rival(n, l, s)) = Rival(n, l, 3 - s) /\ Twin(Rival(n, l, 3 - s)) = Rival(n, l, 3 - (3 - s))
  BY TwinOfRival
<1>2. 3 - s \in {1, 2} /\ 3 - s # s /\ 3 - (3 - s) = s /\ {s, 3 - s} = {1, 2}
  OBVIOUS
<1>3. Rival(n, l, 3 - s) # Rival(n, l, s)
  BY <1>2, TxnFields
<1>4. PairOf(n, l) = {Rival(n, l, s), Rival(n, l, 3 - s)}
  BY DEF PairOf
<1>5. \A m, k : Rival(n, l, s) \in PairOf(m, k) => m = n /\ k = l
  BY TxnFields DEF PairOf
<1> QED
  BY <1>1, <1>2, <1>3, <1>4, <1>5, TxnFields

\* What holds of the members of a pair.
LEMMA PairMembers ==
    ASSUME NEW p \in Pairs, NEW t \in p
    PROVE  t.kind = "rival" /\ t \in Made /\ p = {t, Twin(t)}
           /\ \A q \in Pairs : t \in q => q = p
<1>1. PICK n \in 0 .. fights - 1, l \in 0 .. CommitDepth : p = PairOf(n, l)
  BY PairsAre
<1>2. PICK s \in {1, 2} : t = Rival(n, l, s)
  BY <1>1 DEF PairOf
<1>3. t.kind = "rival" /\ t \in Made
  BY <1>2, TxnFields DEF Made
<1>4. \A q \in Pairs : t \in q => q = p
  BY <1>1, <1>2, PairsAre, PairOfRival
<1> QED
  BY <1>1, <1>2, <1>3, <1>4, PairOfRival

\* And every rival is in one.
LEMMA RivalsPair ==
    ASSUME Fighting, NEW t \in Rivals
    PROVE  {t, Twin(t)} \in Pairs /\ Twin(t) # t /\ Twin(Twin(t)) = t /\ Twin(t).kind = "rival"
<1>1. t \in Made /\ t.kind = "rival"
  BY DEF Fighting, Rivals
<1>2. PICK n \in 0 .. fights - 1, l \in 0 .. CommitDepth, s \in {1, 2} : t = Rival(n, l, s)
  BY <1>1, MadeRivals
<1>3. PairOf(n, l) \in Pairs
  BY PairsAre
<1>4. /\ PairOf(n, l) = {t, Twin(t)} /\ Twin(t) # t /\ Twin(Twin(t)) = t
      /\ Twin(t).kind = "rival"
  BY <1>2, PairOfRival
<1> QED
  BY <1>3, <1>4

LEMMA PairSets ==
    ASSUME IsFiniteSet(Pairs)
    PROVE  /\ IsFiniteSet(OpenPairs) /\ IsFiniteSet(LostPairs)
           /\ Cardinality(Pairs) \in Nat /\ Cardinality(OpenPairs) \in Nat
           /\ Cardinality(LostPairs) \in Nat /\ Cardinality(OpenPairs) <= Cardinality(Pairs)
<1>1. OpenPairs \subseteq Pairs /\ LostPairs \subseteq Pairs
  BY DEF OpenPairs, LostPairs
<1> QED
  BY <1>1, FS_Subset, FS_CardinalityType

LEMMA InitCInv == Init => CInv
<1> SUFFICES ASSUME Init PROVE CInv
  OBVIOUS
<1>1. /\ fights = 0 /\ in_flight = {} /\ DOMAIN in_flight_conflict = {} /\ conflict_set = {}
      /\ conflicts_sent = 0 /\ conflicts_recv = 0 /\ conflicts_committed = 0
  BY DEF Init
<1>2. Pairs = {}
  <2>1. 0 .. fights - 1 = {}
    BY <1>1
  <2> QED
    BY <2>1, PairsAre
<1>3. OpenPairs = {} /\ LostPairs = {} /\ Rivals = {}
  BY <1>1, <1>2 DEF OpenPairs, LostPairs, Rivals
<1>4. IsFiniteSet({}) /\ Cardinality({}) = 0
  BY FS_EmptySet
<1>5. Fighting
  BY <1>1, <1>3, <1>4 DEF Fighting
<1>6. Counting
  BY <1>1, <1>2, <1>3, <1>4 DEF Counting
<1> QED
  BY <1>5, <1>6 DEF CInv

\* Transactions other than rivals come and go without consequence.
LEMMA SameFights ==
    ASSUME CInv, UNCHANGED <<fights, chain, conflict_set, conflicts_sent, conflicts_recv,
                             conflicts_committed>>,
           in_flight' \subseteq Made', IsFiniteSet(in_flight'),
           \A t : t.kind = "rival" => (t \in in_flight' <=> t \in in_flight),
           DOMAIN in_flight_conflict' = DOMAIN in_flight_conflict,
           \A t \in DOMAIN in_flight_conflict : in_flight_conflict'[t] = in_flight_conflict[t]
    PROVE  CInv'
<1>1. Fighting /\ Counting
  BY DEF CInv
<1>2. Rivals' = Rivals
  BY DEF Rivals
<1>3. \A t \in Rivals : Twin(t).kind = "rival"
  BY <1>1, RivalsPair, Zenon
<1>4. Fighting'
  <2>1. conflict_set' = {t \in Rivals : Twin(t) \notin in_flight'}
    BY <1>1, <1>3 DEF Fighting
  <2> QED
    BY <1>1, <1>2, <2>1 DEF Fighting
<1>5. Pairs' = Pairs
  BY DEF Pairs
<1>6. \A p \in Pairs : \A t \in p : t \in in_flight' <=> t \in in_flight
  BY PairMembers
<1>7. OpenPairs' = OpenPairs /\ LostPairs' = LostPairs
  BY <1>5, <1>6 DEF OpenPairs, LostPairs
<1>8. Counting'
  BY <1>1, <1>5, <1>7 DEF Counting
<1> QED
  BY <1>4, <1>8 DEF CInv

LEMMA SingleFights ==
    ASSUME IInv, CInv, singles' = singles + 1,
           in_flight' = in_flight \cup {Single(singles)}, UNCHANGED <<fights, chain, conflicts>>
    PROVE  CInv'
<1>1. Single(singles) \in Made' /\ Made \subseteq Made'
  BY NextSingle DEF IInv
<1>2. in_flight \subseteq Made /\ IsFiniteSet(in_flight)
  BY DEF CInv, Fighting
<1>3. in_flight' \subseteq Made' /\ IsFiniteSet(in_flight')
  BY <1>1, <1>2, FS_AddElement
<1>4. \A t : t.kind = "rival" => (t \in in_flight' <=> t \in in_flight)
  BY TxnFields
<1>5. UNCHANGED <<conflict_set, conflicts_sent, conflicts_recv, conflicts_committed, in_flight_conflict>>
  BY DEF conflicts
<1> QED
  BY <1>3, <1>4, <1>5, SameFights

\* A commit of a transaction that is not in flight, or is no rival.
LEMMA CommitOther ==
    ASSUME IInv, CInv, NEW t, t \notin Rivals, in_flight' = in_flight \ {t},
           UNCHANGED <<outputs, chain, conflict_set, conflicts_sent, conflicts_recv,
                       conflicts_committed>>,
           DOMAIN in_flight_conflict' = DOMAIN in_flight_conflict,
           \A r \in DOMAIN in_flight_conflict : in_flight_conflict'[r] = in_flight_conflict[r]
    PROVE  CInv'
<1>1. Made' = Made /\ fights' = fights
  BY DEF Made, outputs
<1>2. in_flight' \subseteq Made' /\ IsFiniteSet(in_flight')
  BY <1>1, FS_Subset DEF CInv, Fighting
<1>3. \A r : r.kind = "rival" => (r \in in_flight' <=> r \in in_flight)
  BY DEF Rivals
<1> QED
  BY <1>1, <1>2, <1>3, SameFights

\* The commit of a rival: of the first of two, which opens the count for the
\* other, or of the second.
LEMMA CommitRival ==
    ASSUME IInv, CInv, NEW t \in Rivals, txn_committed_avalanche(t)
    PROVE  CInv'
<1> DEFINE p == {t, Twin(t)}
<1>0. Fighting /\ Counting
  BY DEF CInv
<1>1. p \in Pairs /\ Twin(t) # t /\ Twin(Twin(t)) = t /\ Twin(t).kind = "rival"
  BY <1>0, RivalsPair
<1>2. t \in in_flight /\ t.kind = "rival" /\ t \in DOMAIN in_flight_conflict
  BY <1>0 DEF Rivals, Fighting
<1>3. /\ in_flight' = in_flight \ {t}
      /\ in_flight_conflict' = [r \in DOMAIN in_flight_conflict \ {t} |-> in_flight_conflict[r]]
      /\ fights' = fights /\ chain' = chain /\ conflicts_sent' = conflicts_sent /\ singles' = singles
  BY DEF txn_committed_avalanche, outputs
<1>4. Pairs' = Pairs /\ Made' = Made
  BY <1>3 DEF Pairs, Made
<1>5. Rivals' = Rivals \ {t}
  BY <1>3 DEF Rivals
<1>6. \A q \in Pairs : t \in q => q = p
  BY <1>1, PairMembers
<1>7. \A r \in Rivals : Twin(r) = t <=> r = Twin(t)
  <2>1. \A r \in Rivals : Twin(Twin(r)) = r
    BY <1>0, RivalsPair, Zenon
  <2> QED
    BY <1>1, <2>1
<1>8. /\ in_flight' \subseteq Made' /\ IsFiniteSet(in_flight')
      /\ DOMAIN in_flight_conflict' = Rivals'
      /\ \A r \in Rivals' : in_flight_conflict'[r] = Twin(r)
  <2>1. IsFiniteSet(in_flight')
    BY <1>0, <1>3, FS_Subset DEF Fighting
  <2> QED
    BY <1>0, <1>3, <1>4, <1>5, <2>1 DEF Fighting
<1>9. /\ IsFiniteSet(OpenPairs) /\ IsFiniteSet(LostPairs)
      /\ Cardinality(Pairs) \in Nat /\ Cardinality(OpenPairs) \in Nat
      /\ Cardinality(LostPairs) \in Nat
  BY <1>0, PairSets DEF Counting
<1>10. CASE Twin(t) \in in_flight
  <2>1. t \notin conflict_set
    BY <1>0, <1>10 DEF Fighting
  <2>2. /\ conflicts_recv' = conflicts_recv + 1 /\ conflicts_committed' = conflicts_committed
        /\ conflict_set' = conflict_set \cup {Twin(t)}
    BY <1>0, <1>2, <2>1 DEF txn_committed_avalanche, SettleConflict, Fighting
  <2>3. Twin(t) \in Rivals'
    BY <1>1, <1>5, <1>10 DEF Rivals
  <2>4. conflict_set' = {r \in Rivals' : Twin(r) \notin in_flight'}
    <3>1. ASSUME NEW r \in Rivals' PROVE r \in conflict_set' <=> Twin(r) \notin in_flight'
      BY <1>0, <1>3, <1>5, <1>7, <2>2, SMTT(30) DEF Fighting
    <3>2. conflict_set' \subseteq Rivals'
      BY <1>0, <1>5, <2>1, <2>2, <2>3 DEF Fighting
    <3> QED
      BY <3>1, <3>2, SMTT(30)
  <2>5. OpenPairs' = OpenPairs \ {p} /\ p \in OpenPairs /\ LostPairs' = LostPairs
    <3>1. p \in OpenPairs
      BY <1>1, <1>2, <1>10 DEF OpenPairs
    <3>2. \A q \in Pairs : q \subseteq in_flight' <=> q \subseteq in_flight /\ q # p
      BY <1>3, <1>6
    <3>3. OpenPairs' = OpenPairs \ {p}
      BY <1>4, <3>2 DEF OpenPairs
    <3>4. \A q \in Pairs : q \cap in_flight' = {} <=> q \cap in_flight = {}
      <4>1. p \cap in_flight' # {} /\ p \cap in_flight # {}
        BY <1>1, <1>3, <1>10
      <4> QED
        BY <1>3, <1>6, <4>1
    <3> QED
      BY <1>4, <3>1, <3>3, <3>4 DEF LostPairs
  <2>6. Cardinality(OpenPairs') = Cardinality(OpenPairs) - 1
    BY <1>9, <2>5, FS_RemoveElement, Zenon
  <2>7. Fighting'
    BY <1>0, <1>3, <1>8, <2>4 DEF Fighting
  <2>8. Counting'
    BY <1>0, <1>3, <1>4, <1>9, <2>2, <2>5, <2>6 DEF Counting
  <2> QED
    BY <2>7, <2>8 DEF CInv
<1>11. CASE Twin(t) \notin in_flight
  <2>1. t \in conflict_set
    BY <1>0, <1>11, SMTT(30) DEF Fighting
  <2>2. /\ conflicts_recv' = conflicts_recv /\ conflicts_committed' = conflicts_committed + 1
        /\ conflict_set' = conflict_set \ {t}
    BY <1>0, <1>2, <2>1 DEF txn_committed_avalanche, SettleConflict, Fighting
  <2>3. Twin(t) \notin Rivals
    BY <1>11 DEF Rivals
  <2>4. conflict_set' = {r \in Rivals' : Twin(r) \notin in_flight'}
    <3>1. \A r \in Rivals : Twin(r) \in in_flight' <=> Twin(r) \in in_flight
      BY <1>3, <1>7, <2>3
    <3> QED
      BY <1>0, <1>5, <2>2, <3>1 DEF Fighting
  <2>5. OpenPairs' = OpenPairs /\ LostPairs' = LostPairs \cup {p} /\ p \notin LostPairs
    <3>1. \A q \in Pairs : q \subseteq in_flight' <=> q \subseteq in_flight
      BY <1>3, <1>6, <1>11
    <3>2. \A q \in Pairs : q \cap in_flight' = {} <=> q \cap in_flight = {} \/ q = p
      BY <1>1, <1>2, <1>3, <1>6, <1>11
    <3>3. p \cap in_flight # {}
      BY <1>2
    <3>4. OpenPairs' = OpenPairs
      BY <1>4, <3>1 DEF OpenPairs
    <3>5. LostPairs' = LostPairs \cup {p}
      BY <1>1, <1>4, <3>2, Zenon DEF LostPairs
    <3> QED
      BY <3>3, <3>4, <3>5 DEF LostPairs
  <2>6. Cardinality(LostPairs') = Cardinality(LostPairs) + 1
    BY <1>9, <2>5, FS_AddElement, Zenon
  <2>7. Fighting'
    BY <1>0, <1>3, <1>8, <2>4 DEF Fighting
  <2>8. Counting'
    BY <1>0, <1>3, <1>4, <1>9, <2>2, <2>5, <2>6 DEF Counting
  <2> QED
    BY <2>7, <2>8 DEF CInv
<1> QED
  BY <1>10, <1>11

NewPairs == {PairOf(fights, l) : l \in 0 .. CommitDepth}

\* A conflict has CommitDepth + 1 pairs, and so many times two transactions.
LEMMA NewPairsCount ==
    /\ IsFiniteSet(NewPairs) /\ Cardinality(NewPairs) = CommitDepth + 1
    /\ IsFiniteSet(Sides(fights, FALSE))
<1> DEFINE L == 0 .. CommitDepth
           f == [l \in L |-> PairOf(fights, l)]
           g == [x \in L \X {1, 2} |-> Rival(fights, x[1], x[2])]
<1>0. CommitDepth \in Nat
  BY SizesAssumption
<1>1. IsFiniteSet(L) /\ Cardinality(L) = CommitDepth + 1
  BY <1>0, FS_Interval
<1>2. \A l, k : PairOf(fights, l) = PairOf(fights, k) => l = k
  <2> SUFFICES ASSUME NEW l, NEW k, PairOf(fights, l) = PairOf(fights, k) PROVE l = k
    OBVIOUS
  <2>1. Rival(fights, l, 1) \in PairOf(fights, k)
    BY DEF PairOf
  <2> QED
    BY <2>1, TxnFields DEF PairOf
<1> HIDE DEF L
<1>3. f \in Bijection(L, NewPairs)
  <2>1. f \in [L -> NewPairs]
    BY DEF NewPairs, L
  <2>2. \A a, b \in DOMAIN f : f[a] = f[b] => a = b
    BY <1>2
  <2>3. \A p \in NewPairs : \E l \in L : f[l] = p
    BY DEF NewPairs, L
  <2> HIDE DEF f
  <2> QED
    BY <2>1, <2>2, <2>3 DEF Bijection, Injection, Surjection, IsInjective
<1>4. IsFiniteSet(NewPairs) /\ Cardinality(NewPairs) = CommitDepth + 1
  <2>1. ExistsBijection(L, NewPairs)
    BY <1>3 DEF ExistsBijection
  <2> QED
    BY <1>1, <2>1, FS_Bijection
<1>5. IsFiniteSet(Sides(fights, FALSE))
  <2>1. IsFiniteSet({1, 2})
    <3>1. IsFiniteSet({1} \cup {2})
      BY FS_Singleton, FS_AddElement, Zenon
    <3>2. {1} \cup {2} = {1, 2}
      OBVIOUS
    <3> QED
      BY <3>1, <3>2
  <2>2. IsFiniteSet(L \X {1, 2})
    BY <1>1, <2>1, FS_Product
  <2>3. g \in [L \X {1, 2} -> Sides(fights, FALSE)]
    BY SidesAre, Zenon DEF OfConflict, L
  <2>4. \A t \in Sides(fights, FALSE) : \E x \in L \X {1, 2} : g[x] = t
    <3> SUFFICES ASSUME NEW t \in Sides(fights, FALSE) PROVE \E x \in L \X {1, 2} : g[x] = t
      BY Zenon
    <3>1. PICK l \in L, side \in {1, 2} : t = Rival(fights, l, side)
      BY SidesAre, Zenon DEF OfConflict, L
    <3>2. <<l, side>> \in L \X {1, 2} /\ g[<<l, side>>] = t
      BY <3>1
    <3> QED
      BY <3>2
  <2> HIDE DEF g
  <2>5. g \in Surjection(L \X {1, 2}, Sides(fights, FALSE))
    BY <2>3, <2>4, Zenon DEF Surjection
  <2> QED
    BY <2>2, <2>5, FS_Surjection, Zenon
<1> QED
  BY <1>4, <1>5, Zenon

LEMMA ConflictFights ==
    ASSUME IInv, CInv, NEW u, NEW grants, Conflict(fights, u, grants, FALSE),
           fights' = fights + 1, singles' = singles, chain = "Avalanche",
           UNCHANGED <<chain, conflict_set, conflicts_recv, conflicts_committed>>,
           grants = {} \/ grants = {Grant(fights)}
    PROVE  CInv'
<1> DEFINE news == Sides(fights, FALSE)
<1>0. Typed /\ Fighting /\ Counting /\ fights \in Nat /\ CommitDepth \in Nat
  BY SizesAssumption DEF IInv, CInv, Typed
<1>1. /\ Grant(fights) \notin Made /\ Grant(fights) \in Made'
      /\ \A l, s : Rival(fights, l, s) \notin Made
      /\ \A l \in 0 .. CommitDepth, s \in {1, 2} : Rival(fights, l, s) \in Made'
      /\ Made \subseteq Made'
  BY <1>0, NextConflict
<1>2. \A t : t \in news <=> OfConflict(t)
  BY SidesAre, Zenon
<1>3. \A t \in news : /\ t.kind = "rival" /\ t \notin Made /\ t \in Made'
                      /\ Twin(t) \in news /\ Side(fights, FALSE, t.level, 3 - t.side) = Twin(t)
  <2> SUFFICES ASSUME NEW t \in news
               PROVE  /\ t.kind = "rival" /\ t \notin Made /\ t \in Made'
                      /\ Twin(t) \in news /\ Side(fights, FALSE, t.level, 3 - t.side) = Twin(t)
    BY Zenon
  <2>1. PICK l \in 0 .. CommitDepth, s \in {1, 2} : t = Rival(fights, l, s)
    BY <1>2, Zenon DEF OfConflict
  <2>2. Twin(t) = Rival(fights, l, 3 - s) /\ 3 - s \in {1, 2}
    BY <2>1, TwinOfRival
  <2>3. OfConflict(Twin(t))
    BY <2>2, SMTT(30) DEF OfConflict
  <2>4. t.level = l /\ t.side = s /\ t.kind = "rival"
    BY <2>1, TxnFields
  <2>5. Side(fights, FALSE, t.level, 3 - t.side) = Twin(t)
    BY <2>2, <2>4, SMTT(30) DEF Side
  <2> QED
    BY <1>1, <1>2, <2>1, <2>3, <2>4, <2>5, Zenon
<1>4. /\ in_flight' = in_flight \cup grants \cup news
      /\ DOMAIN in_flight_conflict' = DOMAIN in_flight_conflict \cup news
      /\ \A t \in news : in_flight_conflict'[t] = Side(fights, FALSE, t.level, 3 - t.side)
      /\ \A t \in DOMAIN in_flight_conflict \ news : in_flight_conflict'[t] = in_flight_conflict[t]
      /\ conflicts_sent' = conflicts_sent + CommitDepth + 1
  BY Zenon DEF Conflict
<1>5. \A x \in grants : x.kind = "grant" /\ x \in Made'
  BY <1>1, GrantKind, Zenon
<1>6. IsFiniteSet(news) /\ IsFiniteSet(NewPairs) /\ Cardinality(NewPairs) = CommitDepth + 1
  BY NewPairsCount, Zenon
<1> HIDE DEF news
<1>7. Rivals' = Rivals \cup news
  BY <1>3, <1>4, <1>5, Zenon DEF Rivals
<1>8. in_flight' \subseteq Made' /\ IsFiniteSet(in_flight')
  <2>1. IsFiniteSet(grants)
    BY FS_EmptySet, FS_Singleton, Zenon
  <2>2. IsFiniteSet(in_flight \cup grants)
    BY <1>0, <2>1, FS_Union, Zenon DEF Fighting
  <2>3. IsFiniteSet(in_flight')
    BY <1>4, <1>6, <2>2, FS_Union, Zenon
  <2> QED
    BY <1>0, <1>1, <1>3, <1>4, <1>5, <2>3, Zenon DEF Fighting
<1>9. \A t \in Rivals : t \notin news /\ Twin(t) \notin news /\ Twin(t) \notin grants
  <2> SUFFICES ASSUME NEW t \in Rivals PROVE t \notin news /\ Twin(t) \notin news /\ Twin(t) \notin grants
    OBVIOUS
  <2>1. t \in Made /\ {t, Twin(t)} \in Pairs
    BY <1>0, RivalsPair DEF Fighting, Rivals
  <2>2. Twin(t) \in Made /\ Twin(t).kind = "rival"
    BY <2>1, PairMembers
  <2> QED
    BY <1>3, <1>5, <2>1, <2>2, Zenon
<1>10. Fighting'
  <2>1. DOMAIN in_flight_conflict' = Rivals'
    BY <1>0, <1>4, <1>7, SMTT(30) DEF Fighting
  <2>2. \A t \in Rivals' : in_flight_conflict'[t] = Twin(t)
    BY <1>0, <1>3, <1>4, <1>7, <1>9, Zenon DEF Fighting
  <2>3. conflict_set' = {t \in Rivals' : Twin(t) \notin in_flight'}
    <3>1. \A t \in Rivals : Twin(t) \in in_flight' <=> Twin(t) \in in_flight
      BY <1>4, <1>9, SMTT(30)
    <3>2. \A t \in news : Twin(t) \in in_flight'
      BY <1>3, <1>4, Zenon
    <3> QED
      BY <1>0, <1>7, <3>1, <3>2, SMTT(30) DEF Fighting
  <2> QED
    BY <1>8, <2>1, <2>2, <2>3, SMTT(30) DEF Fighting
<1>11. Pairs' = Pairs \cup NewPairs /\ Pairs \cap NewPairs = {}
  <2>1. \A p : p \in Pairs' <=> \E n \in 0 .. fights, l \in 0 .. CommitDepth : p = PairOf(n, l)
    <3>1. \A p : p \in Pairs' <=> \E n \in 0 .. fights' - 1, l \in 0 .. CommitDepth : p = PairOf(n, l)
      BY DEF Pairs, PairOf
    <3>2. 0 .. fights' - 1 = 0 .. fights
      BY <1>0
    <3> QED
      BY <3>1, <3>2, Zenon
  <2>2. 0 .. fights = (0 .. fights - 1) \cup {fights} /\ fights \notin 0 .. fights - 1
    BY <1>0
  <2>3. \A p : p \in NewPairs <=> \E l \in 0 .. CommitDepth : p = PairOf(fights, l)
    BY DEF NewPairs
  <2>4. ASSUME NEW p PROVE p \in Pairs' <=> p \in Pairs \/ p \in NewPairs
    BY <2>1, <2>2, <2>3, PairsAre
  <2>5. ASSUME NEW p \in Pairs, p \in NewPairs PROVE FALSE
    <3>1. PICK l \in 0 .. CommitDepth : p = PairOf(fights, l)
      BY <2>3, <2>5
    <3>2. Rival(fights, l, 1) \in p
      BY <3>1 DEF PairOf
    <3>3. Rival(fights, l, 1) \in Made
      BY <3>2, PairMembers
    <3> QED
      BY <1>1, <3>3
  <2> QED
    BY <2>4, <2>5
<1>12. \A p \in NewPairs : p \subseteq news /\ p # {}
  BY <1>2, SMTT(30) DEF NewPairs, PairOf, OfConflict
<1>13. \A p \in Pairs : \A t \in p : t \in in_flight' <=> t \in in_flight
  <2>1. \A p \in Pairs : \A t \in p : t \in Made /\ t.kind = "rival"
    BY PairMembers
  <2> QED
    BY <1>3, <1>4, <1>5, <2>1, Zenon
<1>14. OpenPairs' = OpenPairs \cup NewPairs /\ LostPairs' = LostPairs
  <2>1. \A p \in NewPairs : p \subseteq in_flight' /\ p \cap in_flight' # {}
    BY <1>4, <1>12
  <2>2. OpenPairs' = OpenPairs \cup NewPairs
    BY <1>11, <1>13, <2>1 DEF OpenPairs
  <2>3. LostPairs' = LostPairs
    BY <1>11, <1>13, <2>1, SMTT(30) DEF LostPairs
  <2> QED
    BY <2>2, <2>3
<1>15. Counting'
  <2>1. /\ IsFiniteSet(OpenPairs) /\ IsFiniteSet(Pairs)
        /\ Cardinality(Pairs) \in Nat /\ Cardinality(OpenPairs) \in Nat
    BY <1>0, PairSets DEF Counting
  <2>2. Pairs \cap NewPairs = {} /\ OpenPairs \cap NewPairs = {} /\ Cardinality({}) = 0
    BY <1>11, FS_EmptySet DEF OpenPairs
  <2>3. IsFiniteSet(Pairs') /\ Cardinality(Pairs') = Cardinality(Pairs) + (CommitDepth + 1)
    <3>1. /\ IsFiniteSet(Pairs \cup NewPairs)
          /\ Cardinality(Pairs \cup NewPairs) = Cardinality(Pairs) + Cardinality(NewPairs) - 0
      BY <1>6, <2>1, <2>2, FS_Union
    <3> QED
      BY <1>0, <1>6, <1>11, <2>1, <3>1, SMTT(30)
  <2>4. Cardinality(OpenPairs') = Cardinality(OpenPairs) + (CommitDepth + 1)
    <3>1. Cardinality(OpenPairs \cup NewPairs) = Cardinality(OpenPairs) + Cardinality(NewPairs) - 0
      BY <1>6, <2>1, <2>2, FS_Union
    <3> QED
      BY <1>0, <1>6, <1>14, <2>1, <3>1, SMTT(30)
  <2> QED
    BY <1>0, <1>4, <1>14, <2>1, <2>3, <2>4, SMTT(30) DEF Counting
<1> QED
  BY <1>10, <1>15 DEF CInv

LEMMA NextCInv == IInv /\ CInv /\ [Next]_vars => CInv'
<1> SUFFICES ASSUME IInv, CInv, [Next]_vars PROVE CInv'
  OBVIOUS
<1>1. ASSUME UNCHANGED <<chain, singles, fights, in_flight, conflicts>> PROVE CInv'
  <2>1. Made' = Made /\ Pairs' = Pairs /\ Rivals' = Rivals
    BY <1>1 DEF Made, Pairs, Rivals
  <2>2. OpenPairs' = OpenPairs /\ LostPairs' = LostPairs
    BY <1>1, <2>1, SMTT(30) DEF OpenPairs, LostPairs
  <2> QED
    BY <1>1, <2>1, <2>2, SMTT(30) DEF CInv, Fighting, Counting, conflicts
<1>2. CASE wait_next \/ batch_sent
  BY <1>1, <1>2 DEF wait_next, batch_sent, outputs
<1>3. CASE generate_chain_replication
  BY <1>3, SingleFights, SMTT(30) DEF generate_chain_replication
<1>4. CASE generate_bitcoin \/ generate_avalanche
  BY <1>4, SingleFights, Zenon DEF generate_bitcoin, generate_avalanche, Spend
<1>5. CASE generate_conflict
  <2>1. /\ fights' = fights + 1 /\ singles' = singles /\ chain = "Avalanche"
        /\ UNCHANGED <<chain, conflict_set, conflicts_recv, conflicts_committed>>
    BY <1>5 DEF generate_conflict
  <2>2. PICK same \in BOOLEAN :
          /\ SameReceivers(same)
          /\ \E u : Conflict(fights, u, {}, same) \/ Conflict(fights, u, {Grant(fights)}, same)
    BY <1>5, Zenon DEF generate_conflict
  <2>3. same = FALSE
    BY <2>2, ReceiversDiffer, Zenon
  <2>4. PICK u : Conflict(fights, u, {}, FALSE) \/ Conflict(fights, u, {Grant(fights)}, FALSE)
    BY <2>2, <2>3, Zenon
  <2> QED
    BY <2>1, <2>4, ConflictFights, Zenon
<1>6. ASSUME NEW t \in DOMAIN spends,
             \/ txn_committed_chain_replication(t)
             \/ \E node \in Nodes : txn_committed_bitcoin(node, t)
      PROVE  CInv'
  <2>1. /\ in_flight' = in_flight \ {t} /\ chain # "Avalanche"
        /\ UNCHANGED <<outputs, chain, conflicts>>
    BY <1>6, Zenon DEF txn_committed_chain_replication, txn_committed_bitcoin
  <2>2. t \notin Rivals
    <3>1. Fighting /\ fights = 0
      BY <2>1 DEF CInv, Fighting
    <3>2. \A r \in Made : r.kind # "rival"
      BY <3>1, MadeRivals
    <3> QED
      BY <3>1, <3>2 DEF Fighting, Rivals
  <2> QED
    BY <2>1, <2>2, CommitOther DEF conflicts
<1>7. ASSUME NEW t \in DOMAIN spends, txn_committed_avalanche(t) PROVE CInv'
  <2>1. CASE t \in Rivals
    BY <1>7, <2>1, CommitRival
  <2>2. CASE t \notin Rivals
    <3>1. t \notin DOMAIN in_flight_conflict
      BY <2>2 DEF CInv, Fighting
    <3>2. UNCHANGED <<conflict_set, conflicts_recv, conflicts_committed>>
      BY <1>7, <3>1, SMTT(30) DEF txn_committed_avalanche, SettleConflict
    <3>3. /\ DOMAIN in_flight_conflict' = DOMAIN in_flight_conflict
          /\ \A r \in DOMAIN in_flight_conflict : in_flight_conflict'[r] = in_flight_conflict[r]
          /\ in_flight' = in_flight \ {t} /\ UNCHANGED <<outputs, chain, conflicts_sent>>
      BY <1>7, <3>1 DEF txn_committed_avalanche
    <3> QED
      BY <2>2, <3>2, <3>3, CommitOther
  <2> QED
    BY <2>1, <2>2
<1>8. CASE UNCHANGED vars
  BY <1>1, <1>8 DEF vars, outputs
<1> QED
  BY <1>2, <1>3, <1>4, <1>5, <1>6, <1>7, <1>8, SMTT(30) DEF Next

\* get_inflight_count is the number of transactions without a rival plus the
\* number of conflicts of which none is committed, and never below zero on
\* the way; conflicts_recv and conflicts_committed count the conflicts of
\* which one, and of which both, were committed.  For any interleaving and
\* repetition of the commits (get_inflight_count, txn_committed).
THEOREM CountersAreExact == Spec => []CountersExact
<1>1. IInv /\ CInv => CountersExact
  <2> SUFFICES ASSUME CInv PROVE CountersExact
    OBVIOUS
  <2> DEFINE Others == {t \in in_flight : t.kind # "rival"}
  <2>1. Fighting /\ Counting
    BY DEF CInv
  <2>2. /\ Cardinality(Pairs) \in Nat /\ Cardinality(OpenPairs) \in Nat
        /\ Cardinality(OpenPairs) <= Cardinality(Pairs)
    BY <2>1, PairSets DEF Counting
  <2>3. IsFiniteSet(Rivals) /\ IsFiniteSet(Others)
    BY <2>1, FS_Subset DEF Fighting, Rivals
  <2>4. /\ Cardinality(Rivals) \in Nat /\ Cardinality(Others) \in Nat
        /\ Cardinality(in_flight) = Cardinality(Rivals) + Cardinality(Others)
    <3>1. in_flight = Rivals \cup Others /\ Rivals \cap Others = {}
      BY DEF Rivals
    <3> HIDE DEF Others
    <3>2. Cardinality(Rivals) \in Nat /\ Cardinality(Others) \in Nat
      BY <2>3, FS_CardinalityType
    <3>3. Cardinality(in_flight)
            = Cardinality(Rivals) + Cardinality(Others) - Cardinality(Rivals \cap Others)
      BY <2>3, <3>1, FS_Union
    <3>4. Cardinality(Rivals \cap Others) = 0
      BY <3>1, FS_EmptySet
    <3> QED
      BY <3>2, <3>3, <3>4
  <2>5. DOMAIN in_flight_conflict = Rivals
    BY <2>1 DEF Fighting
  <2>6. Cardinality(DOMAIN in_flight_conflict) <= Cardinality(in_flight)
    BY <2>4, <2>5
  <2>7. conflicts_recv <= conflicts_sent
    BY <2>1, <2>2 DEF Counting
  <2>8. get_inflight_count = Cardinality(Others) + Cardinality(OpenPairs)
    <3> HIDE DEF Others
    <3> QED
      BY <2>1, <2>2, <2>4, <2>5, SMTT(30) DEF Counting, get_inflight_count
  <2> QED
    BY <2>1, <2>6, <2>7, <2>8 DEF CountersExact, Counting
<1> QED
  BY InitIInv, NextIInv, InitCInv, NextCInv, <1>1, PTL DEF Spec

-----------------------------------------------------------------------------

\* In q, what a transaction spends comes before it.
AfterInputs(q, sp) ==
    \A i \in 1 .. Len(q) :
        q[i] \in DOMAIN sp /\ sp[q[i]] # NoOutput => \E j \in 1 .. i - 1 : q[j] = sp[q[i]].txn

\* One transaction more, if client c has node n among its own.
Put(q, n, c, t) == IF n \in Dsts(c) THEN Append(q, t) ELSE q

LEMMA PutOne ==
    ASSUME NEW X, NEW q \in Seq(X), NEW sp, AfterInputs(q, sp), NEW t \in X, NEW n, NEW c,
           n \in Dsts(c) /\ t \in DOMAIN sp /\ sp[t] # NoOutput => Has(q, sp[t].txn)
    PROVE  /\ Put(q, n, c, t) \in Seq(X)
           /\ AfterInputs(Put(q, n, c, t), sp)
           /\ \A x : Has(q, x) => Has(Put(q, n, c, t), x)
           /\ n \in Dsts(c) => Has(Put(q, n, c, t), t)
<1>1. CASE n \notin Dsts(c)
  BY <1>1, Zenon DEF Put
<1>2. CASE n \in Dsts(c)
  <2> DEFINE r == Append(q, t)
  <2>1. /\ r \in Seq(X) /\ Len(r) = Len(q) + 1 /\ Len(q) \in Nat
        /\ \A i \in 1 .. Len(q) : r[i] = q[i]
        /\ r[Len(q) + 1] = t
    BY SMTT(30)
  <2> HIDE DEF r
  <2>2. AfterInputs(r, sp)
    <3> SUFFICES ASSUME NEW i \in 1 .. Len(r), r[i] \in DOMAIN sp, sp[r[i]] # NoOutput
                 PROVE  \E j \in 1 .. i - 1 : r[j] = sp[r[i]].txn
      BY DEF AfterInputs
    <3>1. CASE i \in 1 .. Len(q)
      <4>1. PICK j \in 1 .. i - 1 : q[j] = sp[q[i]].txn
        BY <2>1, <3>1, SMTT(30) DEF AfterInputs
      <4>2. j \in 1 .. Len(q)
        BY <2>1, <3>1
      <4> QED
        BY <2>1, <3>1, <4>1, <4>2, Zenon
    <3>2. CASE i = Len(q) + 1
      <4>1. PICK j \in 1 .. Len(q) : q[j] = sp[t].txn
        BY <1>2, <2>1, <3>2, SMTT(30) DEF Has
      <4>2. j \in 1 .. i - 1
        BY <2>1, <3>2
      <4> QED
        BY <2>1, <3>2, <4>1, <4>2, SMTT(30)
    <3> QED
      BY <2>1, <3>1, <3>2
  <2>3. \A x : Has(q, x) => Has(r, x)
    BY <2>1 DEF Has
  <2>4. Has(r, t)
    BY <2>1 DEF Has
  <2>5. Put(q, n, c, t) = r
    BY <1>2 DEF Put, r
  <2> QED
    BY <2>1, <2>2, <2>3, <2>4, <2>5, Zenon
<1> QED
  BY <1>1, <1>2, Zenon

\* New transactions do not change what holds of a sequence of older ones.
Agree(S, sp, more) == \A t \in S : t \in DOMAIN more => t \in DOMAIN sp /\ more[t] = sp[t]

LEMMA AfterStays ==
    ASSUME NEW S, NEW q \in Seq(S), NEW sp, NEW more, AfterInputs(q, sp), Agree(S, sp, more)
    PROVE  AfterInputs(q, more)
<1>0. \A t \in S : t \in DOMAIN more => t \in DOMAIN sp /\ more[t] = sp[t]
  BY Zenon DEF Agree
<1> SUFFICES ASSUME NEW i \in 1 .. Len(q), q[i] \in DOMAIN more, more[q[i]] # NoOutput
             PROVE  \E j \in 1 .. i - 1 : q[j] = more[q[i]].txn
  BY DEF AfterInputs
<1>1. q[i] \in S
  BY ElementOfSeq
<1> QED
  BY <1>0, <1>1 DEF AfterInputs

\* A node's share of one message more is one transaction more.
OneMore(n, q, batch, m) ==
    q \o Share(n, Append(batch, m)) = Put(q \o Share(n, batch), n, m[1], m[2])

LEMMA ShareOfMore ==
    ASSUME NEW M, NEW X, \A z \in M : z[2] \in X, NEW n, NEW batch \in Seq(M), NEW m \in M,
           NEW q \in Seq(X)
    PROVE  OneMore(n, q, batch, m)
<1> DEFINE Part(z) == IF n \in Dsts(z[1]) THEN <<z[2]>> ELSE <<>>
           parts == [i \in DOMAIN batch |-> Part(batch[i])]
           more == Append(batch, m)
<1>1. \A z \in M : Part(z) \in Seq(X)
  OBVIOUS
<1>2. /\ DOMAIN batch = 1 .. Len(batch) /\ Len(batch) \in Nat
      /\ \A i \in 1 .. Len(batch) : batch[i] \in M
      /\ DOMAIN more = 1 .. Len(batch) + 1 /\ more[Len(batch) + 1] = m
      /\ \A i \in 1 .. Len(batch) : more[i] = batch[i]
  OBVIOUS
<1>3. Share(n, batch) = FlattenSeq(parts)
  BY DEF Share
<1>4. Share(n, more) = FlattenSeq([i \in DOMAIN more |-> Part(more[i])])
  BY DEF Share
<1> HIDE DEF Part, more
<1>5. parts \in Seq(Seq(X)) /\ Len(parts) = Len(batch)
  BY <1>1, <1>2
<1>6. \A i \in 1 .. Len(batch) : parts[i] = Part(batch[i])
  BY <1>2
<1> HIDE DEF parts
<1>7. Part(m) \in Seq(X)
  BY <1>1, <1>2
<1>a. [i \in DOMAIN more |-> Part(more[i])] = Append(parts, Part(m))
  <2> DEFINE r == Append(parts, Part(m))
  <2>1. /\ r \in Seq(Seq(X)) /\ Len(r) = Len(batch) + 1 /\ r[Len(batch) + 1] = Part(m)
        /\ \A i \in 1 .. Len(batch) : r[i] = parts[i]
    BY <1>5, <1>7, AppendProperties
  <2>2. DOMAIN r = 1 .. Len(batch) + 1 /\ r = [i \in 1 .. Len(batch) + 1 |-> r[i]]
    <3> HIDE DEF r
    <3> QED
      BY <2>1
  <2> HIDE DEF r
  <2>3. ASSUME NEW i \in 1 .. Len(batch) + 1 PROVE r[i] = Part(more[i])
    <3>1. CASE i \in 1 .. Len(batch)
      BY <1>2, <1>6, <2>1, <3>1, Zenon
    <3>2. CASE i = Len(batch) + 1
      BY <1>2, <2>1, <3>2, Zenon
    <3>3. i \in 1 .. Len(batch) \/ i = Len(batch) + 1
      BY <1>2
    <3> QED
      BY <3>1, <3>2, <3>3
  <2> QED
    BY <1>2, <2>2, <2>3 DEF r
<1>8. /\ FlattenSeq(parts) \in Seq(X)
      /\ FlattenSeq(Append(parts, Part(m))) = FlattenSeq(parts) \o Part(m)
  BY <1>5, <1>7, FlattenSeqProperties
<1> DEFINE f == FlattenSeq(parts)
<1> HIDE DEF f
<1>9. f \in Seq(X) /\ Share(n, batch) = f /\ Share(n, more) = f \o Part(m)
  BY <1>3, <1>4, <1>a, <1>8, Zenon DEF f
<1>11. q \o (f \o Part(m)) = Put(q \o f, n, m[1], m[2])
  <2>1. CASE n \in Dsts(m[1])
    <3>1. Part(m) = <<m[2]>>
      BY <2>1 DEF Part
    <3>2. q \o (f \o <<m[2]>>) = Append(q \o f, m[2])
      BY <1>9
    <3> QED
      BY <2>1, <3>1, <3>2 DEF Put
  <2>2. CASE n \notin Dsts(m[1])
    <3>1. Part(m) = <<>>
      BY <2>2 DEF Part
    <3>2. f \o <<>> = f
      BY <1>9
    <3> QED
      BY <2>2, <3>1, <3>2 DEF Put
  <2> QED
    BY <2>1, <2>2
<1> QED
  BY <1>9, <1>11 DEF more, OneMore

LEMMA ShareOfNone ==
    ASSUME NEW X, NEW n, NEW q \in Seq(X)
    PROVE  Share(n, <<>>) = <<>> /\ q \o Share(n, <<>>) = q
<1>1. Share(n, <<>>) = FlattenSeq(<<>>)
  BY DEF Share
<1>2. FlattenSeq(<<>>) = <<>>
  <2>1. <<>> \in Seq(Seq(X))
    BY EmptySeq
  <2> QED
    BY <2>1, FlattenSeqProperties, Zenon
<1> QED
  BY <1>1, <1>2

\* A node that has been sent q is sent its share of batch, all after its
\* inputs; and it has then been sent x.
Fits(X, n, q, batch, sp) ==
    /\ q \in Seq(X) /\ batch \in Seq(Clients \X X)
    /\ q \o Share(n, batch) \in Seq(X) /\ AfterInputs(q \o Share(n, batch), sp)
Got(n, q, batch, x) == Has(q \o Share(n, batch), x)

\* One message more.
LEMMA SendOne ==
    ASSUME NEW X, NEW n, NEW q, NEW batch, NEW sp, NEW c \in Clients, NEW t \in X,
           Fits(X, n, q, batch, sp),
           n \in Dsts(c) /\ t \in DOMAIN sp /\ sp[t] # NoOutput => Got(n, q, batch, sp[t].txn)
    PROVE  /\ Fits(X, n, q, Append(batch, <<c, t>>), sp)
           /\ \A x : Got(n, q, batch, x) => Got(n, q, Append(batch, <<c, t>>), x)
           /\ n \in Dsts(c) => Got(n, q, Append(batch, <<c, t>>), t)
<1> DEFINE h == q \o Share(n, batch)
<1>1. q \in Seq(X) /\ batch \in Seq(Clients \X X) /\ h \in Seq(X) /\ AfterInputs(h, sp)
  BY DEF Fits
<1>2. q \o Share(n, Append(batch, <<c, t>>)) = Put(h, n, c, t)
  <2> DEFINE M == Clients \X X
  <2>1. PICK m : m = <<c, t>>
    BY Zenon
  <2>2. m \in M /\ m[1] = c /\ m[2] = t /\ \A z \in M : z[2] \in X
    BY <2>1
  <2>3. batch \in Seq(M)
    BY <1>1
  <2> HIDE DEF M
  <2>4. OneMore(n, q, batch, m)
    BY <1>1, <2>2, <2>3, ShareOfMore, Zenon
  <2> QED
    BY <2>1, <2>2, <2>4, Zenon DEF OneMore
<1>3. n \in Dsts(c) /\ t \in DOMAIN sp /\ sp[t] # NoOutput => Has(h, sp[t].txn)
  BY DEF Got
<1>4. \A x : Got(n, q, batch, x) <=> Has(h, x)
  BY DEF Got
<1>5. \A x : Got(n, q, Append(batch, <<c, t>>), x) <=> Has(Put(h, n, c, t), x)
  BY <1>2, Zenon DEF Got
<1> HIDE DEF h
<1>6. /\ Put(h, n, c, t) \in Seq(X)
      /\ AfterInputs(Put(h, n, c, t), sp)
      /\ \A x : Has(h, x) => Has(Put(h, n, c, t), x)
      /\ n \in Dsts(c) => Has(Put(h, n, c, t), t)
  BY <1>1, <1>3, PutOne, Zenon
<1>7. Append(batch, <<c, t>>) \in Seq(Clients \X X)
  BY <1>1
<1>8. Fits(X, n, q, Append(batch, <<c, t>>), sp)
  BY <1>1, <1>2, <1>6, <1>7, Zenon DEF Fits
<1> QED
  BY <1>4, <1>5, <1>6, <1>8, Zenon

\* No message.
LEMMA SendNone ==
    ASSUME NEW X, NEW n, NEW q \in Seq(X), NEW sp, AfterInputs(q, sp)
    PROVE  /\ Fits(X, n, q, <<>>, sp)
           /\ \A x : Has(q, x) => Got(n, q, <<>>, x)
<1>1. q \o Share(n, <<>>) = q
  BY ShareOfNone
<1>2. <<>> \in Seq(Clients \X X)
  BY EmptySeq, SMTT(30)
<1> QED
  BY <1>1, <1>2, Zenon DEF Fits, Got

Setups == UNION {SetupTxns(c) : c \in Clients}

\* Nodes are sent what was made or granted at the start; and a client's
\* nodes have been sent whatever the client's outputs on offer come from.
Given ==
    /\ given = [n \in Nodes |-> given[n]]
    /\ \A n \in Nodes : given[n] \in Seq(DOMAIN spends \cup Setups)
    /\ \A n \in Nodes : \A c \in Clients : \A u \in utxos[c] :
          n \in Dsts(c) => Has(given[n], u.txn)
    /\ \A v \in conflicting_utxos : v.clients[1] \in Clients /\ v.clients[2] \in Clients
    /\ \A n \in Nodes : \A v \in conflicting_utxos : \A k \in {1, 2} :
          n \in Dsts(v.clients[k]) => Has(given[n], v.txn)
    /\ \A n \in Nodes : AfterInputs(given[n], spends)

LEMMA SetupsFinite == IsFiniteSet(Setups) /\ \A t \in Setups : t.kind = "setup"
<1> DEFINE D == Clients \X (1 .. NumAccounts)
           f == [x \in D |-> SetupGrant(x[1], x[2])]
           R == {f[x] : x \in D}
<1>1. NumClients \in Nat /\ NumAccounts \in Nat
  BY ClientsAssumption
<1>2. IsFiniteSet(Clients) /\ IsFiniteSet(1 .. NumAccounts)
  <2>1. 0 \in Int /\ 1 \in Int /\ NumClients - 1 \in Int /\ NumAccounts \in Int
    BY <1>1
  <2> QED
    BY <2>1, FS_Interval DEF Clients
<1>3. IsFiniteSet(D)
  BY <1>2, FS_Product, Zenon
<1>4. \A t \in Setups : \E c \in Clients, a \in 1 .. NumAccounts : t = SetupGrant(c, a)
  BY DEF Setups, SetupTxns
<1>5. Setups \subseteq R
  <2> SUFFICES ASSUME NEW t \in Setups PROVE t \in R
    OBVIOUS
  <2>1. PICK c \in Clients, a \in 1 .. NumAccounts : t = SetupGrant(c, a)
    BY <1>4
  <2>2. <<c, a>> \in D /\ f[<<c, a>>] = t
    BY <2>1
  <2> HIDE DEF f
  <2> QED
    BY <2>2
<1>6. f \in Surjection(D, R)
  <2>1. f \in [D -> R]
    OBVIOUS
  <2> HIDE DEF f
  <2> QED
    BY <2>1 DEF Surjection
<1> HIDE DEF D, f, R
<1>7. IsFiniteSet(R)
  BY <1>3, <1>6, FS_Surjection, SMTT(30)
<1> QED
  BY <1>4, <1>5, <1>7, FS_Subset, TxnFields

LEMMA InitGiven == Init => Given
<1> SUFFICES ASSUME Init PROVE Given
  OBVIOUS
<1> DEFINE T(n) == UNION {SetupTxns(c) : c \in {d \in Clients : n \in Dsts(d)}}
<1>1. /\ given = [n \in Nodes |-> Listed(T(n))]
      /\ DOMAIN spends = {} /\ conflicting_utxos = {}
      /\ utxos = [c \in Clients |-> {Output(t, "paid", SetupValue) : t \in SetupTxns(c)}]
  BY DEF Init
<1>2. \A n : T(n) \subseteq Setups /\ IsFiniteSet(T(n))
  <2>1. \A n : T(n) \subseteq Setups
    BY DEF Setups
  <2> QED
    BY <2>1, SetupsFinite, FS_Subset
<1>3. ASSUME NEW n \in Nodes
      PROVE  given[n] \in Seq(T(n)) /\ \A x \in T(n) : Has(given[n], x)
  <2>1. given[n] = Listed(T(n))
    BY <1>1
  <2> HIDE DEF T
  <2> QED
    <3>1. IsFiniteSet(T(n))
      BY <1>2
    <3>2. given[n] \in Injection(1 .. Cardinality(T(n)), T(n))
      BY <2>1, <3>1, ListingExists DEF Listed
    <3> QED
      BY <3>1, <3>2, ListingProperties
<1>4. \A n \in Nodes : given[n] \in Seq(DOMAIN spends \cup Setups)
  <2> SUFFICES ASSUME NEW n \in Nodes PROVE given[n] \in Seq(DOMAIN spends \cup Setups)
    BY SMTT(30)
  <2>1. T(n) \subseteq DOMAIN spends \cup Setups
    BY <1>2, Zenon
  <2> HIDE DEF T
  <2> QED
    BY <1>3, <2>1
<1>5. ASSUME NEW n \in Nodes, NEW c \in Clients, NEW u \in utxos[c], n \in Dsts(c)
      PROVE  Has(given[n], u.txn)
  <2>1. PICK t \in SetupTxns(c) : u = Output(t, "paid", SetupValue)
    BY <1>1
  <2>2. u.txn = t /\ t \in T(n)
    BY <1>5, <2>1, OutputFields, SMTT(30)
  <2> QED
    BY <1>3, <2>2, Zenon
<1>6. \A n \in Nodes : AfterInputs(given[n], spends)
  BY <1>1, SMTT(30) DEF AfterInputs
<1> QED
  BY <1>1, <1>4, <1>5, <1>6, Zenon DEF Given

\* Facts that the next lemmas use where much else is known.
LEMMA SetupsSame == chain' = chain => Setups' = Setups
BY DEF Setups, SetupTxns

LEMMA SeqWider ==
    ASSUME NEW A, NEW B, A \subseteq B, NEW q \in Seq(A)
    PROVE  q \in Seq(B)
OBVIOUS

LEMMA OneAppended == \A x : <<x>> = Append(<<>>, x)
OBVIOUS

LEMMA ConflictKind == \A t : OfConflict(t) => t.kind = "rival"
<1> SUFFICES ASSUME NEW t, OfConflict(t) PROVE t.kind = "rival"
  OBVIOUS
<1>1. PICK m, l, s : t = Rival(m, l, s)
  BY Zenon DEF OfConflict
<1>2. Rival(m, l, s).kind = "rival"
  BY RivalKind, Zenon
<1> QED
  BY <1>1, <1>2, Zenon

\* What the rival of side s at level l of conflict m spends.
Below(m, source, l, s) == IF l = 0 THEN source ELSE Rival(m, l - 1, s)

LEMMA SpentByRival ==
    \A u, l, s : Spent(u, Rival(fights, l, s)) = Below(fights, u.txn, l, s)
<1> SUFFICES ASSUME NEW u, NEW l, NEW s
             PROVE  Spent(u, Rival(fights, l, s)) = Below(fights, u.txn, l, s)
  OBVIOUS
<1>1. PICK r : r = Rival(fights, l, s)
  OBVIOUS
<1>2. r.level = l /\ r.side = s
  BY <1>1, RivalPlace, Zenon
<1>3. Spent(u, r) = Below(fights, u.txn, l, s)
  BY <1>2, Zenon DEF Spent, Below
<1> QED
  BY <1>1, <1>3, Zenon

LEMMA BelowNext == \A m, source, s : \A l \in Nat : Below(m, source, l + 1, s) = Rival(m, l, s)
BY DEF Below

LEMMA BelowFirst == \A m, source, s : Below(m, source, 0, s) = source
BY DEF Below

\* One message, with a new transaction that spends nothing, or an output of
\* which the client's nodes have been sent the transaction.
LEMMA SingleGiven ==
    ASSUME IInv, Given, NEW c \in Clients, NEW new, new \notin DOMAIN spends, new.kind # "setup",
           Send(<<<<c, new>>>>), chain' = chain,
           DOMAIN spends' = DOMAIN spends \cup {new},
           \A t \in DOMAIN spends : spends'[t] = spends[t],
           \A n \in Nodes : n \in Dsts(c) /\ spends'[new] # NoOutput => Has(given[n], spends'[new].txn),
           \A d \in Clients : \A o \in utxos'[d] : o \in utxos[d] \/ (d = c /\ o.txn = new),
           conflicting_utxos' = conflicting_utxos
    PROVE  Given'
<1> DEFINE X == DOMAIN spends' \cup Setups
<1>0. Setups' = Setups
  BY SetupsSame, Zenon
<1>1. ASSUME NEW n \in Nodes
      PROVE  /\ given'[n] \in Seq(X) /\ AfterInputs(given'[n], spends')
             /\ \A x : Has(given[n], x) => Has(given'[n], x)
             /\ n \in Dsts(c) => Has(given'[n], new)
  <2>1. given'[n] = given[n] \o Share(n, <<<<c, new>>>>)
    BY Zenon DEF Send
  <2>2. given[n] \in Seq(DOMAIN spends \cup Setups) /\ AfterInputs(given[n], spends)
    BY SMTT(30) DEF Given
  <2>3. given[n] \in Seq(X) /\ new \in X
    <3>1. DOMAIN spends \cup Setups \subseteq X /\ new \in X
      BY Zenon
    <3> QED
      BY <2>2, <3>1, SeqWider, Zenon
  <2>4. AfterInputs(given[n], spends')
    <3>1. \A t \in DOMAIN spends \cup Setups :
            t \in DOMAIN spends' => t \in DOMAIN spends /\ spends'[t] = spends[t]
      BY SetupsFinite, Zenon
    <3> QED
      <4>1. PICK S, more : S = DOMAIN spends \cup Setups /\ more = spends'
        BY Zenon
      <4>2. given[n] \in Seq(S) /\ AfterInputs(given[n], spends)
        BY <2>2, <4>1, Zenon
      <4>3. Agree(S, spends, more)
        BY <3>1, <4>1, Zenon DEF Agree
      <4>4. AfterInputs(given[n], more)
        BY <4>2, <4>3, AfterStays, Zenon
      <4> QED
        BY <4>1, <4>4, Zenon
  <2> DEFINE b == Append(<<>>, <<c, new>>)
  <2>5. given'[n] = given[n] \o Share(n, b)
    BY <2>1, OneAppended, Zenon
  <2> HIDE DEF X
  <2>6. /\ Fits(X, n, given[n], <<>>, spends')
        /\ \A x : Has(given[n], x) => Got(n, given[n], <<>>, x)
    BY <2>3, <2>4, SendNone, Zenon
  <2>7. n \in Dsts(c) /\ new \in DOMAIN spends' /\ spends'[new] # NoOutput
          => Got(n, given[n], <<>>, spends'[new].txn)
    BY <2>6, Zenon
  <2>8. /\ Fits(X, n, given[n], b, spends')
        /\ \A x : Got(n, given[n], <<>>, x) => Got(n, given[n], b, x)
        /\ n \in Dsts(c) => Got(n, given[n], b, new)
    BY <2>3, <2>6, <2>7, SendOne, Zenon
  <2> HIDE DEF b
  <2> QED
    BY <2>5, <2>6, <2>8, Zenon DEF Fits, Got
<1>2. given' = [n \in Nodes |-> given'[n]]
  BY Zenon DEF Send
<1>3. \A n \in Nodes : \A d \in Clients : \A o \in utxos'[d] :
          n \in Dsts(d) => Has(given'[n], o.txn)
  BY <1>1 DEF Given
<1>4. \A n \in Nodes : \A v \in conflicting_utxos' : \A k \in {1, 2} :
          n \in Dsts(v.clients[k]) => Has(given'[n], v.txn)
  BY <1>1 DEF Given
<1> QED
  BY <1>0, <1>1, <1>2, <1>3, <1>4, SMTT(30) DEF Given

\* The messages of the i-th level of the m-th conflict, and of the first k.
LevelOf(c1, c2, one, two) == <<<<c1, one>>, <<c1, two>>, <<c2, two>>, <<c2, one>>>>
Level(m, c1, c2, i) == LevelOf(c1, c2, Rival(m, i - 1, 1), Rival(m, i - 1, 2))
Levels(m, c1, c2, k) == FlattenSeq([i \in 1 .. k |-> Level(m, c1, c2, i)])

\* A level is sent, and the nodes of both clients have its two rivals.
Reached(X, n, q, batch, sp, c1, c2, one, two) ==
    LET more == batch \o LevelOf(c1, c2, one, two)
    IN  /\ Fits(X, n, q, more, sp)
        /\ \A x : Got(n, q, batch, x) => Got(n, q, more, x)
        /\ n \in Dsts(c1) \/ n \in Dsts(c2) => \A t \in {one, two} : Got(n, q, more, t)

Four(b, x, y, z, w) == Append(Append(Append(Append(b, x), y), z), w) = b \o <<x, y, z, w>>

Extends(S, c, z, e) ==
    /\ e \in Seq(S) /\ Len(e) = Len(c) + 1 /\ e[Len(c) + 1] = z
    /\ \A i \in 1 .. Len(c) : e[i] = c[i]

LEMMA AppendExtends ==
    ASSUME NEW S, NEW c \in Seq(S), NEW z \in S
    PROVE  Extends(S, c, z, Append(c, z))
BY DEF Extends

LEMMA AppendFour ==
    ASSUME NEW S, NEW b \in Seq(S), NEW x \in S, NEW y \in S, NEW z \in S, NEW w \in S
    PROVE  Four(b, x, y, z, w)
<1>1. b \o <<x, y>> = Append(Append(b, x), y)
  OBVIOUS
<1>2. b \o <<x, y>> \in Seq(S) /\ <<x, y>> \in Seq(S) /\ <<z, w>> \in Seq(S)
  OBVIOUS
<1>3. \A c \in Seq(S) : c \o <<z, w>> = Append(Append(c, z), w)
  OBVIOUS
<1>4. (b \o <<x, y>>) \o <<z, w>> = b \o (<<x, y>> \o <<z, w>>)
  BY <1>2, ConcatAssociative
<1>5. <<x, y>> \o <<z, w>> = <<x, y, z, w>>
  <2>1. <<x, y>> \o <<z, w>> = Append(Append(<<x, y>>, z), w)
    BY <1>2, <1>3
  <2>2. PICK c : c = <<x, y>>
    BY Zenon
  <2>3. c \in Seq(S) /\ Len(c) = 2 /\ c[1] = x /\ c[2] = y
    BY <2>2
  <2>4. PICK d : d = Append(Append(c, z), w)
    BY Zenon
  <2>5. d \in Seq(S) /\ Len(d) = 4 /\ d[1] = x /\ d[2] = y /\ d[3] = z /\ d[4] = w
    <3>1. PICK e : e = Append(c, z)
      BY Zenon
    <3>2. Extends(S, c, z, e)
      BY <2>3, <3>1, AppendExtends, Zenon
    <3>3. e \in Seq(S) /\ Len(e) = 3 /\ e[1] = x /\ e[2] = y /\ e[3] = z
      BY <2>3, <3>2 DEF Extends
    <3>4. Extends(S, e, w, d)
      BY <2>4, <3>1, <3>3, AppendExtends, Zenon
    <3> QED
      BY <3>3, <3>4 DEF Extends
  <2>6. d = <<x, y, z, w>>
    BY <2>5
  <2> QED
    BY <2>1, <2>2, <2>4, <2>6, Zenon
<1> QED
  BY <1>1, <1>3, <1>4, <1>5 DEF Four

LEMMA SendLevel ==
    ASSUME NEW X, NEW n, NEW q, NEW batch, NEW sp, NEW c1 \in Clients, NEW c2 \in Clients,
           NEW one \in X, NEW two \in X, Fits(X, n, q, batch, sp),
           \A c \in {c1, c2}, t \in {one, two} :
              n \in Dsts(c) /\ t \in DOMAIN sp /\ sp[t] # NoOutput => Got(n, q, batch, sp[t].txn)
    PROVE  Reached(X, n, q, batch, sp, c1, c2, one, two)
<1> DEFINE b1 == Append(batch, <<c1, one>>)
           b2 == Append(b1, <<c1, two>>)
           b3 == Append(b2, <<c2, two>>)
           b4 == Append(b3, <<c2, one>>)
<1>0. b4 = batch \o LevelOf(c1, c2, one, two)
  <2>1. batch \in Seq(Clients \X X)
    BY DEF Fits
  <2>2. <<c1, one>> \in Clients \X X /\ <<c1, two>> \in Clients \X X
        /\ <<c2, two>> \in Clients \X X /\ <<c2, one>> \in Clients \X X
    OBVIOUS
  <2> QED
    <3>1. PICK x, y, z, w : x = <<c1, one>> /\ y = <<c1, two>> /\ z = <<c2, two>> /\ w = <<c2, one>>
      BY Zenon
    <3>2. PICK S : S = Clients \X X
      BY Zenon
    <3>3. batch \in Seq(S) /\ x \in S /\ y \in S /\ z \in S /\ w \in S
      BY <2>1, <2>2, <3>1, <3>2
    <3>4. Four(batch, x, y, z, w)
      BY <3>3, AppendFour, Zenon
    <3> QED
      BY <3>1, <3>4, Zenon DEF LevelOf, Four
<1>1. /\ Fits(X, n, q, b1, sp) /\ \A x : Got(n, q, batch, x) => Got(n, q, b1, x)
      /\ n \in Dsts(c1) => Got(n, q, b1, one)
  BY SendOne, Zenon
<1> HIDE DEF b1
<1>2. /\ Fits(X, n, q, b2, sp) /\ \A x : Got(n, q, b1, x) => Got(n, q, b2, x)
      /\ n \in Dsts(c1) => Got(n, q, b2, two)
  <2>1. n \in Dsts(c1) /\ two \in DOMAIN sp /\ sp[two] # NoOutput => Got(n, q, b1, sp[two].txn)
    BY <1>1, Zenon
  <2> QED
    BY <1>1, <2>1, SendOne, Zenon
<1> HIDE DEF b2
<1>3. /\ Fits(X, n, q, b3, sp) /\ \A x : Got(n, q, b2, x) => Got(n, q, b3, x)
      /\ n \in Dsts(c2) => Got(n, q, b3, two)
  <2>1. n \in Dsts(c2) /\ two \in DOMAIN sp /\ sp[two] # NoOutput => Got(n, q, b2, sp[two].txn)
    BY <1>1, <1>2, Zenon
  <2> QED
    BY <1>2, <2>1, SendOne, Zenon
<1> HIDE DEF b3
<1>4. /\ Fits(X, n, q, b4, sp) /\ \A x : Got(n, q, b3, x) => Got(n, q, b4, x)
      /\ n \in Dsts(c2) => Got(n, q, b4, one)
  <2>1. n \in Dsts(c2) /\ one \in DOMAIN sp /\ sp[one] # NoOutput => Got(n, q, b3, sp[one].txn)
    BY <1>1, <1>2, <1>3, Zenon
  <2> QED
    BY <1>3, <2>1, SendOne, Zenon
<1> HIDE DEF b4
<1>5. \A x : Got(n, q, batch, x) => Got(n, q, b4, x)
  BY <1>1, <1>2, <1>3, <1>4, Zenon
<1>6. n \in Dsts(c1) \/ n \in Dsts(c2) => Got(n, q, b4, one) /\ Got(n, q, b4, two)
  BY <1>1, <1>2, <1>3, <1>4, Zenon
<1> QED
  BY <1>0, <1>4, <1>5, <1>6, Zenon DEF Reached

LEMMA BatchOfLevels ==
    \A m, cl : ConflictBatch(m, cl, FALSE) = Levels(m, cl[1], cl[2], CommitDepth + 1)
<1> SUFFICES ASSUME NEW m, NEW cl
             PROVE  ConflictBatch(m, cl, FALSE) = Levels(m, cl[1], cl[2], CommitDepth + 1)
  OBVIOUS
<1>1. \A l, s : Side(m, FALSE, l, s) = Rival(m, l, s)
  BY Zenon DEF Side
<1>2. ConflictBatch(m, cl, FALSE) =
        FlattenSeq([i \in 1 .. CommitDepth + 1 |->
            LevelOf(cl[1], cl[2], Side(m, FALSE, i - 1, 1), Side(m, FALSE, i - 1, 2))])
  BY Zenon DEF ConflictBatch, LevelOf
<1>3. \A i : LevelOf(cl[1], cl[2], Side(m, FALSE, i - 1, 1), Side(m, FALSE, i - 1, 2)) = Level(m, cl[1], cl[2], i)
  BY <1>1, Zenon DEF Level
<1>4. [i \in 1 .. CommitDepth + 1 |->
            LevelOf(cl[1], cl[2], Side(m, FALSE, i - 1, 1), Side(m, FALSE, i - 1, 2))] =
      [i \in 1 .. CommitDepth + 1 |-> Level(m, cl[1], cl[2], i)]
  BY <1>3, Zenon
<1> QED
  BY <1>2, <1>4, Zenon DEF Levels

LEMMA LevelsNone == \A m, c1, c2 : Levels(m, c1, c2, 0) = <<>>
<1> SUFFICES ASSUME NEW m, NEW c1, NEW c2 PROVE Levels(m, c1, c2, 0) = <<>>
  OBVIOUS
<1>1. [i \in 1 .. 0 |-> Level(m, c1, c2, i)] = <<>>
  OBVIOUS
<1>2. <<>> \in Seq(Seq(Int))
  BY EmptySeq
<1>3. FlattenSeq(<<>>) = <<>>
  BY <1>2, FlattenSeqProperties, Zenon
<1> QED
  BY <1>1, <1>3 DEF Levels

RivalsOf(m) == {Rival(m, l, s) : l \in Int, s \in {1, 2}}

LEMMA LevelsMore ==
    ASSUME NEW m, NEW c1 \in Clients, NEW c2 \in Clients, NEW k \in Nat
    PROVE  /\ Levels(m, c1, c2, k) \in Seq(Clients \X RivalsOf(m))
           /\ Levels(m, c1, c2, k + 1) = Levels(m, c1, c2, k) \o Level(m, c1, c2, k + 1)
<1> DEFINE R == RivalsOf(m)
           L(i) == Level(m, c1, c2, i)
           S == Clients \X R
           f == [i \in 1 .. k |-> L(i)]
           g == [i \in 1 .. k + 1 |-> L(i)]
<1>1. \A i \in Int : L(i) \in Seq(S)
  <2> SUFFICES ASSUME NEW i \in Int PROVE L(i) \in Seq(S)
    OBVIOUS
  <2>1. Rival(m, i - 1, 1) \in R /\ Rival(m, i - 1, 2) \in R
    BY DEF RivalsOf
  <2> HIDE DEF R
  <2> QED
    BY <2>1 DEF Level, LevelOf
<1>d. /\ Levels(m, c1, c2, k) = FlattenSeq(f)
      /\ Levels(m, c1, c2, k + 1) = FlattenSeq(g)
  BY DEF Levels
<1> HIDE DEF L, S
<1>2. f \in Seq(Seq(S)) /\ Len(f) = k /\ \A i \in 1 .. k : f[i] = L(i)
  BY <1>1
<1> HIDE DEF f
<1>3. g = Append(f, L(k + 1))
  <2> DEFINE r == Append(f, L(k + 1))
  <2>0. L(k + 1) \in Seq(S)
    BY <1>1
  <2>1. /\ r \in Seq(Seq(S)) /\ Len(r) = k + 1 /\ r[k + 1] = L(k + 1)
        /\ \A i \in 1 .. k : r[i] = f[i]
    BY <1>2, <2>0, AppendProperties
  <2> HIDE DEF r
  <2>2. DOMAIN r = 1 .. k + 1 /\ r = [i \in 1 .. k + 1 |-> r[i]]
    BY <2>1
  <2>3. \A i \in 1 .. k + 1 : r[i] = L(i)
    BY <1>2, <2>1
  <2> QED
    BY <2>2, <2>3 DEF r
<1> HIDE DEF g
<1>4. /\ FlattenSeq(f) \in Seq(S)
      /\ FlattenSeq(Append(f, L(k + 1))) = FlattenSeq(f) \o L(k + 1)
  <2>1. L(k + 1) \in Seq(S)
    BY <1>1
  <2> QED
    BY <1>2, <2>1, FlattenSeqProperties, SMTT(30)
<1> QED
  BY <1>d, <1>3, <1>4 DEF L, S

\* All levels, after a batch with which the nodes of both clients have been
\* sent what the rivals of the first level spend.
AllReached(X, n, q, batch, sp, m, c1, c2) ==
    LET all == batch \o Levels(m, c1, c2, CommitDepth + 1)
    IN  /\ Fits(X, n, q, all, sp)
        /\ \A x : Got(n, q, batch, x) => Got(n, q, all, x)
        /\ n \in Dsts(c1) \/ n \in Dsts(c2) =>
              \A s \in {1, 2} : Got(n, q, all, Rival(m, CommitDepth, s))

\* The rivals of conflict m spend source first, and then each other.
RivalChain(X, sp, m, source) ==
    \A l \in 0 .. CommitDepth, s \in {1, 2} :
        /\ Rival(m, l, s) \in X
        /\ sp[Rival(m, l, s)].txn = Below(m, source, l, s)

Regroups(f, g, h) == f \o (g \o h) = (f \o g) \o h

LEMMA Regroup ==
    ASSUME NEW S, NEW f \in Seq(S), NEW g \in Seq(S), NEW h \in Seq(S)
    PROVE  Regroups(f, g, h)
BY SMTT(30) DEF Regroups

LEMMA LevelAt ==
    \A m, c1, c2 : \A k \in Nat :
        Level(m, c1, c2, k + 1) = LevelOf(c1, c2, Rival(m, k, 1), Rival(m, k, 2))
BY DEF Level

LEMMA LevelOfSeq ==
    ASSUME NEW S, NEW c1, NEW c2, NEW one, NEW two,
           <<c1, one>> \in S, <<c1, two>> \in S, <<c2, two>> \in S, <<c2, one>> \in S
    PROVE  LevelOf(c1, c2, one, two) \in Seq(S)
BY DEF LevelOf

LEMMA SendLevels ==
    ASSUME NEW X, NEW n, NEW q, NEW batch, NEW sp, NEW c1 \in Clients, NEW c2 \in Clients,
           NEW m, NEW source, Fits(X, n, q, batch, sp),
           n \in Dsts(c1) \/ n \in Dsts(c2) => Got(n, q, batch, source),
           RivalChain(X, sp, m, source)
    PROVE  AllReached(X, n, q, batch, sp, m, c1, c2)
<1> DEFINE B(k) == batch \o Levels(m, c1, c2, k)
           Top(k, s) == Below(m, source, k, s)
           P(k) == /\ Fits(X, n, q, B(k), sp)
                   /\ \A x : Got(n, q, batch, x) => Got(n, q, B(k), x)
                   /\ n \in Dsts(c1) \/ n \in Dsts(c2) =>
                        Got(n, q, B(k), Top(k, 1)) /\ Got(n, q, B(k), Top(k, 2))
           Q == {k \in Nat : k <= CommitDepth + 1 => P(k)}
<1>0. CommitDepth \in Nat
  BY SizesAssumption, Zenon
<1>1. batch \in Seq(Clients \X X)
  BY Zenon DEF Fits
<1>2. 0 \in Q
  <2>1. B(0) = batch
    <3>1. PICK e : e = Levels(m, c1, c2, 0)
      BY Zenon
    <3>2. e = <<>>
      BY <3>1, LevelsNone, Zenon
    <3>3. batch \o e = batch
      BY <1>1, <3>2
    <3> QED
      BY <3>1, <3>3, Zenon
  <2> QED
    BY <2>1, BelowFirst, Zenon
<1>3. ASSUME NEW k \in Nat, k \in Q PROVE k + 1 \in Q
  <2>0. k + 1 \in Nat
    OBVIOUS
  <2> SUFFICES ASSUME k + 1 <= CommitDepth + 1 PROVE P(k + 1)
    BY <2>0, Zenon
  <2>2. k \in 0 .. CommitDepth /\ k + 1 # 0 /\ k + 1 - 1 = k /\ k <= CommitDepth + 1
    BY <1>0
  <2>1. P(k)
    BY <1>3, <2>2, Zenon
  <2>3. PICK one, two : one = Rival(m, k, 1) /\ two = Rival(m, k, 2)
    BY Zenon
  <2>4. /\ one \in X /\ two \in X
        /\ sp[one].txn = Top(k, 1) /\ sp[two].txn = Top(k, 2)
        /\ Top(k + 1, 1) = one /\ Top(k + 1, 2) = two
    <3>1. \A s \in {1, 2} : Rival(m, k, s) \in X /\ sp[Rival(m, k, s)].txn = Top(k, s)
      BY <2>2, Zenon DEF RivalChain
    <3>2. Top(k + 1, 1) = one /\ Top(k + 1, 2) = two
      BY <2>3, BelowNext, Zenon
    <3> HIDE DEF Top
    <3> QED
      BY <2>3, <3>1, <3>2, Zenon
  <2>5. B(k + 1) = B(k) \o LevelOf(c1, c2, one, two)
    <3> DEFINE R == RivalsOf(m)
               S == (Clients \X X) \cup (Clients \X R)
               L == Level(m, c1, c2, k + 1)
    <3>1. Levels(m, c1, c2, k) \in Seq(Clients \X R)
          /\ Levels(m, c1, c2, k + 1) = Levels(m, c1, c2, k) \o L
      BY LevelsMore, Zenon
    <3>2. L = LevelOf(c1, c2, one, two)
      BY <2>3, LevelAt, Zenon
    <3>3. L \in Seq(Clients \X X)
      <4>1. <<c1, one>> \in Clients \X X /\ <<c1, two>> \in Clients \X X
            /\ <<c2, two>> \in Clients \X X /\ <<c2, one>> \in Clients \X X
        BY <2>4, Zenon
      <4> QED
        BY <3>2, <4>1, LevelOfSeq, Zenon
    <3> HIDE DEF R, L
    <3>4. batch \in Seq(S) /\ Levels(m, c1, c2, k) \in Seq(S) /\ L \in Seq(S)
      <4>1. Clients \X X \subseteq S /\ Clients \X R \subseteq S
        BY Zenon
      <4> HIDE DEF S
      <4> QED
        BY <1>1, <3>1, <3>3, <4>1, SeqWider, Zenon
    <3> HIDE DEF S
    <3>5. batch \o (Levels(m, c1, c2, k) \o L) = (batch \o Levels(m, c1, c2, k)) \o L
      <4>1. Regroups(batch, Levels(m, c1, c2, k), L)
        BY <3>4, Regroup, Zenon
      <4> QED
        BY <4>1, Zenon DEF Regroups
    <3> QED
      BY <3>1, <3>2, <3>5, Zenon
  <2>6. \A c \in {c1, c2}, t \in {one, two} :
          n \in Dsts(c) /\ t \in DOMAIN sp /\ sp[t] # NoOutput => Got(n, q, B(k), sp[t].txn)
    <3> HIDE DEF B, Top
    <3> QED
      BY <2>1, <2>4, Zenon
  <2>7. Fits(X, n, q, B(k), sp) /\ \A x : Got(n, q, batch, x) => Got(n, q, B(k), x)
    BY <2>1, Zenon
  <2> HIDE DEF B, Top
  <2>8. /\ Fits(X, n, q, B(k + 1), sp)
        /\ \A x : Got(n, q, B(k), x) => Got(n, q, B(k + 1), x)
        /\ n \in Dsts(c1) \/ n \in Dsts(c2) =>
              \A t \in {one, two} : Got(n, q, B(k + 1), t)
    <3>1. PICK b : b = B(k)
      OBVIOUS
    <3>2. Reached(X, n, q, b, sp, c1, c2, one, two)
      BY <2>4, <2>6, <2>7, <3>1, SendLevel, Zenon
    <3> QED
      BY <2>5, <3>1, <3>2, Zenon DEF Reached
  <2>9. \A x : Got(n, q, batch, x) => Got(n, q, B(k + 1), x)
    BY <2>7, <2>8, Zenon
  <2>10. n \in Dsts(c1) \/ n \in Dsts(c2) =>
            Got(n, q, B(k + 1), Top(k + 1, 1)) /\ Got(n, q, B(k + 1), Top(k + 1, 2))
    BY <2>4, <2>8, Zenon
  <2> QED
    BY <2>8, <2>9, <2>10, Zenon
<1> HIDE DEF Q
<1>4. CommitDepth + 1 \in Q
  BY <1>0, <1>2, <1>3, SetInduction, SMTT(30)
<1>5. P(CommitDepth + 1)
  <2>1. CommitDepth + 1 <= CommitDepth + 1
    BY <1>0
  <2> QED
    BY <1>4, <2>1, Zenon DEF Q
<1>6. \A s \in {1, 2} : Top(CommitDepth + 1, s) = Rival(m, CommitDepth, s)
  BY <1>0, BelowNext, Zenon
<1> HIDE DEF Top
<1> QED
  BY <1>5, <1>6, Zenon DEF AllReached

\* A conflict, after which the nodes of its clients have been sent all of it.
LEMMA ConflictGiven ==
    ASSUME IInv, Given, NEW u, NEW grants, Conflict(fights, u, grants, FALSE), chain' = chain,
           fights' = fights + 1, utxos' = utxos, singles' = singles,
           u.clients[1] \in Clients, u.clients[2] \in Clients,
           \/ u \in conflicting_utxos /\ grants = {}
           \/ u.txn = Grant(fights) /\ grants = {Grant(fights)}
    PROVE  Given'
<1> DEFINE X == DOMAIN spends' \cup Setups
           c1 == u.clients[1]
           c2 == u.clients[2]
           G == GrantBatch(u.clients, grants)
           all == G \o Levels(fights, c1, c2, CommitDepth + 1)
<1>0. Setups' = Setups
  BY SetupsSame, Zenon
<1>1. /\ Grant(fights) \notin Made /\ \A l, s : Rival(fights, l, s) \notin Made
      /\ DOMAIN spends \subseteq Made
  BY NextConflict, SMTT(30) DEF IInv, Typed
<1>2. \A g \in grants : g.kind = "grant" /\ g \notin Made
  <2>1. \A g \in grants : g = Grant(fights)
    <3>1. CASE grants = {}
      BY <3>1, Zenon
    <3>2. CASE grants = {Grant(fights)}
      BY <3>2, Zenon
    <3> QED
      BY <3>1, <3>2, Zenon
  <2>2. PICK f : f = fights
    BY Zenon
  <2>3. Grant(f).kind = "grant"
    BY GrantKind, Zenon
  <2> QED
    BY <1>1, <2>1, <2>2, <2>3, Zenon
<1>3. /\ \A t : t \in DOMAIN spends' <=> t \in DOMAIN spends \/ t \in grants \/ OfConflict(t)
      /\ \A t : OfConflict(t) => spends'[t] = Output(Spent(u, t), "paid", Pay)
      /\ \A t \in grants : spends'[t] = NoOutput
      /\ \A t \in DOMAIN spends : spends'[t] = spends[t]
      /\ conflicting_utxos' = (conflicting_utxos \ {u})
            \cup {[txn |-> Rival(fights, CommitDepth, side), clients |-> u.clients] : side \in {1, 2}}
  BY <1>1, <1>2, ConflictEffect, Zenon
<1>4. RivalChain(X, spends', fights, u.txn)
  <2> SUFFICES ASSUME NEW l \in 0 .. CommitDepth, NEW s \in {1, 2}
               PROVE  /\ Rival(fights, l, s) \in X
                      /\ spends'[Rival(fights, l, s)].txn = Below(fights, u.txn, l, s)
    BY Zenon DEF RivalChain
  <2>1. OfConflict(Rival(fights, l, s))
    BY Zenon DEF OfConflict
  <2>2. spends'[Rival(fights, l, s)].txn = Spent(u, Rival(fights, l, s))
    <3>1. PICK r, o : r = Rival(fights, l, s) /\ o = Spent(u, r)
      BY Zenon
    <3>2. spends'[r] = Output(o, "paid", Pay)
      BY <1>3, <2>1, <3>1, Zenon
    <3>3. Output(o, "paid", Pay).txn = o
      BY OutputFields, Zenon
    <3> QED
      BY <3>1, <3>2, <3>3, Zenon
  <2>3. Rival(fights, l, s) \in X
    BY <1>3, <2>1, Zenon
  <2> QED
    BY <2>2, <2>3, SpentByRival, Zenon
<1>5. \A n \in Nodes : given'[n] = given[n] \o Share(n, all)
  <2>1. ConflictBatch(fights, u.clients, FALSE) = Levels(fights, c1, c2, CommitDepth + 1)
    BY BatchOfLevels, Zenon
  <2> QED
    BY <2>1, Zenon DEF Conflict, Send
<1>6. given' = [n \in Nodes |-> given'[n]]
  BY Zenon DEF Conflict, Send
<1>7. ASSUME NEW n \in Nodes
      PROVE  /\ Fits(X, n, given[n], G, spends')
             /\ \A x : Has(given[n], x) => Got(n, given[n], G, x)
             /\ n \in Dsts(c1) \/ n \in Dsts(c2) => Got(n, given[n], G, u.txn)
  <2>1. given[n] \in Seq(X) /\ AfterInputs(given[n], spends')
    <3>1. given[n] \in Seq(DOMAIN spends \cup Setups) /\ AfterInputs(given[n], spends)
      BY SMTT(30) DEF Given
    <3>2. DOMAIN spends \cup Setups \subseteq X
      BY <1>3, Zenon
    <3>3. \A t \in DOMAIN spends \cup Setups :
            t \in DOMAIN spends' => t \in DOMAIN spends /\ spends'[t] = spends[t]
      <4>1. \A t \in Setups : t \notin grants /\ ~ OfConflict(t)
        BY <1>2, SetupsFinite, ConflictKind, Zenon
      <4>2. \A t \in DOMAIN spends : spends'[t] = spends[t]
        BY <1>3, Zenon
      <4>3. \A t \in Setups : t \in DOMAIN spends' => t \in DOMAIN spends
        BY <1>3, <4>1, Zenon
      <4> QED
        BY <4>2, <4>3, Zenon
    <3>4. given[n] \in Seq(X)
      BY <3>1, <3>2, SeqWider, Zenon
    <3>5. AfterInputs(given[n], spends')
      <4>1. PICK S, more : S = DOMAIN spends \cup Setups /\ more = spends'
        BY Zenon
      <4>2. given[n] \in Seq(S) /\ AfterInputs(given[n], spends)
        BY <3>1, <4>1, Zenon
      <4>3. Agree(S, spends, more)
        BY <3>3, <4>1, Zenon DEF Agree
      <4>4. AfterInputs(given[n], more)
        BY <4>2, <4>3, AfterStays, Zenon
      <4> QED
        BY <4>1, <4>4, Zenon
    <3> QED
      BY <3>4, <3>5, Zenon
  <2> HIDE DEF X
  <2>2. /\ Fits(X, n, given[n], <<>>, spends')
        /\ \A x : Has(given[n], x) => Got(n, given[n], <<>>, x)
    BY <2>1, SendNone, Zenon
  <2>3. CASE u \in conflicting_utxos /\ grants = {}
    <3>1. G = <<>>
      BY <2>3, Zenon DEF GrantBatch
    <3>2. n \in Dsts(c1) \/ n \in Dsts(c2) => Has(given[n], u.txn)
      BY <2>3 DEF Given
    <3> QED
      BY <2>2, <3>1, <3>2, Zenon
  <2>4. CASE u.txn = Grant(fights) /\ grants = {Grant(fights)}
    <3>1. PICK g : g = Grant(fights)
      OBVIOUS
    <3> DEFINE b1 == Append(<<>>, <<c1, g>>)
               b2 == Append(b1, <<c2, g>>)
    <3>2. G = b2
      <4>1. (CHOOSE h \in grants : TRUE) = g
        BY <2>4, <3>1, SMTT(30)
      <4> QED
        BY <2>4, <4>1 DEF GrantBatch
    <3>3. g \in X /\ spends'[g] = NoOutput /\ u.txn = g
      BY <1>3, <2>4, <3>1, Zenon DEF X
    <3> HIDE DEF c1, c2, G
    <3>4. c1 \in Clients /\ c2 \in Clients
      BY DEF c1, c2
    <3>5. /\ Fits(X, n, given[n], b1, spends')
          /\ \A x : Got(n, given[n], <<>>, x) => Got(n, given[n], b1, x)
          /\ n \in Dsts(c1) => Got(n, given[n], b1, g)
      BY <2>2, <3>3, <3>4, SendOne, Zenon
    <3> HIDE DEF b1
    <3>6. /\ Fits(X, n, given[n], b2, spends')
          /\ \A x : Got(n, given[n], b1, x) => Got(n, given[n], b2, x)
          /\ n \in Dsts(c2) => Got(n, given[n], b2, g)
      BY <3>3, <3>4, <3>5, SendOne, Zenon
    <3> HIDE DEF b2
    <3> QED
      BY <2>2, <3>2, <3>3, <3>5, <3>6, Zenon
  <2> QED
    BY <2>3, <2>4, Zenon
<1> HIDE DEF X, G, c1, c2
<1>8. c1 \in Clients /\ c2 \in Clients
  BY SMTT(30) DEF c1, c2
<1>9. ASSUME NEW n \in Nodes
      PROVE  /\ given'[n] \in Seq(X) /\ AfterInputs(given'[n], spends')
             /\ \A x : Has(given[n], x) => Has(given'[n], x)
             /\ n \in Dsts(c1) \/ n \in Dsts(c2) =>
                    \A s \in {1, 2} : Has(given'[n], Rival(fights, CommitDepth, s))
  <2>1. /\ Fits(X, n, given[n], all, spends')
        /\ \A x : Got(n, given[n], G, x) => Got(n, given[n], all, x)
        /\ n \in Dsts(c1) \/ n \in Dsts(c2) =>
              \A s \in {1, 2} : Got(n, given[n], all, Rival(fights, CommitDepth, s))
    <3>1. AllReached(X, n, given[n], G, spends', fights, c1, c2)
      BY <1>4, <1>7, <1>8, SendLevels, Zenon
    <3> QED
      BY <3>1, Zenon DEF AllReached
  <2> HIDE DEF all
  <2> QED
    BY <1>5, <1>7, <2>1, Zenon DEF Fits, Got
<1>10. \A n \in Nodes : \A d \in Clients : \A o \in utxos'[d] :
          n \in Dsts(d) => Has(given'[n], o.txn)
  BY <1>9, SMTT(30) DEF Given
<1>11. ASSUME NEW v \in conflicting_utxos'
       PROVE  /\ v.clients[1] \in Clients /\ v.clients[2] \in Clients
              /\ \A n \in Nodes : \A k \in {1, 2} :
                    n \in Dsts(v.clients[k]) => Has(given'[n], v.txn)
  <2>1. CASE v \in conflicting_utxos
    BY <1>9, <2>1, SMTT(30) DEF Given
  <2>2. ASSUME NEW s \in {1, 2}, v = [txn |-> Rival(fights, CommitDepth, s), clients |-> u.clients]
        PROVE  /\ v.clients[1] \in Clients /\ v.clients[2] \in Clients
               /\ \A n \in Nodes : \A k \in {1, 2} :
                     n \in Dsts(v.clients[k]) => Has(given'[n], v.txn)
    BY <1>9, <2>2, Zenon DEF c1, c2
  <2> QED
    BY <1>3, <2>1, <2>2, SMTT(30)
<1>12. \A n \in Nodes : given'[n] \in Seq(DOMAIN spends' \cup Setups')
  BY <1>0, <1>9, Zenon DEF X
<1> QED
  BY <1>6, <1>9, <1>10, <1>11, <1>12 DEF Given

LEMMA NextGiven == IInv /\ Given /\ [Next]_vars => Given'
<1> SUFFICES ASSUME IInv, Given, [Next]_vars PROVE Given'
  OBVIOUS
<1>1. ASSUME UNCHANGED <<chain, outputs>> PROVE Given'
  <2>1. Setups' = Setups
    BY <1>1, SetupsSame, Zenon
  <2> QED
    BY <1>1, <2>1 DEF Given, outputs
<1>2. CASE wait_next \/ batch_sent
  BY <1>1, <1>2 DEF wait_next, batch_sent
<1>3. Single(singles) \notin DOMAIN spends /\ Single(singles).kind # "setup"
  <2>1. Single(singles) \notin Made
    <3>1. \A k \in 0 .. singles - 1 : k # singles
      BY SMTT(30) DEF IInv, Typed
    <3> QED
      BY <3>1, TxnFields DEF Made
  <2> QED
    BY <2>1, TxnFields DEF IInv, Typed
<1>4. CASE generate_chain_replication
  <2>1. PICK c \in Clients : Send(<<<<c, Single(singles)>>>>)
    BY <1>4, SMTT(30) DEF generate_chain_replication
  <2>2. /\ DOMAIN spends' = DOMAIN spends \cup {Single(singles)}
        /\ \A t \in DOMAIN spends : spends'[t] = spends[t]
        /\ spends'[Single(singles)] = NoOutput
        /\ UNCHANGED <<chain, utxos, conflicting_utxos>>
    BY <1>3, <1>4, SMTT(30) DEF generate_chain_replication
  <2> QED
    BY <1>3, <2>1, <2>2, SingleGiven
<1>5. CASE generate_bitcoin \/ generate_avalanche
  <2>0. PICK c \in Clients : \E u \in utxos[c] : Spend(c, u)
    BY <1>5 DEF generate_bitcoin, generate_avalanche
  <2>1. PICK u \in utxos[c] : Spend(c, u)
    BY <2>0, SMTT(30)
  <2>2. /\ DOMAIN spends' = DOMAIN spends \cup {Single(singles)}
        /\ \A t \in DOMAIN spends : spends'[t] = spends[t]
        /\ spends'[Single(singles)] = u
        /\ UNCHANGED <<chain, conflicting_utxos>> /\ Send(<<<<c, Single(singles)>>>>)
    BY <1>3, <2>1 DEF Spend
  <2>3. \A n \in Nodes : n \in Dsts(c) => Has(given[n], u.txn)
    BY DEF Given
  <2>4. \A d \in Clients : \A o \in utxos'[d] :
          o \in utxos[d] \/ (d = c /\ o.txn = Single(singles))
    BY <2>1, SpentForTxn DEF Spend, Taken, IInv, Typed
  <2> QED
    BY <1>3, <2>2, <2>3, <2>4, SingleGiven, Zenon
<1>6. CASE generate_conflict
  <2>1. /\ fights' = fights + 1 /\ singles' = singles /\ chain' = chain /\ utxos' = utxos
    BY <1>6 DEF generate_conflict
  <2>2. PICK same \in BOOLEAN :
          /\ SameReceivers(same)
          /\ \/ \E u \in conflicting_utxos : Conflict(fights, u, {}, same)
             \/ \E c \in Clients :
                  Conflict(fights, [txn |-> Grant(fights), clients |-> <<c, (c + 1) % NumClients>>],
                           {Grant(fights)}, same)
    BY <1>6, Zenon DEF generate_conflict
  <2>3. same = FALSE
    BY <2>2, ReceiversDiffer, Zenon
  <2>4. CASE \E u \in conflicting_utxos : Conflict(fights, u, {}, FALSE)
    <3>1. PICK u \in conflicting_utxos : Conflict(fights, u, {}, FALSE)
      BY <2>4, Zenon
    <3>2. u.clients[1] \in Clients /\ u.clients[2] \in Clients
      BY DEF Given
    <3> QED
      BY <2>1, <3>1, <3>2, ConflictGiven, Zenon
  <2>5. CASE \E c \in Clients :
               Conflict(fights, [txn |-> Grant(fights), clients |-> <<c, (c + 1) % NumClients>>],
                        {Grant(fights)}, FALSE)
    <3>1. PICK c \in Clients :
            Conflict(fights, [txn |-> Grant(fights), clients |-> <<c, (c + 1) % NumClients>>],
                     {Grant(fights)}, FALSE)
      BY <2>5, Zenon
    <3>2. PICK u : u = [txn |-> Grant(fights), clients |-> <<c, (c + 1) % NumClients>>]
      BY Zenon
    <3>3. (c + 1) % NumClients \in Clients
      BY ClientsAssumption DEF Clients
    <3>4. u.clients[1] \in Clients /\ u.clients[2] \in Clients /\ u.txn = Grant(fights)
      BY <3>2, <3>3
    <3>5. Conflict(fights, u, {Grant(fights)}, FALSE)
      BY <3>1, <3>2, Zenon
    <3> QED
      BY <2>1, <3>4, <3>5, ConflictGiven, Zenon
  <2> QED
    BY <2>2, <2>3, <2>4, <2>5, Zenon
<1>7. ASSUME NEW t \in DOMAIN spends,
             \/ txn_committed_chain_replication(t)
             \/ \E node \in Nodes : txn_committed_bitcoin(node, t)
             \/ txn_committed_avalanche(t)
      PROVE  Given'
  BY <1>1, <1>7, Zenon DEF txn_committed_chain_replication, txn_committed_bitcoin, txn_committed_avalanche
<1>8. CASE UNCHANGED vars
  BY <1>1, <1>8 DEF vars
<1> QED
  BY <1>2, <1>4, <1>5, <1>6, <1>7, <1>8, SMTT(30) DEF Next

\* Every node that is sent a transaction was sent the one that its input comes
\* from before it, whatever txn_span makes of the nodes of each client: the
\* batches of next_txn_batch are sent in the order of their making, and a
\* conflict's grant and levels to both of its clients.
THEOREM InputsAreSentFirst == Spec => []SentAfterInputs
<1>1. Given => SentAfterInputs
  BY DEF Given, AfterInputs, SentAfterInputs
<1> QED
  BY InitIInv, NextIInv, InitGiven, NextGiven, <1>1, PTL DEF Spec
=============================================================================
