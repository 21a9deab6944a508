--------------------- MODULE CoresAndReplication_proofs ---------------------
(***************************************************************************)
(* Proofs about two parts that have nothing in common but their lemmas on  *)
(* sums and sequences: the cores that the nodes share (VCores) and the     *)
(* chain along which they replicate blocks (ChainReplication).             *)
(***************************************************************************)
EXTENDS VCores, ChainReplication, InductionLemmas

----------------------------------------------------------------------------
(***************************************************************************)
(* Proofs about VCores, for every set of tasks, number of cores and bound  *)
(* on the clock: the counts of the semaphore and of the word agree with    *)
(* what the tasks are doing, no window is negative, the account claims no  *)
(* more than max_cores cores, and what get_unused derives from it is off   *)
(* by no more than the word moved while it was read.                       *)
(***************************************************************************)

\* Tasks that hold a permit.
Holders == {t \in Tasks : pc[t] # "idle"}

\* TypeOK without the bound on permits, which needs the count of holders,
\* and without the reader, which writes nothing the tasks read.
CoresTyped ==
    /\ permits \in Nat
    /\ last_wakeup \in Word
    /\ utilization \in Nat
    /\ clock \in Nat
    /\ pc \in [Tasks -> Places]
    /\ past \in [Tasks -> Word]
    /\ now \in [Tasks -> Nat]
    /\ window_util \in [Tasks -> Nat]

\* The word, and every time a task holds, come from the past; and a task
\* reads the clock after the word, so the exchange it tries goes forward.
Ordered ==
    /\ last_wakeup.ts <= clock
    /\ \A t \in Tasks : past[t].ts <= clock /\ now[t] <= clock
    /\ \A t \in Tasks : pc[t] \in {"acq_cas", "rel_cas"} => past[t].ts <= now[t]

Counts ==
    /\ permits + Cardinality(Holders) = max_cores
    /\ last_wakeup.tickets = Cardinality(Counted)

CoresInv == CoresTyped /\ Ordered /\ Counts

----------------------------------------------------------------------------
\* Both sets of tasks are finite, and those counted hold a permit.
LEMMA TaskSets ==
    /\ IsFiniteSet(Holders) /\ IsFiniteSet(Counted)
    /\ Cardinality(Holders) \in Nat /\ Cardinality(Counted) \in Nat
    /\ Cardinality(Counted) <= Cardinality(Holders)
<1>1. Holders \subseteq Tasks /\ Counted \subseteq Holders
  BY DEF Holders, Counted
<1>2. IsFiniteSet(Holders)
  BY <1>1, TasksAssumption, FS_Subset
<1> QED
  BY <1>1, <1>2, FS_Subset, FS_CardinalityType

\* A task that enters or leaves a set changes its cardinality by one.
LEMMA CountOne ==
    ASSUME NEW S, IsFiniteSet(S), NEW x
    PROVE  /\ x \notin S => Cardinality(S \cup {x}) = Cardinality(S) + 1
           /\ x \in S => Cardinality(S \ {x}) = Cardinality(S) - 1
BY FS_AddElement, FS_RemoveElement

\* A window is a span of time multiplied by a number of cores.
LEMMA Product ==
    ASSUME NEW a \in Nat, NEW b \in Nat
    PROVE  a * b \in Nat
OBVIOUS

\* The invariant holds for a new VCoreGroup.
LEMMA InitCoresInv == CoresInit => CoresInv
<1> SUFFICES ASSUME CoresInit PROVE CoresInv
  OBVIOUS
<1>1. Holders = {} /\ Counted = {}
  BY DEF CoresInit, Holders, Counted
<1>2. Cardinality({}) = 0
  BY FS_EmptySet
<1>3. CoresTyped /\ Ordered
  BY CoresAssumption DEF CoresInit, CoresTyped, Ordered, Word, Places
<1>4. Counts
  BY <1>1, <1>2, CoresAssumption DEF CoresInit, Counts
<1> QED
  BY <1>3, <1>4 DEF CoresInv

----------------------------------------------------------------------------
\* How a task that goes on to its next place changes the two sets.
LEMMA GotoSets ==
    ASSUME CoresTyped, NEW t \in Tasks, NEW from, NEW to, Goto(t, from, to)
    PROVE  /\ Holders' = IF to = "idle" THEN Holders \ {t} ELSE Holders \cup {t}
           /\ t \in Holders <=> from # "idle"
           /\ Counted' = IF to \in {"acq_add", "running", "rel_load", "rel_now", "rel_cas"}
                         THEN Counted \cup {t} ELSE Counted \ {t}
           /\ t \in Counted <=> from \in {"acq_add", "running", "rel_load", "rel_now", "rel_cas"}
BY DEF CoresTyped, Goto, Holders, Counted

\* A step that keeps a task on its side of both the permit and the exchange
\* keeps the counts.
LEMMA SameCounts ==
    ASSUME CoresInv, NEW t \in Tasks, NEW from, NEW to, Goto(t, from, to),
           from # "idle", to # "idle",
           from \in {"acq_add", "running", "rel_load", "rel_now", "rel_cas"}
             <=> to \in {"acq_add", "running", "rel_load", "rel_now", "rel_cas"},
           UNCHANGED <<permits, last_wakeup>>
    PROVE  Counts'
<1>1. CoresTyped
  BY DEF CoresInv
<1>2. Holders' = Holders /\ Counted' = Counted
  BY <1>1, GotoSets
<1> QED
  BY <1>2 DEF CoresInv, Counts

\* Loading the word preserves the invariant.
LEMMA LoadStep ==
    ASSUME CoresInv, NEW t \in Tasks,
           Load(t, "acq_load", "acq_now") \/ Load(t, "rel_load", "rel_now")
    PROVE  CoresInv'
<1>1. CoresTyped'
  BY DEF CoresInv, CoresTyped, Load, Goto, Places, Acquiring, Releasing
<1>2. Ordered'
  BY DEF CoresInv, CoresTyped, Ordered, Load, Goto, Word
<1>3. Counts'
  BY SameCounts DEF Load
<1> QED
  BY <1>1, <1>2, <1>3 DEF CoresInv

\* Reading the clock preserves the invariant: what was read of the word is
\* older.
LEMMA ReadClockStep ==
    ASSUME CoresInv, NEW t \in Tasks,
           ReadClock(t, "acq_now", "acq_cas") \/ ReadClock(t, "rel_now", "rel_cas")
    PROVE  CoresInv'
<1>1. CoresTyped'
  BY DEF CoresInv, CoresTyped, ReadClock, Goto, Places, Acquiring, Releasing
<1>2. Ordered'
  BY DEF CoresInv, CoresTyped, Ordered, ReadClock, Goto, Word
<1>3. Counts'
  BY SameCounts DEF ReadClock
<1> QED
  BY <1>1, <1>2, <1>3 DEF CoresInv

\* A failed exchange preserves the invariant: the clock is read again.
LEMMA ExchangeFailsStep ==
    ASSUME CoresInv, NEW t \in Tasks,
           ExchangeFails(t, "acq_cas", "acq_now") \/ ExchangeFails(t, "rel_cas", "rel_now")
    PROVE  CoresInv'
<1>1. CoresTyped'
  BY DEF CoresInv, CoresTyped, ExchangeFails, Goto, Places, Acquiring, Releasing
<1>2. Ordered'
  BY DEF CoresInv, CoresTyped, Ordered, ExchangeFails, Goto, Word
<1>3. Counts'
  BY SameCounts DEF ExchangeFails
<1> QED
  BY <1>1, <1>2, <1>3 DEF CoresInv

\* Adding the window, and dropping the guard, preserve the invariant; after
\* its exchange a task that releases is no longer counted.
LEMMA AddWindowStep ==
    ASSUME CoresInv, NEW t \in Tasks,
           \/ AddWindow(t, "acq_add", "running")
           \/ AddWindow(t, "rel_add", "rel_permit")
           \/ DropGuard(t)
    PROVE  CoresInv'
<1>1. utilization' \in Nat /\ window_util' \in [Tasks -> Nat]
  BY DEF CoresInv, CoresTyped, AddWindow, DropGuard
<1>2. CoresTyped'
  BY <1>1 DEF CoresInv, CoresTyped, AddWindow, DropGuard, Goto, Word, Places, Acquiring, Releasing
<1>3. Ordered'
  BY DEF CoresInv, CoresTyped, Ordered, AddWindow, DropGuard, Goto
<1>4. Counts'
  BY SameCounts DEF AddWindow, DropGuard
<1> QED
  BY <1>2, <1>3, <1>4 DEF CoresInv

\* The exchange moves the task across the count and the tickets with it; the
\* word is what the task read, so the tickets it adds to or takes from are
\* the current ones, and one that releases finds itself among them.
LEMMA ExchangeOkStep ==
    ASSUME CoresInv, NEW t \in Tasks,
           \/ ExchangeOk(t, "acq_cas", "acq_add", past[t].tickets + 1)
           \/ ExchangeOk(t, "rel_cas", "rel_add", past[t].tickets - 1)
    PROVE  CoresInv'
<1>0. CoresTyped /\ Ordered /\ Counts
  BY DEF CoresInv
<1>1. /\ IsFiniteSet(Counted) /\ Cardinality(Counted) \in Nat
      /\ last_wakeup.tickets = Cardinality(Counted)
  BY <1>0, TaskSets DEF Counts
<1>2. /\ last_wakeup = past[t] /\ last_wakeup'.ts = now[t] /\ past[t].ts <= now[t]
      /\ UNCHANGED <<permits, utilization, clock, past, now>>
      /\ window_util' = [window_util EXCEPT
                           ![t] = (now[t] - past[t].ts) * past[t].tickets]
  BY <1>0 DEF Ordered, ExchangeOk, Goto
<1>3. (now[t] - past[t].ts) * past[t].tickets \in Nat
  <2>1. now[t] - past[t].ts \in Nat /\ past[t].tickets \in Nat
    BY <1>0, <1>2 DEF CoresTyped, Word
  <2> QED
    BY <2>1, Product
<1>4. window_util' \in [Tasks -> Nat]
  BY <1>0, <1>2, <1>3 DEF CoresTyped
<1>5. Ordered'
  BY <1>0, <1>2 DEF Ordered, CoresTyped, ExchangeOk, Goto
<1>6. CASE ExchangeOk(t, "acq_cas", "acq_add", past[t].tickets + 1)
  <2>1. /\ Holders' = Holders /\ Counted' = Counted \cup {t} /\ t \notin Counted
    BY <1>0, <1>6, GotoSets DEF ExchangeOk
  <2>2. Cardinality(Counted)' = Cardinality(Counted) + 1
    BY <1>1, <2>1, CountOne
  <2>3. last_wakeup' = [ts |-> now[t], tickets |-> Cardinality(Counted) + 1]
    BY <1>1, <1>2, <1>6 DEF ExchangeOk
  <2>4. Counts'
    BY <1>0, <1>2, <2>1, <2>2, <2>3 DEF Counts
  <2>5. CoresTyped'
    BY <1>0, <1>1, <1>2, <1>4, <1>6, <2>3 DEF CoresTyped, Word, ExchangeOk, Goto, Places,
                                             Acquiring, Releasing
  <2> QED
    BY <1>5, <2>4, <2>5 DEF CoresInv
<1>7. CASE ExchangeOk(t, "rel_cas", "rel_add", past[t].tickets - 1)
  <2>1. /\ Holders' = Holders /\ Counted' = Counted \ {t} /\ t \in Counted
    BY <1>0, <1>7, GotoSets DEF ExchangeOk
  <2>2. Cardinality(Counted)' = Cardinality(Counted) - 1
    BY <1>1, <2>1, CountOne
  <2>3. Cardinality(Counted) - 1 \in Nat
    <3>1. IsFiniteSet(Counted')
      BY <1>1, <2>1, FS_Subset
    <3> QED
      BY <2>2, <3>1, FS_CardinalityType
  <2>4. last_wakeup' = [ts |-> now[t], tickets |-> Cardinality(Counted) - 1]
    BY <1>1, <1>2, <1>7 DEF ExchangeOk
  <2>5. Counts'
    BY <1>0, <1>2, <2>1, <2>2, <2>4 DEF Counts
  <2>6. CoresTyped'
    BY <1>0, <1>2, <1>4, <1>7, <2>3, <2>4 DEF CoresTyped, Word, ExchangeOk, Goto, Places,
                                             Acquiring, Releasing
  <2> QED
    BY <1>5, <2>5, <2>6 DEF CoresInv
<1> QED
  BY <1>6, <1>7

\* Taking a permit and giving it back preserve the invariant.
LEMMA PermitStep ==
    ASSUME CoresInv, NEW t \in Tasks, TakePermit(t) \/ ReturnPermit(t)
    PROVE  CoresInv'
<1>0. CoresTyped /\ Ordered /\ Counts
  BY DEF CoresInv
<1>1. IsFiniteSet(Holders) /\ Cardinality(Holders) \in Nat
  BY TaskSets
<1>2. CoresTyped' /\ Ordered'
  <2>1. CoresTyped'
    BY <1>0 DEF CoresTyped, TakePermit, ReturnPermit, Goto, Places, Acquiring, Releasing
  <2>2. Ordered'
    BY <1>0 DEF CoresTyped, Ordered, TakePermit, ReturnPermit, Goto
  <2> QED
    BY <2>1, <2>2
<1>3. CASE TakePermit(t)
  <2>1. /\ Holders' = Holders \cup {t} /\ t \notin Holders
        /\ Counted' = Counted
    BY <1>0, <1>3, GotoSets DEF TakePermit
  <2>2. Cardinality(Holders)' = Cardinality(Holders) + 1
    BY <1>1, <2>1, CountOne
  <2>3. Counts'
    BY <1>0, <1>1, <1>3, <2>1, <2>2 DEF Counts, CoresTyped, TakePermit
  <2> QED
    BY <1>2, <2>3 DEF CoresInv
<1>4. CASE ReturnPermit(t)
  <2>1. /\ Holders' = Holders \ {t} /\ t \in Holders
        /\ Counted' = Counted
    BY <1>0, <1>4, GotoSets DEF ReturnPermit
  <2>2. Cardinality(Holders)' = Cardinality(Holders) - 1
    BY <1>1, <2>1, CountOne
  <2>3. Counts'
    BY <1>0, <1>1, <1>4, <2>1, <2>2 DEF Counts, CoresTyped, ReturnPermit
  <2> QED
    BY <1>2, <2>3 DEF CoresInv
<1> QED
  BY <1>3, <1>4

\* What the reader holds of the word and the sum is what they once were.
ReaderTyped ==
    reader \in [at : {"load_word", "load_util", "read_now"}, ts : Word, util : Nat,
                seen : Nat]

\* The reader starts, and stays, well typed.
LEMMA ReaderStep ==
    /\ CoresInit => ReaderTyped
    /\ CoresInv /\ ReaderTyped /\ [CoresNext]_coreVars => ReaderTyped'
<1>1. CoresInit => ReaderTyped
  BY DEF CoresInit, NoReading, ReaderTyped, Word
<1>2. ASSUME CoresInv, ReaderTyped, [CoresNext]_coreVars PROVE ReaderTyped'
  <2>1. CASE GetUtilization
    <3>1. last_wakeup \in Word /\ last_wakeup.ts \in Nat /\ utilization \in Nat
      BY <1>2 DEF CoresInv, CoresTyped, Word
    <3>2. CASE ReadWord
      BY <1>2, <3>1, <3>2, Zenon DEF ReaderTyped, ReadWord
    <3>3. CASE ReadUtil
      BY <1>2, <3>1, <3>3, Zenon DEF ReaderTyped, ReadUtil
    <3>4. CASE ReadNow
      BY <3>4 DEF ReaderTyped, ReadNow, NoReading, Word
    <3> QED
      BY <2>1, <3>2, <3>3, <3>4 DEF GetUtilization
  <2>2. CASE UNCHANGED reader
    BY <1>2, <2>2 DEF ReaderTyped
  <2> QED
    BY <1>2, <2>1, <2>2 DEF CoresNext, coreVars
<1> QED
  BY <1>1, <1>2

\* Every step preserves the invariant.
LEMMA NextCoresInv == CoresInv /\ [CoresNext]_coreVars => CoresInv'
<1> SUFFICES ASSUME CoresInv, [CoresNext]_coreVars PROVE CoresInv'
  OBVIOUS
<1>1. CASE Tick
  <2>1. CoresTyped' /\ Ordered'
    BY <1>1 DEF CoresInv, CoresTyped, Ordered, Tick, Word
  <2>2. Counts'
    BY <1>1 DEF CoresInv, Counts, Tick, Holders, Counted
  <2> QED
    BY <2>1, <2>2 DEF CoresInv
<1>2. ASSUME NEW t \in Tasks, Acquire(t) PROVE CoresInv'
  BY <1>2, PermitStep, LoadStep, ReadClockStep, ExchangeOkStep, ExchangeFailsStep,
     AddWindowStep DEF Acquire
<1>3. ASSUME NEW t \in Tasks, Release(t) PROVE CoresInv'
  BY <1>3, PermitStep, LoadStep, ReadClockStep, ExchangeOkStep, ExchangeFailsStep,
     AddWindowStep DEF Release
<1>4. CASE UNCHANGED taskVars
  BY <1>4 DEF CoresInv, CoresTyped, Ordered, Counts, Holders, Counted, taskVars
<1> QED
  BY <1>1, <1>2, <1>3, <1>4 DEF CoresNext, coreVars

\* The inductive invariant holds in every behaviour.
LEMMA CoresInvHolds == CoresSpec => []CoresInv
BY InitCoresInv, NextCoresInv, PTL DEF CoresSpec

\* And so does the reader's type.
LEMMA ReaderHolds == CoresSpec => []ReaderTyped
BY CoresInvHolds, ReaderStep, PTL DEF CoresSpec

\* However many tasks load, read the clock and exchange at once, the tickets
\* half of last_wakeup is the number of tasks between the exchange of acquire
\* and that of release, and stays within max_cores (vcores.rs: the loops of
\* acquire, acquire_owned and release).
THEOREM TicketsAreExact == CoresSpec => []TicketsExact
<1>1. CoresInv => TicketsExact
  <2> SUFFICES ASSUME CoresInv PROVE TicketsExact
    OBVIOUS
  <2>1. /\ permits \in Nat /\ permits + Cardinality(Holders) = max_cores
        /\ last_wakeup.tickets = Cardinality(Counted)
    BY DEF CoresInv, CoresTyped, Counts
  <2> QED
    BY <2>1, TaskSets, CoresAssumption DEF TicketsExact
<1> QED
  BY <1>1, CoresInvHolds, PTL

\* The permits never exceed max_cores, and no window that acquire or release
\* adds to utilization is negative, although the clock and the word are read
\* apart.
THEOREM TypesHold == CoresSpec => []TypeOK
<1>1. CoresInv /\ ReaderTyped => TypeOK
  <2> SUFFICES ASSUME CoresInv, ReaderTyped PROVE TypeOK
    OBVIOUS
  <2>1. /\ permits \in Nat /\ permits + Cardinality(Holders) = max_cores
        /\ Cardinality(Holders) \in Nat
    BY TaskSets DEF CoresInv, CoresTyped, Counts
  <2>2. permits \in 0 .. max_cores
    BY <2>1, CoresAssumption
  <2> QED
    BY <2>2 DEF CoresInv, CoresTyped, ReaderTyped, TypeOK
<1> QED
  BY <1>1, CoresInvHolds, ReaderHolds, PTL

----------------------------------------------------------------------------
\* The account

\* Only between its exchange and its addition has a task something to add.
Windows == \A t \in Tasks : pc[t] \notin {"acq_add", "rel_add"} => window_util[t] = 0

\* With that, what is in the account or on its way into it is at most what
\* max_cores cores can have used up to the last change of the word.
Account == Windows /\ utilization + SumOver(window_util, Tasks) <= max_cores * last_wakeup.ts

\* More cores over a longer span use more.
LEMMA ProductGrows ==
    ASSUME NEW a \in Nat, NEW b \in Nat, NEW c \in Nat, b <= c
    PROVE  a * b <= a * c /\ b * a <= c * a /\ a * b \in Nat /\ a * c = a * b + a * (c - b)
OBVIOUS

LEMMA InitAccount == CoresInit => Account
<1> SUFFICES ASSUME CoresInit PROVE Account
  OBVIOUS
<1>1. window_util \in [Tasks -> Int] /\ \A t \in Tasks : window_util[t] = 0
  BY DEF CoresInit
<1>2. SumOver(window_util, Tasks) = 0
  BY <1>1, TasksAssumption, SumOverType
<1> QED
  BY <1>1, <1>2, CoresAssumption DEF CoresInit, Account, Windows

\* The exchange: the span it is to account for is the one by which the word
\* moves, and at most max_cores tasks had a core meanwhile.
LEMMA ExchangeAccount ==
    ASSUME CoresInv, Account, NEW t \in Tasks,
           NEW from \in {"acq_cas", "rel_cas"}, NEW to \in {"acq_add", "rel_add"},
           NEW tickets, ExchangeOk(t, from, to, tickets)
    PROVE  Account'
<1> DEFINE w == (now[t] - past[t].ts) * past[t].tickets
<1>0. CoresTyped /\ Ordered /\ Counts
  BY DEF CoresInv
<1>1. /\ last_wakeup = past[t] /\ last_wakeup'.ts = now[t] /\ past[t].ts <= now[t]
      /\ utilization' = utilization /\ window_util' = [window_util EXCEPT ![t] = w]
      /\ pc[t] = from /\ pc' = [pc EXCEPT ![t] = to]
  BY <1>0 DEF Ordered, ExchangeOk, Goto
<1>2. /\ past[t].ts \in Nat /\ past[t].tickets \in Nat /\ now[t] \in Nat
      /\ utilization \in Nat /\ max_cores \in Nat
      /\ window_util \in [Tasks -> Int] /\ window_util \in [Tasks -> Nat]
      /\ pc \in [Tasks -> Places]
  BY <1>0, CoresAssumption DEF CoresTyped, Word
<1>3. past[t].tickets <= max_cores
  <2>1. permits \in Nat /\ permits + Cardinality(Holders) = max_cores
        /\ last_wakeup.tickets = Cardinality(Counted)
    BY <1>0 DEF CoresTyped, Counts
  <2> QED
    BY <1>1, <2>1, TaskSets, CoresAssumption
<1>4. /\ w \in Nat /\ w <= max_cores * (now[t] - past[t].ts)
      /\ max_cores * now[t] = max_cores * past[t].ts + max_cores * (now[t] - past[t].ts)
  <2> DEFINE d == now[t] - past[t].ts
  <2>1. d \in Nat
    BY <1>1, <1>2
  <2> HIDE DEF d
  <2>2. d * past[t].tickets \in Nat /\ d * past[t].tickets <= d * max_cores
    BY <1>2, <1>3, <2>1, ProductGrows
  <2>3. d * max_cores = max_cores * d
    BY <1>2, <2>1
  <2>4. max_cores * now[t] = max_cores * past[t].ts + max_cores * (now[t] - past[t].ts)
    BY <1>1, <1>2, ProductGrows
  <2> QED
    BY <2>2, <2>3, <2>4 DEF d
<1> HIDE DEF w
<1>5. window_util[t] = 0
  BY <1>1 DEF Account, Windows
<1>6. SumOver(window_util, Tasks) \in Int
  BY <1>2, TasksAssumption, SumOverType
<1>7. SumOver(window_util', Tasks) = SumOver(window_util, Tasks) + w
  <2>1. w \in Int
    BY <1>4
  <2>2. SumOver([window_util EXCEPT ![t] = w], Tasks)
          = SumOver(window_util, Tasks) + w - window_util[t]
    BY <1>2, <2>1, TasksAssumption, SumOverUpdate, Zenon
  <2> QED
    BY <1>1, <1>5, <1>6, <2>1, <2>2
<1>8. utilization + SumOver(window_util, Tasks) <= max_cores * past[t].ts
  BY <1>1 DEF Account
<1>9. utilization' + SumOver(window_util', Tasks) <= max_cores * last_wakeup'.ts
  <2>1. /\ max_cores * past[t].ts \in Nat /\ max_cores * (now[t] - past[t].ts) \in Int
    BY <1>1, <1>2
  <2> QED
    BY <1>1, <1>2, <1>4, <1>6, <1>7, <1>8, <2>1
<1>10. Windows'
  BY <1>1, <1>2 DEF Account, Windows
<1> QED
  BY <1>9, <1>10 DEF Account

\* The addition moves a window into the account.
LEMMA AddAccount ==
    ASSUME CoresInv, Account, NEW t \in Tasks, NEW from, NEW to, AddWindow(t, from, to)
    PROVE  Account'
<1>1. /\ window_util \in [Tasks -> Int] /\ window_util[t] \in Int /\ utilization \in Int
      /\ pc \in [Tasks -> Places]
  BY DEF CoresInv, CoresTyped
<1>2. /\ utilization' = utilization + window_util[t]
      /\ window_util' = [window_util EXCEPT ![t] = 0]
      /\ last_wakeup' = last_wakeup /\ pc' = [pc EXCEPT ![t] = to]
  BY DEF AddWindow, Goto
<1>3. SumOver(window_util, Tasks) \in Int
  BY <1>1, TasksAssumption, SumOverType
<1>4. SumOver(window_util', Tasks) = SumOver(window_util, Tasks) + 0 - window_util[t]
  <2>1. PICK z \in Int : z = 0
    OBVIOUS
  <2>2. SumOver([window_util EXCEPT ![t] = z], Tasks)
          = SumOver(window_util, Tasks) + z - window_util[t]
    <3>1. window_util \in [Tasks -> Int]
      BY <1>1
    <3> QED
      BY <3>1, TasksAssumption, SumOverUpdate, Zenon
  <2> QED
    BY <1>2, <2>1, <2>2
<1>5. utilization' + SumOver(window_util', Tasks) = utilization + SumOver(window_util, Tasks)
  BY <1>1, <1>2, <1>3, <1>4
<1>6. Windows'
  BY <1>1, <1>2 DEF Account, Windows
<1> QED
  BY <1>2, <1>5, <1>6 DEF Account

\* The other steps leave it alone.
LEMMA SameAccount ==
    ASSUME CoresInv, Account, UNCHANGED <<utilization, window_util, last_wakeup>>,
           \A t \in Tasks : pc[t] \in {"acq_add", "rel_add"} => pc'[t] = pc[t]
    PROVE  Account'
BY DEF Account, Windows

LEMMA AccountStep == CoresInv /\ Account /\ [CoresNext]_coreVars => Account'
<1> SUFFICES ASSUME CoresInv, Account, [CoresNext]_coreVars PROVE Account'
  OBVIOUS
<1>0. pc \in [Tasks -> Places]
  BY DEF CoresInv, CoresTyped
<1>1. CASE Tick \/ UNCHANGED taskVars
  BY <1>1, SameAccount DEF Tick, taskVars
<1>2. ASSUME NEW t \in Tasks, Acquire(t) PROVE Account'
  <2>1. CASE ExchangeOk(t, "acq_cas", "acq_add", past[t].tickets + 1)
    BY <2>1, ExchangeAccount
  <2>2. CASE AddWindow(t, "acq_add", "running")
    BY <2>2, AddAccount
  <2>3. CASE \/ TakePermit(t) \/ Load(t, "acq_load", "acq_now")
             \/ ReadClock(t, "acq_now", "acq_cas") \/ ExchangeFails(t, "acq_cas", "acq_now")
    <3>1. UNCHANGED <<utilization, window_util, last_wakeup>>
      BY <2>3 DEF TakePermit, Load, ReadClock, ExchangeFails
    <3>2. \A u \in Tasks : pc[u] \in {"acq_add", "rel_add"} => pc'[u] = pc[u]
      BY <1>0, <2>3 DEF TakePermit, Load, ReadClock, ExchangeFails, Goto
    <3> QED
      BY <3>1, <3>2, SameAccount
  <2> QED
    BY <1>2, <2>1, <2>2, <2>3 DEF Acquire
<1>3. ASSUME NEW t \in Tasks, Release(t) PROVE Account'
  <2>1. CASE ExchangeOk(t, "rel_cas", "rel_add", past[t].tickets - 1)
    BY <2>1, ExchangeAccount
  <2>2. CASE AddWindow(t, "rel_add", "rel_permit")
    BY <2>2, AddAccount
  <2>3. CASE \/ DropGuard(t) \/ ReturnPermit(t) \/ Load(t, "rel_load", "rel_now")
             \/ ReadClock(t, "rel_now", "rel_cas") \/ ExchangeFails(t, "rel_cas", "rel_now")
    <3>1. UNCHANGED <<utilization, window_util, last_wakeup>>
      BY <2>3 DEF DropGuard, ReturnPermit, Load, ReadClock, ExchangeFails
    <3>2. \A u \in Tasks : pc[u] \in {"acq_add", "rel_add"} => pc'[u] = pc[u]
      BY <1>0, <2>3 DEF DropGuard, ReturnPermit, Load, ReadClock, ExchangeFails, Goto
    <3> QED
      BY <3>1, <3>2, SameAccount
  <2> QED
    BY <1>3, <2>1, <2>2, <2>3 DEF Release
<1> QED
  BY <1>1, <1>2, <1>3 DEF CoresNext, coreVars

LEMMA AccountHolds == CoresSpec => []Account
BY InitAccount, CoresInvHolds, AccountStep, PTL DEF CoresSpec

\* The account never claims more than max_cores busy cores since the start,
\* counting what tasks are about to add: every span by which the word moves
\* is accounted once, and at no more than max_cores tickets.
THEOREM UtilizationIsBounded == CoresSpec => []UtilizationBounded
<1>1. Account => UtilizationBounded
  BY DEF Account, UtilizationBounded, SumOver, MapThenSumSet, MapThenFoldSet
<1> QED
  BY <1>1, AccountHolds, PTL

----------------------------------------------------------------------------
\* get_utilization

\* What the reader holds: a word from the past, and a sum that was within
\* the bound at the time the word then had.
Reading ==
    /\ reader.at # "load_word" => reader.ts.tickets <= max_cores /\ reader.ts.ts <= clock
    /\ reader.at = "read_now" => reader.util <= max_cores * reader.seen

LEMMA ReadingStep ==
    /\ CoresInit => Reading
    /\ CoresInv /\ Account /\ ReaderTyped /\ Reading /\ [CoresNext]_coreVars => Reading'
<1>1. CoresInit => Reading
  BY DEF CoresInit, NoReading, Reading
<1>2. ASSUME CoresInv, Account, ReaderTyped, Reading, [CoresNext]_coreVars PROVE Reading'
  <2>0. /\ last_wakeup.tickets <= max_cores /\ last_wakeup.ts <= clock
        /\ last_wakeup \in Word /\ clock \in Nat /\ utilization \in Nat /\ max_cores \in Nat
    <3>1. /\ permits \in Nat /\ permits + Cardinality(Holders) = max_cores
          /\ last_wakeup.tickets = Cardinality(Counted)
      BY <1>2 DEF CoresInv, CoresTyped, Counts
    <3>2. last_wakeup.tickets <= max_cores
      BY <3>1, TaskSets, CoresAssumption
    <3> QED
      BY <1>2, <3>2, CoresAssumption DEF CoresInv, CoresTyped, Ordered
  <2>1. utilization <= max_cores * last_wakeup.ts
    <3>1. window_util \in [Tasks -> Int] /\ \A t \in Tasks : window_util[t] >= 0
      BY <1>2 DEF CoresInv, CoresTyped
    <3>2. SumOver(window_util, Tasks) \in Int /\ SumOver(window_util, Tasks) >= 0
      BY <3>1, TasksAssumption, SumOverType
    <3>3. utilization + SumOver(window_util, Tasks) <= max_cores * last_wakeup.ts
      BY <1>2 DEF Account
    <3>4. max_cores * last_wakeup.ts \in Nat
      BY <2>0 DEF Word
    <3> QED
      BY <2>0, <3>2, <3>3, <3>4
  <2>2. CASE GetUtilization /\ UNCHANGED taskVars
    <3>0. clock' = clock
      BY <2>2 DEF taskVars
    <3>1. CASE ReadWord
      BY <1>2, <2>0, <3>0, <3>1 DEF ReaderTyped, ReadWord, Reading
    <3>2. CASE ReadUtil
      <4>1. /\ reader.at = "load_util" /\ reader'.at = "read_now" /\ reader'.ts = reader.ts
            /\ reader'.util = utilization /\ reader'.seen = last_wakeup.ts
        BY <1>2, <3>2 DEF ReaderTyped, ReadUtil
      <4> QED
        BY <1>2, <2>1, <3>0, <4>1 DEF Reading
    <3>3. CASE ReadNow
      BY <3>3 DEF ReadNow, NoReading, Reading
    <3> QED
      BY <2>2, <3>1, <3>2, <3>3 DEF GetUtilization
  <2>3. CASE UNCHANGED reader
    <3>1. clock' \in Nat /\ clock <= clock'
      <4>1. ASSUME NEW t \in Tasks, Acquire(t) \/ Release(t) PROVE clock' = clock
        BY <4>1, Zenon DEF Acquire, Release, TakePermit, Load, ReadClock, ExchangeOk, ExchangeFails,
                           AddWindow, DropGuard, ReturnPermit
      <4>2. clock' = clock \/ Tick
        BY <1>2, <4>1, Zenon DEF CoresNext, taskVars, coreVars
      <4>3. Tick => clock' = clock + 1
        BY DEF Tick
      <4> QED
        BY <2>0, <4>2, <4>3
    <3>2. reader.ts.ts \in Nat
      BY <1>2 DEF ReaderTyped, Word
    <3>3. reader.at # "load_word" => reader.ts.ts <= clock'
      BY <1>2, <2>0, <3>1, <3>2 DEF Reading
    <3> QED
      BY <1>2, <2>3, <3>3 DEF Reading
  <2> QED
    BY <1>2, <2>2, <2>3 DEF CoresNext, coreVars
<1> QED
  BY <1>1, <1>2

\* What get_unused returns is negative by at most max_cores times what the
\* word moved between get_utilization's load of it and its load of the sum;
\* so never, if the word did not move.
THEOREM UnusedIsWithinMove == CoresSpec => []UnusedWithinMove
<1>1. CoresInv /\ ReaderTyped /\ Reading => UnusedWithinMove
  <2> SUFFICES ASSUME CoresInv, ReaderTyped, Reading, reader.at = "read_now"
               PROVE  UnusedTime >= max_cores * (reader.ts.ts - reader.seen)
    BY DEF UnusedWithinMove
  <2> DEFINE m == max_cores  k == reader.ts.tickets  s == reader.ts.ts  e == reader.seen
             u == reader.util
  <2>1. m \in Nat /\ k \in Nat /\ s \in Nat /\ e \in Nat /\ u \in Nat /\ clock \in Nat
    BY CoresAssumption DEF ReaderTyped, Word, CoresInv, CoresTyped
  <2>2. k <= m /\ s <= clock /\ u <= m * e
    BY DEF Reading
  <2>3. UnusedTime = m * clock - (u + k * (clock - s))
    BY DEF UnusedTime, BusyTime
  <2> HIDE DEF m, k, s, e, u
  <2>4. clock - s \in Nat
    BY <2>1, <2>2
  <2>5. k * (clock - s) <= m * (clock - s) /\ k * (clock - s) \in Nat
    <3> DEFINE d == clock - s
    <3> HIDE DEF d
    <3>1. d \in Nat
      BY <2>4 DEF d
    <3>2. k * d <= m * d /\ k * d \in Nat
      BY <2>1, <2>2, <3>1, ProductGrows
    <3> QED
      BY <3>2 DEF d
  <2>6. m * (clock - s) = m * clock - m * s /\ m * (s - e) = m * s - m * e
    BY <2>1
  <2>7. m * clock \in Int /\ m * s \in Int /\ m * e \in Int
    BY <2>1
  <2>8. m * clock - (u + k * (clock - s)) >= m * (s - e)
    BY <2>1, <2>2, <2>5, <2>6, <2>7
  <2> QED
    BY <2>3, <2>8 DEF m, s, e
<1> QED
  BY <1>1, ReadingStep, CoresInvHolds, AccountHolds, ReaderHolds, PTL DEF CoresSpec

----------------------------------------------------------------------------
(***************************************************************************)
(* For every length of the chain, every workload and any number of failed  *)
(* sends: the head commits the blocks 1, 2, 3, ... without a gap, with the *)
(* transactions in the order of arrival, and only what every other replica *)
(* has received.                                                           *)
(*                                                                         *)
(* The argument follows a block down the chain: whatever a replica holds,  *)
(* in whichever of its stages, all replicas before it and itself have met  *)
(* (Passed); so what the tail acknowledges all of them have met (Acked).   *)
(* For the transactions it remembers where the head has cut its mem_pool   *)
(* into blocks (Cuts), since a block lost to a failed send is in no stage  *)
(* any more.                                                               *)
(***************************************************************************)

Blocks == [id : Nat, txns : Seq(Nat)]

\* Blocks that the replicas from the second to the n-th have met.
Passed(n) == {b \in Blocks : \A m \in 2 .. n : b.id \in blks_seen[m]}

\* Ids of blocks that all replicas but the head have met.
Acked == {i \in Nat : \A m \in 2 .. N : i \in blks_seen[m]}

\* The head's batch, of which a block is made.
BatchTyped ==
    /\ arrived \in Nat
    /\ mem_pool \in Seq(Nat)
    /\ curr_batch_len \in 0 .. Len(mem_pool)
    /\ next_blk_id \in Nat

Typed ==
    /\ BatchTyped
    /\ net \in [Replicas -> Seq(Blocks)]
    /\ blks_seen \in [Replicas -> SUBSET Nat]
    /\ validating \in [Replicas -> SUBSET Blocks]
    /\ pending \in [Replicas -> Seq(Blocks)]
    /\ new_block \in [Replicas -> Seq(Blocks)]
    /\ block_ready \in [Replicas -> Seq(Blocks)]
    /\ inflight_blks \subseteq Blocks

\* What is on its way down the chain was met by the replicas it passed.
Descending ==
    \A n \in Replicas :
        /\ net[n] \in Seq(Passed(n - 1))
        /\ validating[n] \subseteq Passed(n)
        /\ pending[n] \in Seq(Passed(n))
        /\ new_block[n] \in Seq(Passed(n))
        /\ block_ready[n] \in Seq(Passed(n))

\* What was acknowledged, and all that follows from it, was met by all.
Acknowledged ==
    /\ acks \in Seq(Acked)
    /\ commit_ready \subseteq Acked
    /\ committed \in Seq(Passed(N))

\* The committed ids count up.
Counting ==
    /\ next_to_commit = Len(committed) + 1
    /\ \A i \in 1 .. Len(committed) : committed[i].id = i

IInv == Typed /\ Descending /\ Acknowledged /\ Counting

----------------------------------------------------------------------------
\* Sequences

LEMMA SeqGrows ==
    ASSUME NEW S, NEW T, S \subseteq T
    PROVE  Seq(S) \subseteq Seq(T)
<1> SUFFICES ASSUME NEW s \in Seq(S) PROVE s \in Seq(T)
  OBVIOUS
<1>1. s = [i \in 1 .. Len(s) |-> s[i]] /\ Len(s) \in Nat
  OBVIOUS
<1>2. \A i \in 1 .. Len(s) : s[i] \in T
  OBVIOUS
<1> QED
  BY <1>1, <1>2

LEMMA HeadTail ==
    ASSUME NEW S, NEW s \in Seq(S), s # <<>>
    PROVE  Head(s) \in S /\ Tail(s) \in Seq(S)
OBVIOUS

LEMMA AppendStays ==
    ASSUME NEW S, NEW s \in Seq(S), NEW e \in S
    PROVE  Append(s, e) \in Seq(S)
OBVIOUS

----------------------------------------------------------------------------
\* Initial states

LEMMA InitIInv == Init => IInv
<1> SUFFICES ASSUME Init PROVE IInv
  OBVIOUS
<1> USE DEF Init
<1>0. \A S : <<>> \in Seq(S)
  OBVIOUS
<1>1. Typed
  BY <1>0 DEF Typed, BatchTyped
<1>2. Descending
  BY <1>0 DEF Descending
<1>3. Acknowledged
  BY <1>0 DEF Acknowledged
<1>4. Counting
  BY DEF Counting
<1> QED
  BY <1>1, <1>2, <1>3, <1>4 DEF IInv

----------------------------------------------------------------------------
\* Steps of the head's block management

\* What leaves blks_seen alone leaves Passed and Acked alone.
LEMMA SameSeen ==
    ASSUME UNCHANGED blks_seen
    PROVE  (\A n : Passed(n)' = Passed(n)) /\ Acked' = Acked
BY DEF Passed, Acked

LEMMA RecordStep ==
    ASSUME IInv, RecordNewTxns
    PROVE  IInv'
<1>1. PICK upto \in arrived + 1 .. Len(Size) :
          /\ arrived' = upto
          /\ mem_pool' = mem_pool \o [i \in 1 .. upto - arrived |-> arrived + i]
  BY Zenon DEF RecordNewTxns
<1>2. /\ arrived \in Nat /\ mem_pool \in Seq(Nat) /\ Len(Size) \in Nat
      /\ curr_batch_len \in 0 .. Len(mem_pool) /\ next_blk_id \in Nat
  BY SizeAssumption DEF IInv, Typed, BatchTyped
<1>3. [i \in 1 .. upto - arrived |-> arrived + i] \in Seq(Nat)
  BY <1>2
<1>4. mem_pool' \in Seq(Nat) /\ Len(mem_pool') >= Len(mem_pool)
  BY <1>1, <1>2, <1>3
<1>5. BatchTyped'
  BY <1>1, <1>2, <1>4 DEF BatchTyped, RecordNewTxns
<1> QED
  BY <1>5, Zenon DEF IInv, Typed, Descending, Acknowledged, Counting, Passed, Acked,
       RecordNewTxns, recvVars, headVars

LEMMA PrepareStep ==
    ASSUME IInv, PrepareNewBlock
    PROVE  IInv'
<1>1. PICK len \in curr_batch_len .. Len(mem_pool) : curr_batch_len' = len
  BY DEF PrepareNewBlock
<1>2. BatchTyped'
  BY <1>1 DEF IInv, Typed, BatchTyped, PrepareNewBlock
<1> QED
  BY <1>2, Zenon DEF IInv, Typed, Descending, Acknowledged, Counting, Passed, Acked,
       PrepareNewBlock, recvVars, headVars

LEMMA GetNewBlockStep ==
    ASSUME IInv, GetNewBlock
    PROVE  IInv'
<1> DEFINE blk == [id |-> next_blk_id, txns |-> SubSeq(mem_pool, 1, curr_batch_len)]
<1>1. /\ mem_pool \in Seq(Nat) /\ curr_batch_len \in 0 .. Len(mem_pool) /\ next_blk_id \in Nat
      /\ arrived \in Nat
  BY DEF IInv, Typed, BatchTyped
<1>2. SubSeq(mem_pool, 1, curr_batch_len) \in Seq(Nat)
  BY <1>1
<1>3. SubSeq(mem_pool, curr_batch_len + 1, Len(mem_pool)) \in Seq(Nat)
  BY <1>1
<1>4. BatchTyped'
  BY <1>1, <1>3 DEF BatchTyped, GetNewBlock
<1>5. blk \in Blocks
  BY <1>1, <1>2 DEF Blocks
<1>6. blk \in Passed(1) /\ 1 \in Replicas
  BY <1>5, ReplicasAssumption DEF Passed, Replicas
<1> HIDE DEF blk
<1>7. new_block' = [new_block EXCEPT ![1] = Append(@, blk)]
  BY DEF GetNewBlock, blk, Head1
<1>8. /\ new_block \in [Replicas -> Seq(Blocks)]
      /\ \A n \in Replicas : new_block[n] \in Seq(Passed(n))
  BY DEF IInv, Typed, Descending
<1>9. Append(new_block[1], blk) \in Seq(Passed(1)) /\ Append(new_block[1], blk) \in Seq(Blocks)
  BY <1>5, <1>6, <1>8, AppendStays
<1>10. /\ new_block' \in [Replicas -> Seq(Blocks)]
       /\ \A n \in Replicas : new_block'[n] \in Seq(Passed(n))
  BY <1>7, <1>8, <1>9, Zenon
<1>11. (\A n : Passed(n)' = Passed(n)) /\ Acked' = Acked
  BY SameSeen DEF GetNewBlock, recvVars
<1>12. Typed'
  BY <1>4, <1>10 DEF IInv, Typed, GetNewBlock, recvVars, headVars
<1>13. Descending'
  BY <1>10, <1>11, Zenon DEF IInv, Descending, GetNewBlock, recvVars
<1>14. Acknowledged' /\ Counting'
  BY <1>11 DEF IInv, Acknowledged, Counting, GetNewBlock, headVars
<1> QED
  BY <1>12, <1>13, <1>14 DEF IInv

----------------------------------------------------------------------------
\* Steps that move a block within a replica or to the next

LEMMA DisseminateStep ==
    ASSUME IInv, NEW n \in Replicas, Disseminate(n)
    PROVE  IInv'
<1> DEFINE blk == Head(new_block[n])
<1>1. /\ new_block \in [Replicas -> Seq(Blocks)] /\ block_ready \in [Replicas -> Seq(Blocks)]
      /\ net \in [Replicas -> Seq(Blocks)]
  BY DEF IInv, Typed
<1>2. \A m \in Replicas : /\ new_block[m] \in Seq(Passed(m)) /\ block_ready[m] \in Seq(Passed(m))
                       /\ net[m] \in Seq(Passed(m - 1))
  BY DEF IInv, Descending
<1>3. blk \in Passed(n) /\ Tail(new_block[n]) \in Seq(Passed(n))
  BY <1>2, HeadTail DEF Disseminate
<1>4. blk \in Blocks /\ Tail(new_block[n]) \in Seq(Blocks)
  BY <1>1, HeadTail DEF Disseminate
<1> HIDE DEF blk
<1>5. /\ new_block' = [new_block EXCEPT ![n] = Tail(@)]
      /\ block_ready' = [block_ready EXCEPT ![n] = Append(@, blk)]
      /\ net' = IF n = N THEN net ELSE [net EXCEPT ![n + 1] = Append(@, blk)]
  BY DEF Disseminate, blk
<1>6. Append(block_ready[n], blk) \in Seq(Passed(n)) /\ Append(block_ready[n], blk) \in Seq(Blocks)
  BY <1>1, <1>2, <1>3, <1>4, AppendStays
<1>7. /\ new_block' \in [Replicas -> Seq(Blocks)] /\ block_ready' \in [Replicas -> Seq(Blocks)]
      /\ \A m \in Replicas : new_block'[m] \in Seq(Passed(m)) /\ block_ready'[m] \in Seq(Passed(m))
  BY <1>1, <1>2, <1>3, <1>4, <1>5, <1>6
<1>8. /\ net' \in [Replicas -> Seq(Blocks)]
      /\ \A m \in Replicas : net'[m] \in Seq(Passed(m - 1))
  <2>1. CASE n = N
    BY <1>1, <1>2, <1>5, <2>1
  <2>2. CASE n # N
    <3>1. n + 1 \in Replicas /\ (n + 1) - 1 = n
      BY <2>2, ReplicasAssumption DEF Replicas
    <3>2. net[n + 1] \in Seq(Passed(n)) /\ net[n + 1] \in Seq(Blocks)
      BY <1>1, <1>2, <3>1
    <3>3. Append(net[n + 1], blk) \in Seq(Passed((n + 1) - 1))
      BY <1>3, <3>1, <3>2, AppendStays
    <3>4. Append(net[n + 1], blk) \in Seq(Blocks)
      BY <1>4, <3>2, AppendStays
    <3>5. net' = [net EXCEPT ![n + 1] = Append(@, blk)]
      BY <1>5, <2>2
    <3> QED
      BY <1>1, <1>2, <3>1, <3>3, <3>4, <3>5, Zenon
  <2> QED
    BY <2>1, <2>2
<1>9. (\A m : Passed(m)' = Passed(m)) /\ Acked' = Acked
  BY SameSeen DEF Disseminate, recvVars
<1>10. Typed'
  BY <1>7, <1>8, SMTT(30) DEF IInv, Typed, BatchTyped, Disseminate, batchVars, recvVars, headVars
<1>11. Descending'
  BY <1>7, <1>8, <1>9 DEF IInv, Descending, Disseminate, recvVars
<1>12. Acknowledged' /\ Counting'
  BY <1>9 DEF IInv, Acknowledged, Counting, Disseminate, headVars
<1> QED
  BY <1>10, <1>11, <1>12 DEF IInv

LEMMA DisseminateFailsStep ==
    ASSUME IInv, NEW n \in Replicas, DisseminateFails(n)
    PROVE  IInv'
<1>1. new_block \in [Replicas -> Seq(Blocks)] /\ new_block' = [new_block EXCEPT ![n] = Tail(@)]
  BY DEF IInv, Typed, DisseminateFails
<1>2. \A m \in Replicas : new_block[m] \in Seq(Passed(m))
  BY DEF IInv, Descending
<1>3. Tail(new_block[n]) \in Seq(Passed(n)) /\ Tail(new_block[n]) \in Seq(Blocks)
  BY <1>1, <1>2, HeadTail DEF DisseminateFails
<1>4. /\ new_block' \in [Replicas -> Seq(Blocks)]
      /\ \A m \in Replicas : new_block'[m] \in Seq(Passed(m))
  BY <1>1, <1>2, <1>3
<1>5. (\A m : Passed(m)' = Passed(m)) /\ Acked' = Acked
  BY SameSeen DEF DisseminateFails, recvVars
<1>6. Typed'
  BY <1>4 DEF IInv, Typed, BatchTyped, DisseminateFails, batchVars, recvVars, headVars
<1>7. Descending'
  BY <1>4, <1>5 DEF IInv, Descending, DisseminateFails, recvVars
<1>8. Acknowledged' /\ Counting'
  BY <1>5 DEF IInv, Acknowledged, Counting, DisseminateFails, headVars
<1> QED
  BY <1>6, <1>7, <1>8 DEF IInv

LEMMA FinishStep ==
    ASSUME IInv, NEW n \in Replicas, FinishValidation(n)
    PROVE  IInv'
<1>1. PICK blk \in validating[n] :
          /\ validating' = [validating EXCEPT ![n] = @ \ {blk}]
          /\ pending' = [pending EXCEPT ![n] = Append(@, blk)]
  BY Zenon DEF FinishValidation
<1>2. UNCHANGED <<batchVars, net, blks_seen, new_block, block_ready, acks, headVars>>
  BY DEF FinishValidation
<1>3. validating \in [Replicas -> SUBSET Blocks] /\ pending \in [Replicas -> Seq(Blocks)]
  BY DEF IInv, Typed
<1>4. \A m \in Replicas : validating[m] \subseteq Passed(m) /\ pending[m] \in Seq(Passed(m))
  BY DEF IInv, Descending
<1>5. blk \in Passed(n) /\ blk \in Blocks
  BY <1>3, <1>4
<1>6. Append(pending[n], blk) \in Seq(Passed(n)) /\ Append(pending[n], blk) \in Seq(Blocks)
  BY <1>3, <1>4, <1>5, AppendStays
<1>7. /\ validating' \in [Replicas -> SUBSET Blocks] /\ pending' \in [Replicas -> Seq(Blocks)]
      /\ \A m \in Replicas : validating'[m] \subseteq Passed(m) /\ pending'[m] \in Seq(Passed(m))
  BY <1>1, <1>3, <1>4, <1>6
<1>8. (\A m : Passed(m)' = Passed(m)) /\ Acked' = Acked
  BY <1>2, SameSeen
<1>9. Typed'
  BY <1>2, <1>7 DEF IInv, Typed, BatchTyped, batchVars, headVars
<1>10. Descending'
  BY <1>2, <1>7, <1>8 DEF IInv, Descending
<1>11. Acknowledged' /\ Counting'
  BY <1>2, <1>8 DEF IInv, Acknowledged, Counting, headVars
<1> QED
  BY <1>9, <1>10, <1>11 DEF IInv

LEMMA ValidateStep ==
    ASSUME IInv, NEW n \in Replicas, ValidateBlock(n)
    PROVE  IInv'
<1> DEFINE blk == Head(pending[n])
<1>1. new_block \in [Replicas -> Seq(Blocks)] /\ pending \in [Replicas -> Seq(Blocks)]
  BY DEF IInv, Typed
<1>2. \A m \in Replicas : new_block[m] \in Seq(Passed(m)) /\ pending[m] \in Seq(Passed(m))
  BY DEF IInv, Descending
<1>3. blk \in Passed(n) /\ Tail(pending[n]) \in Seq(Passed(n))
  BY <1>2, HeadTail DEF ValidateBlock
<1>4. blk \in Blocks /\ Tail(pending[n]) \in Seq(Blocks)
  BY <1>1, HeadTail DEF ValidateBlock
<1> HIDE DEF blk
<1>5. /\ pending' = [pending EXCEPT ![n] = Tail(@)]
      /\ new_block' = [new_block EXCEPT ![n] = Append(@, blk)]
  BY DEF ValidateBlock, blk
<1>6. Append(new_block[n], blk) \in Seq(Passed(n)) /\ Append(new_block[n], blk) \in Seq(Blocks)
  BY <1>1, <1>2, <1>3, <1>4, AppendStays
<1>7. /\ new_block' \in [Replicas -> Seq(Blocks)] /\ pending' \in [Replicas -> Seq(Blocks)]
      /\ \A m \in Replicas : new_block'[m] \in Seq(Passed(m)) /\ pending'[m] \in Seq(Passed(m))
  BY <1>1, <1>2, <1>3, <1>4, <1>5, <1>6
<1>8. (\A m : Passed(m)' = Passed(m)) /\ Acked' = Acked
  BY SameSeen DEF ValidateBlock
<1>9. Typed'
  BY <1>7 DEF IInv, Typed, BatchTyped, ValidateBlock, batchVars, headVars
<1>10. Descending'
  BY <1>7, <1>8 DEF IInv, Descending, ValidateBlock
<1>11. Acknowledged' /\ Counting'
  BY <1>8 DEF IInv, Acknowledged, Counting, ValidateBlock, headVars
<1> QED
  BY <1>9, <1>10, <1>11 DEF IInv

\* The one step after which a replica has met more blocks than before.
LEMMA ReceiveStep ==
    ASSUME IInv, NEW n \in Replicas, ReceivePeerBlk(n)
    PROVE  IInv'
<1> DEFINE blk == Head(net[n])
<1>1. /\ net \in [Replicas -> Seq(Blocks)] /\ blks_seen \in [Replicas -> SUBSET Nat]
      /\ validating \in [Replicas -> SUBSET Blocks]
  BY DEF IInv, Typed
<1>2. \A m \in Replicas : /\ net[m] \in Seq(Passed(m - 1)) /\ validating[m] \subseteq Passed(m)
                       /\ pending[m] \in Seq(Passed(m)) /\ new_block[m] \in Seq(Passed(m))
                       /\ block_ready[m] \in Seq(Passed(m))
  BY DEF IInv, Descending
<1>3. blk \in Passed(n - 1) /\ Tail(net[n]) \in Seq(Passed(n - 1))
  BY <1>2, HeadTail, Zenon DEF ReceivePeerBlk
<1>4. blk \in Blocks /\ Tail(net[n]) \in Seq(Blocks)
  BY <1>1, HeadTail DEF ReceivePeerBlk
<1> HIDE DEF blk
<1>5. net' = [net EXCEPT ![n] = Tail(@)]
  BY DEF ReceivePeerBlk
<1>6. \/ blks_seen' = blks_seen /\ validating' = validating
      \/ /\ blks_seen' = [blks_seen EXCEPT ![n] = @ \cup {blk.id}]
         /\ validating' = [validating EXCEPT ![n] = @ \cup {blk}]
  BY DEF ReceivePeerBlk, blk
<1>7. blk.id \in Nat /\ n \in Int
  BY <1>4, ReplicasAssumption DEF Blocks, Replicas
<1>8. blks_seen' \in [Replicas -> SUBSET Nat] /\ \A m \in Replicas : blks_seen[m] \subseteq blks_seen'[m]
  BY <1>1, <1>6, <1>7
<1>9. \A m \in Replicas : Passed(m) \subseteq Passed(m)' /\ Passed(m - 1) \subseteq Passed(m - 1)'
  BY <1>8, ReplicasAssumption DEF Passed, Replicas
<1>10. Acked \subseteq Acked' /\ Passed(N) \subseteq Passed(N)'
  BY <1>8, ReplicasAssumption DEF Acked, Passed, Replicas
<1>11. net' \in [Replicas -> Seq(Blocks)] /\ \A m \in Replicas : net'[m] \in Seq(Passed(m - 1))
  BY <1>1, <1>2, <1>3, <1>4, <1>5, Zenon
<1>12. \A m \in Replicas : net'[m] \in Seq(Passed(m - 1)')
  BY <1>9, <1>11, SeqGrows
<1>13. \A m \in Replicas : validating'[m] \subseteq Passed(m)'
  <2>1. CASE validating' = validating
    BY <1>2, <1>9, <2>1
  <2>2. CASE /\ blks_seen' = [blks_seen EXCEPT ![n] = @ \cup {blk.id}]
             /\ validating' = [validating EXCEPT ![n] = @ \cup {blk}]
    <3>1. \A m \in 2 .. n : blk.id \in blks_seen'[m]
      <4> SUFFICES ASSUME NEW m \in 2 .. n PROVE blk.id \in blks_seen'[m]
        OBVIOUS
      <4>1. m \in Replicas
        BY ReplicasAssumption DEF Replicas
      <4>2. CASE m = n
        BY <1>1, <2>2, <4>2
      <4>3. CASE m # n
        <5>1. m \in 2 .. n - 1
          BY <1>7, <4>3
        <5>2. blk.id \in blks_seen[m]
          BY <1>3, <5>1 DEF Passed
        <5> QED
          BY <1>8, <4>1, <5>2
      <4> QED
        BY <4>2, <4>3
    <3>2. blk \in Passed(n)'
      BY <1>4, <3>1 DEF Passed, Blocks
    <3> QED
      BY <1>1, <1>2, <1>9, <2>2, <3>2
  <2> QED
    BY <1>6, <2>1, <2>2
<1>14. validating' \in [Replicas -> SUBSET Blocks]
  BY <1>1, <1>4, <1>6
<1>15. UNCHANGED <<batchVars, pending, new_block, block_ready, acks, headVars>>
  BY DEF ReceivePeerBlk
<1>16. Typed'
  BY <1>8, <1>11, <1>14, <1>15 DEF IInv, Typed, BatchTyped, batchVars, headVars
<1>17. \A m \in Replicas : /\ pending'[m] \in Seq(Passed(m)') /\ new_block'[m] \in Seq(Passed(m)')
                        /\ block_ready'[m] \in Seq(Passed(m)')
  BY <1>2, <1>9, <1>15, SeqGrows
<1>18. Descending'
  BY <1>12, <1>13, <1>17 DEF Descending
<1>19. Seq(Acked) \subseteq Seq(Acked') /\ Seq(Passed(N)) \subseteq Seq(Passed(N)')
  BY <1>10, SeqGrows
<1>20. Acknowledged' /\ Counting'
  BY <1>10, <1>15, <1>19 DEF IInv, Acknowledged, Counting, headVars
<1> QED
  BY <1>16, <1>18, <1>20 DEF IInv

----------------------------------------------------------------------------
\* Steps of decide

LEMMA NewTailStep ==
    ASSUME IInv, NEW n \in Replicas, NewTail(n)
    PROVE  IInv'
<1> DEFINE blk == Head(block_ready[n])
<1>1. block_ready \in [Replicas -> Seq(Blocks)]
  BY DEF IInv, Typed
<1>2. \A m \in Replicas : block_ready[m] \in Seq(Passed(m))
  BY DEF IInv, Descending
<1>3. blk \in Passed(n) /\ Tail(block_ready[n]) \in Seq(Passed(n))
  BY <1>2, HeadTail DEF NewTail
<1>4. blk \in Blocks /\ Tail(block_ready[n]) \in Seq(Blocks)
  BY <1>1, HeadTail DEF NewTail
<1> HIDE DEF blk
<1>5. /\ block_ready' = [block_ready EXCEPT ![n] = Tail(@)]
      /\ inflight_blks' \subseteq inflight_blks \cup {blk}
      /\ acks' = IF n = N /\ n # Head1 THEN Append(acks, blk.id) ELSE acks
  BY DEF NewTail, blk
<1>6. UNCHANGED <<batchVars, net, recvVars, new_block, commit_ready, next_to_commit, committed>>
  BY DEF NewTail
<1>7. /\ block_ready' \in [Replicas -> Seq(Blocks)]
      /\ \A m \in Replicas : block_ready'[m] \in Seq(Passed(m))
  BY <1>1, <1>2, <1>3, <1>4, <1>5
<1>8. (\A m : Passed(m)' = Passed(m)) /\ Acked' = Acked
  BY <1>6, SameSeen DEF recvVars
<1>9. acks' \in Seq(Acked)
  <2>1. acks \in Seq(Acked)
    BY DEF IInv, Acknowledged
  <2>2. n = N => blk.id \in Acked
    BY <1>3, <1>4 DEF Passed, Acked, Blocks
  <2> QED
    BY <1>5, <2>1, <2>2, AppendStays
<1>10. Typed'
  BY <1>4, <1>5, <1>6, <1>7 DEF IInv, Typed, BatchTyped, batchVars, recvVars
<1>11. Descending'
  BY <1>6, <1>7, <1>8 DEF IInv, Descending, recvVars
<1>12. Acknowledged' /\ Counting'
  BY <1>6, <1>8, <1>9 DEF IInv, Acknowledged, Counting
<1> QED
  BY <1>10, <1>11, <1>12 DEF IInv

LEMMA AckFailsStep ==
    ASSUME IInv, NewTailAckFails
    PROVE  IInv'
<1>1. N \in Replicas
  BY ReplicasAssumption DEF Replicas
<1>2. block_ready \in [Replicas -> Seq(Blocks)] /\ block_ready' = [block_ready EXCEPT ![N] = Tail(@)]
  BY DEF IInv, Typed, NewTailAckFails
<1>3. \A m \in Replicas : block_ready[m] \in Seq(Passed(m))
  BY DEF IInv, Descending
<1>4. Tail(block_ready[N]) \in Seq(Passed(N)) /\ Tail(block_ready[N]) \in Seq(Blocks)
  BY <1>1, <1>2, <1>3, HeadTail DEF NewTailAckFails
<1>5. /\ block_ready' \in [Replicas -> Seq(Blocks)]
      /\ \A m \in Replicas : block_ready'[m] \in Seq(Passed(m))
  BY <1>1, <1>2, <1>3, <1>4
<1>6. (\A m : Passed(m)' = Passed(m)) /\ Acked' = Acked
  BY SameSeen DEF NewTailAckFails, recvVars
<1>7. Typed'
  BY <1>5 DEF IInv, Typed, BatchTyped, NewTailAckFails, batchVars, recvVars, headVars
<1>8. Descending'
  BY <1>5, <1>6 DEF IInv, Descending, NewTailAckFails, recvVars
<1>9. Acknowledged' /\ Counting'
  BY <1>6 DEF IInv, Acknowledged, Counting, NewTailAckFails, headVars
<1> QED
  BY <1>7, <1>8, <1>9 DEF IInv

LEMMA PeerMsgStep ==
    ASSUME IInv, HandlePeerMsg
    PROVE  IInv'
<1>1. acks \in Seq(Acked) /\ commit_ready \subseteq Acked
  BY DEF IInv, Acknowledged
<1>2. Head(acks) \in Acked /\ Tail(acks) \in Seq(Acked)
  BY <1>1, HeadTail DEF HandlePeerMsg
<1>3. acks' \in Seq(Acked) /\ commit_ready' \subseteq Acked
  BY <1>1, <1>2 DEF HandlePeerMsg
<1>4. UNCHANGED <<batchVars, net, recvVars, new_block, block_ready, inflight_blks,
                  next_to_commit, committed>>
  BY DEF HandlePeerMsg
<1>5. (\A m : Passed(m)' = Passed(m)) /\ Acked' = Acked
  BY <1>4, SameSeen DEF recvVars
<1>6. Typed' /\ Descending'
  BY <1>4, <1>5 DEF IInv, Typed, BatchTyped, Descending, batchVars, recvVars
<1>7. Acknowledged' /\ Counting'
  BY <1>3, <1>4, <1>5 DEF IInv, Acknowledged, Counting
<1> QED
  BY <1>6, <1>7 DEF IInv

LEMMA CommitStep ==
    ASSUME IInv, NextToCommit
    PROVE  IInv'
<1>1. PICK blk \in inflight_blks :
          /\ blk.id = next_to_commit
          /\ inflight_blks' = inflight_blks \ {blk}
          /\ committed' = Append(committed, blk)
  BY DEF NextToCommit
<1>2. /\ next_to_commit \in commit_ready /\ commit_ready' \subseteq commit_ready
      /\ next_to_commit' = next_to_commit + 1
      /\ UNCHANGED <<batchVars, net, recvVars, new_block, block_ready, acks>>
  BY DEF NextToCommit
<1>3. /\ commit_ready \subseteq Acked /\ committed \in Seq(Passed(N)) /\ acks \in Seq(Acked)
      /\ inflight_blks \subseteq Blocks
  BY DEF IInv, Acknowledged, Typed
<1>4. blk \in Passed(N)
  BY <1>1, <1>2, <1>3 DEF Passed, Acked
<1>5. committed' \in Seq(Passed(N))
  BY <1>1, <1>3, <1>4, AppendStays
<1>6. (\A m : Passed(m)' = Passed(m)) /\ Acked' = Acked
  BY <1>2, SameSeen DEF recvVars
<1>7. Typed' /\ Descending'
  BY <1>1, <1>2, <1>6 DEF IInv, Typed, BatchTyped, Descending, batchVars, recvVars
<1>8. Acknowledged'
  BY <1>2, <1>3, <1>5, <1>6 DEF Acknowledged
<1>9. Counting'
  <2>1. /\ next_to_commit = Len(committed) + 1 /\ Len(committed) \in Nat
        /\ \A i \in 1 .. Len(committed) : committed[i].id = i
    BY <1>3 DEF IInv, Counting
  <2>2. /\ Len(committed') = Len(committed) + 1
        /\ committed'[Len(committed) + 1] = blk
        /\ \A i \in 1 .. Len(committed) : committed'[i] = committed[i]
    BY <1>1, <1>3
  <2>3. \A i \in 1 .. Len(committed') : i \in 1 .. Len(committed) \/ i = Len(committed) + 1
    BY <2>1, <2>2
  <2>4. \A i \in 1 .. Len(committed') : committed'[i].id = i
    BY <1>1, <2>1, <2>2, <2>3
  <2> QED
    BY <1>2, <2>1, <2>2, <2>4 DEF Counting
<1> QED
  BY <1>7, <1>8, <1>9 DEF IInv

----------------------------------------------------------------------------
\* The inductive invariant and what follows from it

LEMMA IInvHolds == Spec => []IInv
<1>1. IInv /\ [Next]_vars => IInv'
  <2> SUFFICES ASSUME IInv, [Next]_vars PROVE IInv'
    OBVIOUS
  <2>1. CASE RecordNewTxns
    BY <2>1, RecordStep
  <2>2. CASE PrepareNewBlock
    BY <2>2, PrepareStep
  <2>3. CASE GetNewBlock
    BY <2>3, GetNewBlockStep
  <2>4. ASSUME NEW n \in Replicas, NodeStep(n) PROVE IInv'
    <3>1. CASE Disseminate(n)
      BY <3>1, DisseminateStep
    <3>2. CASE DisseminateFails(n)
      BY <3>2, DisseminateFailsStep
    <3>3. CASE ReceivePeerBlk(n)
      BY <3>3, ReceiveStep
    <3>4. CASE FinishValidation(n)
      BY <3>4, FinishStep
    <3>5. CASE ValidateBlock(n)
      BY <3>5, ValidateStep
    <3>6. CASE NewTail(n)
      BY <3>6, NewTailStep
    <3> QED
      BY <2>4, <3>1, <3>2, <3>3, <3>4, <3>5, <3>6 DEF NodeStep
  <2>5. CASE NewTailAckFails
    BY <2>5, AckFailsStep
  <2>6. CASE HandlePeerMsg
    BY <2>6, PeerMsgStep
  <2>7. CASE NextToCommit
    BY <2>7, CommitStep
  <2>8. CASE UNCHANGED vars
    <3>1. (\A m : Passed(m)' = Passed(m)) /\ Acked' = Acked
      BY <2>8, SameSeen DEF vars, recvVars
    <3> QED
      BY <2>8, <3>1 DEF IInv, Typed, BatchTyped, Descending, Acknowledged, Counting, vars,
         batchVars, recvVars, headVars
  <2> QED
    BY <2>1, <2>2, <2>3, <2>4, <2>5, <2>6, <2>7, <2>8 DEF Next
<1> QED
  BY <1>1, InitIInv, PTL DEF Spec

\* The promise of chain replication, for every number of replicas: what the
\* head commits every other replica has received before, although validation
\* tasks reorder blocks and sends fail.
THEOREM CommitsAreReplicated == Spec => []CommittedIsReplicated
<1>1. IInv => CommittedIsReplicated
  <2> SUFFICES ASSUME IInv, NEW i \in DOMAIN committed, NEW n \in Replicas \ {Head1}
               PROVE  committed[i].id \in blks_seen[n]
    BY DEF CommittedIsReplicated
  <2>1. committed[i] \in Passed(N)
    BY DEF IInv, Acknowledged
  <2>2. n \in 2 .. N
    BY ReplicasAssumption DEF Replicas, Head1
  <2> QED
    BY <2>1, <2>2 DEF Passed
<1> QED
  BY <1>1, IInvHolds, PTL

----------------------------------------------------------------------------
\* The transactions of the committed blocks

\* The transactions that arrived after the first a, up to the b-th.
Span(a, b) == [j \in 1 .. b - a |-> a + j]

\* The blocks that the head has cut out of its mem_pool.
CutBlocks(cut) ==
    {b \in Blocks : /\ b.id \in 1 .. next_blk_id - 1
                    /\ b.txns = Span(cut[b.id], cut[b.id + 1])}

\* The transactions committed so far.
Log == FlattenSeq([i \in DOMAIN committed |-> committed[i].txns])

\* The head was sent no block, so what its decide stage gets are its own.
HeadAlone == net[1] = <<>> /\ validating[1] = {} /\ pending[1] = <<>>

\* Block i holds the transactions after the cut[i]-th up to the cut[i + 1]-th,
\* the mem_pool those after the last cut.
CutAt(cut) ==
    /\ cut[1] = 0
    /\ \A i \in 1 .. next_blk_id - 1 : cut[i] <= cut[i + 1]
    /\ mem_pool = Span(cut[next_blk_id], arrived)
    /\ new_block[1] \in Seq(CutBlocks(cut))
    /\ block_ready[1] \in Seq(CutBlocks(cut))
    /\ inflight_blks \subseteq CutBlocks(cut)
    /\ next_to_commit <= next_blk_id
    /\ Log = Span(0, cut[next_to_commit])

Cuts ==
    /\ next_blk_id >= 1
    /\ HeadAlone
    /\ \E cut \in [1 .. next_blk_id -> 0 .. arrived] : CutAt(cut)

LEMMA Spans ==
    ASSUME NEW a \in Nat, NEW b \in Nat, a <= b
    PROVE  /\ Span(a, b) \in Seq(Nat) /\ Len(Span(a, b)) = b - a
           /\ \A i \in 1 .. b - a : Span(a, b)[i] = a + i
BY DEF Span

\* Adjacent spans join, and a span splits where one likes.
LEMMA SpansJoin ==
    ASSUME NEW a \in Nat, NEW b \in Nat, NEW c \in Nat, a <= b, b <= c
    PROVE  Span(a, b) \o Span(b, c) = Span(a, c)
<1> DEFINE l == Span(a, b)  r == Span(b, c)  m == Span(a, c)
<1>1. l \in Seq(Nat) /\ Len(l) = b - a /\ \A i \in 1 .. b - a : l[i] = a + i
  BY Spans
<1>2. r \in Seq(Nat) /\ Len(r) = c - b /\ \A i \in 1 .. c - b : r[i] = b + i
  BY Spans
<1>3. a <= c
  OBVIOUS
<1>4. m \in Seq(Nat) /\ Len(m) = c - a /\ \A i \in 1 .. c - a : m[i] = a + i
  BY <1>3, Spans
<1> HIDE DEF l, r, m
<1>5. /\ l \o r \in Seq(Nat) /\ Len(l \o r) = Len(l) + Len(r)
      /\ \A i \in 1 .. Len(l) + Len(r) :
           (l \o r)[i] = IF i <= Len(l) THEN l[i] ELSE r[i - Len(l)]
  BY <1>1, <1>2, ConcatProperties, Zenon
<1>6. ASSUME NEW i \in 1 .. c - a
      PROVE  (l \o r)[i] = m[i]
  <2>1. CASE i <= b - a
    BY <1>1, <1>2, <1>4, <1>5, <2>1
  <2>2. CASE ~(i <= b - a)
    <3>1. (l \o r)[i] = r[i - (b - a)] /\ i - (b - a) \in 1 .. c - b
      BY <1>1, <1>2, <1>5, <2>2, SMTT(30)
    <3> QED
      BY <1>2, <1>4, <3>1
  <2> QED
    BY <2>1, <2>2, Zenon
<1>7. l \o r = m
  <2>1. Len(l \o r) = c - a
    BY <1>1, <1>2, <1>5
  <2>2. \A i \in 1 .. Len(l \o r) : (l \o r)[i] = m[i]
    BY <1>6, <2>1
  <2>3. Len(l \o r) = Len(m)
    BY <1>4, <2>1
  <2> QED
    BY <1>4, <1>5, <2>2, <2>3, SeqEqual, Zenon
<1> QED
  BY <1>7 DEF l, r, m

LEMMA SpanSplits ==
    ASSUME NEW a \in Nat, NEW b \in Nat, a <= b, NEW k \in 0 .. b - a
    PROVE  /\ SubSeq(Span(a, b), 1, k) = Span(a, a + k)
           /\ SubSeq(Span(a, b), k + 1, b - a) = Span(a + k, b)
<1>1. /\ Span(a, b) \in Seq(Nat) /\ Len(Span(a, b)) = b - a
      /\ \A i \in 1 .. b - a : Span(a, b)[i] = a + i
  BY Spans
<1>2. a + k \in Nat /\ a <= a + k /\ a + k <= b
  OBVIOUS
<1>3. SubSeq(Span(a, b), 1, k) = Span(a, a + k)
  BY <1>1, <1>2 DEF Span
<1>4. SubSeq(Span(a, b), k + 1, b - a) = Span(a + k, b)
  <2>1. SubSeq(Span(a, b), k + 1, b - a)
          = [i \in 1 .. (b - a) - (k + 1) + 1 |-> Span(a, b)[k + 1 + i - 1]]
    BY <1>1
  <2>2. \A i \in 1 .. (b - a) - (k + 1) + 1 : Span(a, b)[k + 1 + i - 1] = (a + k) + i
    BY <1>1
  <2>3. (b - a) - (k + 1) + 1 = b - (a + k)
    OBVIOUS
  <2> QED
    BY <2>1, <2>2, <2>3 DEF Span
<1> QED
  BY <1>3, <1>4

\* Steps that leave the head's mem_pool and commits alone keep the cuts, if
\* they bring it no foreign block.
LEMMA SameCuts ==
    ASSUME Cuts, HeadAlone',
           NEW cut \in [1 .. next_blk_id -> 0 .. arrived], CutAt(cut),
           UNCHANGED <<batchVars, next_to_commit, committed>>,
           new_block'[1] \in Seq(CutBlocks(cut)), block_ready'[1] \in Seq(CutBlocks(cut)),
           inflight_blks' \subseteq CutBlocks(cut)
    PROVE  Cuts'
<1>1. CutBlocks(cut)' = CutBlocks(cut) /\ Log' = Log
  BY DEF CutBlocks, Log, batchVars
<1>2. CutAt(cut)'
  BY <1>1 DEF CutAt, batchVars
<1>3. cut \in [1 .. next_blk_id' -> 0 .. arrived'] /\ next_blk_id' >= 1
  BY DEF batchVars, Cuts
<1> QED
  BY <1>2, <1>3 DEF Cuts

LEMMA InitCuts == Init => Cuts
<1> SUFFICES ASSUME Init PROVE Cuts
  OBVIOUS
<1> DEFINE cut == [i \in 1 .. 1 |-> 0]
<1>1. 1 \in Replicas
  BY ReplicasAssumption DEF Replicas
<1>2. HeadAlone
  BY <1>1 DEF Init, HeadAlone
<1>3. Span(0, 0) = <<>>
  BY DEF Span
<1>4. [i \in DOMAIN committed |-> committed[i].txns] = <<>>
  BY DEF Init
<1>5. Log = <<>>
  <2>1. <<>> \in Seq(Seq(Nat))
    BY EmptySeq
  <2> QED
    BY <1>4, <2>1, FlattenSeqProperties, Zenon DEF Log
<1>6. CutAt(cut)
  BY <1>1, <1>3, <1>5 DEF Init, CutAt
<1>7. cut \in [1 .. next_blk_id -> 0 .. arrived] /\ next_blk_id >= 1
  BY DEF Init
<1> QED
  BY <1>2, <1>6, <1>7, Zenon DEF Cuts

LEMMA RecordCuts ==
    ASSUME IInv, Cuts, RecordNewTxns
    PROVE  Cuts'
<1>1. PICK upto \in arrived + 1 .. Len(Size) :
          /\ arrived' = upto
          /\ mem_pool' = mem_pool \o [i \in 1 .. upto - arrived |-> arrived + i]
  BY Zenon DEF RecordNewTxns
<1>2. PICK cut \in [1 .. next_blk_id -> 0 .. arrived] : CutAt(cut)
  BY DEF Cuts
<1>3. arrived \in Nat /\ next_blk_id \in Nat /\ next_blk_id >= 1 /\ Len(Size) \in Nat
  BY SizeAssumption DEF IInv, Typed, BatchTyped, Cuts
<1>4. upto \in Nat /\ arrived <= upto
  BY <1>3
<1>5. cut \in [1 .. next_blk_id' -> 0 .. arrived'] /\ next_blk_id' >= 1
  BY <1>1, <1>3, <1>4 DEF RecordNewTxns
<1>6. mem_pool' = Span(cut[next_blk_id], upto)
  <2>1. cut[next_blk_id] \in Nat /\ cut[next_blk_id] <= arrived
    BY <1>3
  <2>2. mem_pool' = Span(cut[next_blk_id], arrived) \o Span(arrived, upto)
    BY <1>1, <1>2 DEF CutAt, Span
  <2> QED
    BY <1>3, <1>4, <2>1, <2>2, SpansJoin, Zenon
<1>7. CutBlocks(cut)' = CutBlocks(cut) /\ Log' = Log
  BY DEF RecordNewTxns, CutBlocks, Log, headVars
<1>8. CutAt(cut)'
  BY <1>1, <1>2, <1>6, <1>7, Zenon DEF RecordNewTxns, CutAt, headVars
<1>9. HeadAlone'
  BY DEF Cuts, HeadAlone, RecordNewTxns, recvVars
<1> QED
  BY <1>5, <1>8, <1>9 DEF Cuts

\* get_new_block cuts once more: after the transactions it takes.
LEMMA GetNewBlockCuts ==
    ASSUME IInv, Cuts, GetNewBlock
    PROVE  Cuts'
<1>1. PICK cut \in [1 .. next_blk_id -> 0 .. arrived] : CutAt(cut)
  BY DEF Cuts
<1> DEFINE k == curr_batch_len
           blk == [id |-> next_blk_id, txns |-> SubSeq(mem_pool, 1, k)]
           last == cut[next_blk_id]
<1>2. /\ arrived \in Nat /\ next_blk_id \in Nat /\ next_blk_id >= 1 /\ mem_pool \in Seq(Nat)
      /\ k \in 0 .. Len(mem_pool)
  BY DEF IInv, Typed, BatchTyped, Cuts
<1>3. last \in Nat /\ last <= arrived /\ mem_pool = Span(last, arrived)
  BY <1>1, <1>2 DEF CutAt
<1>4. Len(mem_pool) = arrived - last
  BY <1>2, <1>3, Spans, Zenon
<1>5. k \in 0 .. arrived - last
  BY <1>2, <1>4
<1>6. /\ SubSeq(mem_pool, 1, k) = Span(last, last + k)
      /\ SubSeq(mem_pool, k + 1, Len(mem_pool)) = Span(last + k, arrived)
  <2>1. /\ SubSeq(Span(last, arrived), 1, k) = Span(last, last + k)
        /\ SubSeq(Span(last, arrived), k + 1, arrived - last) = Span(last + k, arrived)
    BY <1>2, <1>3, <1>5, SpanSplits, Zenon
  <2> QED
    BY <1>3, <1>4, <2>1
<1>7. PICK more \in [1 .. next_blk_id + 1 -> 0 .. arrived] :
          /\ \A i \in 1 .. next_blk_id : more[i] = cut[i]
          /\ more[next_blk_id + 1] = last + k
  <2> DEFINE m == [i \in 1 .. next_blk_id + 1 |-> IF i = next_blk_id + 1 THEN last + k ELSE cut[i]]
  <2>1. m \in [1 .. next_blk_id + 1 -> 0 .. arrived]
    BY <1>2, <1>3, <1>5
  <2>2. (\A i \in 1 .. next_blk_id : m[i] = cut[i]) /\ m[next_blk_id + 1] = last + k
    BY <1>2
  <2> QED
    BY <2>1, <2>2, Zenon
<1>8. /\ \A i \in 1 .. next_blk_id : more[i] = cut[i]
      /\ more[next_blk_id + 1] = last + k
  BY <1>7
<1>9. arrived' = arrived /\ next_blk_id' = next_blk_id + 1 /\ UNCHANGED headVars
  BY DEF GetNewBlock
<1>10. \A b \in CutBlocks(cut) : b \in CutBlocks(more)'
  <2> SUFFICES ASSUME NEW b \in CutBlocks(cut) PROVE b \in CutBlocks(more)'
    OBVIOUS
  <2>1. b \in Blocks /\ b.id \in 1 .. next_blk_id - 1 /\ b.txns = Span(cut[b.id], cut[b.id + 1])
    BY DEF CutBlocks
  <2>2. \A i \in 1 .. next_blk_id - 1 : /\ more[i] = cut[i] /\ more[i + 1] = cut[i + 1]
                                       /\ i \in 1 .. next_blk_id' - 1
    BY <1>2, <1>8, <1>9
  <2> QED
    BY <2>1, <2>2 DEF CutBlocks
<1>11. Seq(CutBlocks(cut)) \subseteq Seq(CutBlocks(more)')
  BY <1>10, SeqGrows
<1>12. blk \in CutBlocks(more)'
  <2>1. SubSeq(mem_pool, 1, k) \in Seq(Nat)
    BY <1>2, SMTT(30)
  <2>2. blk \in Blocks
    BY <1>2, <2>1 DEF Blocks
  <2>3. blk.txns = Span(more[next_blk_id], more[next_blk_id + 1])
    BY <1>2, <1>3, <1>6, <1>8, SMTT(30)
  <2> QED
    BY <1>2, <1>9, <2>2, <2>3 DEF CutBlocks
<1>13. 1 \in Replicas /\ new_block \in [Replicas -> Seq(Blocks)]
  BY ReplicasAssumption DEF Replicas, IInv, Typed
<1>14. new_block'[1] = Append(new_block[1], blk)
  BY <1>13 DEF GetNewBlock, Head1
<1>15. new_block[1] \in Seq(CutBlocks(more)') /\ block_ready[1] \in Seq(CutBlocks(more)')
  BY <1>1, <1>11 DEF CutAt
<1>16. new_block'[1] \in Seq(CutBlocks(more)') /\ block_ready'[1] \in Seq(CutBlocks(more)')
  BY <1>12, <1>14, <1>15, AppendStays DEF GetNewBlock
<1>17. inflight_blks' \subseteq CutBlocks(more)'
  BY <1>1, <1>9, <1>10 DEF CutAt, headVars
<1>18. mem_pool' = Span(more[next_blk_id + 1], arrived)
  BY <1>6, <1>8 DEF GetNewBlock
<1>19. more[1] = 0 /\ \A i \in 1 .. next_blk_id : more[i] <= more[i + 1]
  <2>1. more[1] = 0
    BY <1>1, <1>2, <1>8 DEF CutAt
  <2>2. ASSUME NEW i \in 1 .. next_blk_id - 1 PROVE more[i] <= more[i + 1]
    BY <1>1, <1>2, <1>8 DEF CutAt
  <2>3. more[next_blk_id] <= more[next_blk_id + 1]
    BY <1>2, <1>3, <1>5, <1>8
  <2> QED
    BY <1>2, <2>1, <2>2, <2>3, SMTT(30)
<1>20. next_to_commit' <= next_blk_id + 1 /\ Log' = Span(0, more[next_to_commit'])
  <2>1. next_to_commit <= next_blk_id /\ Log = Span(0, cut[next_to_commit])
    BY <1>1 DEF CutAt
  <2>2. next_to_commit \in Nat \ {0}
    BY DEF IInv, Counting, Acknowledged
  <2>3. Log' = Log /\ next_to_commit' = next_to_commit
    BY <1>9 DEF Log, headVars
  <2>4. more[next_to_commit] = cut[next_to_commit]
    BY <1>2, <1>8, <2>1, <2>2
  <2> QED
    BY <1>2, <2>1, <2>2, <2>3, <2>4
<1>21. CutAt(more)'
  BY <1>2, <1>9, <1>16, <1>17, <1>18, <1>19, <1>20, SMTT(30) DEF CutAt
<1>22. HeadAlone'
  BY DEF Cuts, HeadAlone, GetNewBlock, recvVars
<1> QED
  BY <1>2, <1>7, <1>9, <1>21, <1>22, SMTT(30) DEF Cuts

\* prepare_new_block, and what the stages of the replicas do.  The head
\* receives from nobody, so its stages only hold what get_new_block made.
LEMMA PrepareCuts ==
    ASSUME IInv, Cuts, PrepareNewBlock
    PROVE  Cuts'
<1>1. PICK cut \in [1 .. next_blk_id -> 0 .. arrived] : CutAt(cut)
  BY DEF Cuts
<1>2. CutBlocks(cut)' = CutBlocks(cut) /\ Log' = Log
  BY DEF PrepareNewBlock, CutBlocks, Log, headVars
<1>3. CutAt(cut)'
  BY <1>1, <1>2, SMTT(30) DEF PrepareNewBlock, CutAt, headVars
<1>4. HeadAlone' /\ next_blk_id' >= 1
  BY DEF Cuts, HeadAlone, PrepareNewBlock, recvVars
<1>5. cut \in [1 .. next_blk_id' -> 0 .. arrived']
  BY DEF PrepareNewBlock
<1> QED
  BY <1>3, <1>4, <1>5 DEF Cuts

LEMMA NodeCuts ==
    ASSUME IInv, Cuts, NEW n \in Replicas, NodeStep(n)
    PROVE  Cuts'
<1>1. PICK cut \in [1 .. next_blk_id -> 0 .. arrived] : CutAt(cut)
  BY DEF Cuts
<1> DEFINE C == CutBlocks(cut)
<1>2. new_block[1] \in Seq(C) /\ block_ready[1] \in Seq(C) /\ inflight_blks \subseteq C
  BY <1>1 DEF CutAt
<1>3. 1 \in Replicas /\ N \in Nat
  BY ReplicasAssumption DEF Replicas
<1>4. /\ net \in [Replicas -> Seq(Blocks)] /\ pending \in [Replicas -> Seq(Blocks)]
      /\ validating \in [Replicas -> SUBSET Blocks]
      /\ new_block \in [Replicas -> Seq(Blocks)] /\ block_ready \in [Replicas -> Seq(Blocks)]
  BY DEF IInv, Typed
<1>5. net[1] = <<>> /\ validating[1] = {} /\ pending[1] = <<>>
  BY DEF Cuts, HeadAlone
<1> HIDE DEF C
<1>6. ASSUME new_block[1] # <<>> PROVE Head(new_block[1]) \in C /\ Tail(new_block[1]) \in Seq(C)
  BY <1>2, <1>6, HeadTail
<1>7. ASSUME block_ready[1] # <<>> PROVE Head(block_ready[1]) \in C /\ Tail(block_ready[1]) \in Seq(C)
  BY <1>2, <1>7, HeadTail
<1>8. n \in Nat /\ n >= 1
  BY DEF Replicas
<1>9. /\ new_block'[1] \in Seq(C) /\ block_ready'[1] \in Seq(C) /\ inflight_blks' \subseteq C
      /\ HeadAlone'
      /\ UNCHANGED <<batchVars, next_to_commit, committed>>
  <2>1. CASE Disseminate(n)
    <3>1. net'[1] = net[1]
      BY <1>3, <1>4, <1>8, <2>1 DEF Disseminate
    <3>2. CASE n = 1
      <4>1. new_block[1] # <<>> /\ new_block'[1] = Tail(new_block[1])
        BY <1>3, <1>4, <2>1, <3>2 DEF Disseminate
      <4>2. block_ready'[1] = Append(block_ready[1], Head(new_block[1]))
        BY <1>3, <1>4, <2>1, <3>2 DEF Disseminate
      <4>3. block_ready'[1] \in Seq(C)
        BY <1>2, <1>6, <4>1, <4>2, AppendStays
      <4> QED
        BY <1>2, <1>5, <1>6, <2>1, <3>1, <4>1, <4>3 DEF Disseminate, HeadAlone, recvVars, headVars
    <3>3. CASE n # 1
      <4>1. new_block'[1] = new_block[1] /\ block_ready'[1] = block_ready[1]
        BY <1>3, <1>4, <2>1, <3>3 DEF Disseminate
      <4> QED
        BY <1>2, <1>5, <2>1, <3>1, <4>1 DEF Disseminate, HeadAlone, recvVars, headVars
    <3> QED
      BY <3>2, <3>3
  <2>2. CASE DisseminateFails(n)
    <3>1. new_block'[1] = new_block[1] \/ (new_block[1] # <<>> /\ new_block'[1] = Tail(new_block[1]))
      BY <1>3, <1>4, <2>2, SMTT(30) DEF DisseminateFails
    <3> QED
      BY <1>2, <1>5, <1>6, <2>2, <3>1 DEF DisseminateFails, HeadAlone, recvVars, headVars
  <2>3. CASE ReceivePeerBlk(n)
    <3>1. n # 1
      BY <1>5, <2>3 DEF ReceivePeerBlk
    <3>2. net'[1] = net[1] /\ validating'[1] = validating[1]
      BY <1>3, <1>4, <2>3, <3>1 DEF ReceivePeerBlk
    <3> QED
      BY <1>2, <1>5, <2>3, <3>2, Zenon DEF ReceivePeerBlk, HeadAlone, headVars
  <2>4. CASE FinishValidation(n)
    <3>1. n # 1
      BY <1>5, <2>4 DEF FinishValidation
    <3>2. pending'[1] = pending[1] /\ validating'[1] = validating[1]
      BY <1>3, <1>4, <2>4, <3>1 DEF FinishValidation
    <3> QED
      BY <1>2, <1>5, <2>4, <3>2 DEF FinishValidation, HeadAlone, headVars
  <2>5. CASE ValidateBlock(n)
    <3>1. n # 1
      BY <1>5, <2>5 DEF ValidateBlock
    <3>2. pending'[1] = pending[1] /\ new_block'[1] = new_block[1]
      BY <1>3, <1>4, <2>5, <3>1 DEF ValidateBlock
    <3> QED
      BY <1>2, <1>5, <2>5, <3>2 DEF ValidateBlock, HeadAlone, headVars
  <2>6. CASE NewTail(n)
    <3>1. CASE n = 1
      <4>1. /\ block_ready[1] # <<>> /\ block_ready'[1] = Tail(block_ready[1])
            /\ inflight_blks' = inflight_blks \cup {Head(block_ready[1])}
        BY <1>3, <1>4, <2>6, <3>1 DEF NewTail, Head1
      <4> QED
        BY <1>2, <1>5, <1>7, <2>6, <4>1 DEF NewTail, HeadAlone, recvVars
    <3>2. CASE n # 1
      <4>1. block_ready'[1] = block_ready[1] /\ inflight_blks' = inflight_blks
        BY <1>3, <1>4, <2>6, <3>2 DEF NewTail, Head1
      <4> QED
        BY <1>2, <1>5, <2>6, <4>1 DEF NewTail, HeadAlone, recvVars
    <3> QED
      BY <3>1, <3>2
  <2> QED
    BY <2>1, <2>2, <2>3, <2>4, <2>5, <2>6 DEF NodeStep
<1> QED
  BY <1>1, <1>9, SameCuts DEF C

LEMMA CommitCuts ==
    ASSUME IInv, Cuts, NextToCommit
    PROVE  Cuts'
<1>1. PICK blk \in inflight_blks :
          /\ blk.id = next_to_commit
          /\ inflight_blks' = inflight_blks \ {blk}
          /\ committed' = Append(committed, blk)
  BY DEF NextToCommit
<1>2. PICK cut \in [1 .. next_blk_id -> 0 .. arrived] : CutAt(cut)
  BY DEF Cuts
<1> DEFINE k == next_to_commit
           txns == [i \in DOMAIN committed |-> committed[i].txns]
<1>3. /\ blk \in Blocks /\ k \in 1 .. next_blk_id - 1
      /\ blk.txns = Span(cut[k], cut[k + 1])
  BY <1>1, <1>2 DEF CutAt, CutBlocks
<1>4. next_blk_id \in Nat /\ arrived \in Nat
  BY DEF IInv, Typed, BatchTyped
<1>5. cut[k] \in Nat /\ cut[k + 1] \in Nat /\ cut[k] <= cut[k + 1]
  <2>1. k \in 1 .. next_blk_id /\ k + 1 \in 1 .. next_blk_id
    BY <1>3, <1>4
  <2>2. cut[k] \in 0 .. arrived /\ cut[k + 1] \in 0 .. arrived
    BY <2>1
  <2> QED
    BY <1>2, <1>3, <1>4, <2>2 DEF CutAt
<1>6. Log' = Log \o blk.txns
  <2>1. committed \in Seq(Blocks)
    <3>1. committed \in Seq(Passed(N))
      BY DEF IInv, Acknowledged
    <3>2. Passed(N) \subseteq Blocks
      BY DEF Passed
    <3> QED
      BY <3>1, <3>2, SeqGrows
  <2>2. \A b \in Blocks : b.txns \in Seq(Nat)
    BY DEF Blocks
  <2> HIDE DEF txns
  <2>3. txns \in Seq(Seq(Nat))
    BY <2>1, <2>2 DEF txns
  <2>4. [i \in DOMAIN committed |-> committed[i].txns]' = Append(txns, blk.txns)
    BY <1>1, <1>3, <2>1 DEF txns
  <2>5. blk.txns \in Seq(Nat)
    BY <1>3, <2>2
  <2>6. FlattenSeq(Append(txns, blk.txns)) = FlattenSeq(txns) \o blk.txns
    BY <2>3, <2>5, FlattenSeqProperties, Zenon
  <2> QED
    BY <2>4, <2>6, Zenon DEF Log, txns
<1>7. Log' = Span(0, cut[k + 1])
  <2>1. Log = Span(0, cut[k])
    BY <1>2 DEF CutAt
  <2>2. Span(0, cut[k]) \o Span(cut[k], cut[k + 1]) = Span(0, cut[k + 1])
    <3>1. 0 \in Nat /\ 0 <= cut[k]
      BY <1>5
    <3> HIDE DEF k
    <3> QED
      BY <1>5, <3>1, SpansJoin, Zenon
  <2> QED
    BY <1>3, <1>6, <2>1, <2>2
<1>8. next_to_commit' = k + 1 /\ k + 1 <= next_blk_id
  BY <1>3, <1>4 DEF NextToCommit
<1>9. CutBlocks(cut)' = CutBlocks(cut)
  BY DEF NextToCommit, CutBlocks, batchVars
<1>10. CutAt(cut)'
  BY <1>1, <1>2, <1>7, <1>8, <1>9 DEF NextToCommit, CutAt, batchVars
<1>11. HeadAlone' /\ next_blk_id' >= 1
  BY DEF Cuts, HeadAlone, NextToCommit, recvVars, batchVars
<1>12. cut \in [1 .. next_blk_id' -> 0 .. arrived']
  BY DEF NextToCommit, batchVars
<1> QED
  BY <1>10, <1>11, <1>12 DEF Cuts

LEMMA OtherCuts ==
    ASSUME IInv, Cuts, NewTailAckFails \/ HandlePeerMsg \/ UNCHANGED vars
    PROVE  Cuts'
<1>1. PICK cut \in [1 .. next_blk_id -> 0 .. arrived] : CutAt(cut)
  BY DEF Cuts
<1>2. 1 \in Replicas /\ block_ready \in [Replicas -> Seq(Blocks)]
  BY ReplicasAssumption DEF Replicas, IInv, Typed
<1>3. block_ready'[1] = block_ready[1] /\ UNCHANGED <<new_block, batchVars, net, recvVars>>
  BY <1>2 DEF NewTailAckFails, HandlePeerMsg, vars, Head1
<1>4. UNCHANGED <<inflight_blks, next_to_commit, committed>>
  BY DEF NewTailAckFails, HandlePeerMsg, vars, headVars
<1>5. HeadAlone'
  BY <1>3 DEF Cuts, HeadAlone, recvVars
<1> QED
  BY <1>1, <1>3, <1>4, <1>5, SameCuts, Zenon DEF CutAt

LEMMA CutsHold == Spec => []Cuts
<1>1. IInv /\ Cuts /\ [Next]_vars => Cuts'
  BY RecordCuts, PrepareCuts, GetNewBlockCuts, NodeCuts, CommitCuts, OtherCuts DEF Next
<1> QED
  BY InitCuts, IInvHolds, <1>1, PTL DEF Spec

\* The head commits the blocks 1, 2, 3, ... without a gap, and the
\* transactions they hold are the arrived ones in the order of arrival: none
\* is skipped, repeated or overtaken (commit_ready and next_to_commit,
\* get_new_block), whatever the order in which the replicas pass blocks on
\* and however many sends fail.
THEOREM CommitsInOrder == Spec => []CommittedInOrder
<1>1. IInv /\ Cuts => CommittedInOrder
  <2> SUFFICES ASSUME IInv, Cuts PROVE CommittedInOrder
    OBVIOUS
  <2>1. \A i \in DOMAIN committed : committed[i].id = i
    BY DEF IInv, Counting, Acknowledged
  <2>2. PICK cut \in [1 .. next_blk_id -> 0 .. arrived] : CutAt(cut)
    BY DEF Cuts
  <2>3. Log = Span(0, cut[next_to_commit]) /\ cut[next_to_commit] \in Nat
    <3>1. next_to_commit \in Nat \ {0} /\ next_blk_id \in Nat /\ arrived \in Nat
      BY DEF IInv, Counting, Acknowledged, Typed, BatchTyped
    <3>2. next_to_commit <= next_blk_id
      BY <2>2 DEF CutAt
    <3> QED
      BY <2>2, <3>1, <3>2 DEF CutAt
  <2>4. \A i \in DOMAIN Log : Log[i] = i
    BY <2>3 DEF Span
  <2> QED
    BY <2>1, <2>4 DEF CommittedInOrder, Log
<1> QED
  BY <1>1, IInvHolds, CutsHold, PTL
=============================================================================
