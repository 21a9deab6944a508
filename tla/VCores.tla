------------------------------- MODULE VCores -------------------------------
(***************************************************************************)
(* VCoreGroup: a semaphore of max_cores permits shared by the stages, and  *)
(* the account of how busy the cores were.  The account is one atomic word *)
(* holding the time of the last change and the number of cores in use, and *)
(* a utilization sum; acquire and release update the word in a             *)
(* compare-exchange loop and the sum after it.  Each load, clock reading   *)
(* and atomic operation is a step of its own.                              *)
(*                                                                         *)
(* get_utilization reads the word, the sum and the clock one after the     *)
(* other while tasks go on; it writes nothing, so one reader stands for    *)
(* all of them (the proof-of-work timer and the reports).                  *)
(*                                                                         *)
(* acquire and acquire_owned differ only in who owns the permit.  Time is  *)
(* a natural number: as_secs_f32 rounds, but keeps the order.              *)
(***************************************************************************)
EXTENDS Integers, FiniteSets, FiniteSetsExt

CONSTANTS
    Tasks,          \* tasks that compete for cores
    max_cores,
    MaxTime         \* bound on the clock

ASSUME TasksAssumption == IsFiniteSet(Tasks)
ASSUME CoresAssumption == max_cores \in Nat \ {0}
ASSUME TimeAssumption == MaxTime \in Nat

VARIABLES
    permits,        \* free permits of the semaphore
    last_wakeup,    \* [ts, tickets], the two halves of the word
    utilization,
    clock,
    pc,             \* where each task is
    past,           \* the value a task read or was handed by a failed CAS
    now,            \* a task's clock reading
    window_util,    \* what a task has yet to add to utilization
    reader          \* get_utilization: where it is, its ts (the word) and util,
                    \* and seen: the time half when util was loaded (history)

taskVars == <<permits, last_wakeup, utilization, clock, pc, past, now, window_util>>
coreVars == <<taskVars, reader>>

Word == [ts : Nat, tickets : Nat]

\* The places of acquire, of the work on the core and of release.
Acquiring == {"acq_load", "acq_now", "acq_cas", "acq_add"}
Releasing == {"rel_load", "rel_now", "rel_cas", "rel_add", "rel_permit"}
Places == {"idle", "running"} \cup Acquiring \cup Releasing

\* get_utilization has not been called, or has returned.
NoReading == [at |-> "load_word", ts |-> [ts |-> 0, tickets |-> 0], util |-> 0, seen |-> 0]

CoresInit ==
    /\ permits = max_cores
    /\ last_wakeup = [ts |-> 0, tickets |-> 0]
    /\ utilization = 0
    /\ clock = 0
    /\ pc = [t \in Tasks |-> "idle"]
    /\ past = [t \in Tasks |-> [ts |-> 0, tickets |-> 0]]
    /\ now = [t \in Tasks |-> 0]
    /\ window_util = [t \in Tasks |-> 0]
    /\ reader = NoReading

Goto(t, from, to) == pc[t] = from /\ pc' = [pc EXCEPT ![t] = to]

----------------------------------------------------------------------------
\* The parts that acquire and release share

Load(t, from, to) ==
    /\ Goto(t, from, to)
    /\ past' = [past EXCEPT ![t] = last_wakeup]
    /\ UNCHANGED <<permits, last_wakeup, utilization, clock, now, window_util>>

ReadClock(t, from, to) ==
    /\ Goto(t, from, to)
    /\ now' = [now EXCEPT ![t] = clock]
    /\ UNCHANGED <<permits, last_wakeup, utilization, clock, past, window_util>>

\* Mutant: the word is stored without comparing.
ExchangeOkBlind(t, from, to, tickets) ==
    /\ Goto(t, from, to)
    /\ last_wakeup' = [ts |-> now[t], tickets |-> tickets]
    /\ window_util' = [window_util EXCEPT
                         ![t] = (now[t] - past[t].ts) * past[t].tickets]
    /\ UNCHANGED <<permits, utilization, clock, past, now>>

\* The word is as it was read: it takes the new time and tickets, and the
\* span since the old time is to be accounted at the old number of tickets.
ExchangeOk(t, from, to, tickets) ==
    /\ Goto(t, from, to)
    /\ last_wakeup = past[t]
    /\ last_wakeup' = [ts |-> now[t], tickets |-> tickets]
    /\ window_util' = [window_util EXCEPT
                         ![t] = (now[t] - past[t].ts) * past[t].tickets]
    /\ UNCHANGED <<permits, utilization, clock, past, now>>

\* Mutant: after a failed exchange the old clock reading is used again.
ExchangeFailsStale(t, from, retry) ==
    /\ Goto(t, from, from)
    /\ last_wakeup # past[t]
    /\ past' = [past EXCEPT ![t] = last_wakeup]
    /\ UNCHANGED <<permits, last_wakeup, utilization, clock, now, window_util>>

\* The word has changed: try again with what it is now.
ExchangeFails(t, from, retry) ==
    /\ Goto(t, from, retry)
    /\ last_wakeup # past[t]
    /\ past' = [past EXCEPT ![t] = last_wakeup]
    /\ UNCHANGED <<permits, last_wakeup, utilization, clock, now, window_util>>

AddWindow(t, from, to) ==
    /\ Goto(t, from, to)
    /\ utilization' = utilization + window_util[t]
    /\ window_util' = [window_util EXCEPT ![t] = 0]
    /\ UNCHANGED <<permits, last_wakeup, clock, past, now>>

----------------------------------------------------------------------------
TakePermit(t) ==
    /\ Goto(t, "idle", "acq_load")
    /\ permits > 0
    /\ permits' = permits - 1
    /\ UNCHANGED <<last_wakeup, utilization, clock, past, now, window_util>>

Acquire(t) ==
    \/ TakePermit(t)
    \/ Load(t, "acq_load", "acq_now")
    \/ ReadClock(t, "acq_now", "acq_cas")
    \/ ExchangeOk(t, "acq_cas", "acq_add", past[t].tickets + 1)
    \/ ExchangeFails(t, "acq_cas", "acq_now")
    \/ AddWindow(t, "acq_add", "running")

\* The VCore guard goes out of scope.
DropGuard(t) ==
    /\ Goto(t, "running", "rel_load")
    /\ UNCHANGED <<permits, last_wakeup, utilization, clock, past, now, window_util>>

\* The permit is a field of the guard: it is dropped after release.
ReturnPermit(t) ==
    /\ Goto(t, "rel_permit", "idle")
    /\ permits' = permits + 1
    /\ UNCHANGED <<last_wakeup, utilization, clock, past, now, window_util>>

Release(t) ==
    \/ DropGuard(t)
    \/ Load(t, "rel_load", "rel_now")
    \/ ReadClock(t, "rel_now", "rel_cas")
    \/ ExchangeOk(t, "rel_cas", "rel_add", past[t].tickets - 1)
    \/ ExchangeFails(t, "rel_cas", "rel_now")
    \/ AddWindow(t, "rel_add", "rel_permit")
    \/ ReturnPermit(t)

Tick ==
    /\ clock < MaxTime
    /\ clock' = clock + 1
    /\ UNCHANGED <<permits, last_wakeup, utilization, pc, past, now, window_util>>

----------------------------------------------------------------------------
\* get_utilization: the word, then the sum, then the clock.
ReadWord ==
    /\ reader.at = "load_word"
    /\ reader' = [reader EXCEPT !.at = "load_util", !.ts = last_wakeup]

ReadUtil ==
    /\ reader.at = "load_util"
    /\ reader' = [reader EXCEPT !.at = "read_now", !.util = utilization,
                                !.seen = last_wakeup.ts]

\* The call reads the clock and returns.
ReadNow ==
    /\ reader.at = "read_now"
    /\ reader' = NoReading

GetUtilization == ReadWord \/ ReadUtil \/ ReadNow

\* Mutant: the span since the start is counted, not since the last change.
BusyTimeFromStart == reader.util + reader.ts.tickets * clock

\* What get_utilization, about to read the clock, divides by the time since
\* the start; and get_unused, multiplied by that time.
BusyTime == reader.util + reader.ts.tickets * (clock - reader.ts.ts)

UnusedTime == max_cores * clock - BusyTime

----------------------------------------------------------------------------
CoresNext ==
    \/ Tick /\ UNCHANGED reader
    \/ \E t \in Tasks : (Acquire(t) \/ Release(t)) /\ UNCHANGED reader
    \/ GetUtilization /\ UNCHANGED taskVars

CoresSpec == CoresInit /\ [][CoresNext]_coreVars

----------------------------------------------------------------------------
\* Properties

\* The tasks that the tickets half of the word counts.
Counted == {t \in Tasks : pc[t] \in {"acq_add", "running", "rel_load", "rel_now", "rel_cas"}}

\* The values of the semaphore, the word, the account and the tasks' locals;
\* no window is negative.
TypeOK ==
    /\ permits \in 0 .. max_cores
    /\ last_wakeup \in Word
    /\ utilization \in Nat
    /\ clock \in Nat
    /\ pc \in [Tasks -> Places]
    /\ past \in [Tasks -> Word]
    /\ now \in [Tasks -> Nat]
    /\ window_util \in [Tasks -> Nat]
    /\ reader \in [at : {"load_word", "load_util", "read_now"}, ts : Word, util : Nat,
                   seen : Nat]

\* However the exchanges interleave, the tickets half counts exactly the
\* tasks between their two exchanges, and never more than max_cores: no
\* update is lost, `- 1' never borrows from the time half and `+ 1' never
\* carries into it.
TicketsExact ==
    /\ last_wakeup.tickets = Cardinality(Counted)
    /\ last_wakeup.tickets <= max_cores

\* The account never claims more than max_cores busy cores since the start:
\* with what tasks have yet to add, utilization is at most max_cores times
\* the time of the last change (get_utilization divides by it).
UtilizationBounded ==
    utilization + MapThenSumSet(LAMBDA t : window_util[t], Tasks)
        <= max_cores * last_wakeup.ts

\* What get_utilization returns may count a span twice, once from the word
\* it loaded first and once in the sum it loaded later; but by no more than
\* max_cores times what the word moved between the two loads.  So get_unused
\* is negative only if the word moved between them; it may be zero, or close
\* to it, at any time.
UnusedWithinMove ==
    reader.at = "read_now" => UnusedTime >= max_cores * (reader.ts.ts - reader.seen)
=============================================================================
