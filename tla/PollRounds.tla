----------------------------- MODULE PollRounds -----------------------------
(***************************************************************************)
(* What decide promises its neighbours about the polls of the node's own   *)
(* blocks, whatever the votes: a poll opens once and closes once, and the  *)
(* closed polls are handed to the commit stage in the order they closed.   *)
(***************************************************************************)
EXTENDS Sequences

CONSTANT Blocks

VARIABLES
    open,       \* polls under way
    closed,     \* closed polls, in order, not yet handed over
    handed      \* polls handed to the commit stage, in order

pollVars == <<open, closed, handed>>

PollInit == open = {} /\ closed = <<>> /\ handed = <<>>

Known(b) ==
    \/ b \in open
    \/ \E i \in DOMAIN closed : closed[i] = b
    \/ \E i \in DOMAIN handed : handed[i] = b

OpenPoll(b) ==
    /\ ~ Known(b)
    /\ open' = open \cup {b}
    /\ UNCHANGED <<closed, handed>>

ClosePoll(b) ==
    /\ b \in open
    /\ open' = open \ {b}
    /\ closed' = Append(closed, b)
    /\ UNCHANGED handed

\* The node's own vote was the only one missing.
OpenAndClosePoll(b) ==
    /\ ~ Known(b)
    /\ closed' = Append(closed, b)
    /\ UNCHANGED <<open, handed>>

HandOver ==
    /\ closed # <<>>
    /\ handed' = Append(handed, Head(closed))
    /\ closed' = Tail(closed)
    /\ UNCHANGED open

PollNext ==
    \/ \E b \in Blocks : OpenPoll(b) \/ ClosePoll(b) \/ OpenAndClosePoll(b)
    \/ HandOver

PollSafety == PollInit /\ [][PollNext]_pollVars

\* An open poll is closed in the end, and a closed one is handed over.
PollSpec ==
    /\ PollSafety
    /\ \A b \in Blocks : WF_pollVars(ClosePoll(b))
    /\ WF_pollVars(HandOver)
=============================================================================
