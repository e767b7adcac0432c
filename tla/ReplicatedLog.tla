---------------------------- MODULE ReplicatedLog ----------------------------
(***************************************************************************)
(* What navi.Server promises the state machines it drives: there is one     *)
(* sequence of decided commands, it only grows, and every server hands its  *)
(* state machine a prefix of it, one command at a time.  A restarted        *)
(* process starts again from the first command.                            *)
(***************************************************************************)
EXTENDS Naturals, Sequences

CONSTANTS
    Node,       \* the servers
    Cmd         \* what clients ask the state machine to do

VARIABLES
    decided,    \* the commands of the committed entries, in order
    given       \* given[n]: the commands n's state machine was given

rlVars == <<decided, given>>

Init ==
    /\ decided = <<>>
    /\ given = [n \in Node |-> <<>>]

\* Entries are committed, maybe several at once, and n, when it is behind,
\* may at the same time be given its next command.
Advance(n) ==
    /\ decided' \in Seq(Cmd)
    /\ Len(decided) <= Len(decided')
    /\ SubSeq(decided', 1, Len(decided)) = decided
    /\ \/ UNCHANGED given
       \/ /\ Len(given[n]) < Len(decided')
          /\ given' = [given EXCEPT ![n] = Append(@, decided'[Len(@) + 1])]

\* The process of n starts again with an empty state machine.
Restart(n) ==
    /\ given' = [given EXCEPT ![n] = <<>>]
    /\ UNCHANGED decided

Next == \E n \in Node : Advance(n) \/ Restart(n)

Spec == Init /\ [][Next]_rlVars

-----------------------------------------------------------------------------

\* No server gets ahead of what was decided or is given anything else: two
\* state machines that were given equally many commands are in the same state.
GivenDecided ==
    \A n \in Node :
        /\ Len(given[n]) <= Len(decided)
        /\ given[n] = SubSeq(decided, 1, Len(given[n]))
=============================================================================
