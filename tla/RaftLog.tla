------------------------------- MODULE RaftLog -------------------------------
(***************************************************************************)
(* What the servers of Raft are for: the refinement mapping from Raft to    *)
(* the replicated log kv-api relies on, and the schedule it is checked      *)
(* under.                                                                  *)
(***************************************************************************)
EXTENDS Raft

\* The commands of committed entries are those on any server whose
\* s.commitIndex is the highest.
MostAdvanced ==
    CHOOSE s \in Server : \A t \in Server : commitIndex[t] <= commitIndex[s]

\* The commands among the first n entries of lg, in their order.
CommandsAt(lg, n) == {i \in 1..n : lg[i].cmd \in Value}

Commands(lg, n) ==
    LET At == CommandsAt(lg, n)
        Nth(j) == CHOOSE i \in At : Cardinality({k \in At : k <= i}) = j
    IN  [j \in 1..Cardinality(At) |-> lg[Nth(j)].cmd]

CommittedBy(s) == Commands(log[s], Least(commitIndex[s], Len(log[s])))

Abstract == INSTANCE ReplicatedLog WITH
    Node <- Server,
    Cmd <- Value,
    decided <- CommittedBy(MostAdvanced),
    given <- applied

\* navi.Server implements a replicated log: whichever servers advanceCommitIndex
\* moves forward, and whoever leads, the sequence of committed commands only
\* grows and every s.statemachine.Apply is given the next one of it.
RefinesLog == Abstract!Spec

-----------------------------------------------------------------------------
(* The schedule of a network that is fast beside the timers: every call that *)
(* was begun is answered, or lost at once, before a server or a client takes   *)
(* another step.                                                             *)

Exchange ==
    IF goroutines # {} THEN
        \E g \in goroutines : BuildRequestVote(g) \/ BuildAppendEntries(g)
    ELSE IF requests # {} THEN
        \E r \in requests :
            \/ HandleRequestVoteRequest(r)
            \/ RefuseAppendEntries(r)
            \/ AcceptAppendEntries(r)
    ELSE
        \/ \E r \in replies : HandleRequestVoteResponse(r)
        \/ \E r \in replies : HandleAppendEntriesResponse(r)
        \/ RPCError

Quiet == goroutines \cup requests \cup replies = {}

SerialNext ==
    \/ ~Quiet /\ Exchange
    \/ Quiet /\ \E s \in Server : ServerStep(s) \/ ClientStep(s)

SerialSpec == Init /\ [][SerialNext]_vars
=============================================================================
