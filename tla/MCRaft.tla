------------------------------- MODULE MCRaft -------------------------------
(* Small instances of Raft for TLC. *)
EXTENDS RaftLog, TLC

\* Commands and calls are interchangeable: nothing depends on their order.
CallSymmetry == Permutations(Value) \cup Permutations(Call)

\* So are founding members with a running election timer.
Symmetry == CallSymmetry \cup Permutations(Impatient)

\* So are joining servers whose timer does not fire.
JoinSymmetry == Symmetry \cup Permutations((Server \ Founder) \ Impatient)

\* Bookkeeping nobody reads any more is left out of the fingerprint.  Without
\* late steps only a candidate reads the votes of others, which timeout()
\* resets, and only a leader reads nextIndex and matchIndex, which
\* becomeLeader() resets.
LiveView ==
    LET OwnVote(s) == [m \in Server |-> IF m = s THEN votedFor[s][s] ELSE 0]
        Role(s) ==
            CASE state[s] = "leader" -> <<OwnVote(s), nextIndex[s], matchIndex[s]>>
              [] state[s] = "candidate" -> <<votedFor[s]>>
              [] OTHER -> <<OwnVote(s)>>
    IN  <<nodeVars, logVars, cluster, pendingConfig, callVars, faults,
          [s \in Server |-> Role(s)]>>
=============================================================================
