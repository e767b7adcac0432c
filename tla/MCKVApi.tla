------------------------------ MODULE MCKVApi ------------------------------
(* A small instance of KVApi for TLC. *)
EXTENDS KVApi, TLC

\* Nothing tells requests, values or nodes apart.
Symmetry == Permutations(Request) \cup Permutations(Val) \cup Permutations(Node)

\* Of a request, the fingerprint has what its next steps depend on: its
\* operation while its command is in a log, and whether a client still waits
\* for a handler that may be answered.  A client whose handler waits for
\* nothing any more can only be told "lost".
View ==
    LET Waits(r) == reply[r] = "none" /\ \E n \in Node : r \in waiting[n]
        InLog(r) == \/ \E i \in 1..Len(decided) : decided[i] = r
                    \/ \E n \in Node : r \in waiting[n]
        Rest(r) ==
            CASE op[r] = NotAsked -> <<>>
              [] Waits(r) -> <<op[r], "waits">>
              [] r \in open -> <<op[r], IF reply[r] = "none" THEN "lost" ELSE reply[r]>>
              [] InLog(r) -> <<op[r]>>
              [] OTHER -> <<"done">>
    IN  <<raftVars, db, faults, [r \in Request |-> Rest(r)]>>
=============================================================================
