------------------------------- MODULE MCCli -------------------------------
(* Small instances of Cli for TLC. *)
EXTENDS Cli

\* m.killNodes and m.killCursor are only read in the mode they are set with; a
\* stop and a reset under way do the same; once no line can be logged (the
\* bound), a stream whose container is gone can do nothing but end.  (Streams do
\* not depend on lines: what FollowedOnce says of one that is left out, it says
\* in states before any line, too.)
View ==
    LET list == IF mode = "killSelect" THEN <<killNodes, killCursor>> ELSE <<>>
        open == {s \in streams : lines < MaxLines \/ Follows(s)}
        cmds == {IF c.kind = "reset" THEN [c EXCEPT !.kind = "stop"] ELSE c : c \in commands}
    IN  <<tabs, activeTab, mode, list, nodePorts, composePath, logCtx, cmds,
          dockerVars, open, channel, waiters, lineMsgs, lines, countVars>>
=============================================================================
