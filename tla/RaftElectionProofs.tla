------------------------- MODULE RaftElectionProofs -------------------------
(***************************************************************************)
(* At most one leader per term, whatever the network loses, delays or       *)
(* reorders, whichever servers crash, panic or are killed: for servers that *)
(* run their goroutines and read their replies before the term changes,     *)
(* that forget no vote of their term in a restart, and whose membership is  *)
(* fixed.  The runs lostvote and late show what happens otherwise.          *)
(*                                                                         *)
(* The argument is about ballots: the votes given so far, each with the log *)
(* its candidate had.  The code keeps no record of them; the invariant says *)
(* that some set of ballots explains the state.  They also show that every  *)
(* term with entries had its leader (TermsLed), so becomeLeader does not    *)
(* run in it again: what the theorems on all memberships in RaftProofs      *)
(* assume.                                                                 *)
(***************************************************************************)
EXTENDS RaftProofs, FiniteSetTheorems

\* Goroutines and replies do not outlive the term they belong to; nobody
\* joins; a log fits one AppendEntries request (8000 entries).
Prompt == Late = {} /\ Founder = Server /\ MaxLog <= MaxBatch

\* restore() brings no vote back: a server may restart when it has not voted
\* in its term, or when the leader of its term has given it an entry.
VoteRemembered(s) == votedFor[s][s] = 0 \/ LastTerm(log[s]) = currentTerm[s]
VotesRemembered == \A s \in Server : Restart(s) => VoteRemembered(s)

-----------------------------------------------------------------------------
(* What roles, requests and replies carry *)

\* A goroutine is taken up before its sender's role changes.
SendersFit ==
    \A g \in goroutines :
        /\ g.from # g.to
        /\ state[g.from] = IF g.kind = "vote" THEN "candidate" ELSE "leader"

\* A candidate's log is of earlier terms; a leader's ends in its own.
RoleFits(s) ==
    /\ Len(log[s]) <= MaxLog
    /\ state[s] # "follower" => currentTerm[s] > 0
    /\ state[s] = "candidate" => LastTerm(log[s]) < currentTerm[s]
    /\ state[s] = "leader" => LastTerm(log[s]) = currentTerm[s]

\* A vote request describes the log of its candidate; the entries of an
\* AppendEntries request end in the leader's own term.
VoteRequestFits(r) ==
    /\ r.lastLogTerm < r.term
    /\ state[r.from] = "candidate" /\ currentTerm[r.from] = r.term =>
          /\ r.lastLogTerm = LastTerm(log[r.from])
          /\ r.lastLogIndex = Len(log[r.from])

AppendRequestFits(r) ==
    /\ MatchOf(r) <= MaxLog
    /\ Len(r.entries) > 0 => r.entries[Len(r.entries)].term = r.term

RequestFits(r) ==
    /\ r.from # r.to
    /\ r.term <= currentTerm[r.from]
    /\ r.kind = "vote" => VoteRequestFits(r)
    /\ r.kind = "append" => AppendRequestFits(r)

ReplyFits(p) ==
    /\ p.from # p.to
    /\ p.term <= currentTerm[p.from]
    /\ p.kind = "vote" /\ p.success => p.rspTerm = p.term

RolesFit    == \A s \in Server : RoleFits(s)
RequestsFit == \A r \in requests : RequestFits(r)
RepliesFit  == \A p \in replies : ReplyFits(p)

LocalInv ==
    /\ OrderInv /\ MembersInv
    /\ SendersFit /\ RolesFit /\ RequestsFit /\ RepliesFit

-----------------------------------------------------------------------------
(* Ballots *)

Ballot == [voter : Server, term : Nat, cand : Server, log : Seq(Entry)]

\* m voted for s in term t, when s had the log lg.
Cast(B, m, t, s, lg) ==
    [voter |-> m, term |-> t, cand |-> s, log |-> lg] \in B

Majority(Q) == Q \subseteq Server /\ 2 * Cardinality(Q) > Cardinality(Server)

\* A majority voted for l in term t.
Elected(B, l, t, lg) ==
    \E Q \in SUBSET Server : Majority(Q) /\ \A m \in Q : Cast(B, m, t, l, lg)

\* Nobody votes for two servers in a term.
OneVotePerTerm(B) ==
    \A v, w \in B : v.voter = w.voter /\ v.term = w.term => v.cand = w.cand

\* A voter still remembers its vote, is in a later term, or has an entry of
\* the term's leader, which makes its log newer than any candidate's.
BallotKept(v) ==
    /\ v.term <= currentTerm[v.voter] /\ v.term <= currentTerm[v.cand]
    /\ currentTerm[v.voter] = v.term =>
          votedFor[v.voter][v.voter] = v.cand \/ LastTerm(log[v.voter]) = v.term

\* Votes on their way to a candidate and votes it has counted were cast.
ReplyCast(B, p) ==
    /\ p.kind = "vote" /\ p.success
    /\ state[p.from] = "candidate" /\ currentTerm[p.from] = p.term
    => Cast(B, p.to, p.term, p.from, log[p.from])
CountCast(B, s) ==
    state[s] = "candidate" =>
        \A m \in Server : votedFor[s][m] = s =>
                             Cast(B, m, currentTerm[s], s, log[s])
LeaderCast(B, s) ==
    state[s] = "leader" => \E lg \in Seq(Entry) : Elected(B, s, currentTerm[s], lg)

BallotsFit(B) ==
    /\ B \subseteq Ballot
    /\ OneVotePerTerm(B)
    /\ \A v \in B : BallotKept(v)
    /\ \A p \in replies : ReplyCast(B, p)
    /\ \A s \in Server : CountCast(B, s) /\ LeaderCast(B, s)

-----------------------------------------------------------------------------
(* Lemmas about prompt schedules and fixed memberships *)

\* What the local invariant says of one server.
LEMMA ServerTypes ==
    ASSUME LocalInv, NEW s \in Server
    PROVE  /\ currentTerm[s] \in Nat
           /\ state[s] \in {"follower", "candidate", "leader"}
           /\ log[s] \in Seq(Entry) /\ Len(log[s]) \in Nat
           /\ LastTerm(log[s]) \in Nat /\ LastTerm(log[s]) <= currentTerm[s]
           /\ votedFor[s] \in [Server -> Server \cup {0}]
           /\ cluster[s] \subseteq Server
<1>1. TypeOK
  BY DEF LocalInv, OrderInv
<1>2. log[s] \in Seq(Entry) /\ Len(log[s]) \in Nat
  BY <1>1, LenProperties DEF TypeOK, LogTypeOK
<1>3. LastTerm(log[s]) \in Nat
  BY <1>2, TermAtType DEF LastTerm
<1>4. currentTerm[s] \in Nat
  BY <1>1 DEF TypeOK, NodeTypeOK
<1>5. LastTerm(log[s]) <= currentTerm[s]
  <2>1. TermsOrdered(log[s], currentTerm[s])
    BY DEF LocalInv, OrderInv, LogTermsOrdered
  <2> QED
    BY <2>1, <1>2, <1>4 DEF TermsOrdered, LastTerm, TermAt
<1> QED
  BY <1>1, <1>2, <1>3, <1>4, <1>5 DEF TypeOK, NodeTypeOK, PeerTypeOK

\* With nothing late, a step that is not a goroutine's has none waiting.
LEMMA NothingWaits ==
    ASSUME Prompt, Settled
    PROVE  goroutines = {}
  BY DEF Prompt, Settled

\* When every server is a founding member, each cluster is all of them, and a
\* goroutine's slot is its member's.
LEMMA FixedMembers ==
    ASSUME Prompt, LocalInv, NEW s \in Server
    PROVE  /\ cluster[s] = Server
           /\ \A c : c.from = s /\ c.to \in Server
                      => SlotOf(c) = {c.to} /\ ~SlotLost(c)
<1>1. baseCluster(s) = Server
  BY DEF Prompt, baseCluster
<1>2. cluster[s] = Server
  BY <1>1, ServerTypes DEF LocalInv, MembersInv, LogMembersInForce, ClusterOf
<1> QED
  BY <1>1, <1>2 DEF SlotOf, SlotLost, InPlace

\* Two majorities have a server in common.
LEMMA MajoritiesMeet ==
    ASSUME NEW Q, NEW R, Majority(Q), Majority(R)
    PROVE  \E m \in Server : m \in Q /\ m \in R
<1>1. /\ Cardinality(Server) \in Nat /\ Cardinality(Q) \in Nat
      /\ Cardinality(R) \in Nat
  BY ServerAssumption, FS_Subset, FS_CardinalityType DEF Majority
<1>2. Cardinality(Q) + Cardinality(R) > Cardinality(Server)
  BY <1>1 DEF Majority
<1>3. Q \cap R # {}
  BY <1>2, ServerAssumption, FS_MajoritiesIntersect DEF Majority
<1> QED
  BY <1>3 DEF Majority

\* What becomeLeader counts as a quorum is a majority of the servers.
LEMMA QuorumIsMajority ==
    ASSUME Prompt, LocalInv, NEW s \in Server, NEW Q \in SUBSET Server,
           Cardinality(Q) >= quorum(s)
    PROVE  Majority(Q)
<1>1. Cardinality(Server) \in Nat /\ Cardinality(Q) \in Nat
  BY ServerAssumption, FS_Subset, FS_CardinalityType
<1>2. quorum(s) = Cardinality(Server) \div 2 + 1
  BY FixedMembers DEF quorum
<1>3. \A n, k \in Nat : k >= n \div 2 + 1 => 2 * k > n
  OBVIOUS
<1> QED
  BY <1>1, <1>2, <1>3 DEF Majority

-----------------------------------------------------------------------------
(* Steady steps *)

\* Most steps leave a server what it was, make it a follower, or let a leader
\* append: it stands for no new term, and a vote it forgets has been made good
\* by an entry of the term's leader.
Steadily(s) ==
    /\ currentTerm'[s] >= currentTerm[s]
    /\ Len(log'[s]) <= MaxLog
    /\ state'[s] = "candidate" =>
          /\ state[s] = "candidate" /\ currentTerm'[s] = currentTerm[s]
          /\ log'[s] = log[s]
    /\ state'[s] = "leader" =>
          /\ state[s] = "leader" /\ currentTerm'[s] = currentTerm[s]
          /\ LastTerm(log'[s]) = currentTerm[s]
    /\ currentTerm'[s] = currentTerm[s] =>
          /\ \/ votedFor'[s][s] = votedFor[s][s]
             \/ votedFor[s][s] = 0
             \/ LastTerm(log'[s]) = currentTerm[s]
          /\ LastTerm(log[s]) = currentTerm[s] =>
                LastTerm(log'[s]) = currentTerm[s]

Steady == \A s \in Server : Steadily(s)

\* A candidate's count grows only by the replies it reads.
CountsNothing ==
    \A s, m \in Server :
        state'[s] = "candidate" /\ votedFor'[s][m] = s => votedFor[s][m] = s

\* Role, term and log stay; the vote stays or was not given.
LEMMA SteadyUnchanged ==
    ASSUME LocalInv, NEW s \in Server,
           state'[s] = state[s], currentTerm'[s] = currentTerm[s],
           log'[s] = log[s],
           votedFor'[s][s] = votedFor[s][s] \/ VoteRemembered(s)
    PROVE  Steadily(s)
<1>1. RoleFits(s)
  BY DEF LocalInv, RolesFit
<1> QED
  BY <1>1, ServerTypes DEF Steadily, RoleFits, VoteRemembered

\* A server that becomes a follower, or stays one, with its log.
LEMMA SteadyFollower ==
    ASSUME LocalInv, NEW s \in Server, state'[s] = "follower",
           currentTerm'[s] >= currentTerm[s], log'[s] = log[s],
           currentTerm'[s] = currentTerm[s] =>
              votedFor'[s][s] = votedFor[s][s] \/ VoteRemembered(s)
    PROVE  Steadily(s)
<1>1. RoleFits(s)
  BY DEF LocalInv, RolesFit
<1> QED
  BY <1>1, ServerTypes DEF Steadily, RoleFits, VoteRemembered

\* A step that changes none of the four fields.
LEMMA SteadyFrame ==
    ASSUME LocalInv, UNCHANGED <<state, currentTerm, log, votedFor>>
    PROVE  Steady /\ CountsNothing
<1>1. Steady
  BY SteadyUnchanged DEF Steady
<1>2. CountsNothing
  BY DEF CountsNothing
<1> QED
  BY <1>1, <1>2

\* Looking at a message's term makes a server a follower or changes nothing.
LEMMA SteadyUpdateTerm ==
    ASSUME LocalInv, NEW s \in Server, NEW t \in Nat,
           updateTerm(s, t), state' = [state EXCEPT ![s] = RoleAfter(s, t)],
           votedFor' = [votedFor EXCEPT ![s] = VotesAfter(s, t)],
           UNCHANGED log
    PROVE  Steady /\ CountsNothing
<1>0. TypeOK
  BY DEF LocalInv, OrderInv
<1>1. ASSUME NEW n \in Server, n # s PROVE Steadily(n)
  <2>1. /\ state'[n] = state[n] /\ currentTerm'[n] = currentTerm[n]
        /\ votedFor'[n] = votedFor[n]
    BY <1>0, <1>1 DEF updateTerm, TypeOK, NodeTypeOK, PeerTypeOK
  <2> QED
    BY <2>1, SteadyUnchanged
<1>2. /\ state'[s] = RoleAfter(s, t) /\ currentTerm'[s] = TermAfter(s, t)
      /\ votedFor'[s] = VotesAfter(s, t)
  BY <1>0 DEF updateTerm, TypeOK, NodeTypeOK, PeerTypeOK
<1>3. Steadily(s)
  <2>1. CASE t > currentTerm[s]
    <3>1. state'[s] = "follower" /\ currentTerm'[s] = t
      BY <1>2, <2>1 DEF RoleAfter, TermAfter
    <3>2. currentTerm'[s] >= currentTerm[s] /\ currentTerm'[s] # currentTerm[s]
      BY <2>1, <3>1, ServerTypes
    <3> QED
      BY <3>1, <3>2, SteadyFollower
  <2>2. CASE ~(t > currentTerm[s])
    <3>1. /\ state'[s] = state[s] /\ currentTerm'[s] = currentTerm[s]
          /\ votedFor'[s] = votedFor[s]
      BY <1>2, <2>2 DEF RoleAfter, TermAfter, VotesAfter
    <3> QED
      BY <3>1, SteadyUnchanged
  <2> QED
    BY <2>1, <2>2
<1>4. CountsNothing
  <2> SUFFICES ASSUME NEW n \in Server, NEW m \in Server,
                      state'[n] = "candidate", votedFor'[n][m] = n
               PROVE  votedFor[n][m] = n
    BY DEF CountsNothing
  <2>1. CASE n # s
    BY <1>0, <2>1 DEF TypeOK, PeerTypeOK
  <2>2. CASE n = s
    BY <1>2, <2>2 DEF RoleAfter, VotesAfter
  <2> QED
    BY <2>1, <2>2
<1> QED
  BY <1>1, <1>3, <1>4 DEF Steady

\* A process that dies changes neither role, term, log nor votes.
LEMMA SteadyDie ==
    ASSUME LocalInv, NEW s, NEW how, Die(s, how)
    PROVE  Steady /\ CountsNothing
  BY SteadyFrame DEF Die, logVars, peerVars

\* The steps that change none of the four fields.
LEMMA SteadyIdle ==
    ASSUME LocalInv, NEW s \in Server,
           \/ Stop(s) \/ Crash(s) \/ heartbeat(s) \/ LoopReadsState(s)
           \/ LeaveBranch(s) \/ advanceCommitIndex(s) \/ RPCError
           \/ UNCHANGED vars
    PROVE  Steady /\ CountsNothing
<1>1. CASE Stop(s)
  BY <1>1, SteadyFrame DEF Stop, logVars, peerVars
<1>2. CASE Crash(s)
  BY <1>2, SteadyDie DEF Crash
<1>3. CASE heartbeat(s)
  BY <1>3, SteadyFrame DEF heartbeat, nodeVars, logVars, peerVars
<1>4. CASE LoopReadsState(s)
  BY <1>4, SteadyFrame DEF LoopReadsState, logVars, peerVars
<1>5. CASE LeaveBranch(s)
  BY <1>5, SteadyFrame DEF LeaveBranch, logVars, peerVars
<1>6. CASE advanceCommitIndex(s)
  <2>1. CASE Panic(s)
    BY <2>1, SteadyDie DEF Panic
  <2>2. CASE ~Panic(s)
    <3>1. UNCHANGED <<nodeVars, log, votedFor>>
      BY <1>6, <2>2, Zenon DEF advanceCommitIndex
    <3> QED
      BY <3>1, SteadyFrame DEF nodeVars
  <2> QED
    BY <2>1, <2>2
<1>7. CASE RPCError
  BY <1>7, SteadyFrame DEF RPCError, nodeVars, logVars, peerVars
<1>8. CASE UNCHANGED vars
  BY <1>8, SteadyFrame DEF vars, nodeVars, logVars, peerVars
<1> QED
  BY <1>1, <1>2, <1>3, <1>4, <1>5, <1>6, <1>7, <1>8

\* A goroutine that builds its request, or panics, changes none of them.
LEMMA SteadyBuild ==
    ASSUME LocalInv, NEW g \in goroutines,
           BuildRequestVote(g) \/ BuildAppendEntries(g)
    PROVE  Steady /\ CountsNothing
<1>1. CASE Panic(g.from)
  BY <1>1, SteadyDie DEF Panic
<1>2. CASE ~Panic(g.from)
  <2>1. UNCHANGED <<nodeVars, logVars, peerVars>>
    BY <1>2 DEF BuildRequestVote, BuildAppendEntries
  <2> QED
    BY <2>1, SteadyFrame DEF nodeVars, logVars, peerVars
<1> QED
  BY <1>1, <1>2

\* A response of a newer term makes its reader a follower.
LEMMA SteadyStepDown ==
    ASSUME LocalInv, NEW r \in replies, StepDown(r)
    PROVE  Steady /\ CountsNothing
<1>1. r.from \in Server /\ r.rspTerm \in Nat
  BY ReplyFields DEF LocalInv, OrderInv
<1> QED
  BY <1>1, SteadyUpdateTerm DEF StepDown, logVars

\* A response to AppendEntries changes bookkeeping only.
LEMMA SteadyHandleAppendEntriesResponse ==
    ASSUME LocalInv, NEW r \in replies, HandleAppendEntriesResponse(r)
    PROVE  Steady /\ CountsNothing
<1>1. CASE Panic(r.from)
  BY <1>1, SteadyDie DEF Panic
<1>2. CASE ~Panic(r.from) /\ ~StepDown(r)
  <2>1. UNCHANGED <<nodeVars, logVars, votedFor>>
    BY <1>2 DEF HandleAppendEntriesResponse
  <2> QED
    BY <2>1, SteadyFrame DEF nodeVars, logVars
<1> QED
  BY <1>1, <1>2, SteadyStepDown

\* A restart that loses no vote is steady: the server comes back a follower.
LEMMA SteadyRestart ==
    ASSUME LocalInv, NEW s \in Server, Restart(s), VotesRemembered
    PROVE  Steady /\ CountsNothing
<1>0. TypeOK
  BY DEF LocalInv, OrderInv
<1>1. ASSUME NEW n \in Server, n # s PROVE Steadily(n)
  <2>1. /\ state'[n] = state[n] /\ currentTerm'[n] = currentTerm[n]
        /\ votedFor'[n] = votedFor[n] /\ log'[n] = log[n]
    BY <1>0, <1>1 DEF Restart, TypeOK, NodeTypeOK, PeerTypeOK
  <2> QED
    BY <2>1, SteadyUnchanged
<1>2. Steadily(s)
  <2>1. /\ state'[s] = "follower" /\ currentTerm'[s] = currentTerm[s]
        /\ log'[s] = log[s] /\ VoteRemembered(s)
    BY <1>0 DEF Restart, TypeOK, NodeTypeOK, VotesRemembered
  <2> QED
    BY <2>1, ServerTypes, SteadyFollower
<1>3. CountsNothing
  <2> SUFFICES ASSUME NEW n \in Server, NEW m \in Server,
                      state'[n] = "candidate", votedFor'[n][m] = n
               PROVE  votedFor[n][m] = n
    BY DEF CountsNothing
  <2> QED
    BY <1>0 DEF Restart, TypeOK, NodeTypeOK, PeerTypeOK
<1> QED
  BY <1>1, <1>2, <1>3 DEF Steady

\* A log that got one more entry ends in its term.
LEMMA LastOfAppend ==
    ASSUME NEW lg \in Seq(Entry), NEW e \in Entry
    PROVE  /\ Append(lg, e) \in Seq(Entry)
           /\ Len(Append(lg, e)) = Len(lg) + 1
           /\ LastTerm(Append(lg, e)) = e.term
<1>1. /\ Append(lg, e) \in Seq(Entry)
      /\ Len(Append(lg, e)) = Len(lg) + 1 /\ Append(lg, e)[Len(lg) + 1] = e
      /\ Len(lg) \in Nat
  BY AppendProperties, LenProperties
<1> QED
  BY <1>1 DEF LastTerm, TermAt

\* A leader that appends a command stays in its term.
LEMMA SteadyApply ==
    ASSUME LocalInv, NEW s \in Server, NEW v \in Value, Apply(s, v)
    PROVE  Steady /\ CountsNothing
<1>0. TypeOK
  BY DEF LocalInv, OrderInv
<1> DEFINE e == Command(currentTerm[s], v)
<1>1. /\ state[s] = "leader" /\ Len(log[s]) < MaxLog
      /\ log' = [log EXCEPT ![s] = Append(@, e)]
      /\ UNCHANGED <<state, currentTerm, votedFor>>
  BY DEF Apply, appendLocked, nodeVars, peerVars
<1>2. e \in Entry /\ e.term = currentTerm[s]
  BY ServerTypes DEF Command, Entry
<1> HIDE DEF e
<1>3. ASSUME NEW n \in Server, n # s PROVE Steadily(n)
  <2>1. log'[n] = log[n]
    BY <1>0, <1>1, <1>3 DEF TypeOK, LogTypeOK
  <2> QED
    BY <1>1, <2>1, SteadyUnchanged
<1>4. Steadily(s)
  <2>1. log'[s] = Append(log[s], e)
    BY <1>0, <1>1 DEF TypeOK, LogTypeOK
  <2>2. /\ Len(log'[s]) = Len(log[s]) + 1
        /\ LastTerm(log'[s]) = currentTerm[s]
    BY <1>2, <2>1, LastOfAppend, ServerTypes
  <2>3. Len(log'[s]) <= MaxLog
    BY <1>1, <2>2, ServerTypes, BoundAssumption
  <2> QED
    BY <1>1, <2>2, <2>3, ServerTypes DEF Steadily
<1>5. CountsNothing
  BY <1>1 DEF CountsNothing
<1> QED
  BY <1>3, <1>4, <1>5 DEF Steady

\* With every server a member there is nobody to add.
LEMMA NobodyToAdd ==
    ASSUME Prompt, LocalInv, NEW s \in Server, NEW id \in Server
    PROVE  ~AddServer(s, id)
  BY FixedMembers DEF AddServer, MayAdd

\* A follower that takes an AppendEntries request.
LEMMA RefuseRole ==
    ASSUME NEW s, NEW r, r.to = s
    PROVE  /\ RoleOnAppend(s, r) \in {state[s], "follower"}
           /\ RoleOnAppend(s, r) # "follower" =>
                /\ RoleOnAppend(s, r) = state[s] /\ ~(r.term > currentTerm[s])
  BY DEF RoleOnAppend, RoleAfter

\* Refusing a request may make a follower of the receiver.
LEMMA SteadyRefuseAppendEntries ==
    ASSUME LocalInv, NEW r \in requests, RefuseAppendEntries(r)
    PROVE  Steady /\ CountsNothing
<1> DEFINE s == r.to
<1>0. TypeOK
  BY DEF LocalInv, OrderInv
<1>1. s \in Server /\ r.term \in Nat
  BY <1>0, RequestFields
<1>2. /\ updateTerm(s, r.term)
      /\ state' = [state EXCEPT ![s] = RoleOnAppend(s, r)]
      /\ votedFor' = [votedFor EXCEPT ![s] = VotesAfter(s, r.term)]
      /\ UNCHANGED log
  BY DEF RefuseAppendEntries, ReceiveAppend, logVars
<1>3. ASSUME NEW n \in Server, n # s
      PROVE  /\ state'[n] = state[n] /\ votedFor'[n] = votedFor[n]
             /\ currentTerm'[n] = currentTerm[n]
  BY <1>0, <1>2, <1>3 DEF updateTerm, TypeOK, NodeTypeOK, PeerTypeOK
<1>4. /\ state'[s] = RoleOnAppend(s, r)
      /\ currentTerm'[s] = TermAfter(s, r.term)
      /\ votedFor'[s] = VotesAfter(s, r.term)
  BY <1>0, <1>1, <1>2 DEF updateTerm, TypeOK, NodeTypeOK, PeerTypeOK
<1>5. /\ currentTerm'[s] >= currentTerm[s]
      /\ currentTerm'[s] = currentTerm[s] => votedFor'[s] = votedFor[s]
      /\ ~(r.term > currentTerm[s]) => /\ votedFor'[s] = votedFor[s]
                                       /\ currentTerm'[s] = currentTerm[s]
  BY <1>1, <1>4, ServerTypes DEF TermAfter, VotesAfter
<1>6. Steadily(s)
  <2>1. CASE state'[s] = "follower"
    BY <1>1, <1>2, <1>5, <2>1, SteadyFollower
  <2>2. CASE state'[s] # "follower"
    <3>1. /\ state'[s] = state[s] /\ currentTerm'[s] = currentTerm[s]
          /\ votedFor'[s] = votedFor[s]
      BY <1>4, <1>5, <2>2, RefuseRole
    <3> QED
      BY <1>1, <1>2, <3>1, SteadyUnchanged
  <2> QED
    BY <2>1, <2>2
<1>7. \A n \in Server : n # s => Steadily(n)
  BY <1>2, <1>3, SteadyUnchanged
<1>8. CountsNothing
  <2> SUFFICES ASSUME NEW n \in Server, NEW m \in Server,
                      state'[n] = "candidate", votedFor'[n][m] = n
               PROVE  votedFor[n][m] = n
    BY DEF CountsNothing
  <2>1. CASE n # s
    BY <1>3, <2>1
  <2>2. CASE n = s
    BY <1>4, <1>5, <2>2, RefuseRole
  <2> QED
    BY <2>1, <2>2
<1> QED
  BY <1>6, <1>7, <1>8 DEF Steady

\* A vote goes to a candidate the voter had voted for, or to the first one of
\* a new term; a candidate or leader asked by another grants nothing it counts.
LEMMA SteadyHandleRequestVoteRequest ==
    ASSUME LocalInv, NEW r \in requests, HandleRequestVoteRequest(r)
    PROVE  Steady /\ CountsNothing
<1> DEFINE s == r.to
<1>0. TypeOK
  BY DEF LocalInv, OrderInv
<1>1. s \in Server /\ r.term \in Nat /\ r.from \in Server /\ r.from # s
  BY <1>0, RequestFields DEF LocalInv, RequestsFit, RequestFits
<1>2. /\ updateTerm(s, r.term)
      /\ state' = [state EXCEPT ![s] = RoleAfter(s, r.term)]
      /\ votedFor' = [votedFor EXCEPT ![s] =
                        IF grant(s, r)
                        THEN [VotesAfter(s, r.term) EXCEPT ![s] = r.from]
                        ELSE VotesAfter(s, r.term)]
      /\ UNCHANGED log
  BY DEF HandleRequestVoteRequest, logVars
<1>3. ASSUME NEW n \in Server, n # s
      PROVE  /\ state'[n] = state[n] /\ votedFor'[n] = votedFor[n]
             /\ currentTerm'[n] = currentTerm[n]
  BY <1>0, <1>2, <1>3 DEF updateTerm, TypeOK, NodeTypeOK, PeerTypeOK
<1>4. /\ state'[s] = RoleAfter(s, r.term)
      /\ currentTerm'[s] = TermAfter(s, r.term)
      /\ votedFor'[s] = IF grant(s, r)
                        THEN [VotesAfter(s, r.term) EXCEPT ![s] = r.from]
                        ELSE VotesAfter(s, r.term)
  BY <1>0, <1>1, <1>2 DEF updateTerm, TypeOK, NodeTypeOK, PeerTypeOK
<1>5. Steadily(s)
  <2>1. CASE r.term > currentTerm[s]
    <3>1. /\ state'[s] = "follower" /\ currentTerm'[s] >= currentTerm[s]
          /\ currentTerm'[s] # currentTerm[s]
      BY <1>1, <1>4, <2>1, ServerTypes DEF RoleAfter, TermAfter
    <3> QED
      BY <1>1, <1>2, <3>1, SteadyFollower
  <2>2. CASE ~(r.term > currentTerm[s])
    <3>1. /\ state'[s] = state[s] /\ currentTerm'[s] = currentTerm[s]
          /\ VotesAfter(s, r.term) = votedFor[s]
      BY <1>4, <2>2 DEF RoleAfter, TermAfter, VotesAfter
    <3>2. votedFor'[s][s] = votedFor[s][s] \/ votedFor[s][s] = 0
      BY <1>1, <1>4, <3>1, ServerTypes DEF grant
    <3> QED
      BY <1>1, <1>2, <3>1, <3>2, SteadyUnchanged DEF VoteRemembered
  <2> QED
    BY <2>1, <2>2
<1>6. \A n \in Server : n # s => Steadily(n)
  BY <1>2, <1>3, SteadyUnchanged
<1>7. CountsNothing
  <2> SUFFICES ASSUME NEW n \in Server, NEW m \in Server,
                      state'[n] = "candidate", votedFor'[n][m] = n
               PROVE  votedFor[n][m] = n
    BY DEF CountsNothing
  <2>1. CASE n # s
    BY <1>3, <2>1
  <2>2. CASE n = s
    <3>1. VotesAfter(s, r.term) = votedFor[s]
      BY <1>4, <2>2 DEF RoleAfter, VotesAfter
    <3> QED
      BY <1>1, <1>4, <2>2, <3>1, ServerTypes
  <2> QED
    BY <2>1, <2>2
<1> QED
  BY <1>5, <1>6, <1>7 DEF Steady

\* A follower's log ends where the request does, or where it ended before.
LEMMA NewLogLength ==
    ASSUME TypeOK, NEW s \in Server, NEW r \in requests, r.kind = "append",
           NEW keep \in r.prevLogIndex..Len(log[s])
    PROVE  Len(NewLog(s, r, keep)) = IF keep < MatchOf(r) THEN MatchOf(r) ELSE keep
<1> DEFINE lg == log[s]
           es == r.entries
           prev == r.prevLogIndex
           kept == SubSeq(lg, 1, keep)
           new == SubSeq(es, keep - prev + 1, Len(es))
<1>1. /\ lg \in Seq(Entry) /\ es \in Seq(Entry)
      /\ Len(lg) \in Nat /\ Len(es) \in Nat /\ prev \in Nat
  BY RequestFields, LenProperties DEF TypeOK, LogTypeOK
<1>2. NewLog(s, r, keep) = kept \o new /\ MatchOf(r) = prev + Len(es)
  BY DEF NewLog, MatchOf
<1>3. keep \in prev..Len(lg)
  OBVIOUS
<1> HIDE DEF lg, es, prev
<1>4. kept \in Seq(Entry) /\ Len(kept) = IF 1 <= keep THEN keep - 1 + 1 ELSE 0
  <2>1. 1 \in Nat \ {0} /\ keep \in 0..Len(lg)
    BY <1>1, <1>3
  <2> QED
    BY <1>1, <2>1, MembersOfSubSeq
<1>5. /\ new \in Seq(Entry)
      /\ Len(new) = IF keep - prev + 1 <= Len(es)
                    THEN Len(es) - (keep - prev + 1) + 1 ELSE 0
  <2>1. keep - prev + 1 \in Nat \ {0} /\ Len(es) \in 0..Len(es)
    BY <1>1, <1>3
  <2> QED
    BY <1>1, <2>1, MembersOfSubSeq
<1> HIDE DEF kept, new
<1>6. Len(kept \o new) = Len(kept) + Len(new)
  BY <1>4, <1>5, ConcatProperties
<1>7. Len(kept) = keep
  BY <1>1, <1>3, <1>4
<1>8. Len(new) = IF keep < prev + Len(es) THEN prev + Len(es) - keep ELSE 0
  BY <1>1, <1>3, <1>5
<1>9. Len(kept \o new) = IF keep < prev + Len(es) THEN prev + Len(es) ELSE keep
  BY <1>1, <1>3, <1>6, <1>7, <1>8
<1> QED
  BY <1>2, <1>9

\* What an accepted request does to its receiver: it is a follower in the
\* request's term, and its log is the old one or ends with the request's last
\* entry.  Nobody joins, so its votes are forgotten only with a truncation.
LEMMA AcceptEffect ==
    ASSUME Prompt, LocalInv, NEW r \in requests, AcceptAppendEntries(r)
    PROVE  /\ r.to \in Server /\ r.term >= currentTerm[r.to]
           /\ state' = [state EXCEPT ![r.to] = "follower"]
           /\ currentTerm' = [currentTerm EXCEPT ![r.to] = r.term]
           /\ \E keep \in r.prevLogIndex..Len(log[r.to]) :
                /\ Keeps(r.to, r, keep)
                /\ log' = [log EXCEPT ![r.to] = NewLog(r.to, r, keep)]
                /\ \A n, m \in Server :
                     votedFor'[n][m] = IF n # r.to THEN votedFor[n][m]
                                       ELSE IF keep < Len(log[n]) THEN 0
                                       ELSE VotesAfter(n, r.term)[m]
<1> DEFINE s == r.to
<1>0. TypeOK
  BY DEF LocalInv, OrderInv
<1>1. s \in Server /\ r.term \in Nat /\ currentTerm[s] \in Nat
  BY <1>0, RequestFields, ServerTypes
<1>2. /\ FollowsSender(s, r) /\ updateTerm(s, r.term)
      /\ state' = [state EXCEPT ![s] = RoleOnAppend(s, r)]
  BY DEF AcceptAppendEntries, ReceiveAppend
<1>3. r.term >= currentTerm[s] /\ RoleOnAppend(s, r) = "follower"
  BY <1>2 DEF FollowsSender
<1>4. TermAfter(s, r.term) = r.term
  BY <1>1, <1>3 DEF TermAfter
<1>5. currentTerm' = [currentTerm EXCEPT ![s] = r.term]
  BY <1>2, <1>4 DEF updateTerm
<1>6. Joins(s, r) = {}
  <2>1. MembersIn(r.entries) \subseteq Server
    BY <1>0, RequestFields, MembersAreServers DEF AcceptAppendEntries
  <2> QED
    BY <1>1, <2>1, FixedMembers DEF Joins
<1>7. PICK keep \in r.prevLogIndex..Len(log[s]) :
         /\ Keeps(s, r, keep)
         /\ log' = [log EXCEPT ![s] = NewLog(s, r, keep)]
         /\ votedFor' = [votedFor EXCEPT ![s] =
              [m \in Server |-> IF keep < Len(log[s]) \/ m \in Joins(s, r)
                                THEN 0 ELSE VotesAfter(s, r.term)[m]]]
  BY DEF AcceptAppendEntries
<1>8. \A n, m \in Server :
         votedFor'[n][m] = IF n # s THEN votedFor[n][m]
                           ELSE IF keep < Len(log[n]) THEN 0
                           ELSE VotesAfter(n, r.term)[m]
  BY <1>0, <1>1, <1>6, <1>7 DEF TypeOK, PeerTypeOK
<1> QED
  BY <1>1, <1>2, <1>3, <1>5, <1>7, <1>8

\* An accepted request leaves the log as it was, or ends it with an entry of
\* the request's term.
LEMMA AcceptedEnd ==
    ASSUME LocalInv, NEW s \in Server, NEW r \in requests, r.kind = "append",
           NEW keep \in r.prevLogIndex..Len(log[s]), Keeps(s, r, keep)
    PROVE  LET new == NewLog(s, r, keep) IN
           /\ Len(new) <= MaxLog
           /\ \/ keep = Len(log[s]) /\ Len(new) = keep
                 /\ LastTerm(new) = LastTerm(log[s])
              \/ /\ Len(new) = MatchOf(r) /\ LastTerm(new) = r.term
                 /\ Len(r.entries) > 0
<1> DEFINE lg == log[s]
           es == r.entries
           prev == r.prevLogIndex
           new == NewLog(s, r, keep)
<1>0. TypeOK
  BY DEF LocalInv, OrderInv
<1>1. /\ lg \in Seq(Entry) /\ es \in Seq(Entry)
      /\ Len(lg) \in Nat /\ Len(es) \in Nat /\ prev \in Nat
  BY <1>0, RequestFields, LenProperties DEF TypeOK, LogTypeOK
<1>2. /\ Len(new) \in Nat
      /\ \A i \in 1..keep : new[i] = lg[i]
      /\ \A i \in (keep + 1)..Len(new) :
            i - prev \in 1..Len(es) /\ new[i] = es[i - prev]
  BY <1>0, NewLogShape
<1>3. Len(new) = IF keep < MatchOf(r) THEN MatchOf(r) ELSE keep
  BY <1>0, NewLogLength
<1>4. MatchOf(r) = prev + Len(es)
  BY DEF MatchOf
<1>5. /\ Len(lg) <= MaxLog /\ MatchOf(r) <= MaxLog /\ MaxLog \in Nat
      /\ Len(es) > 0 => es[Len(es)].term = r.term
  BY BoundAssumption
     DEF LocalInv, RolesFit, RoleFits, RequestsFit, RequestFits, AppendRequestFits
<1>6. keep \in prev..Len(lg)
  OBVIOUS
<1>7. keep = Len(lg) \/ keep + 1 <= MatchOf(r)
  BY DEF Keeps, Conflict
<1> HIDE DEF lg, es, prev, new
<1>8. CASE keep < MatchOf(r)
  <2>1. Len(new) = MatchOf(r) /\ Len(new) - prev = Len(es) /\ Len(es) > 0
    BY <1>1, <1>3, <1>4, <1>6, <1>8
  <2>2. Len(new) \in (keep + 1)..Len(new) /\ Len(new) # 0
    BY <1>1, <1>2, <1>3, <1>6, <1>8
  <2>3. LastTerm(new) = r.term
    BY <1>2, <1>5, <2>1, <2>2 DEF LastTerm, TermAt
  <2> QED
    BY <1>5, <2>1, <2>3 DEF es, new
<1>9. CASE ~(keep < MatchOf(r))
  <2>1. keep = Len(lg)
    BY <1>1, <1>4, <1>6, <1>7, <1>9
  <2>2. Len(new) = keep
    BY <1>3, <1>9
  <2>3. LastTerm(new) = LastTerm(lg)
    BY <1>1, <1>2, <2>1, <2>2 DEF LastTerm, TermAt
  <2> QED
    BY <1>5, <2>1, <2>2, <2>3 DEF lg, new
<1> QED
  BY <1>8, <1>9 DEF new

\* A follower that follows, cuts or repeats: if it forgets its vote, its log
\* now ends with an entry of the leader it voted in the term of.
LEMMA SteadyAcceptAppendEntries ==
    ASSUME Prompt, LocalInv, NEW r \in requests, AcceptAppendEntries(r)
    PROVE  Steady /\ CountsNothing
<1> DEFINE s == r.to
<1>0. TypeOK /\ r.kind = "append"
  BY DEF LocalInv, OrderInv, AcceptAppendEntries
<1>1. /\ s \in Server /\ r.term >= currentTerm[s] /\ r.term \in Nat
      /\ state' = [state EXCEPT ![s] = "follower"]
      /\ currentTerm' = [currentTerm EXCEPT ![s] = r.term]
  BY <1>0, AcceptEffect, RequestFields
<1>2. PICK keep \in r.prevLogIndex..Len(log[s]) :
         /\ Keeps(s, r, keep)
         /\ log' = [log EXCEPT ![s] = NewLog(s, r, keep)]
         /\ \A n, m \in Server :
              votedFor'[n][m] = IF n # s THEN votedFor[n][m]
                                ELSE IF keep < Len(log[n]) THEN 0
                                ELSE VotesAfter(n, r.term)[m]
  BY AcceptEffect
<1>3. /\ state'[s] = "follower" /\ currentTerm'[s] = r.term
      /\ log'[s] = NewLog(s, r, keep)
      /\ votedFor'[s][s] = IF keep < Len(log[s]) THEN 0
                           ELSE VotesAfter(s, r.term)[s]
  BY <1>0, <1>1, <1>2 DEF TypeOK, NodeTypeOK, LogTypeOK
<1>4. /\ Len(log'[s]) <= MaxLog
      /\ \/ keep = Len(log[s]) /\ LastTerm(log'[s]) = LastTerm(log[s])
         \/ LastTerm(log'[s]) = r.term
  BY <1>0, <1>1, <1>2, <1>3, AcceptedEnd
<1>5. ASSUME r.term = currentTerm[s]
      PROVE  /\ \/ votedFor'[s][s] = votedFor[s][s]
                \/ LastTerm(log'[s]) = currentTerm[s]
             /\ LastTerm(log[s]) = currentTerm[s] =>
                   LastTerm(log'[s]) = currentTerm[s]
  <2>1. VotesAfter(s, r.term) = votedFor[s]
    BY <1>5, <1>1, ServerTypes DEF VotesAfter
  <2>2. keep = Len(log[s]) => ~(keep < Len(log[s]))
    BY <1>1, ServerTypes
  <2> QED
    BY <1>3, <1>4, <1>5, <2>1, <2>2
<1>6. Steadily(s)
  BY <1>1, <1>3, <1>4, <1>5 DEF Steadily
<1>7. \A n \in Server : n # s => Steadily(n)
  <2> SUFFICES ASSUME NEW n \in Server, n # s PROVE Steadily(n)
    OBVIOUS
  <2>1. /\ state'[n] = state[n] /\ currentTerm'[n] = currentTerm[n]
        /\ log'[n] = log[n] /\ votedFor'[n][n] = votedFor[n][n]
    BY <1>0, <1>1, <1>2 DEF TypeOK, NodeTypeOK, LogTypeOK
  <2> QED
    BY <2>1, SteadyUnchanged
<1>8. CountsNothing
  <2> SUFFICES ASSUME NEW n \in Server, NEW m \in Server,
                      state'[n] = "candidate", votedFor'[n][m] = n
               PROVE  votedFor[n][m] = n
    BY DEF CountsNothing
  <2>1. n # s
    BY <1>3
  <2> QED
    BY <1>2, <2>1
<1> QED
  BY <1>6, <1>7, <1>8 DEF Steady

-----------------------------------------------------------------------------
(* The local invariant *)

\* Every pending request was pending before, if only it has lost its caller.
RequestsDescend ==
    \A r \in requests' :
        \E q \in requests : r = q \/ r = [q EXCEPT !.orphan = TRUE]

\* A server's term does not go back; it stands for election in new terms only.
StandsInNewTerms ==
    \A s \in Server :
        /\ currentTerm'[s] >= currentTerm[s]
        /\ state'[s] = "candidate" =>
              \/ currentTerm'[s] > currentTerm[s]
              \/ /\ state[s] = "candidate" /\ currentTerm'[s] = currentTerm[s]
                 /\ log'[s] = log[s]

\* Steady servers stand for no election.
LEMMA SteadyStands ==
    ASSUME Steady
    PROVE  StandsInNewTerms
  BY DEF Steady, Steadily, StandsInNewTerms

\* Losing its caller changes nothing else of a request.
LEMMA OrphanFields ==
    ASSUME LocalInv, NEW q \in requests,
           NEW r, r = q \/ r = [q EXCEPT !.orphan = TRUE]
    PROVE  /\ r.kind = q.kind /\ r.from = q.from /\ r.to = q.to
           /\ r.term = q.term
           /\ r.kind = "vote" => /\ r.lastLogIndex = q.lastLogIndex
                                 /\ r.lastLogTerm = q.lastLogTerm
           /\ r.kind = "append" => /\ r.prevLogIndex = q.prevLogIndex
                                   /\ r.prevLogTerm = q.prevLogTerm
                                   /\ r.entries = q.entries
                                   /\ r.leaderCommit = q.leaderCommit
<1>1. q \in VoteRequest \cup AppendRequest
  BY DEF LocalInv, OrderInv, TypeOK, CallTypeOK
<1> QED
  BY <1>1 DEF VoteRequest, AppendRequest

\* A pending request still describes its sender.
LEMMA RequestKept ==
    ASSUME LocalInv, TypeOK', StandsInNewTerms, NEW q \in requests,
           NEW r, r = q \/ r = [q EXCEPT !.orphan = TRUE]
    PROVE  RequestFits(r)'
<1> DEFINE s == q.from
<1>0. RequestFits(q)
  BY DEF LocalInv, RequestsFit
<1>1. /\ r.kind = q.kind /\ r.from = s /\ r.to = q.to /\ r.term = q.term
      /\ r.kind = "vote" => /\ r.lastLogIndex = q.lastLogIndex
                            /\ r.lastLogTerm = q.lastLogTerm
      /\ r.kind = "append" => /\ r.prevLogIndex = q.prevLogIndex
                              /\ r.entries = q.entries
  BY OrphanFields
<1>2. /\ s \in Server /\ q.term \in Nat /\ q.term <= currentTerm[s]
      /\ currentTerm[s] \in Nat /\ currentTerm'[s] \in Nat
  BY <1>0, RequestFields, ServerTypes
     DEF LocalInv, OrderInv, RequestFits, TypeOK, NodeTypeOK
<1>3. r.term <= currentTerm'[s]
  BY <1>1, <1>2 DEF StandsInNewTerms
<1>4. ASSUME r.kind = "vote" PROVE VoteRequestFits(r)'
  <2>1. VoteRequestFits(q)
    BY <1>0, <1>1, <1>4 DEF RequestFits
  <2>2. ASSUME state'[s] = "candidate", currentTerm'[s] = r.term
        PROVE  /\ state[s] = "candidate" /\ currentTerm[s] = r.term
               /\ log'[s] = log[s]
    BY <1>1, <1>2, <2>2 DEF StandsInNewTerms
  <2> QED
    BY <1>1, <1>4, <2>1, <2>2 DEF VoteRequestFits
<1>5. ASSUME r.kind = "append" PROVE AppendRequestFits(r)'
  BY <1>0, <1>1, <1>5 DEF RequestFits, AppendRequestFits, MatchOf
<1> QED
  BY <1>0, <1>1, <1>3, <1>4, <1>5 DEF RequestFits

\* Pending requests fit when none is new.
LEMMA RequestsKept ==
    ASSUME LocalInv, TypeOK', StandsInNewTerms, RequestsDescend
    PROVE  RequestsFit'
<1> SUFFICES ASSUME NEW r \in requests' PROVE RequestFits(r)'
  BY DEF RequestsFit
<1>1. PICK q \in requests : r = q \/ r = [q EXCEPT !.orphan = TRUE]
  BY DEF RequestsDescend
<1> QED
  BY <1>1, RequestKept

\* Pending responses fit when the new ones do.
LEMMA RepliesKept ==
    ASSUME LocalInv, TypeOK', StandsInNewTerms,
           \A p \in replies' : p \in replies \/ (p.from \in Server /\ ReplyFits(p))
    PROVE  RepliesFit'
<1> SUFFICES ASSUME NEW p \in replies' PROVE ReplyFits(p)'
  BY DEF RepliesFit
<1>1. ReplyFits(p) /\ p.from \in Server /\ p.term \in Nat
  BY ReplyFields DEF LocalInv, RepliesFit, OrderInv, TypeOK, CallTypeOK,
                     VoteReply, AppendReply
<1>2. currentTerm[p.from] \in Nat /\ currentTerm'[p.from] \in Nat
  BY <1>1, ServerTypes DEF TypeOK, NodeTypeOK
<1> QED
  BY <1>1, <1>2 DEF ReplyFits, StandsInNewTerms

\* Steady servers keep their roles fitting their logs.
LEMMA RolesSteady ==
    ASSUME LocalInv, TypeOK', Steady
    PROVE  RolesFit'
<1> SUFFICES ASSUME NEW s \in Server PROVE RoleFits(s)'
  BY DEF RolesFit
<1>1. Steadily(s) /\ RoleFits(s)
  BY DEF Steady, LocalInv, RolesFit
<1>2. state'[s] = "leader" => LastTerm(log'[s]) = currentTerm'[s]
  BY <1>1 DEF Steadily
<1>3. state'[s] = "candidate" => LastTerm(log'[s]) < currentTerm'[s]
  BY <1>1 DEF Steadily, RoleFits
<1>4. state'[s] \in {"candidate", "leader"} => currentTerm'[s] > 0
  BY <1>1, ServerTypes DEF Steadily, RoleFits
<1>5. state'[s] # "follower" => currentTerm'[s] > 0
  BY <1>4 DEF TypeOK, NodeTypeOK
<1> QED
  BY <1>1, <1>2, <1>3, <1>5 DEF RoleFits, Steadily

\* The local invariant after a steady step that sends nothing new.
LEMMA LocalQuiet ==
    ASSUME LocalInv, [Next]_vars, Steady, RequestsDescend,
           goroutines' \subseteq goroutines,
           UNCHANGED state \/ goroutines = {},
           replies' \subseteq replies
    PROVE  LocalInv'
<1>1. OrderInv' /\ MembersInv' /\ TypeOK'
  BY OrderStep, MembersStep DEF LocalInv, OrderInv
<1>2. RolesFit' /\ RequestsFit'
  BY <1>1, RolesSteady, RequestsKept, SteadyStands
<1>3. SendersFit'
  BY DEF LocalInv, SendersFit
<1>4. RepliesFit'
  <2>1. \A p \in replies' : p \in replies
    OBVIOUS
  <2> QED
    BY <1>1, <2>1, SteadyStands, RepliesKept
<1> QED
  BY <1>1, <1>2, <1>3, <1>4 DEF LocalInv

\* A dying process sends nothing new.
LEMMA DieQuiet ==
    ASSUME NEW s, NEW how, Die(s, how)
    PROVE  /\ RequestsDescend /\ goroutines' \subseteq goroutines
           /\ UNCHANGED state /\ replies' \subseteq replies
  BY DEF Die, RequestsDescend

\* Crashes, kills, restarts, the loop's bookkeeping, applying and lost calls.
LEMMA LocalIdle ==
    ASSUME Prompt, LocalInv, [Next]_vars, NEW s \in Server,
           \/ Stop(s) \/ Crash(s) \/ LoopReadsState(s)
           \/ LeaveBranch(s) \/ advanceCommitIndex(s) \/ RPCError
           \/ UNCHANGED vars
    PROVE  LocalInv'
<1>1. Steady
  BY SteadyIdle
<1>2. ASSUME UNCHANGED <<state, callVars>> PROVE LocalInv'
  BY <1>1, <1>2, LocalQuiet DEF callVars, RequestsDescend
<1>3. CASE Crash(s)
  BY <1>1, <1>3, DieQuiet, LocalQuiet DEF Crash
<1>4. CASE advanceCommitIndex(s)
  <2>1. CASE Panic(s)
    BY <1>1, <2>1, DieQuiet, LocalQuiet DEF Panic
  <2>2. CASE ~Panic(s)
    <3>1. UNCHANGED <<nodeVars, callVars>>
      BY <1>4, <2>2, Zenon DEF advanceCommitIndex
    <3> QED
      BY <3>1, <1>2 DEF nodeVars
  <2> QED
    BY <2>1, <2>2
<1>5. CASE RPCError
  <2>1. /\ requests' \subseteq requests /\ replies' \subseteq replies
        /\ UNCHANGED <<state, goroutines>>
    BY <1>5 DEF RPCError, nodeVars
  <2> QED
    BY <1>1, <2>1, LocalQuiet DEF RequestsDescend
<1>6. CASE Stop(s) \/ LoopReadsState(s) \/ LeaveBranch(s) \/ UNCHANGED vars
  BY <1>2, <1>6 DEF Stop, LoopReadsState, LeaveBranch, vars, nodeVars
<1> QED
  BY <1>3, <1>4, <1>5, <1>6

\* A restarted server has nothing under way.
LEMMA LocalRestart ==
    ASSUME Prompt, LocalInv, [Next]_vars, NEW s \in Server, Restart(s),
           VotesRemembered
    PROVE  LocalInv'
<1>1. Steady /\ goroutines = {} /\ UNCHANGED callVars
  BY SteadyRestart, NothingWaits DEF Restart
<1> QED
  BY <1>1, LocalQuiet DEF callVars, RequestsDescend

\* Reading a response takes it away.
LEMMA LocalStepDown ==
    ASSUME Prompt, LocalInv, [Next]_vars, NEW r \in replies, StepDown(r), Settled
    PROVE  LocalInv'
<1>1. /\ Steady /\ goroutines = {} /\ UNCHANGED <<goroutines, requests>>
      /\ replies' \subseteq replies
  BY SteadyStepDown, NothingWaits DEF StepDown
<1> QED
  BY <1>1, LocalQuiet DEF RequestsDescend

\* A response to AppendEntries sends nothing new.
LEMMA LocalHandleAppendEntriesResponse ==
    ASSUME Prompt, LocalInv, [Next]_vars, NEW r \in replies,
           HandleAppendEntriesResponse(r)
    PROVE  LocalInv'
<1>1. Steady
  BY SteadyHandleAppendEntriesResponse
<1>2. CASE Panic(r.from)
  BY <1>1, <1>2, DieQuiet, LocalQuiet DEF Panic
<1>3. CASE StepDown(r)
  BY <1>3, LocalStepDown DEF HandleAppendEntriesResponse
<1>4. CASE ~Panic(r.from) /\ ~StepDown(r)
  <2>1. /\ UNCHANGED <<nodeVars, goroutines, requests>>
        /\ replies' \subseteq replies
    BY <1>4 DEF HandleAppendEntriesResponse
  <2> QED
    BY <1>1, <2>1, LocalQuiet DEF nodeVars, RequestsDescend
<1> QED
  BY <1>2, <1>3, <1>4

\* What a vote that is counted changes: one entry, of another member.
LEMMA CountEffect ==
    ASSUME Prompt, LocalInv, NEW r \in replies, HandleRequestVoteResponse(r),
           ~StepDown(r)
    PROVE  /\ r.from \in Server /\ r.to \in Server /\ r.to # r.from
           /\ UNCHANGED <<state, currentTerm, log, goroutines, requests>>
           /\ replies' = replies \ {r}
           /\ \A n, m \in Server :
                 \/ votedFor'[n][m] = votedFor[n][m]
                 \/ /\ n = r.from /\ m = r.to /\ counts(r)
                    /\ r.rspTerm <= currentTerm[r.from]
<1>1. /\ r.from \in Server /\ r.to \in Server /\ TypeOK /\ r.to # r.from
  BY ReplyFields DEF LocalInv, OrderInv, RepliesFit, ReplyFits
<1>2. SlotOf(r) = {r.to} /\ ~SlotLost(r)
  BY <1>1, FixedMembers
<1>3. /\ UNCHANGED <<nodeVars, logVars, goroutines, requests>>
      /\ replies' = replies \ {r} /\ r.rspTerm <= currentTerm[r.from]
      /\ \/ UNCHANGED votedFor
         \/ /\ counts(r)
            /\ votedFor' = [votedFor EXCEPT ![r.from][r.to] = r.from]
  BY <1>2 DEF HandleRequestVoteResponse
<1>4. \A n, m \in Server :
         votedFor'[n][m] # votedFor[n][m] =>
            n = r.from /\ m = r.to /\ counts(r)
  BY <1>1, <1>3 DEF TypeOK, PeerTypeOK
<1> QED
  BY <1>1, <1>3, <1>4 DEF nodeVars, logVars

\* A counted vote changes the count of a candidate only.
LEMMA LocalHandleRequestVoteResponse ==
    ASSUME Prompt, LocalInv, [Next]_vars, NEW r \in replies,
           HandleRequestVoteResponse(r)
    PROVE  LocalInv'
<1>1. CASE StepDown(r)
  BY <1>1, LocalStepDown DEF HandleRequestVoteResponse
<1>2. CASE ~StepDown(r)
  <2>1. /\ r.to # r.from
        /\ UNCHANGED <<state, currentTerm, log, goroutines, requests>>
        /\ replies' \subseteq replies
        /\ \A n \in Server : votedFor'[n][n] = votedFor[n][n]
    BY <1>2, CountEffect
  <2>2. Steady
    BY <2>1, SteadyUnchanged DEF Steady
  <2> QED
    BY <2>1, <2>2, LocalQuiet DEF RequestsDescend
<1> QED
  BY <1>1, <1>2

\* A handler takes a request away and may send a response.
LEMMA LocalAnswered ==
    ASSUME Prompt, LocalInv, [Next]_vars, Settled, Steady, NEW r \in requests,
           UNCHANGED goroutines, requests' = requests \ {r},
           NEW p, p.from \in Server, ReplyFits(p),
           replies' \subseteq replies \cup {p}
    PROVE  LocalInv'
<1>1. OrderInv' /\ MembersInv' /\ TypeOK'
  BY OrderStep, MembersStep DEF LocalInv, OrderInv
<1>2. RolesFit' /\ RequestsFit'
  BY <1>1, RolesSteady, RequestsKept, SteadyStands DEF RequestsDescend
<1>3. SendersFit'
  BY NothingWaits DEF SendersFit
<1>4. RepliesFit'
  <2>1. \A q \in replies' : q \in replies \/ (q.from \in Server /\ ReplyFits(q))
    OBVIOUS
  <2> QED
    BY <1>1, <2>1, SteadyStands, RepliesKept
<1> QED
  BY <1>1, <1>2, <1>3, <1>4 DEF LocalInv

\* A vote is granted in the request's term only.
LEMMA LocalHandleRequestVoteRequest ==
    ASSUME Prompt, LocalInv, [Next]_vars, NEW r \in requests,
           HandleRequestVoteRequest(r)
    PROVE  LocalInv'
<1> DEFINE p == [call |-> r.call, kind |-> "vote", from |-> r.from, to |-> r.to,
                 term |-> r.term, rspTerm |-> TermAfter(r.to, r.term),
                 success |-> grant(r.to, r)]
<1>1. /\ Settled /\ UNCHANGED goroutines /\ requests' = requests \ {r}
      /\ replies' \subseteq replies \cup {p}
  BY DEF HandleRequestVoteRequest
<1>2. p.from \in Server /\ ReplyFits(p)
  BY RequestFields DEF ReplyFits, LocalInv, OrderInv, RequestsFit, RequestFits,
                       grant
<1> HIDE DEF p
<1> QED
  BY <1>1, <1>2, SteadyHandleRequestVoteRequest, LocalAnswered

\* What HandleAppendEntriesRequest answers.
LEMMA LocalReceiveAppend ==
    ASSUME Prompt, LocalInv, [Next]_vars, NEW r \in requests,
           RefuseAppendEntries(r) \/ AcceptAppendEntries(r)
    PROVE  LocalInv'
<1> DEFINE p(success) ==
              [call |-> r.call, kind |-> "append", from |-> r.from, to |-> r.to,
               term |-> r.term, rspTerm |-> TermAfter(r.to, r.term),
               success |-> success, match |-> MatchOf(r)]
<1>1. Steady
  BY SteadyRefuseAppendEntries, SteadyAcceptAppendEntries
<1>2. \A b \in BOOLEAN : p(b).from \in Server /\ ReplyFits(p(b))
  BY RequestFields DEF ReplyFits, LocalInv, OrderInv, RequestsFit, RequestFits
<1>3. ASSUME NEW b \in BOOLEAN, ReceiveAppend(r, b) PROVE LocalInv'
  <2>1. /\ Settled /\ UNCHANGED goroutines /\ requests' = requests \ {r}
        /\ replies' \subseteq replies \cup {p(b)}
    BY <1>3 DEF ReceiveAppend
  <2>2. p(b).from \in Server /\ ReplyFits(p(b))
    BY <1>2
  <2> HIDE DEF p
  <2> QED
    BY <1>1, <2>1, <2>2, LocalAnswered
<1> QED
  BY <1>3 DEF RefuseAppendEntries, AcceptAppendEntries

\* Spawned goroutines are the spawning server's, to others.
LEMMA SpawnedFit ==
    ASSUME Prompt, Settled, NEW s, NEW kind, NEW members, Spawn(s, kind, members)
    PROVE  \A g \in goroutines' : g.from = s /\ g.to # s /\ g.kind = kind
<1>1. goroutines = {}
  BY NothingWaits
<1>2. PICK reached \in SUBSET (members \ {s}) :
         \E id \in Injection(reached, FreeCalls) :
            goroutines' = goroutines \cup
                {[call |-> id[m], kind |-> kind, from |-> s, to |-> m] :
                     m \in reached}
  BY DEF Spawn
<1> QED
  BY <1>1, <1>2

\* heartbeat() and Apply() of a leader send in its term.
LEMMA LocalLeaderSends ==
    ASSUME Prompt, LocalInv, [Next]_vars, NEW s \in Server,
           heartbeat(s) \/ \E v \in Value : Apply(s, v)
    PROVE  LocalInv'
<1>1. Steady
  BY SteadyIdle, SteadyApply
<1>2. /\ Settled /\ state[s] = "leader" /\ Spawn(s, "append", cluster[s])
      /\ UNCHANGED <<state, requests, replies>>
  BY DEF heartbeat, InBranch, Prompt, Apply, nodeVars
<1>3. OrderInv' /\ MembersInv' /\ TypeOK'
  BY OrderStep, MembersStep DEF LocalInv, OrderInv
<1>4. RolesFit' /\ RequestsFit'
  BY <1>1, <1>2, <1>3, RolesSteady, RequestsKept, SteadyStands DEF RequestsDescend
<1>5. SendersFit'
  BY <1>2, SpawnedFit DEF SendersFit
<1>6. RepliesFit'
  <2>1. \A p \in replies' : p \in replies
    BY <1>2
  <2> QED
    BY <1>1, <1>3, <2>1, SteadyStands, RepliesKept
<1> QED
  BY <1>3, <1>4, <1>5, <1>6 DEF LocalInv

\* timeout(): a candidate of a new term, all of whose log is older.
LEMMA TimeoutEffect ==
    ASSUME Prompt, LocalInv, NEW s \in Server, Timeout(s)
    PROVE  /\ goroutines = {} /\ state'[s] = "candidate"
           /\ currentTerm'[s] = currentTerm[s] + 1
           /\ UNCHANGED <<log, requests, replies>>
           /\ \A m \in Server : votedFor'[s][m] = IF m = s THEN s ELSE 0
           /\ \A n \in Server : n # s =>
                 /\ state'[n] = state[n] /\ currentTerm'[n] = currentTerm[n]
                 /\ votedFor'[n] = votedFor[n]
<1>1. TypeOK /\ cluster[s] = Server
  BY FixedMembers DEF LocalInv, OrderInv
<1>2. goroutines = {}
  BY NothingWaits DEF Timeout
<1>3. votedFor' = [votedFor EXCEPT ![s] =
                    [m \in Server |-> IF m = s THEN s ELSE
                                      IF m \in cluster[s] THEN 0 ELSE @[m]]]
  BY DEF Timeout
<1>4. \A m \in Server : votedFor'[s][m] = IF m = s THEN s ELSE 0
  BY <1>1, <1>3 DEF TypeOK, PeerTypeOK
<1>5. \A n \in Server : n # s =>
                 /\ state'[n] = state[n] /\ currentTerm'[n] = currentTerm[n]
                 /\ votedFor'[n] = votedFor[n]
  BY <1>1, <1>3 DEF Timeout, TypeOK, NodeTypeOK, PeerTypeOK
<1>6. /\ state'[s] = "candidate" /\ currentTerm'[s] = currentTerm[s] + 1
      /\ UNCHANGED <<log, requests, replies>>
  BY <1>1 DEF Timeout, logVars, TypeOK, NodeTypeOK
<1> QED
  BY <1>2, <1>4, <1>5, <1>6

\* A server stands for election with a log of earlier terms.
LEMMA LocalTimeout ==
    ASSUME Prompt, LocalInv, [Next]_vars, NEW s \in Server, Timeout(s)
    PROVE  LocalInv'
<1>1. OrderInv' /\ MembersInv' /\ TypeOK'
  BY OrderStep, MembersStep DEF LocalInv, OrderInv
<1>2. /\ goroutines = {} /\ state'[s] = "candidate"
      /\ currentTerm'[s] = currentTerm[s] + 1
      /\ UNCHANGED <<log, requests, replies>>
      /\ \A n \in Server : n # s =>
            state'[n] = state[n] /\ currentTerm'[n] = currentTerm[n]
  BY TimeoutEffect
<1>3. StandsInNewTerms
  BY <1>2, ServerTypes DEF StandsInNewTerms
<1>4. RequestsFit'
  BY <1>1, <1>2, <1>3, RequestsKept DEF RequestsDescend
<1>5. RolesFit'
  <2> SUFFICES ASSUME NEW n \in Server PROVE RoleFits(n)'
    BY DEF RolesFit
  <2>0. RoleFits(n)
    BY DEF LocalInv, RolesFit
  <2>1. CASE n # s
    BY <1>2, <2>0, <2>1 DEF RoleFits
  <2>2. CASE n = s
    <3>1. LastTerm(log[s]) < currentTerm'[s] /\ currentTerm'[s] > 0
      BY <1>2, ServerTypes
    <3> QED
      BY <1>2, <2>0, <2>2, <3>1 DEF RoleFits
  <2> QED
    BY <2>1, <2>2
<1>6. SendersFit'
  <2>1. \A g \in goroutines' : g.from = s /\ g.to # s /\ g.kind = "vote"
    BY SpawnedFit DEF Timeout
  <2> QED
    BY <1>2, <2>1 DEF SendersFit
<1>7. RepliesFit'
  <2>1. \A p \in replies' : p \in replies
    BY <1>2
  <2> QED
    BY <1>1, <1>3, <2>1, RepliesKept
<1> QED
  BY <1>1, <1>4, <1>5, <1>6, <1>7 DEF LocalInv

\* becomeLeader(): the blank entry is of the leader's term.
LEMMA BecomeLeaderEffect ==
    ASSUME LocalInv, NEW s \in Server, becomeLeader(s)
    PROVE  /\ state' = [state EXCEPT ![s] = "leader"]
           /\ Noop(currentTerm[s]) \in Entry
           /\ log' = [log EXCEPT ![s] = Append(@, Noop(currentTerm[s]))]
           /\ log'[s] = Append(log[s], Noop(currentTerm[s]))
           /\ Len(log'[s]) = Len(log[s]) + 1 /\ Len(log'[s]) <= MaxLog
           /\ LastTerm(log'[s]) = currentTerm[s]
           /\ UNCHANGED <<currentTerm, votedFor, goroutines, requests, replies>>
           /\ Settled
<1>1. /\ state' = [state EXCEPT ![s] = "leader"]
      /\ log' = [log EXCEPT ![s] = Append(@, Noop(currentTerm[s]))]
      /\ UNCHANGED <<currentTerm, votedFor, goroutines, requests, replies>>
      /\ Settled /\ Len(log[s]) < MaxLog
  BY DEF becomeLeader, callVars
<1>2. /\ Noop(currentTerm[s]) \in Entry
      /\ Noop(currentTerm[s]).term = currentTerm[s]
  BY ServerTypes DEF Noop, Entry
<1>3. log'[s] = Append(log[s], Noop(currentTerm[s]))
  BY <1>1 DEF LocalInv, OrderInv, TypeOK, LogTypeOK
<1>4. /\ Len(log'[s]) = Len(log[s]) + 1
      /\ LastTerm(log'[s]) = currentTerm[s]
  BY <1>2, <1>3, LastOfAppend, ServerTypes
<1>5. Len(log'[s]) <= MaxLog
  BY <1>1, <1>4, ServerTypes, BoundAssumption
<1> QED
  BY <1>1, <1>2, <1>3, <1>4, <1>5

\* A new leader's log ends in its own term.
LEMMA LocalBecomeLeader ==
    ASSUME Prompt, LocalInv, [Next]_vars, NEW s \in Server, becomeLeader(s),
           state[s] = "candidate"
    PROVE  LocalInv'
<1>1. OrderInv' /\ MembersInv' /\ TypeOK'
  BY OrderStep, MembersStep DEF LocalInv, OrderInv
<1>2. TypeOK
  BY DEF LocalInv, OrderInv
<1>3. /\ state' = [state EXCEPT ![s] = "leader"]
      /\ log' = [log EXCEPT ![s] = Append(@, Noop(currentTerm[s]))]
      /\ Len(log'[s]) <= MaxLog /\ LastTerm(log'[s]) = currentTerm[s]
      /\ UNCHANGED <<currentTerm, votedFor, goroutines, requests, replies>>
      /\ goroutines = {}
  BY BecomeLeaderEffect, NothingWaits
<1>4. \A n \in Server : n # s => state'[n] = state[n] /\ log'[n] = log[n]
  BY <1>2, <1>3 DEF TypeOK, NodeTypeOK, LogTypeOK
<1>5. state'[s] = "leader"
  BY <1>2, <1>3 DEF TypeOK, NodeTypeOK
<1>6. StandsInNewTerms
  <2>1. \A n \in Server : currentTerm'[n] >= currentTerm[n]
    BY <1>3, ServerTypes
  <2> QED
    BY <2>1, <1>3, <1>4, <1>5 DEF StandsInNewTerms
<1>7. RequestsFit'
  BY <1>1, <1>3, <1>6, RequestsKept DEF RequestsDescend
<1>8. RolesFit'
  <2> SUFFICES ASSUME NEW n \in Server PROVE RoleFits(n)'
    BY DEF RolesFit
  <2>0. RoleFits(n)
    BY DEF LocalInv, RolesFit
  <2>1. CASE n # s
    BY <1>3, <1>4, <2>0, <2>1 DEF RoleFits
  <2>2. CASE n = s
    BY <1>3, <1>5, <2>0, <2>2 DEF RoleFits
  <2> QED
    BY <2>1, <2>2
<1>9. SendersFit'
  BY <1>3 DEF SendersFit
<1>10. RepliesFit'
  <2>1. \A p \in replies' : p \in replies
    BY <1>3
  <2> QED
    BY <1>1, <1>6, <2>1, RepliesKept
<1> QED
  BY <1>1, <1>7, <1>8, <1>9, <1>10 DEF LocalInv

\* When logs fit a batch, a request carries the log to its end.
LEMMA RequestReachesEnd ==
    ASSUME Prompt, LocalInv, NEW s \in Server, NEW m \in Server, ~BadNext(s, m)
    PROVE  nextIndex[s][m] - 1 + Len(EntriesFor(s, m)) = Len(log[s])
<1> DEFINE lg == log[s]
           next == nextIndex[s][m]
           to == Least(Len(lg), next + MaxBatch - 1)
<1>1. lg \in Seq(Entry) /\ Len(lg) \in Nat /\ next \in Nat
  BY ServerTypes DEF LocalInv, OrderInv, TypeOK, PeerTypeOK
<1>2. next \in Nat \ {0} /\ next - 1 <= Len(lg)
  BY <1>1 DEF BadNext
<1>3. Len(lg) <= MaxBatch
  BY <1>1, BoundAssumption DEF Prompt, LocalInv, RolesFit, RoleFits
<1>4. to = Len(lg)
  BY <1>1, <1>2, <1>3, BoundAssumption DEF Least
<1>5. EntriesFor(s, m) = SubSeq(lg, next, to)
  BY DEF EntriesFor
<1> HIDE DEF lg, next, to
<1>6. Len(EntriesFor(s, m)) = IF next <= to THEN to - next + 1 ELSE 0
  BY <1>1, <1>2, <1>4, <1>5, MembersOfSubSeq
<1>7. next - 1 + Len(EntriesFor(s, m)) = Len(lg)
  BY <1>1, <1>2, <1>4, <1>6
<1> QED
  BY <1>7 DEF next, lg

\* A request that is built describes its sender's log.
LEMMA LocalBuilt ==
    ASSUME Prompt, LocalInv, [Next]_vars, NEW g \in goroutines,
           goroutines' = goroutines \ {g}, NEW q, RequestFits(q),
           requests' = requests \cup {q},
           UNCHANGED <<nodeVars, logVars, peerVars, replies>>
    PROVE  LocalInv'
<1>1. OrderInv' /\ MembersInv' /\ TypeOK'
  BY OrderStep, MembersStep DEF LocalInv, OrderInv
<1>2. UNCHANGED <<state, currentTerm, log>>
  BY DEF nodeVars, logVars
<1>3. SendersFit' /\ RolesFit' /\ RepliesFit'
  BY <1>2 DEF LocalInv, SendersFit, RolesFit, RoleFits, RepliesFit, ReplyFits
<1>4. RequestsFit'
  BY <1>2 DEF LocalInv, RequestsFit, RequestFits, VoteRequestFits,
              AppendRequestFits, MatchOf
<1> QED
  BY <1>1, <1>3, <1>4 DEF LocalInv

\* requestVote() asks as a candidate.
LEMMA LocalBuildRequestVote ==
    ASSUME Prompt, LocalInv, [Next]_vars, NEW g \in goroutines,
           BuildRequestVote(g)
    PROVE  LocalInv'
<1> DEFINE s == g.from
           q == [call |-> g.call, kind |-> "vote", from |-> s, to |-> g.to,
                 term |-> currentTerm[s], lastLogIndex |-> Len(log[s]),
                 lastLogTerm |-> LastTerm(log[s]), orphan |-> FALSE]
<1>1. s \in Server /\ g.to \in Server /\ g.kind = "vote"
  BY DEF LocalInv, OrderInv, TypeOK, CallTypeOK, Goroutine, BuildRequestVote
<1>2. SlotOf(g) = {g.to} /\ ~SlotLost(g)
  BY <1>1, FixedMembers
<1>3. /\ goroutines' = goroutines \ {g} /\ requests' = requests \cup {q}
      /\ UNCHANGED <<nodeVars, logVars, peerVars, replies>>
  BY <1>2 DEF BuildRequestVote
<1>4. g.from # g.to /\ state[s] = "candidate"
  BY <1>1 DEF LocalInv, SendersFit
<1>5. LastTerm(log[s]) < currentTerm[s] /\ currentTerm[s] \in Nat
  BY <1>1, <1>4, ServerTypes DEF LocalInv, RolesFit, RoleFits
<1>6. RequestFits(q)
  BY <1>4, <1>5 DEF RequestFits, VoteRequestFits
<1> HIDE DEF q
<1> QED
  BY <1>3, <1>6, LocalBuilt

\* appendEntries() sends as a leader, in its term.
LEMMA LocalBuildAppendEntries ==
    ASSUME Prompt, LocalInv, [Next]_vars, NEW g \in goroutines,
           BuildAppendEntries(g)
    PROVE  LocalInv'
<1> DEFINE s == g.from
           m == g.to
           q == [call |-> g.call, kind |-> "append", from |-> s, to |-> m,
                 term |-> currentTerm[s], prevLogIndex |-> nextIndex[s][m] - 1,
                 prevLogTerm |-> TermAt(log[s], nextIndex[s][m] - 1),
                 entries |-> EntriesFor(s, m),
                 leaderCommit |-> commitIndex[s], orphan |-> FALSE]
<1>1. s \in Server /\ m \in Server /\ g.kind = "append" /\ TypeOK
  BY DEF LocalInv, OrderInv, TypeOK, CallTypeOK, Goroutine, BuildAppendEntries
<1>2. CASE Panic(s)
  BY <1>2, SteadyDie, DieQuiet, LocalQuiet DEF Panic
<1>3. CASE ~Panic(s)
  <2>1. SlotOf(g) = {m}
    BY <1>1, FixedMembers
  <2>2. /\ goroutines' = goroutines \ {g} /\ requests' = requests \cup {q}
        /\ UNCHANGED <<nodeVars, logVars, peerVars, replies>>
        /\ ~BadNext(s, m)
    BY <1>3, <2>1 DEF BuildAppendEntries
  <2>3. g.from # g.to /\ state[s] = "leader"
    BY <1>1 DEF LocalInv, SendersFit
  <2>4. /\ LastTerm(log[s]) = currentTerm[s] /\ Len(log[s]) <= MaxLog
        /\ currentTerm[s] \in Nat /\ Len(log[s]) \in Nat
    BY <1>1, <2>3, ServerTypes DEF LocalInv, RolesFit, RoleFits
  <2> DEFINE es == EntriesFor(s, m)
             prev == nextIndex[s][m] - 1
  <2>5. /\ prev + Len(es) = Len(log[s])
        /\ \A i \in 1..Len(es) : es[i] = log[s][prev + i]
        /\ Len(es) \in Nat /\ prev \in Nat
    <3>1. /\ es \in Seq(Entry) /\ prev \in 0..Len(log[s])
          /\ \A i \in 1..Len(es) : es[i] = log[s][prev + i]
      BY <1>1, <2>2, BuiltRequest
    <3>2. prev + Len(es) = Len(log[s])
      BY <1>1, <2>2, RequestReachesEnd
    <3> HIDE DEF es, prev
    <3> QED
      BY <2>4, <3>1, <3>2, LenProperties
  <2>6. /\ q.entries = es /\ q.prevLogIndex = prev /\ q.kind = "append"
        /\ q.from = s /\ q.to = m /\ q.term = currentTerm[s]
    OBVIOUS
  <2> HIDE DEF es, prev, q
  <2>7. Len(es) > 0 => es[Len(es)].term = currentTerm[s]
    <3>1. ASSUME Len(es) > 0 PROVE es[Len(es)] = log[s][Len(log[s])] /\ Len(log[s]) # 0
      BY <2>4, <2>5, <3>1
    <3> QED
      BY <3>1, <2>4 DEF LastTerm, TermAt
  <2>8. RequestFits(q)
    BY <2>3, <2>4, <2>5, <2>6, <2>7 DEF RequestFits, AppendRequestFits, MatchOf
  <2> QED
    BY <2>2, <2>8, LocalBuilt
<1> QED
  BY <1>2, <1>3

\* Without a late loop, only a candidate becomes leader.
LEMMA LeaderWasCandidate ==
    ASSUME Prompt, NEW s, becomeLeader(s)
    PROVE  state[s] = "candidate"
  BY DEF Prompt, becomeLeader, InBranch

\* Init: followers with empty logs and nothing under way.
LEMMA LocalInit == Init => LocalInv
<1> SUFFICES ASSUME Init PROVE LocalInv
  OBVIOUS
<1>1. OrderInv /\ MembersInv
  BY OrderInit, MembersInit
<1>2. \A s \in Server : state[s] = "follower" /\ Len(log[s]) = 0
  BY EmptySeq DEF Init
<1>3. RolesFit
  BY <1>2, BoundAssumption DEF RolesFit, RoleFits
<1> QED
  BY <1>1, <1>3 DEF Init, LocalInv, SendersFit, RequestsFit, RepliesFit

\* Every prompt step keeps the local invariant.
LEMMA LocalStep ==
    ASSUME Prompt, LocalInv, [Next]_vars, VotesRemembered
    PROVE  LocalInv'
<1>1. CASE CallStep
  <2>1. CASE RPCError
    <3>1. \E s \in Server : TRUE
      BY <2>1, RequestFields, ReplyFields DEF RPCError, LocalInv, OrderInv
    <3> QED
      BY <2>1, <3>1, LocalIdle
  <2> QED
    BY <1>1, <2>1, LocalBuildRequestVote, LocalBuildAppendEntries,
       LocalHandleRequestVoteRequest, LocalReceiveAppend,
       LocalHandleRequestVoteResponse, LocalHandleAppendEntriesResponse
       DEF CallStep
<1>2. ASSUME NEW s \in Server, ServerStep(s) PROVE LocalInv'
  BY <1>2, LocalTimeout, LocalIdle, LocalBecomeLeader, LeaderWasCandidate,
     LocalLeaderSends DEF ServerStep
<1>3. ASSUME NEW s \in Server, ClientStep(s) PROVE LocalInv'
  BY <1>3, LocalLeaderSends, NobodyToAdd DEF ClientStep
<1>4. ASSUME NEW s \in Server, FaultStep(s) PROVE LocalInv'
  BY <1>4, LocalIdle, LocalRestart DEF FaultStep
<1>5. CASE UNCHANGED vars
  <2>1. UNCHANGED callVars /\ UNCHANGED state
    BY <1>5 DEF vars, nodeVars
  <2>2. Steady
    <3>1. UNCHANGED <<state, currentTerm, log, votedFor>>
      BY <1>5 DEF vars, nodeVars, logVars, peerVars
    <3> QED
      BY <3>1, SteadyFrame
  <2> QED
    BY <2>1, <2>2, LocalQuiet DEF callVars, RequestsDescend
<1> QED
  BY <1>1, <1>2, <1>3, <1>4, <1>5 DEF Next

-----------------------------------------------------------------------------
(* Ballots are kept and cast *)

\* One log is at least as up-to-date as another: the comparison of logOk.
UpToDate(lg, other) ==
    \/ LastTerm(lg) > LastTerm(other)
    \/ LastTerm(lg) = LastTerm(other) /\ Len(lg) >= Len(other)

\* A ballot is cast in the voter's term, for a candidate as up-to-date as the
\* voter, whose log is of earlier terms.
NewBallot(v) ==
    /\ v.term = currentTerm'[v.voter]
    /\ v.log = log[v.cand]
    /\ UpToDate(v.log, log[v.voter])

\* A server's term does not go back, and a vote of its term is not forgotten
\* unless the leader of the term has given it an entry.
KeepsVote(s) ==
    /\ currentTerm'[s] >= currentTerm[s]
    /\ currentTerm'[s] = currentTerm[s] =>
          /\ \/ votedFor'[s][s] = votedFor[s][s]
             \/ votedFor[s][s] = 0
             \/ LastTerm(log'[s]) = currentTerm[s]
          /\ LastTerm(log[s]) = currentTerm[s] =>
                LastTerm(log'[s]) = currentTerm[s]

\* The ballots B become C by a step.
BallotsBecome(B, C) ==
    /\ B \subseteq C /\ BallotsFit(C)'
    /\ \A v \in C : v \in B \/ NewBallot(v)

\* A ballot that was kept is kept by servers that keep their votes.
LEMMA BallotStays ==
    ASSUME LocalInv, TypeOK', NEW v \in Ballot, BallotKept(v),
           \A s \in Server : KeepsVote(s)
    PROVE  BallotKept(v)'
<1>1. /\ v.voter \in Server /\ v.cand \in Server /\ v.term \in Nat
  BY DEF Ballot
<1>2. /\ currentTerm[v.voter] \in Nat /\ currentTerm'[v.voter] \in Nat
      /\ currentTerm[v.cand] \in Nat /\ currentTerm'[v.cand] \in Nat
  BY <1>1, ServerTypes DEF TypeOK, NodeTypeOK
<1>3. KeepsVote(v.voter) /\ KeepsVote(v.cand)
  BY <1>1
<1>4. /\ v.term <= currentTerm'[v.voter] /\ v.term <= currentTerm'[v.cand]
      /\ currentTerm'[v.voter] = v.term =>
            currentTerm[v.voter] = v.term
  BY <1>1, <1>2, <1>3 DEF KeepsVote, BallotKept
<1>5. v.cand # 0
  BY <1>1, ServerAssumption
<1>6. ASSUME currentTerm'[v.voter] = v.term
      PROVE  \/ votedFor'[v.voter][v.voter] = v.cand
             \/ LastTerm(log'[v.voter]) = v.term
  BY <1>3, <1>4, <1>5, <1>6 DEF KeepsVote, BallotKept
<1> QED
  BY <1>4, <1>6 DEF BallotKept

\* More ballots elect no fewer leaders.
LEMMA ElectedStays ==
    ASSUME NEW B, NEW C, B \subseteq C, NEW l, NEW t, NEW lg, Elected(B, l, t, lg)
    PROVE  Elected(C, l, t, lg)
  BY DEF Elected, Cast

\* Steady steps need no ballots but those of the votes they send.
LEMMA BallotsSteady ==
    ASSUME LocalInv, TypeOK', Steady, CountsNothing,
           NEW B, BallotsFit(B), NEW C \in SUBSET Ballot, B \subseteq C,
           OneVotePerTerm(C), \A v \in C : v \in B \/ BallotKept(v)',
           \A p \in replies' : p \in replies \/ ReplyCast(C, p)'
    PROVE  BallotsFit(C)'
<1>1. \A s \in Server : KeepsVote(s)
  BY DEF Steady, Steadily, KeepsVote
<1>2. \A v \in C : BallotKept(v)'
  BY <1>1, BallotStays DEF BallotsFit
<1>3. ASSUME NEW p \in replies' PROVE ReplyCast(C, p)'
  <2>1. CASE p \in replies
    <3>1. ReplyCast(B, p) /\ p.from \in Server
      BY <2>1, ReplyFields DEF BallotsFit, LocalInv, OrderInv
    <3>2. Steadily(p.from)
      BY <3>1 DEF Steady
    <3> QED
      BY <3>1, <3>2 DEF ReplyCast, Steadily, Cast
  <2> QED
    BY <2>1
<1>4. ASSUME NEW s \in Server PROVE CountCast(C, s)'
  <2>1. CountCast(B, s) /\ Steadily(s)
    BY DEF BallotsFit, Steady
  <2> SUFFICES ASSUME state'[s] = "candidate", NEW m \in Server, votedFor'[s][m] = s
               PROVE  Cast(C, m, currentTerm'[s], s, log'[s])
    BY DEF CountCast, Cast
  <2>2. /\ state[s] = "candidate" /\ currentTerm'[s] = currentTerm[s]
        /\ log'[s] = log[s] /\ votedFor[s][m] = s
    BY <2>1 DEF Steadily, CountsNothing
  <2>3. Cast(B, m, currentTerm[s], s, log[s])
    BY <2>1, <2>2 DEF CountCast
  <2> QED
    BY <2>2, <2>3 DEF Cast
<1>5. ASSUME NEW s \in Server PROVE LeaderCast(C, s)'
  <2>1. LeaderCast(B, s) /\ Steadily(s)
    BY DEF BallotsFit, Steady
  <2>2. ASSUME state'[s] = "leader"
        PROVE  \E lg \in Seq(Entry) : Elected(C, s, currentTerm'[s], lg)
    BY <2>1, <2>2, ElectedStays DEF Steadily, LeaderCast
  <2> QED
    BY <2>2 DEF LeaderCast, Elected, Cast, Majority
<1>6. OneVotePerTerm(C)' /\ C \subseteq Ballot
  BY DEF OneVotePerTerm
<1> QED
  BY <1>2, <1>3, <1>4, <1>5, <1>6 DEF BallotsFit

\* Steps that send no vote need no ballot.
LEMMA BallotsQuiet ==
    ASSUME LocalInv, TypeOK', Steady, CountsNothing, NEW B, BallotsFit(B),
           \A p \in replies' : p \in replies \/ p.kind # "vote"
    PROVE  BallotsBecome(B, B)
<1>1. \A p \in replies' : p \in replies \/ ReplyCast(B, p)'
  BY DEF ReplyCast
<1>2. BallotsFit(B)'
  BY <1>1, BallotsSteady DEF BallotsFit
<1> QED
  BY <1>2 DEF BallotsBecome

\* timeout(): the candidate's vote for itself, the first of its new term.
LEMMA BallotsTimeout ==
    ASSUME Prompt, LocalInv, TypeOK', NEW s \in Server, Timeout(s),
           NEW B, BallotsFit(B)
    PROVE  \E C : BallotsBecome(B, C)
<1>0. PICK t : t = currentTerm[s] + 1
  OBVIOUS
<1>1. /\ state'[s] = "candidate" /\ currentTerm'[s] = t
      /\ UNCHANGED <<log, requests, replies>>
      /\ \A m \in Server : votedFor'[s][m] = IF m = s THEN s ELSE 0
      /\ \A n \in Server : n # s =>
            /\ state'[n] = state[n] /\ currentTerm'[n] = currentTerm[n]
            /\ votedFor'[n] = votedFor[n]
  BY <1>0, TimeoutEffect
<1>2. currentTerm[s] \in Nat /\ t \in Nat /\ t > currentTerm[s] /\ log[s] \in Seq(Entry)
  BY <1>0, ServerTypes
<1>3. PICK v \in Ballot :
         v = [voter |-> s, term |-> t, cand |-> s, log |-> log[s]]
  BY <1>2 DEF Ballot
<1> DEFINE C == B \cup {v}
<1>3a. C \subseteq Ballot
  BY <1>3 DEF BallotsFit
<1>4. \A w \in B : w.voter = s => w.term # t
  <2>1. \A w \in B : BallotKept(w) /\ w.term \in Nat
    BY DEF BallotsFit, Ballot
  <2> QED
    BY <1>2, <2>1 DEF BallotKept
<1>5. OneVotePerTerm(C)
  BY <1>3, <1>4 DEF OneVotePerTerm, BallotsFit
<1>6. \A n \in Server : KeepsVote(n)
  <2>1. \A n \in Server : currentTerm[n] \in Nat
    BY ServerTypes
  <2> QED
    BY <1>1, <1>2, <2>1 DEF KeepsVote
<1>7. \A w \in C : BallotKept(w)'
  <2>1. BallotKept(v)'
    BY <1>1, <1>2, <1>3 DEF BallotKept
  <2>2. \A w \in B : BallotKept(w)'
    BY <1>6, BallotStays DEF BallotsFit
  <2> QED
    BY <2>1, <2>2
<1>8. ASSUME NEW p \in replies' PROVE ReplyCast(C, p)'
  <2>1. /\ p \in replies /\ p.from \in Server /\ p.term <= currentTerm[p.from]
        /\ p.term \in Nat /\ ReplyCast(B, p)
    BY <1>1, ReplyFields DEF LocalInv, OrderInv, RepliesFit, ReplyFits, BallotsFit
  <2>2. CASE p.from = s
    BY <1>1, <1>2, <2>1, <2>2 DEF ReplyCast
  <2>3. CASE p.from # s
    BY <1>1, <2>1, <2>3 DEF ReplyCast, Cast
  <2> QED
    BY <2>2, <2>3
<1>9. ASSUME NEW n \in Server PROVE CountCast(C, n)' /\ LeaderCast(C, n)'
  <2>1. CountCast(B, n) /\ LeaderCast(B, n)
    BY DEF BallotsFit
  <2>2. CASE n # s
    <3>1. CountCast(C, n)'
      BY <1>1, <2>1, <2>2 DEF CountCast, Cast
    <3>2. state'[n] = "leader" =>
             \E lg \in Seq(Entry) : Elected(C, n, currentTerm'[n], lg)
      BY <1>1, <2>1, <2>2, ElectedStays DEF LeaderCast
    <3> HIDE DEF C
    <3> QED
      BY <3>1, <3>2 DEF LeaderCast, Elected, Cast, Majority
  <2>3. CASE n = s
    <3>1. \A m \in Server : votedFor'[s][m] = s => m = s
      BY <1>1, ServerAssumption
    <3>2. Cast(C, s, currentTerm'[s], s, log'[s])
      BY <1>1, <1>3 DEF Cast
    <3> QED
      BY <1>1, <2>3, <3>1, <3>2 DEF CountCast, LeaderCast, Cast
  <2> QED
    BY <2>2, <2>3
<1>10. BallotsFit(C)'
  BY <1>3a, <1>5, <1>7, <1>8, <1>9 DEF BallotsFit, OneVotePerTerm
<1>11. NewBallot(v)
  BY <1>1, <1>2, <1>3, ServerTypes DEF NewBallot, UpToDate
<1> QED
  BY <1>10, <1>11 DEF BallotsBecome


\* What granting a vote needs: in the request's term the voter has voted for
\* nobody else, and its log is of earlier terms and not newer.
LEMMA GrantEffect ==
    ASSUME LocalInv, NEW r \in requests, HandleRequestVoteRequest(r),
           grant(r.to, r), state[r.from] = "candidate",
           currentTerm[r.from] = r.term
    PROVE  /\ currentTerm[r.to] <= r.term /\ currentTerm'[r.to] = r.term
           /\ currentTerm[r.to] = r.term =>
                 votedFor[r.to][r.to] \in {0, r.from}
           /\ votedFor'[r.to][r.to] = r.from
           /\ LastTerm(log[r.to]) < r.term
           /\ UpToDate(log[r.from], log[r.to])
           /\ currentTerm'[r.from] = r.term
<1> DEFINE s == r.to
           c == r.from
<1>0. TypeOK
  BY DEF LocalInv, OrderInv
<1>1. /\ s \in Server /\ c \in Server /\ r.term \in Nat /\ c # s
      /\ currentTerm[s] \in Nat
  BY <1>0, RequestFields, ServerTypes DEF LocalInv, RequestsFit, RequestFits
<1>2. /\ r.term = TermAfter(s, r.term) /\ logOk(s, r)
      /\ VotesAfter(s, r.term)[s] \in {0, c}
      /\ updateTerm(s, r.term)
      /\ votedFor' = [votedFor EXCEPT ![s] =
                         [VotesAfter(s, r.term) EXCEPT ![s] = c]]
  BY DEF grant, HandleRequestVoteRequest
<1>3. currentTerm[s] <= r.term
  BY <1>1, <1>2 DEF TermAfter
<1>4. /\ currentTerm'[s] = r.term /\ currentTerm'[c] = r.term
      /\ votedFor'[s] = [VotesAfter(s, r.term) EXCEPT ![s] = c]
  BY <1>0, <1>1, <1>2 DEF updateTerm, TypeOK, NodeTypeOK, PeerTypeOK
<1>5. VotesAfter(s, r.term) \in [Server -> Server \cup {0}]
  BY <1>0, <1>1, ServerTypes DEF VotesAfter
<1>6. currentTerm[s] = r.term => votedFor[s][s] \in {0, c}
  BY <1>1, <1>2 DEF VotesAfter
<1>7. /\ r.lastLogTerm < r.term /\ r.lastLogTerm = LastTerm(log[c])
      /\ r.lastLogIndex = Len(log[c])
  BY <1>0 DEF LocalInv, RequestsFit, RequestFits, VoteRequestFits,
              HandleRequestVoteRequest
<1>8. LastTerm(log[s]) \in Nat /\ LastTerm(log[c]) \in Nat
  BY <1>1, ServerTypes
<1>9. LastTerm(log[s]) < r.term /\ UpToDate(log[c], log[s])
  BY <1>1, <1>2, <1>7, <1>8 DEF logOk, UpToDate
<1>10. votedFor'[s][s] = c
  BY <1>1, <1>4, <1>5
<1> QED
  BY <1>3, <1>4, <1>6, <1>9, <1>10

\* A vote granted to a server that still stands in the term is a new ballot.
LEMMA BallotsGrant ==
    ASSUME Prompt, LocalInv, TypeOK', NEW r \in requests,
           HandleRequestVoteRequest(r), NEW B, BallotsFit(B)
    PROVE  \E C : BallotsBecome(B, C)
<1> DEFINE s == r.to
           c == r.from
<1>0. PICK p : p = [call |-> r.call, kind |-> "vote", from |-> c, to |-> s,
                    term |-> r.term, rspTerm |-> TermAfter(s, r.term),
                    success |-> grant(s, r)]
  OBVIOUS
<1>1. /\ s \in Server /\ c \in Server /\ r.term \in Nat /\ c # s
  BY RequestFields DEF LocalInv, OrderInv, RequestsFit, RequestFits
<1>2. Steady /\ CountsNothing
  BY SteadyHandleRequestVoteRequest
<1>3. /\ replies' \subseteq replies \cup {p}
      /\ state'[c] = state[c] /\ currentTerm'[c] = currentTerm[c]
      /\ UNCHANGED log
  BY <1>0, <1>1 DEF HandleRequestVoteRequest, updateTerm, LocalInv, OrderInv,
                    TypeOK, NodeTypeOK, logVars
<1>4. /\ p.kind = "vote" /\ p.from = c /\ p.to = s /\ p.term = r.term
      /\ p.success = grant(s, r)
  BY <1>0
<1>5. CASE ~(grant(s, r) /\ state[c] = "candidate" /\ currentTerm[c] = r.term)
  <2>1. \A q \in replies' : q \in replies \/ ReplyCast(B, q)'
    BY <1>3, <1>4, <1>5 DEF ReplyCast
  <2>2. BallotsFit(B)'
    BY <1>2, <2>1, BallotsSteady DEF BallotsFit
  <2> QED
    BY <2>2 DEF BallotsBecome
<1>6. CASE grant(s, r) /\ state[c] = "candidate" /\ currentTerm[c] = r.term
  <2>1. /\ currentTerm[s] <= r.term /\ currentTerm'[s] = r.term
        /\ currentTerm[s] = r.term => votedFor[s][s] \in {0, c}
        /\ votedFor'[s][s] = c /\ LastTerm(log[s]) < r.term
        /\ UpToDate(log[c], log[s]) /\ currentTerm'[c] = r.term
    BY <1>6, GrantEffect
  <2>2. /\ log[c] \in Seq(Entry) /\ currentTerm[s] \in Nat
        /\ LastTerm(log[s]) \in Nat
    BY <1>1, ServerTypes
  <2>3. PICK v \in Ballot :
           v = [voter |-> s, term |-> r.term, cand |-> c, log |-> log[c]]
    BY <1>1, <2>2 DEF Ballot
  <2> DEFINE C == B \cup {v}
  <2>4. C \in SUBSET Ballot
    BY DEF BallotsFit
  <2>5. \A w \in B : w.voter = s /\ w.term = r.term => w.cand = c
    <3> SUFFICES ASSUME NEW w \in B, w.voter = s, w.term = r.term
                 PROVE  w.cand = c
      OBVIOUS
    <3>1. BallotKept(w) /\ w.cand \in Server /\ w.cand # 0
      BY ServerAssumption DEF BallotsFit, Ballot
    <3>2. currentTerm[s] = r.term
      BY <1>1, <2>1, <2>2, <3>1 DEF BallotKept
    <3>3. votedFor[s][s] = w.cand
      BY <2>1, <2>2, <3>1, <3>2 DEF BallotKept
    <3> QED
      BY <2>1, <3>1, <3>2, <3>3
  <2>6. OneVotePerTerm(C)
    BY <2>3, <2>5 DEF OneVotePerTerm, BallotsFit
  <2>7. BallotKept(v)'
    BY <1>1, <2>1, <2>3 DEF BallotKept
  <2>8. ReplyCast(C, p)'
    BY <1>1, <1>3, <1>4, <2>3 DEF ReplyCast, Cast
  <2>9. \A q \in replies' : q \in replies \/ ReplyCast(C, q)'
    BY <1>3, <2>8
  <2>10. \A w \in C : w \in B \/ BallotKept(w)'
    BY <2>7
  <2>11. B \subseteq C
    OBVIOUS
  <2>12. \A w \in C : w \in B \/ NewBallot(w)
    BY <2>1, <2>3 DEF NewBallot
  <2> HIDE DEF C
  <2>13. BallotsFit(C)'
    BY <1>2, <2>4, <2>6, <2>9, <2>10, <2>11, BallotsSteady
  <2> QED
    BY <2>11, <2>12, <2>13 DEF BallotsBecome
<1> QED
  BY <1>5, <1>6

\* With no late replies, a vote is counted in the term it was asked in.
LEMMA BallotsCounted ==
    ASSUME Prompt, LocalInv, TypeOK', NEW r \in replies,
           HandleRequestVoteResponse(r), NEW B, BallotsFit(B)
    PROVE  BallotsBecome(B, B)
<1>1. CASE StepDown(r)
  <2>1. Steady /\ CountsNothing /\ replies' \subseteq replies
    BY <1>1, SteadyStepDown DEF StepDown
  <2> QED
    BY <2>1, BallotsQuiet
<1>2. CASE ~StepDown(r)
  <2>1. /\ r.from \in Server /\ r.to \in Server /\ r.to # r.from
        /\ UNCHANGED <<state, currentTerm, log>>
        /\ replies' = replies \ {r}
        /\ \A n, m \in Server :
              \/ votedFor'[n][m] = votedFor[n][m]
              \/ /\ n = r.from /\ m = r.to /\ counts(r)
                 /\ r.rspTerm <= currentTerm[r.from]
    BY <1>2, CountEffect
  <2>2. /\ r.kind = "vote" /\ r.rspTerm \in Nat /\ currentTerm[r.from] \in Nat
        /\ currentTerm[r.from] = r.term \/ r.rspTerm > currentTerm[r.from]
    BY <2>1, ReplyFields, ServerTypes
       DEF LocalInv, OrderInv, HandleRequestVoteResponse, Timely, Prompt
  <2>3. ReplyCast(B, r)
    BY DEF BallotsFit
  <2>4. \A n \in Server : KeepsVote(n)
    BY <2>1, ServerTypes DEF KeepsVote
  <2>5. \A v \in B : BallotKept(v)'
    BY <2>4, BallotStays DEF BallotsFit
  <2>6. \A p \in replies' : ReplyCast(B, p)'
    BY <2>1 DEF BallotsFit, ReplyCast, Cast
  <2>7. ASSUME NEW n \in Server PROVE CountCast(B, n)'
    <3> SUFFICES ASSUME state[n] = "candidate", NEW m \in Server,
                        votedFor'[n][m] = n
                 PROVE  Cast(B, m, currentTerm[n], n, log[n])
      BY <2>1 DEF CountCast, Cast
    <3>1. CASE votedFor[n][m] = n
      BY <3>1 DEF BallotsFit, CountCast
    <3>2. CASE votedFor[n][m] # n
      <4>1. /\ n = r.from /\ m = r.to /\ r.success
            /\ currentTerm[n] = r.term
        BY <2>1, <2>2, <3>2 DEF counts
      <4> QED
        BY <2>2, <2>3, <4>1 DEF ReplyCast
    <3> QED
      BY <3>1, <3>2
  <2>8. \A n \in Server : LeaderCast(B, n)'
    BY <2>1 DEF BallotsFit, LeaderCast, Elected, Cast, Majority
  <2>9. BallotsFit(B)'
    BY <2>5, <2>6, <2>7, <2>8 DEF BallotsFit, OneVotePerTerm
  <2> QED
    BY <2>9 DEF BallotsBecome
<1> QED
  BY <1>1, <1>2

\* becomeLeader(): the votes counted were cast, and are a majority's.
LEMMA ElectedByQuorum ==
    ASSUME Prompt, LocalInv, NEW s \in Server, becomeLeader(s), NEW B,
           BallotsFit(B)
    PROVE  Elected(B, s, currentTerm[s], log[s])
<1> DEFINE Q == {m \in cluster[s] : votedFor[s][m] = s}
<1>1. Q \in SUBSET Server
  BY FixedMembers
<1>2. Majority(Q)
  BY <1>1, QuorumIsMajority DEF becomeLeader, hasQuorum
<1>3. state[s] = "candidate"
  BY LeaderWasCandidate
<1>4. \A m \in Q : Cast(B, m, currentTerm[s], s, log[s])
  BY <1>1, <1>3 DEF BallotsFit, CountCast
<1> QED
  BY <1>1, <1>2, <1>4 DEF Elected

\* A new leader needs no new ballot.
LEMMA BallotsElect ==
    ASSUME Prompt, LocalInv, TypeOK', NEW s \in Server, becomeLeader(s), NEW B,
           BallotsFit(B)
    PROVE  BallotsBecome(B, B)
<1>0. TypeOK
  BY DEF LocalInv, OrderInv
<1>1. /\ state' = [state EXCEPT ![s] = "leader"]
      /\ log' = [log EXCEPT ![s] = Append(@, Noop(currentTerm[s]))]
      /\ LastTerm(log'[s]) = currentTerm[s]
      /\ UNCHANGED <<currentTerm, votedFor, replies>>
  BY BecomeLeaderEffect
<1>2. /\ state'[s] = "leader"
      /\ \A n \in Server : n # s => state'[n] = state[n] /\ log'[n] = log[n]
  BY <1>0, <1>1 DEF TypeOK, NodeTypeOK, LogTypeOK
<1>3. ASSUME NEW n \in Server PROVE KeepsVote(n)
  BY <1>1, <1>2, ServerTypes DEF KeepsVote
<1>4. \A v \in B : BallotKept(v)'
  BY <1>3, BallotStays DEF BallotsFit
<1>5. \A p \in replies' : ReplyCast(B, p)'
  <2> SUFFICES ASSUME NEW p \in replies PROVE ReplyCast(B, p)'
    BY <1>1
  <2>1. ReplyCast(B, p) /\ p.from \in Server
    BY <1>0, ReplyFields DEF BallotsFit
  <2> QED
    BY <1>1, <1>2, <2>1 DEF ReplyCast, Cast
<1>6. \A n \in Server : CountCast(B, n)'
  BY <1>1, <1>2 DEF BallotsFit, CountCast, Cast
<1>7. ASSUME NEW n \in Server PROVE LeaderCast(B, n)'
  <2>1. LeaderCast(B, n) /\ log[s] \in Seq(Entry)
    BY ServerTypes DEF BallotsFit
  <2>2. state'[n] = "leader" =>
           \E lg \in Seq(Entry) : Elected(B, n, currentTerm'[n], lg)
    BY <1>1, <1>2, <2>1, ElectedByQuorum DEF LeaderCast
  <2> QED
    BY <2>2 DEF LeaderCast, Elected, Cast, Majority
<1>8. BallotsFit(B)'
  BY <1>4, <1>5, <1>6, <1>7 DEF BallotsFit, OneVotePerTerm
<1> QED
  BY <1>8 DEF BallotsBecome


-----------------------------------------------------------------------------
(* At most one leader per term *)

\* Init: no votes, no ballots.
LEMMA BallotsInit == Init => BallotsFit({})
<1> SUFFICES ASSUME Init PROVE BallotsFit({})
  OBVIOUS
<1>1. \A s \in Server : state[s] = "follower" /\ replies = {}
  BY DEF Init
<1> QED
  BY <1>1 DEF Init, BallotsFit, OneVotePerTerm, CountCast, LeaderCast

\* Every prompt step is explained by the ballots it found and those it casts.
LEMMA BallotsStep ==
    ASSUME Prompt, LocalInv, TypeOK', [Next]_vars, VotesRemembered,
           NEW B, BallotsFit(B)
    PROVE  \E C : BallotsBecome(B, C)
<1>1. ASSUME Steady, CountsNothing,
             \A p \in replies' : p \in replies \/ p.kind # "vote"
      PROVE  BallotsBecome(B, B)
  BY <1>1, BallotsQuiet
<1>2. ASSUME NEW g \in goroutines, BuildRequestVote(g) \/ BuildAppendEntries(g)
      PROVE  BallotsBecome(B, B)
  <2>1. replies' \subseteq replies
    BY <1>2, DieQuiet DEF BuildRequestVote, BuildAppendEntries, Panic
  <2> QED
    BY <1>1, <1>2, <2>1, SteadyBuild
<1>3. ASSUME NEW r \in requests, RefuseAppendEntries(r) \/ AcceptAppendEntries(r)
      PROVE  BallotsBecome(B, B)
  <2>1. \A p \in replies' : p \in replies \/ p.kind # "vote"
    BY <1>3 DEF RefuseAppendEntries, AcceptAppendEntries, ReceiveAppend
  <2> QED
    BY <1>1, <1>3, <2>1, SteadyRefuseAppendEntries, SteadyAcceptAppendEntries
<1>4. ASSUME NEW r \in replies, HandleAppendEntriesResponse(r)
      PROVE  BallotsBecome(B, B)
  <2>1. replies' \subseteq replies
    BY <1>4, DieQuiet DEF HandleAppendEntriesResponse, StepDown, Panic
  <2> QED
    BY <1>1, <1>4, <2>1, SteadyHandleAppendEntriesResponse
<1>5. ASSUME NEW s \in Server,
             \/ Stop(s) \/ Crash(s) \/ heartbeat(s) \/ LoopReadsState(s)
             \/ LeaveBranch(s) \/ advanceCommitIndex(s) \/ RPCError
             \/ UNCHANGED vars
      PROVE  BallotsBecome(B, B)
  <2>1. CASE advanceCommitIndex(s)
    <3>1. CASE Panic(s)
      BY <1>1, <3>1, <2>1, SteadyIdle, DieQuiet DEF Panic
    <3>2. CASE ~Panic(s)
      <4>1. UNCHANGED callVars
        BY <2>1, <3>2, Zenon DEF advanceCommitIndex
      <4> QED
        BY <1>1, <2>1, <4>1, SteadyIdle DEF callVars
    <3> QED
      BY <3>1, <3>2
  <2>2. CASE Crash(s)
    BY <1>1, <2>2, SteadyIdle, DieQuiet DEF Crash
  <2>3. CASE ~advanceCommitIndex(s) /\ ~Crash(s)
    <3>1. replies' \subseteq replies
      BY <1>5, <2>3 DEF Stop, heartbeat, LoopReadsState, LeaveBranch,
                        RPCError, vars, callVars
    <3> QED
      BY <1>1, <1>5, <3>1, SteadyIdle
  <2> QED
    BY <2>1, <2>2, <2>3
<1>6. ASSUME NEW s \in Server, Restart(s) PROVE BallotsBecome(B, B)
  <2>1. UNCHANGED replies
    BY <1>6 DEF Restart, callVars
  <2> QED
    BY <1>1, <1>6, <2>1, SteadyRestart
<1>7. ASSUME NEW s \in Server, NEW v \in Value, Apply(s, v)
      PROVE  BallotsBecome(B, B)
  <2>1. UNCHANGED replies
    BY <1>7 DEF Apply
  <2> QED
    BY <1>1, <1>7, <2>1, SteadyApply
<1>8. CASE CallStep
  <2>1. CASE RPCError
    <3>1. \E s \in Server : TRUE
      BY <2>1, RequestFields, ReplyFields DEF RPCError, LocalInv, OrderInv
    <3> QED
      BY <1>5, <2>1, <3>1
  <2> QED
    BY <1>2, <1>3, <1>4, <1>8, <2>1, BallotsGrant, BallotsCounted DEF CallStep
<1>9. ASSUME NEW s \in Server, ServerStep(s) \/ ClientStep(s) \/ FaultStep(s)
      PROVE  \E C : BallotsBecome(B, C)
  BY <1>5, <1>6, <1>7, <1>9, BallotsTimeout, BallotsElect, NobodyToAdd
     DEF ServerStep, ClientStep, FaultStep
<1>10. CASE UNCHANGED vars
  <2>1. UNCHANGED <<state, currentTerm, log, votedFor, replies>>
    BY <1>10 DEF vars, nodeVars, logVars, peerVars, callVars
  <2> QED
    BY <1>1, <2>1, SteadyFrame
<1> QED
  BY <1>8, <1>9, <1>10 DEF Next

\* The election invariant: some ballots explain the state.
ElectionInv == LocalInv /\ \E B : BallotsFit(B)

\* Init: followers nobody voted for.
LEMMA ElectionInit == Init => ElectionInv
  BY LocalInit, BallotsInit DEF ElectionInv

\* Every prompt step that forgets no vote keeps the election invariant.
LEMMA ElectionStep ==
    ASSUME Prompt, ElectionInv, [Next]_vars, VotesRemembered
    PROVE  ElectionInv'
<1>1. LocalInv' /\ TypeOK'
  BY LocalStep DEF ElectionInv, LocalInv, OrderInv
<1>2. PICK B : BallotsFit(B)
  BY DEF ElectionInv
<1>3. PICK C : BallotsBecome(B, C)
  BY <1>1, <1>2, BallotsStep DEF ElectionInv
<1>4. \E D : BallotsFit(D)'
  BY <1>3 DEF BallotsBecome
<1> QED
  BY <1>1, <1>4 DEF ElectionInv

\* Two servers elected in a term share a voter, who voted for one of them.
LEMMA OneElected ==
    ASSUME NEW B, OneVotePerTerm(B), NEW l, NEW k, NEW t, NEW lg, NEW kg,
           Elected(B, l, t, lg), Elected(B, k, t, kg)
    PROVE  l = k
<1>1. PICK Q : Majority(Q) /\ \A m \in Q : Cast(B, m, t, l, lg)
  BY DEF Elected
<1>2. PICK R : Majority(R) /\ \A m \in R : Cast(B, m, t, k, kg)
  BY DEF Elected
<1>3. PICK m \in Server : m \in Q /\ m \in R
  BY <1>1, <1>2, MajoritiesMeet
<1>4. Cast(B, m, t, l, lg) /\ Cast(B, m, t, k, kg)
  BY <1>1, <1>2, <1>3
<1> QED
  BY <1>4 DEF Cast, OneVotePerTerm

\* One leader per term follows from the ballots.
LEMMA ElectionSafe == ElectionInv => ElectionSafety
<1> SUFFICES ASSUME ElectionInv, NEW s \in Server, NEW t \in Server,
                    state[s] = "leader", state[t] = "leader",
                    currentTerm[s] = currentTerm[t]
             PROVE  s = t
  BY DEF ElectionSafety
<1>1. PICK B : BallotsFit(B)
  BY DEF ElectionInv
<1>2. LeaderCast(B, s) /\ LeaderCast(B, t) /\ OneVotePerTerm(B)
  BY <1>1 DEF BallotsFit
<1>3. PICK lg, kg : Elected(B, s, currentTerm[s], lg) /\ Elected(B, t, currentTerm[t], kg)
  BY <1>2 DEF LeaderCast
<1> QED
  BY <1>2, <1>3, OneElected

\* A vote that is counted was cast, and the voter keeps it.
LEMMA VotesReal == ElectionInv => VotesAreReal
<1> SUFFICES ASSUME ElectionInv, NEW s \in Server, NEW m \in cluster[s],
                    state[s] = "candidate", votedFor[s][m] = s,
                    currentTerm[m] = currentTerm[s]
             PROVE  votedFor[m][m] = s \/ LastTerm(log[m]) = currentTerm[m]
  BY DEF VotesAreReal
<1>1. PICK B : BallotsFit(B)
  BY DEF ElectionInv
<1>2. m \in Server
  BY ServerTypes DEF ElectionInv
<1>3. Cast(B, m, currentTerm[s], s, log[s])
  BY <1>1, <1>2 DEF BallotsFit, CountCast
<1> QED
  BY <1>1, <1>3 DEF Cast, BallotsFit, BallotKept

\* A restart is no stuttering.
LEMMA RemembersOrStutters ==
    ASSUME LocalInv, [VotesRemembered]_vars
    PROVE  VotesRemembered
<1> SUFFICES ASSUME UNCHANGED vars, NEW s \in Server, Restart(s) PROVE FALSE
  BY DEF VotesRemembered
<1>1. proc'[s] = "running" /\ ~Alive(s)
  BY DEF Restart, LocalInv, OrderInv, TypeOK, NodeTypeOK
<1> QED
  BY <1>1 DEF vars, nodeVars, Alive

\* The election invariant holds in every state prompt schedules reach.
LEMMA ElectionAlways ==
    ASSUME Prompt
    PROVE  Spec /\ [][VotesRemembered]_vars => []ElectionInv
<1>1. Init => ElectionInv
  BY ElectionInit
<1>2. ElectionInv /\ [Next]_vars /\ [VotesRemembered]_vars => ElectionInv'
  <2> SUFFICES ASSUME ElectionInv, [Next]_vars, [VotesRemembered]_vars
               PROVE  ElectionInv'
    OBVIOUS
  <2>1. VotesRemembered
    BY RemembersOrStutters DEF ElectionInv
  <2> QED
    BY <2>1, ElectionStep
<1> QED
  BY <1>1, <1>2, PTL DEF Spec

\* Of servers that are prompt and remember their votes, at most one that is
\* alive leads a term, after any number of lost calls, crashes and restarts.
THEOREM ElectionSafetyCorrect ==
    ASSUME Prompt
    PROVE  Spec /\ [][VotesRemembered]_vars => []ElectionSafety
  BY ElectionAlways, ElectionSafe, PTL

\* A vote requestVote() counts is one its voter gave in this term.
THEOREM VotesAreRealCorrect ==
    ASSUME Prompt
    PROVE  Spec /\ [][VotesRemembered]_vars => []VotesAreReal
  BY ElectionAlways, VotesReal, PTL


-----------------------------------------------------------------------------
(* A term is led once *)

\* Whoever stands in a term has entered it by its own timeout.
LEMMA StandsStep ==
    ASSUME Prompt, LocalInv, [Next]_vars, VotesRemembered
    PROVE  StandsInNewTerms
<1>1. ASSUME Steady PROVE StandsInNewTerms
  BY <1>1, SteadyStands
<1>2. ASSUME UNCHANGED <<state, currentTerm, log>> PROVE StandsInNewTerms
  BY <1>2, ServerTypes DEF StandsInNewTerms
<1>3. CASE CallStep
  <2>1. CASE RPCError
    BY <1>2, <2>1 DEF RPCError, nodeVars, logVars
  <2>2. ASSUME NEW r \in replies, HandleRequestVoteResponse(r)
        PROVE  StandsInNewTerms
    <3>1. CASE StepDown(r)
      BY <1>1, <3>1, SteadyStepDown
    <3>2. CASE ~StepDown(r)
      BY <1>2, <2>2, <3>2, CountEffect
    <3> QED
      BY <3>1, <3>2
  <2> QED
    BY <1>1, <1>3, <2>1, <2>2, SteadyBuild, SteadyHandleRequestVoteRequest,
       SteadyRefuseAppendEntries, SteadyAcceptAppendEntries,
       SteadyHandleAppendEntriesResponse DEF CallStep
<1>4. ASSUME NEW s \in Server, Timeout(s) PROVE StandsInNewTerms
  BY <1>4, TimeoutEffect, ServerTypes DEF StandsInNewTerms
<1>5. ASSUME NEW s \in Server, becomeLeader(s) PROVE StandsInNewTerms
  <2>1. /\ state' = [state EXCEPT ![s] = "leader"] /\ UNCHANGED currentTerm
        /\ log' = [log EXCEPT ![s] = Append(@, Noop(currentTerm[s]))]
    BY <1>5, BecomeLeaderEffect
  <2>2. /\ state \in [Server -> {"follower", "candidate", "leader"}]
        /\ log \in [Server -> Seq(Entry)]
    BY DEF LocalInv, OrderInv, TypeOK, NodeTypeOK, LogTypeOK
  <2>3. \A n \in Server : currentTerm'[n] >= currentTerm[n]
    BY <2>1, ServerTypes
  <2> QED
    BY <2>1, <2>2, <2>3 DEF StandsInNewTerms
<1>6. ASSUME NEW s \in Server, ServerStep(s) \/ ClientStep(s) \/ FaultStep(s)
      PROVE  StandsInNewTerms
  BY <1>1, <1>4, <1>5, <1>6, SteadyIdle, SteadyApply, SteadyRestart, NobodyToAdd
     DEF ServerStep, ClientStep, FaultStep
<1>7. CASE UNCHANGED vars
  BY <1>2, <1>7 DEF vars, nodeVars, logVars
<1> QED
  BY <1>3, <1>6, <1>7 DEF Next

\* The inductive invariant: behind the entries of a term there is a server
\* that a majority voted for, and that does not stand in the term any more.
LedBy(B, t) ==
    \E l \in Server, lg \in Seq(Entry) :
        /\ Elected(B, l, t, lg)
        /\ currentTerm[l] >= t
        /\ state[l] = "candidate" => currentTerm[l] # t

TermsLed(B) == \A t : EntryOf(t) => LedBy(B, t)

LedInv == LocalInv /\ \E B : BallotsFit(B) /\ TermsLed(B)

\* A leader was elected before its first entry, and its term has no candidate
\* of its name left.
LEMMA LedStep ==
    ASSUME Prompt, LocalInv, TypeOK', [Next]_vars, VotesRemembered,
           NEW B, NEW C, BallotsFit(B), TermsLed(B), BallotsBecome(B, C)
    PROVE  TermsLed(C)'
<1>1. StandsInNewTerms /\ TypeOK /\ B \subseteq C
  BY StandsStep DEF LocalInv, OrderInv, BallotsBecome
<1> SUFFICES ASSUME NEW t, EntryOf(t)'
             PROVE  \E l \in Server, lg \in Seq(Entry) :
                       /\ Elected(C, l, t, lg)
                       /\ currentTerm'[l] >= t
                       /\ state'[l] = "candidate" => currentTerm'[l] # t
  BY DEF TermsLed, LedBy, Elected, Cast, Majority
<1>2. CASE EntryOf(t)
  <2>1. PICK l \in Server, lg \in Seq(Entry) :
           /\ Elected(B, l, t, lg)
           /\ currentTerm[l] >= t
           /\ state[l] = "candidate" => currentTerm[l] # t
    BY <1>2 DEF TermsLed, LedBy
  <2>2. Elected(C, l, t, lg)
    BY <1>1, <2>1, ElectedStays
  <2>3. currentTerm[l] \in Nat /\ currentTerm'[l] \in Nat /\ t \in Nat
    <3>1. \E v \in B : v.term = t
      <4>1. PICK Q \in SUBSET Server : Majority(Q) /\ \A m \in Q : Cast(B, m, t, l, lg)
        BY <2>1 DEF Elected
      <4>2. PICK m \in Server : m \in Q
        BY <4>1, MajoritiesMeet
      <4> QED
        BY <4>1, <4>2 DEF Cast
    <3> QED
      BY <1>1, <3>1 DEF TypeOK, NodeTypeOK, BallotsFit, Ballot
  <2>4. currentTerm'[l] >= t /\ (state'[l] = "candidate" => currentTerm'[l] # t)
    BY <1>1, <2>1, <2>3 DEF StandsInNewTerms
  <2> QED
    BY <2>2, <2>4
<1>3. CASE ~EntryOf(t)
  <2>0. PICK s \in Server : \E e : Appends(s, e) /\ e.term = t
    BY <1>1, <1>3, EntryStep
  <2>1. PICK e : Appends(s, e) /\ e.term = t
    BY <2>0
  <2>2. /\ t = currentTerm[s] /\ currentTerm'[s] = t /\ t \in Nat
        /\ state'[s] = "leader"
    BY <1>1, <2>1 DEF Appends, TypeOK, NodeTypeOK
  <2>3. \E lg \in Seq(Entry) : Elected(B, s, t, lg)
    <3>1. CASE state[s] = "leader"
      BY <2>2, <3>1 DEF BallotsFit, LeaderCast
    <3>2. CASE becomeLeader(s)
      BY <2>2, <3>2, ElectedByQuorum, ServerTypes
    <3> QED
      BY <2>1, <3>1, <3>2 DEF Appends
  <2>4. PICK lg \in Seq(Entry) : Elected(C, s, t, lg)
    BY <1>1, <2>3, ElectedStays
  <2> QED
    BY <2>2, <2>4
<1> QED
  BY <1>2, <1>3

\* A candidate with a quorum shares a voter with the term's leader, if it has
\* had one, and is not that leader.
LEMMA LedOnce ==
    ASSUME Prompt, LedInv, NEW s \in Server, becomeLeader(s)
    PROVE  ~EntryOf(currentTerm[s])
<1> SUFFICES ASSUME EntryOf(currentTerm[s]) PROVE FALSE
  OBVIOUS
<1>1. PICK B : BallotsFit(B) /\ TermsLed(B)
  BY DEF LedInv
<1>2. PICK l \in Server, lg \in Seq(Entry) :
         /\ Elected(B, l, currentTerm[s], lg)
         /\ state[l] = "candidate" => currentTerm[l] # currentTerm[s]
  BY <1>1 DEF TermsLed, LedBy
<1>3. Elected(B, s, currentTerm[s], log[s])
  BY <1>1, ElectedByQuorum DEF LedInv
<1>4. l = s
  BY <1>1, <1>2, <1>3, OneElected DEF BallotsFit
<1> QED
  BY <1>2, <1>4, LeaderWasCandidate

\* No term is led twice, not even after a leader whose entries nobody has
\* answered for: a server that stands in a term and gets a quorum finds no
\* entry of the term in any log or request.
THEOREM TermsLedOnceCorrect ==
    ASSUME Prompt
    PROVE  Spec /\ [][VotesRemembered]_vars => TermsLedOnce
<1> DEFINE Once == \A s \in Server : becomeLeader(s) => ~EntryOf(currentTerm[s])
<1>1. Init => LedInv
  <2> SUFFICES ASSUME Init PROVE LedInv
    OBVIOUS
  <2>1. \A t : ~EntryOf(t)
    BY EmptySeq DEF Init, EntryOf
  <2> QED
    BY <2>1, LocalInit, BallotsInit DEF LedInv, TermsLed
<1>2. LedInv /\ [Next]_vars /\ [VotesRemembered]_vars => LedInv'
  <2> SUFFICES ASSUME LedInv, [Next]_vars, [VotesRemembered]_vars
               PROVE  LedInv'
    OBVIOUS
  <2>1. VotesRemembered
    BY RemembersOrStutters DEF LedInv
  <2>2. LocalInv' /\ TypeOK'
    BY <2>1, LocalStep DEF LedInv, LocalInv, OrderInv
  <2>3. PICK B : BallotsFit(B) /\ TermsLed(B)
    BY DEF LedInv
  <2>4. PICK C : BallotsBecome(B, C)
    BY <2>1, <2>2, <2>3, BallotsStep DEF LedInv
  <2>5. TermsLed(C)'
    BY <2>1, <2>2, <2>3, <2>4, LedStep DEF LedInv
  <2>6. \E D : BallotsFit(D)' /\ TermsLed(D)'
    BY <2>4, <2>5 DEF BallotsBecome
  <2> QED
    BY <2>2, <2>6 DEF LedInv
<1>3. LedInv => Once
  BY LedOnce
<1> QED
  BY <1>1, <1>2, <1>3, PTL DEF Spec, TermsLedOnce


=============================================================================
