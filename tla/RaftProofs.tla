----------------------------- MODULE RaftProofs -----------------------------
(***************************************************************************)
(* What holds of every navi cluster, whatever the scheduler delays, the     *)
(* network loses and the servers forget: the types of the state, the order  *)
(* of the terms in every log, that the members a log names are in force,    *)
(* and that a leader changes the membership one member at a time.           *)
(*                                                                         *)
(* Then, of clusters with any memberships in which becomeLeader runs once   *)
(* per term (TermsLedOnce): logs match, and each server's membership is the *)
(* one its log describes.  The invariant (PlacesInv) is about places: an    *)
(* index and a term stand for one entry and one term before it, in the logs *)
(* and in the requests on their way.                                       *)
(***************************************************************************)
EXTENDS Raft, TLAPS, SequenceTheorems, FiniteSetTheorems, WellFoundedInduction

-----------------------------------------------------------------------------
(* Lemmas about the operators of Raft *)

\* A member that a config entry names has a first entry that names it.
LEMMA FirstNamingIsIndex ==
    ASSUME NEW lg \in Seq(Entry), NEW m \in MembersIn(lg)
    PROVE  FirstNaming(lg, m) \in 1..Len(lg)
<1> DEFINE T == {i \in 1..Len(lg) : m \in lg[i].members}
<1>1. T \subseteq Nat /\ T # {}
  BY LenProperties DEF MembersIn
<1>2. PICK i \in T : \A j \in T : ~(<<j, i>> \in OpToRel(<, Nat))
  BY <1>1, NatLessThanWellFounded, WFMin
<1>3. \A j \in T : i <= j
  <2> SUFFICES ASSUME NEW j \in T, j < i PROVE FALSE
    BY <1>1
  <2>1. <<j, i>> \in OpToRel(<, Nat)
    BY <1>1 DEF OpToRel
  <2> QED
    BY <2>1, <1>2
<1> QED
  BY <1>3 DEF FirstNaming

\* Going back one index, in uint64, gives an index.
LEMMA BackOffIsIndex ==
    ASSUME NEW n \in Nat
    PROVE  BackOff(n) \in Nat
  BY BoundAssumption DEF BackOff

\* The members config entries name are servers.
LEMMA MembersAreServers ==
    ASSUME NEW lg \in Seq(Entry)
    PROVE  MembersIn(lg) \subseteq Server
<1>1. \A i \in 1..Len(lg) : lg[i] \in Entry
  BY ElementOfSeq
<1>2. \A i \in 1..Len(lg) : lg[i].members \subseteq Server
  BY <1>1 DEF Entry
<1> QED
  BY <1>2 DEF MembersIn

\* The membership a log describes names servers only.
LEMMA ClusterAreServers ==
    ASSUME NEW s \in Server, NEW lg \in Seq(Entry)
    PROVE  ClusterOf(s, lg) \subseteq Server
  BY MembersAreServers, ServerAssumption DEF ClusterOf, baseCluster

\* Updating one server's view of one member, or of all of them.
LEMMA ViewUpdate ==
    ASSUME NEW T, NEW f \in [Server -> [Server -> T]], NEW s \in Server
    PROVE  /\ \A m \in Server, x \in T :
                 [f EXCEPT ![s][m] = x] \in [Server -> [Server -> T]]
           /\ \A g \in [Server -> T] :
                 [f EXCEPT ![s] = g] \in [Server -> [Server -> T]]
<1>1. \A m \in Server, x \in T : [f[s] EXCEPT ![m] = x] \in [Server -> T]
  OBVIOUS
<1> QED
  BY <1>1

\* The member a goroutine finds in its slot of s.cluster is a server.
LEMMA SlotType ==
    ASSUME TypeOK, NEW c, c.from \in Server, NEW m \in SlotOf(c)
    PROVE  m \in Server
  BY DEF SlotOf, InPlace, TypeOK, PeerTypeOK

\* A log has a term at each of its positions, and at 0.
LEMMA TermAtType ==
    ASSUME NEW lg \in Seq(Entry), NEW i \in 0..Len(lg)
    PROVE  TermAt(lg, i) \in Nat
<1>1. CASE i = 0
  BY <1>1 DEF TermAt
<1>2. CASE i # 0
  <2>1. lg[i] \in Entry
    BY <1>2, ElementOfSeq
  <2> QED
    BY <2>1, <1>2 DEF TermAt, Entry
<1> QED
  BY <1>1, <1>2

\* The members of a log are those of its parts.
LEMMA MembersOfConcat ==
    ASSUME NEW l1 \in Seq(Entry), NEW l2 \in Seq(Entry)
    PROVE  MembersIn(l1 \o l2) \subseteq MembersIn(l1) \cup MembersIn(l2)
<1> SUFFICES ASSUME NEW i \in 1..Len(l1 \o l2)
             PROVE  \/ \E j \in 1..Len(l1) : (l1 \o l2)[i] = l1[j]
                    \/ \E j \in 1..Len(l2) : (l1 \o l2)[i] = l2[j]
  BY DEF MembersIn
<1>1. CASE i <= Len(l1)
  BY <1>1, ConcatProperties, LenProperties
<1>2. CASE i > Len(l1)
  BY <1>2, ConcatProperties, LenProperties
<1> QED
  BY <1>1, <1>2, ConcatProperties, LenProperties

\* Cutting a log names no new member.
LEMMA MembersOfSubSeq ==
    ASSUME NEW lg \in Seq(Entry), NEW m \in Nat \ {0}, NEW n \in 0..Len(lg)
    PROVE  /\ SubSeq(lg, m, n) \in Seq(Entry)
           /\ Len(SubSeq(lg, m, n)) = IF m <= n THEN n - m + 1 ELSE 0
           /\ \A i \in 1..(n - m + 1) : SubSeq(lg, m, n)[i] = lg[m + i - 1]
           /\ MembersIn(SubSeq(lg, m, n)) \subseteq MembersIn(lg)
<1>1. \A i \in m..n : lg[i] \in Entry
  BY ElementOfSeq, LenProperties
<1>2. /\ SubSeq(lg, m, n) \in Seq(Entry)
      /\ Len(SubSeq(lg, m, n)) = IF m <= n THEN n - m + 1 ELSE 0
      /\ \A i \in 1..(n - m + 1) : SubSeq(lg, m, n)[i] = lg[m + i - 1]
  BY <1>1, SubSeqProperties, LenProperties
<1>3. \A i \in 1..Len(SubSeq(lg, m, n)) :
          \E j \in 1..Len(lg) : SubSeq(lg, m, n)[i] = lg[j]
  <2> SUFFICES ASSUME NEW i \in 1..Len(SubSeq(lg, m, n))
               PROVE  m + i - 1 \in 1..Len(lg) /\ i \in 1..(n - m + 1)
    BY <1>2
  <2> QED
    BY <1>2, LenProperties
<1> QED
  BY <1>2, <1>3 DEF MembersIn

-----------------------------------------------------------------------------
(* Types *)

\* Spawning RPCs, and dying, keep the calls under way well formed.
LEMMA SpawnType ==
    ASSUME goroutines \subseteq Goroutine, NEW s \in Server,
           NEW kind \in {"vote", "append"}, NEW members \in SUBSET Server,
           Spawn(s, kind, members)
    PROVE  goroutines' \subseteq Goroutine
<1>1. PICK reached \in SUBSET (members \ {s}) :
         \E id \in Injection(reached, FreeCalls) :
            goroutines' = goroutines \cup
                {[call |-> id[m], kind |-> kind, from |-> s, to |-> m] :
                     m \in reached}
  BY DEF Spawn
<1>2. PICK id \in Injection(reached, FreeCalls) :
            goroutines' = goroutines \cup
                {[call |-> id[m], kind |-> kind, from |-> s, to |-> m] :
                     m \in reached}
  BY <1>1
<1>3. id \in [reached -> Call]
  BY DEF Injection, FreeCalls
<1>4. \A m \in reached :
         [call |-> id[m], kind |-> kind, from |-> s, to |-> m] \in Goroutine
  BY <1>3 DEF Goroutine
<1> QED
  BY <1>2, <1>4

\* The request of a dead server is the same request.
LEMMA OrphanType ==
    ASSUME NEW r \in VoteRequest \cup AppendRequest
    PROVE  /\ [r EXCEPT !.orphan = TRUE] \in VoteRequest \cup AppendRequest
           /\ [r EXCEPT !.orphan = TRUE].kind = r.kind
           /\ r.kind = "append" =>
                LET q == [r EXCEPT !.orphan = TRUE] IN
                /\ q.term = r.term /\ q.entries = r.entries
                /\ q.prevLogTerm = r.prevLogTerm
  BY DEF VoteRequest, AppendRequest

\* A process that dies leaves well-typed state: Die only drops goroutines and
\* replies and orphans requests.
LEMMA DieType ==
    ASSUME TypeOK, NEW s \in Server, NEW how \in {"down", "panicked"},
           Die(s, how), faults' \in Nat
    PROVE  TypeOK'
<1>1. NodeTypeOK'
  BY DEF TypeOK, NodeTypeOK, Die
<1>2. LogTypeOK' /\ PeerTypeOK'
  BY DEF TypeOK, LogTypeOK, PeerTypeOK, Die, logVars, peerVars
<1>3. requests' \subseteq VoteRequest \cup AppendRequest
  <2> SUFFICES ASSUME NEW r \in requests
               PROVE  /\ r \in VoteRequest \cup AppendRequest
                      /\ [r EXCEPT !.orphan = TRUE]
                            \in VoteRequest \cup AppendRequest
    BY DEF Die
  <2> QED
    BY OrphanType DEF TypeOK, CallTypeOK
<1>4. CallTypeOK'
  BY <1>3 DEF TypeOK, CallTypeOK, Die
<1> QED
  BY <1>1, <1>2, <1>4 DEF TypeOK

\* What the two kinds of request and of reply carry.
LEMMA RequestFields ==
    ASSUME TypeOK, NEW r \in requests
    PROVE  /\ r.call \in Call /\ r.from \in Server /\ r.to \in Server
           /\ r.term \in Nat
           /\ r.kind = "append" =>
                /\ r.prevLogIndex \in Nat /\ r.prevLogTerm \in Nat
                /\ r.entries \in Seq(Entry) /\ r.leaderCommit \in Nat
  BY DEF TypeOK, CallTypeOK, VoteRequest, AppendRequest

\* A response answers a call between two servers, in terms.
LEMMA ReplyFields ==
    ASSUME TypeOK, NEW r \in replies
    PROVE  /\ r.call \in Call /\ r.from \in Server /\ r.to \in Server
           /\ r.term \in Nat /\ r.rspTerm \in Nat /\ r.success \in BOOLEAN
           /\ r.kind = "append" => r.match \in Nat
  BY DEF TypeOK, CallTypeOK, VoteReply, AppendReply

\* updateTerm leaves a term, a role, votes and a pending index.
LEMMA UpdateTermType ==
    ASSUME TypeOK, NEW s \in Server, NEW t \in Nat, updateTerm(s, t)
    PROVE  /\ currentTerm' \in [Server -> Nat]
           /\ pendingConfig' \in [Server -> Nat]
           /\ TermAfter(s, t) \in Nat
           /\ RoleAfter(s, t) \in {"follower", "candidate", "leader"}
           /\ VotesAfter(s, t) \in [Server -> Server \cup {0}]
           /\ currentTerm'[s] = TermAfter(s, t)
           /\ TermAfter(s, t) >= t
           /\ \A n \in Server : currentTerm'[n] >= currentTerm[n]
  BY DEF TypeOK, NodeTypeOK, PeerTypeOK, updateTerm, TermAfter, PendingAfter,
         RoleAfter, VotesAfter

-----------------------------------------------------------------------------
(* One lemma per action: types *)

\* NewServer and Start give every field its type.
LEMMA InitType == Init => TypeOK
<1> SUFFICES ASSUME Init PROVE TypeOK
  OBVIOUS
<1>1. NodeTypeOK
  BY DEF Init, NodeTypeOK
<1>2. LogTypeOK
  BY EmptySeq DEF Init, LogTypeOK
<1>3. PeerTypeOK
  BY ServerAssumption DEF Init, PeerTypeOK, baseCluster
<1>4. CallTypeOK
  BY DEF Init, CallTypeOK
<1> QED
  BY <1>1, <1>2, <1>3, <1>4 DEF TypeOK

\* Stop() keeps the types.
LEMMA StopType ==
    ASSUME TypeOK, NEW s \in Server, Stop(s)
    PROVE  TypeOK'
<1>1. NodeTypeOK' /\ LogTypeOK' /\ PeerTypeOK'
  BY DEF TypeOK, NodeTypeOK, LogTypeOK, PeerTypeOK, Stop, logVars, peerVars
<1>2. CallTypeOK'
  BY DEF TypeOK, CallTypeOK, Stop, callVars
<1> QED
  BY <1>1, <1>2 DEF TypeOK

\* A crash keeps the types.
LEMMA CrashType ==
    ASSUME TypeOK, NEW s \in Server, Crash(s)
    PROVE  TypeOK'
  BY DieType DEF Crash, TypeOK, CallTypeOK

\* A panic keeps the types.
LEMMA PanicType ==
    ASSUME TypeOK, NEW s \in Server, Panic(s)
    PROVE  TypeOK'
  BY DieType DEF Panic, TypeOK, CallTypeOK

\* rebuildClusterFromLog gives every member a nextIndex.
LEMMA RebuiltNextType ==
    ASSUME NEW s \in Server, NEW lg \in Seq(Entry)
    PROVE  RebuiltNext(s, lg) \in [Server -> Nat]
<1>1. \A m \in MembersIn(lg) : FirstNaming(lg, m) + 1 \in Nat
  BY FirstNamingIsIndex, LenProperties
<1> QED
  BY <1>1 DEF RebuiltNext

\* restore() and rebuildClusterFromLog give every field its type again.
LEMMA RestartType ==
    ASSUME TypeOK, NEW s \in Server, Restart(s)
    PROVE  TypeOK'
<1>0. log[s] \in Seq(Entry)
  BY DEF TypeOK, LogTypeOK
<1>1. NodeTypeOK'
  BY DEF TypeOK, NodeTypeOK, Restart
<1>2. LogTypeOK'
  BY EmptySeq DEF TypeOK, LogTypeOK, Restart
<1>3. PeerTypeOK'
  <2>1. ClusterOf(s, log[s]) \in SUBSET Server
    BY <1>0, ClusterAreServers
  <2>2. RebuiltNext(s, log[s]) \in [Server -> Nat]
    BY <1>0, RebuiltNextType
  <2>3. NoVotes \in [Server -> Server \cup {0}]
    BY DEF NoVotes
  <2> QED
    BY <2>1, <2>2, <2>3 DEF TypeOK, PeerTypeOK, Restart
<1>4. CallTypeOK'
  BY DEF TypeOK, CallTypeOK, Restart, callVars
<1> QED
  BY <1>1, <1>2, <1>3, <1>4 DEF TypeOK

\* timeout() keeps the types.
LEMMA TimeoutType ==
    ASSUME TypeOK, NEW s \in Server, Timeout(s)
    PROVE  TypeOK'
<1>1. NodeTypeOK'
  BY DEF TypeOK, NodeTypeOK, Timeout
<1>2. LogTypeOK'
  BY DEF TypeOK, LogTypeOK, Timeout, logVars
<1>3. PeerTypeOK'
  BY DEF TypeOK, PeerTypeOK, Timeout
<1>4. CallTypeOK'
  <2>1. Spawn(s, "vote", cluster[s]) /\ cluster[s] \in SUBSET Server
    BY DEF Timeout, TypeOK, PeerTypeOK
  <2>2. goroutines' \subseteq Goroutine
    BY <2>1, SpawnType DEF TypeOK, CallTypeOK
  <2> QED
    BY <2>2 DEF TypeOK, CallTypeOK, Timeout
<1> QED
  BY <1>1, <1>2, <1>3, <1>4 DEF TypeOK

\* Entering and leaving a branch of the loop keeps the types.
LEMMA BranchType ==
    ASSUME TypeOK, NEW s \in Server, LoopReadsState(s) \/ LeaveBranch(s)
    PROVE  TypeOK'
<1>0. branch' \in [Server -> {"none", "candidate", "leader"}]
  <2>1. state[s] # "follower" => state[s] \in {"candidate", "leader"}
    BY DEF TypeOK, NodeTypeOK
  <2>2. \E b \in {"none", "candidate", "leader"} : branch' = [branch EXCEPT ![s] = b]
    BY <2>1 DEF LoopReadsState, LeaveBranch
  <2> QED
    BY <2>2 DEF TypeOK, NodeTypeOK
<1>1. NodeTypeOK' /\ LogTypeOK' /\ PeerTypeOK'
  BY <1>0 DEF TypeOK, NodeTypeOK, LogTypeOK, PeerTypeOK, LoopReadsState,
         LeaveBranch, logVars, peerVars
<1>2. CallTypeOK'
  BY DEF TypeOK, CallTypeOK, LoopReadsState, LeaveBranch, callVars
<1> QED
  BY <1>1, <1>2 DEF TypeOK

\* requestVote builds a well-typed request.
LEMMA BuildRequestVoteType ==
    ASSUME TypeOK, NEW g \in goroutines, BuildRequestVote(g)
    PROVE  TypeOK'
<1>0. g.from \in Server /\ g.call \in Call
  BY DEF TypeOK, CallTypeOK, Goroutine
<1>1. CASE Panic(g.from)
  BY <1>0, <1>1, PanicType
<1>2. CASE ~Panic(g.from)
  <2>1. NodeTypeOK' /\ LogTypeOK' /\ PeerTypeOK'
    BY <1>2 DEF TypeOK, NodeTypeOK, LogTypeOK, PeerTypeOK, BuildRequestVote,
                nodeVars, logVars, peerVars
  <2>2. PICK m \in SlotOf(g) :
           requests' = requests \cup
             {[call |-> g.call, kind |-> "vote", from |-> g.from, to |-> m,
               term |-> currentTerm[g.from],
               lastLogIndex |-> Len(log[g.from]),
               lastLogTerm |-> LastTerm(log[g.from]), orphan |-> FALSE]}
    BY <1>2 DEF BuildRequestVote
  <2>3. m \in Server
    BY <1>0, SlotType
  <2>4. log[g.from] \in Seq(Entry) /\ currentTerm[g.from] \in Nat
    BY <1>0 DEF TypeOK, NodeTypeOK, LogTypeOK
  <2>5. Len(log[g.from]) \in Nat /\ LastTerm(log[g.from]) \in Nat
    BY <2>4, TermAtType, LenProperties DEF LastTerm
  <2>6. requests' \subseteq VoteRequest \cup AppendRequest
    <3> DEFINE q == [call |-> g.call, kind |-> "vote", from |-> g.from,
                     to |-> m, term |-> currentTerm[g.from],
                     lastLogIndex |-> Len(log[g.from]),
                     lastLogTerm |-> LastTerm(log[g.from]), orphan |-> FALSE]
    <3>1. q \in VoteRequest
      BY <1>0, <2>3, <2>4, <2>5 DEF VoteRequest
    <3> QED
      BY <2>2, <3>1 DEF TypeOK, CallTypeOK
  <2>7. CallTypeOK'
    BY <1>2, <2>6 DEF TypeOK, CallTypeOK, BuildRequestVote
  <2> QED
    BY <2>1, <2>7 DEF TypeOK
<1> QED
  BY <1>1, <1>2

\* HandleRequestVoteRequest keeps the types and gives a well-typed response.
LEMMA HandleRequestVoteRequestType ==
    ASSUME TypeOK, NEW r \in requests, HandleRequestVoteRequest(r)
    PROVE  TypeOK'
<1>0. /\ r.call \in Call /\ r.from \in Server /\ r.to \in Server
      /\ r.term \in Nat
  BY RequestFields
<1> DEFINE s == r.to
<1>1. updateTerm(s, r.term)
  BY DEF HandleRequestVoteRequest
<1>2. /\ currentTerm' \in [Server -> Nat]
      /\ pendingConfig' \in [Server -> Nat]
      /\ TermAfter(s, r.term) \in Nat
      /\ RoleAfter(s, r.term) \in {"follower", "candidate", "leader"}
      /\ VotesAfter(s, r.term) \in [Server -> Server \cup {0}]
  BY <1>0, <1>1, UpdateTermType
<1>3. NodeTypeOK'
  BY <1>0, <1>2 DEF TypeOK, NodeTypeOK, HandleRequestVoteRequest
<1>4. LogTypeOK'
  BY DEF TypeOK, LogTypeOK, HandleRequestVoteRequest, logVars
<1>5. PeerTypeOK'
  BY <1>0, <1>2 DEF TypeOK, PeerTypeOK, HandleRequestVoteRequest
<1>6. CallTypeOK'
  <2> DEFINE reply ==
         [call |-> r.call, kind |-> "vote", from |-> r.from, to |-> s,
          term |-> r.term, rspTerm |-> TermAfter(s, r.term),
          success |-> grant(s, r)]
  <2>1. grant(s, r) \in BOOLEAN
    BY DEF grant
  <2>2. reply \in VoteReply
    BY <1>0, <1>2, <2>1 DEF VoteReply
  <2>3. replies' \subseteq replies \cup {reply}
    BY DEF HandleRequestVoteRequest
  <2> HIDE DEF reply
  <2>4. replies' \subseteq VoteReply \cup AppendReply
    BY <2>2, <2>3 DEF TypeOK, CallTypeOK
  <2> QED
    BY <2>4 DEF TypeOK, CallTypeOK, HandleRequestVoteRequest
<1> QED
  BY <1>3, <1>4, <1>5, <1>6 DEF TypeOK

\* Stepping down on a newer term keeps the types.
LEMMA StepDownType ==
    ASSUME TypeOK, NEW r \in replies, StepDown(r)
    PROVE  TypeOK'
<1>0. r.from \in Server /\ r.rspTerm \in Nat
  BY ReplyFields
<1>1. updateTerm(r.from, r.rspTerm)
  BY DEF StepDown
<1>2. /\ currentTerm' \in [Server -> Nat]
      /\ pendingConfig' \in [Server -> Nat]
      /\ RoleAfter(r.from, r.rspTerm) \in {"follower", "candidate", "leader"}
      /\ VotesAfter(r.from, r.rspTerm) \in [Server -> Server \cup {0}]
  BY <1>0, <1>1, UpdateTermType
<1>3. NodeTypeOK'
  BY <1>0, <1>2 DEF TypeOK, NodeTypeOK, StepDown
<1>4. LogTypeOK'
  BY DEF TypeOK, LogTypeOK, StepDown, logVars
<1>5. PeerTypeOK'
  BY <1>0, <1>2 DEF TypeOK, PeerTypeOK, StepDown
<1>6. CallTypeOK'
  BY DEF TypeOK, CallTypeOK, StepDown
<1> QED
  BY <1>3, <1>4, <1>5, <1>6 DEF TypeOK

\* requestVote keeps the types when it counts or drops a vote.
LEMMA HandleRequestVoteResponseType ==
    ASSUME TypeOK, NEW r \in replies, HandleRequestVoteResponse(r)
    PROVE  TypeOK'
<1>0. r.from \in Server
  BY ReplyFields
<1>1. CASE StepDown(r)
  BY <1>1, StepDownType
<1>2. CASE Panic(r.from)
  BY <1>0, <1>2, PanicType
<1>3. CASE ~StepDown(r) /\ ~Panic(r.from)
  <2>1. NodeTypeOK' /\ LogTypeOK'
    BY <1>3 DEF TypeOK, NodeTypeOK, LogTypeOK, HandleRequestVoteResponse,
                nodeVars, logVars
  <2>2. votedFor' \in [Server -> [Server -> Server \cup {0}]]
    <3>1. CASE UNCHANGED votedFor
      BY <3>1 DEF TypeOK, PeerTypeOK
    <3>2. CASE \E m \in SlotOf(r) :
                  votedFor' = [votedFor EXCEPT ![r.from][m] = r.from]
      <4>1. PICK m \in SlotOf(r) :
                votedFor' = [votedFor EXCEPT ![r.from][m] = r.from]
        BY <3>2
      <4>2. m \in Server
        BY <1>0, SlotType
      <4> QED
        BY <1>0, <4>1, <4>2, ViewUpdate DEF TypeOK, PeerTypeOK
    <3> QED
      BY <1>3, <3>1, <3>2 DEF HandleRequestVoteResponse
  <2>3. PeerTypeOK'
    BY <1>3, <2>2 DEF TypeOK, PeerTypeOK, HandleRequestVoteResponse
  <2>4. CallTypeOK'
    BY <1>3 DEF TypeOK, CallTypeOK, HandleRequestVoteResponse
  <2> QED
    BY <2>1, <2>3, <2>4 DEF TypeOK
<1> QED
  BY <1>1, <1>2, <1>3

\* becomeLeader() keeps the types; the blank entry is an entry.
LEMMA becomeLeaderType ==
    ASSUME TypeOK, NEW s \in Server, becomeLeader(s)
    PROVE  TypeOK'
<1>1. NodeTypeOK'
  BY DEF TypeOK, NodeTypeOK, becomeLeader
<1>2. LogTypeOK'
  <2>1. log[s] \in Seq(Entry) /\ Noop(currentTerm[s]) \in Entry
    BY DEF TypeOK, NodeTypeOK, LogTypeOK, Noop, Entry
  <2>2. Append(log[s], Noop(currentTerm[s])) \in Seq(Entry)
    BY <2>1, AppendProperties
  <2> QED
    BY <2>2 DEF TypeOK, LogTypeOK, becomeLeader
<1>3. PeerTypeOK'
  <2>1. Len(log[s]) \in Nat
    BY LenProperties DEF TypeOK, LogTypeOK
  <2> DEFINE next == [m \in Server |-> IF m \in cluster[s]
                                       THEN Len(log[s]) + 2
                                       ELSE nextIndex[s][m]]
             match == [m \in Server |-> IF m \in cluster[s]
                                        THEN 0 ELSE matchIndex[s][m]]
  <2>2. next \in [Server -> Nat] /\ match \in [Server -> Nat]
    BY <2>1 DEF TypeOK, PeerTypeOK
  <2>3. /\ nextIndex' = [nextIndex EXCEPT ![s] = next]
        /\ matchIndex' = [matchIndex EXCEPT ![s] = match]
        /\ UNCHANGED <<cluster, votedFor, pendingConfig>>
    BY DEF becomeLeader
  <2> HIDE DEF next, match
  <2> QED
    BY <2>2, <2>3, ViewUpdate DEF TypeOK, PeerTypeOK
<1>4. CallTypeOK'
  BY DEF TypeOK, CallTypeOK, becomeLeader, callVars
<1> QED
  BY <1>1, <1>2, <1>3, <1>4 DEF TypeOK

\* appendLocked keeps the log a log.
LEMMA AppendLockedType ==
    ASSUME TypeOK, NEW s \in Server, NEW e \in Entry, appendLocked(s, e)
    PROVE  LogTypeOK'
<1>1. log[s] \in Seq(Entry)
  BY DEF TypeOK, LogTypeOK
<1>2. Append(log[s], e) \in Seq(Entry) /\ Len(log[s]) + 1 \in Nat
  BY <1>1, AppendProperties, LenProperties
<1> QED
  BY <1>2 DEF TypeOK, LogTypeOK, appendLocked

\* Apply() keeps the types.
LEMMA ApplyType ==
    ASSUME TypeOK, NEW s \in Server, NEW v \in Value, Apply(s, v)
    PROVE  TypeOK'
<1>1. NodeTypeOK' /\ PeerTypeOK'
  BY DEF TypeOK, NodeTypeOK, PeerTypeOK, Apply, nodeVars, peerVars
<1>2. LogTypeOK'
  <2>1. Command(currentTerm[s], v) \in Entry
    BY DEF TypeOK, NodeTypeOK, Command, Entry
  <2> QED
    BY <2>1, AppendLockedType DEF Apply
<1>3. CallTypeOK'
  <2>1. Spawn(s, "append", cluster[s]) /\ cluster[s] \in SUBSET Server
    BY DEF Apply, TypeOK, PeerTypeOK
  <2>2. goroutines' \subseteq Goroutine
    BY <2>1, SpawnType DEF TypeOK, CallTypeOK
  <2> QED
    BY <2>2 DEF TypeOK, CallTypeOK, Apply
<1> QED
  BY <1>1, <1>2, <1>3 DEF TypeOK

\* AddServer() keeps the types; the new member gets a nextIndex.
LEMMA AddServerType ==
    ASSUME TypeOK, NEW s \in Server, NEW id \in Server, AddServer(s, id)
    PROVE  TypeOK'
<1> DEFINE newMembers == cluster[s] \cup {id}
           newIndex == Len(log[s]) + 1
<1>0. newMembers \in SUBSET Server /\ newIndex \in Nat
  BY SMTT(30), LenProperties DEF TypeOK, PeerTypeOK, LogTypeOK
<1>1. NodeTypeOK'
  BY DEF TypeOK, NodeTypeOK, AddServer, nodeVars
<1>2. LogTypeOK'
  <2>1. ConfigChange(currentTerm[s], newMembers) \in Entry
    BY <1>0 DEF TypeOK, NodeTypeOK, ConfigChange, Entry
  <2>2. appendLocked(s, ConfigChange(currentTerm[s], newMembers))
    BY DEF AddServer
  <2> QED
    BY <2>1, <2>2, AppendLockedType
<1>3. PeerTypeOK'
  <2>1. /\ cluster' = [cluster EXCEPT ![s] = newMembers]
        /\ votedFor' = [votedFor EXCEPT ![s][id] = 0]
        /\ nextIndex' = [nextIndex EXCEPT ![s][id] = newIndex + 1]
        /\ matchIndex' = [matchIndex EXCEPT ![s][id] = 0]
        /\ pendingConfig' = [pendingConfig EXCEPT ![s] = newIndex]
    BY DEF AddServer
  <2> HIDE DEF newMembers, newIndex
  <2>2. cluster' \in [Server -> SUBSET Server] /\ pendingConfig' \in [Server -> Nat]
    BY <1>0, <2>1 DEF TypeOK, PeerTypeOK
  <2>3. votedFor' \in [Server -> [Server -> Server \cup {0}]]
    BY <2>1, ViewUpdate DEF TypeOK, PeerTypeOK
  <2>4. nextIndex' \in [Server -> [Server -> Nat]]
    <3>1. newIndex + 1 \in Nat
      BY <1>0
    <3> QED
      BY <2>1, <3>1, ViewUpdate DEF TypeOK, PeerTypeOK
  <2>5. matchIndex' \in [Server -> [Server -> Nat]]
    BY <2>1, ViewUpdate DEF TypeOK, PeerTypeOK
  <2> QED
    BY <2>2, <2>3, <2>4, <2>5 DEF PeerTypeOK
<1>4. CallTypeOK'
  <2>1. Spawn(s, "append", newMembers)
    BY DEF AddServer
  <2>2. goroutines' \subseteq Goroutine
    BY <1>0, <2>1, SpawnType DEF TypeOK, CallTypeOK
  <2> QED
    BY <2>2 DEF TypeOK, CallTypeOK, AddServer
<1> QED
  BY <1>1, <1>2, <1>3, <1>4 DEF TypeOK

\* heartbeat() keeps the types.
LEMMA heartbeatType ==
    ASSUME TypeOK, NEW s \in Server, heartbeat(s)
    PROVE  TypeOK'
<1>1. NodeTypeOK' /\ LogTypeOK' /\ PeerTypeOK'
  BY DEF TypeOK, NodeTypeOK, LogTypeOK, PeerTypeOK, heartbeat,
         nodeVars, logVars, peerVars
<1>2. CallTypeOK'
  <2>1. Spawn(s, "append", cluster[s]) /\ cluster[s] \in SUBSET Server
    BY DEF heartbeat, TypeOK, PeerTypeOK
  <2>2. goroutines' \subseteq Goroutine
    BY <2>1, SpawnType DEF TypeOK, CallTypeOK
  <2> QED
    BY <2>2 DEF TypeOK, CallTypeOK, heartbeat
<1> QED
  BY <1>1, <1>2 DEF TypeOK

\* What a request that appendEntries builds is made of.
LEMMA BuiltRequest ==
    ASSUME TypeOK, NEW s \in Server, NEW m \in Server, ~BadNext(s, m)
    PROVE  LET prev == nextIndex[s][m] - 1
               es == EntriesFor(s, m)
           IN  /\ prev \in 0..Len(log[s])
               /\ TermAt(log[s], prev) \in Nat
               /\ es \in Seq(Entry)
               /\ Len(es) <= Len(log[s]) - prev
               /\ \A i \in 1..Len(es) : /\ prev + i \in 1..Len(log[s])
                                        /\ es[i] = log[s][prev + i]
<1> DEFINE lg == log[s]
           next == nextIndex[s][m]
           to == Least(Len(lg), next + MaxBatch - 1)
           es == EntriesFor(s, m)
<1>1. lg \in Seq(Entry) /\ Len(lg) \in Nat /\ next \in Nat
  BY LenProperties DEF TypeOK, LogTypeOK, PeerTypeOK
<1>2. next \in Nat \ {0} /\ next - 1 \in 0..Len(lg)
  BY <1>1 DEF BadNext
<1>3. to \in 0..Len(lg)
  BY <1>1, <1>2, BoundAssumption DEF Least
<1>4. es = SubSeq(lg, next, to)
  BY DEF EntriesFor
<1> HIDE DEF lg, next, to, es
<1>5. /\ es \in Seq(Entry)
      /\ Len(es) = IF next <= to THEN to - next + 1 ELSE 0
      /\ \A i \in 1..(to - next + 1) : es[i] = lg[next + i - 1]
  BY <1>1, <1>2, <1>3, <1>4, MembersOfSubSeq
<1>6. TermAt(lg, next - 1) \in Nat
  BY <1>1, <1>2, TermAtType
<1>7. Len(es) <= Len(lg) - (next - 1)
  BY <1>1, <1>2, <1>3, <1>5
<1>8. ASSUME NEW i \in 1..Len(es)
      PROVE  (next - 1) + i \in 1..Len(lg) /\ es[i] = lg[(next - 1) + i]
  <2>1. i \in 1..(to - next + 1) /\ next + i - 1 = (next - 1) + i
    BY <1>1, <1>2, <1>3, <1>5
  <2>2. es[i] = lg[next + i - 1]
    BY <1>5, <2>1
  <2> QED
    BY <1>1, <1>2, <1>3, <2>1, <2>2
<1> QED
  BY <1>2, <1>5, <1>6, <1>7, <1>8 DEF lg, next, es

\* appendEntries builds a well-typed request, or panics.
LEMMA BuildAppendEntriesType ==
    ASSUME TypeOK, NEW g \in goroutines, BuildAppendEntries(g)
    PROVE  TypeOK'
<1> DEFINE s == g.from
<1>0. s \in Server /\ g.call \in Call
  BY DEF TypeOK, CallTypeOK, Goroutine
<1>1. CASE Panic(s)
  BY <1>0, <1>1, PanicType
<1>2. CASE ~Panic(s)
  <2>1. NodeTypeOK' /\ LogTypeOK' /\ PeerTypeOK'
    BY <1>2 DEF TypeOK, NodeTypeOK, LogTypeOK, PeerTypeOK, BuildAppendEntries,
                nodeVars, logVars, peerVars
  <2>2. PICK m \in SlotOf(g) :
          /\ ~BadNext(s, m)
          /\ requests' = requests \cup
               {[call |-> g.call, kind |-> "append", from |-> s, to |-> m,
                 term |-> currentTerm[s], prevLogIndex |-> nextIndex[s][m] - 1,
                 prevLogTerm |-> TermAt(log[s], nextIndex[s][m] - 1),
                 entries |-> EntriesFor(s, m),
                 leaderCommit |-> commitIndex[s], orphan |-> FALSE]}
    BY <1>2 DEF BuildAppendEntries
  <2>3. m \in Server
    BY <1>0, SlotType
  <2> DEFINE q ==
         [call |-> g.call, kind |-> "append", from |-> s, to |-> m,
          term |-> currentTerm[s], prevLogIndex |-> nextIndex[s][m] - 1,
          prevLogTerm |-> TermAt(log[s], nextIndex[s][m] - 1),
          entries |-> EntriesFor(s, m),
          leaderCommit |-> commitIndex[s], orphan |-> FALSE]
  <2>4. currentTerm[s] \in Nat /\ commitIndex[s] \in Nat
    BY <1>0 DEF TypeOK, NodeTypeOK, LogTypeOK
  <2>5. /\ nextIndex[s][m] - 1 \in Nat
        /\ TermAt(log[s], nextIndex[s][m] - 1) \in Nat
        /\ EntriesFor(s, m) \in Seq(Entry)
    BY <1>0, <2>2, <2>3, BuiltRequest
  <2>6. q \in AppendRequest
    BY <1>0, <2>3, <2>4, <2>5 DEF AppendRequest
  <2>7. requests' = requests \cup {q}
    BY <2>2
  <2> HIDE DEF q
  <2>8. CallTypeOK'
    BY <1>2, <2>6, <2>7 DEF TypeOK, CallTypeOK, BuildAppendEntries
  <2> QED
    BY <2>1, <2>8 DEF TypeOK
<1> QED
  BY <1>1, <1>2

\* The part common to every path of HandleAppendEntriesRequest keeps the types.
LEMMA ReceiveAppendType ==
    ASSUME TypeOK, NEW r \in requests, NEW success \in BOOLEAN,
           ReceiveAppend(r, success), passive' \in [Server -> BOOLEAN]
    PROVE  /\ NodeTypeOK' /\ CallTypeOK'
           /\ pendingConfig' \in [Server -> Nat]
           /\ VotesAfter(r.to, r.term) \in [Server -> Server \cup {0}]
           /\ \A n \in Server : currentTerm'[n] >= currentTerm[n]
           /\ currentTerm'[r.to] >= r.term
<1> DEFINE s == r.to
<1>0. /\ r.kind = "append"
      /\ r.call \in Call /\ r.from \in Server /\ s \in Server
      /\ r.term \in Nat /\ r.prevLogIndex \in Nat /\ r.entries \in Seq(Entry)
  BY RequestFields DEF ReceiveAppend
<1>1. updateTerm(s, r.term)
  BY DEF ReceiveAppend
<1>2. /\ currentTerm' \in [Server -> Nat]
      /\ pendingConfig' \in [Server -> Nat]
      /\ TermAfter(s, r.term) \in Nat
      /\ RoleAfter(s, r.term) \in {"follower", "candidate", "leader"}
      /\ VotesAfter(s, r.term) \in [Server -> Server \cup {0}]
      /\ currentTerm'[s] >= r.term
      /\ \A n \in Server : currentTerm'[n] >= currentTerm[n]
  BY <1>0, <1>1, UpdateTermType
<1>3. NodeTypeOK'
  BY <1>0, <1>2 DEF TypeOK, NodeTypeOK, ReceiveAppend, RoleOnAppend
<1>4. CallTypeOK'
  <2> DEFINE reply ==
         [call |-> r.call, kind |-> "append", from |-> r.from, to |-> s,
          term |-> r.term, rspTerm |-> TermAfter(s, r.term),
          success |-> success, match |-> MatchOf(r)]
  <2>1. MatchOf(r) \in Nat
    BY <1>0, LenProperties DEF MatchOf
  <2>2. reply \in AppendReply
    BY <1>0, <1>2, <2>1 DEF AppendReply
  <2>3. replies' \subseteq replies \cup {reply}
    BY DEF ReceiveAppend
  <2> HIDE DEF reply
  <2>4. replies' \subseteq VoteReply \cup AppendReply
    BY <2>2, <2>3 DEF TypeOK, CallTypeOK
  <2> QED
    BY <2>4 DEF TypeOK, CallTypeOK, ReceiveAppend
<1> QED
  BY <1>2, <1>3, <1>4

\* A refused AppendEntries keeps the types.
LEMMA RefuseAppendEntriesType ==
    ASSUME TypeOK, NEW r \in requests, RefuseAppendEntries(r)
    PROVE  TypeOK'
<1>0. r.to \in Server
  BY RequestFields
<1>1. passive' \in [Server -> BOOLEAN]
  BY <1>0 DEF TypeOK, NodeTypeOK, RefuseAppendEntries, FollowsSender
<1>2. /\ NodeTypeOK' /\ CallTypeOK' /\ pendingConfig' \in [Server -> Nat]
      /\ VotesAfter(r.to, r.term) \in [Server -> Server \cup {0}]
  BY <1>1, ReceiveAppendType DEF RefuseAppendEntries
<1>3. LogTypeOK'
  BY DEF TypeOK, LogTypeOK, RefuseAppendEntries, logVars
<1>4. PeerTypeOK'
  BY <1>0, <1>2 DEF TypeOK, PeerTypeOK, RefuseAppendEntries
<1> QED
  BY <1>2, <1>3, <1>4 DEF TypeOK

\* The log a follower has after it took a request's entries.
LEMMA NewLogShape ==
    ASSUME TypeOK, NEW s \in Server, NEW r \in requests, r.kind = "append",
           NEW keep \in r.prevLogIndex..Len(log[s])
    PROVE  LET newLog == NewLog(s, r, keep) IN
           /\ newLog \in Seq(Entry)
           /\ Len(newLog) \in Nat /\ keep \in 0..Len(newLog)
           /\ \A i \in 1..keep : newLog[i] = log[s][i]
           /\ \A i \in (keep + 1)..Len(newLog) :
                 /\ i - r.prevLogIndex \in 1..Len(r.entries)
                 /\ newLog[i] = r.entries[i - r.prevLogIndex]
           /\ MembersIn(newLog) \subseteq MembersIn(log[s]) \cup MembersIn(r.entries)
<1> DEFINE lg == log[s]
           es == r.entries
           prev == r.prevLogIndex
           kept == SubSeq(lg, 1, keep)
           new == SubSeq(es, keep - prev + 1, Len(es))
<1>1. /\ lg \in Seq(Entry) /\ es \in Seq(Entry)
      /\ Len(lg) \in Nat /\ Len(es) \in Nat /\ prev \in Nat
  BY RequestFields, LenProperties DEF TypeOK, LogTypeOK
<1>2. NewLog(s, r, keep) = kept \o new
  BY DEF NewLog
<1>3. keep \in prev..Len(lg)
  OBVIOUS
<1> HIDE DEF lg, es, prev
<1>4. /\ kept \in Seq(Entry) /\ Len(kept) = keep
      /\ \A i \in 1..keep : kept[i] = lg[i]
      /\ MembersIn(kept) \subseteq MembersIn(lg)
  <2>1. 1 \in Nat \ {0} /\ keep \in 0..Len(lg)
    BY <1>1, <1>3
  <2>2. /\ kept \in Seq(Entry)
        /\ Len(kept) = IF 1 <= keep THEN keep - 1 + 1 ELSE 0
        /\ \A i \in 1..(keep - 1 + 1) : kept[i] = lg[1 + i - 1]
        /\ MembersIn(kept) \subseteq MembersIn(lg)
    BY <1>1, <2>1, MembersOfSubSeq
  <2> HIDE DEF kept
  <2> QED
    BY <2>1, <2>2, <1>1
<1>5. /\ new \in Seq(Entry) /\ Len(new) \in Nat
      /\ Len(new) = IF keep - prev + 1 <= Len(es)
                    THEN Len(es) - (keep - prev + 1) + 1 ELSE 0
      /\ \A i \in 1..(Len(es) - (keep - prev + 1) + 1) :
            new[i] = es[(keep - prev + 1) + i - 1]
      /\ MembersIn(new) \subseteq MembersIn(es)
  <2>1. keep - prev + 1 \in Nat \ {0} /\ Len(es) \in 0..Len(es)
    BY <1>1, <1>3
  <2> QED
    BY <1>1, <2>1, MembersOfSubSeq, LenProperties
<1> HIDE DEF kept, new
<1>6. /\ kept \o new \in Seq(Entry)
      /\ Len(kept \o new) = keep + Len(new)
      /\ \A i \in 1..(keep + Len(new)) :
            (kept \o new)[i] = IF i <= keep THEN kept[i] ELSE new[i - keep]
      /\ MembersIn(kept \o new) \subseteq MembersIn(lg) \cup MembersIn(es)
  BY <1>4, <1>5, ConcatProperties, MembersOfConcat
<1>7. \A i \in 1..keep : (kept \o new)[i] = lg[i]
  BY <1>1, <1>3, <1>4, <1>5, <1>6
<1>8. ASSUME NEW i \in (keep + 1)..(keep + Len(new))
      PROVE  i - prev \in 1..Len(es) /\ (kept \o new)[i] = es[i - prev]
  <2>1. /\ i - keep \in 1..(Len(es) - (keep - prev + 1) + 1)
        /\ (keep - prev + 1) + (i - keep) - 1 = i - prev
    BY <1>1, <1>3, <1>5
  <2>2. new[i - keep] = es[i - prev]
    BY <1>5, <2>1
  <2> QED
    BY SMTT(30), <1>1, <1>3, <1>5, <1>6, <2>1, <2>2
<1>9. Len(kept \o new) \in Nat /\ keep \in 0..Len(kept \o new)
  BY <1>1, <1>3, <1>5, <1>6
<1> QED
  <2> DEFINE all == kept \o new
  <2> HIDE DEF all
  <2>1. /\ all \in Seq(Entry)
        /\ Len(all) \in Nat /\ keep \in 0..Len(all)
        /\ \A i \in 1..keep : all[i] = lg[i]
        /\ MembersIn(all) \subseteq MembersIn(lg) \cup MembersIn(es)
    BY <1>6, <1>7, <1>9 DEF all
  <2>2. \A i \in (keep + 1)..Len(all) :
            i - prev \in 1..Len(es) /\ all[i] = es[i - prev]
    BY <1>6, <1>8 DEF all
  <2>3. NewLog(s, r, keep) = all
    BY <1>2 DEF all
  <2> QED
    BY <2>1, <2>2, <2>3 DEF lg, es, prev

\* An accepted AppendEntries, with its truncation, merge and rebuild, keeps the
\* types.
LEMMA AcceptAppendEntriesType ==
    ASSUME TypeOK, NEW r \in requests, AcceptAppendEntries(r)
    PROVE  TypeOK'
<1> DEFINE s == r.to
<1>0. /\ r.kind = "append" /\ s \in Server
      /\ r.prevLogIndex \in Nat /\ r.leaderCommit \in Nat
      /\ r.entries \in Seq(Entry)
  BY RequestFields DEF AcceptAppendEntries
<1>1. passive' \in [Server -> BOOLEAN]
  BY <1>0 DEF TypeOK, NodeTypeOK, AcceptAppendEntries
<1>2. /\ NodeTypeOK' /\ CallTypeOK' /\ pendingConfig' \in [Server -> Nat]
      /\ VotesAfter(s, r.term) \in [Server -> Server \cup {0}]
  BY <1>1, ReceiveAppendType DEF AcceptAppendEntries
<1> DEFINE Fresh(keep, m) == keep < Len(log[s]) \/ m \in Joins(s, r)
           Votes(keep) == [m \in Server |-> IF Fresh(keep, m) THEN 0
                                            ELSE VotesAfter(s, r.term)[m]]
           Matches(keep) == [m \in Server |-> IF Fresh(keep, m) THEN 0
                                              ELSE matchIndex[s][m]]
           Nexts(keep) ==
             IF keep < Len(log[s]) THEN RebuiltNext(s, NewLog(s, r, keep))
             ELSE [m \in Server |->
                      IF m \in Joins(s, r)
                      THEN r.prevLogIndex + FirstNaming(r.entries, m) + 1
                      ELSE nextIndex[s][m]]
<1>3. PICK keep \in r.prevLogIndex..Len(log[s]) :
        /\ log' = [log EXCEPT ![s] = NewLog(s, r, keep)]
        /\ waiting' = [waiting EXCEPT ![s] = {i \in waiting[s] : i <= keep}]
        /\ commitIndex' = [commitIndex EXCEPT ![s] =
                               CommitOnAppend(s, r, NewLog(s, r, keep))]
        /\ cluster' = [cluster EXCEPT ![s] = ClusterAfter(s, r, keep)]
        /\ votedFor' = [votedFor EXCEPT ![s] = Votes(keep)]
        /\ matchIndex' = [matchIndex EXCEPT ![s] = Matches(keep)]
        /\ nextIndex' = [nextIndex EXCEPT ![s] = Nexts(keep)]
  BY DEF AcceptAppendEntries
<1>4. UNCHANGED <<lastApplied, applied>>
  BY DEF AcceptAppendEntries
<1> DEFINE newLog == NewLog(s, r, keep)
<1>5. newLog \in Seq(Entry) /\ Len(newLog) \in Nat
  BY <1>0, NewLogShape
<1>6. CommitOnAppend(s, r, newLog) \in Nat
  BY <1>0, <1>5 DEF CommitOnAppend, Least, TypeOK, LogTypeOK
<1>7. LogTypeOK'
  BY <1>0, <1>3, <1>4, <1>5, <1>6 DEF TypeOK, LogTypeOK
<1>8. PeerTypeOK'
  <2>1. Joins(s, r) \subseteq MembersIn(r.entries) /\ Joins(s, r) \subseteq Server
    BY <1>0, MembersAreServers DEF Joins
  <2>2. ClusterAfter(s, r, keep) \in SUBSET Server
    BY <1>0, <1>5, <2>1, ClusterAreServers DEF ClusterAfter, TypeOK, PeerTypeOK
  <2>3. Votes(keep) \in [Server -> Server \cup {0}]
    BY <1>2
  <2>4. Matches(keep) \in [Server -> Nat]
    BY <1>0 DEF TypeOK, PeerTypeOK
  <2>5. Nexts(keep) \in [Server -> Nat]
    <3>1. RebuiltNext(s, newLog) \in [Server -> Nat]
      BY <1>0, <1>5, RebuiltNextType
    <3>2. \A m \in Joins(s, r) :
             r.prevLogIndex + FirstNaming(r.entries, m) + 1 \in Nat
      BY <1>0, <2>1, FirstNamingIsIndex, LenProperties
    <3>3. nextIndex[s] \in [Server -> Nat]
      BY <1>0 DEF TypeOK, PeerTypeOK
    <3> QED
      BY <3>1, <3>2, <3>3
  <2> HIDE DEF Votes, Matches, Nexts, newLog
  <2>6. cluster' \in [Server -> SUBSET Server]
    BY <1>3, <2>2 DEF TypeOK, PeerTypeOK
  <2>7. votedFor' \in [Server -> [Server -> Server \cup {0}]]
    BY <1>0, <1>3, <2>3, ViewUpdate DEF TypeOK, PeerTypeOK
  <2>8. matchIndex' \in [Server -> [Server -> Nat]]
    BY <1>0, <1>3, <2>4, ViewUpdate DEF TypeOK, PeerTypeOK
  <2>9. nextIndex' \in [Server -> [Server -> Nat]]
    BY <1>0, <1>3, <2>5, ViewUpdate DEF TypeOK, PeerTypeOK
  <2> QED
    BY <1>2, <2>6, <2>7, <2>8, <2>9 DEF PeerTypeOK
<1> QED
  BY <1>2, <1>7, <1>8 DEF TypeOK

\* The use of an AppendEntries response keeps the types: backing off stays a
\* natural number.
LEMMA HandleAppendEntriesResponseType ==
    ASSUME TypeOK, NEW r \in replies, HandleAppendEntriesResponse(r)
    PROVE  TypeOK'
<1> DEFINE s == r.from
<1>0. s \in Server /\ (r.kind = "append" => r.match \in Nat)
  BY ReplyFields
<1>1. CASE StepDown(r)
  BY <1>1, StepDownType
<1>2. CASE Panic(s)
  BY <1>0, <1>2, PanicType
<1>3. CASE ~StepDown(r) /\ ~Panic(s)
  <2>1. NodeTypeOK' /\ LogTypeOK'
    BY <1>3 DEF TypeOK, NodeTypeOK, LogTypeOK, HandleAppendEntriesResponse,
                nodeVars, logVars
  <2>2. \/ UNCHANGED <<nextIndex, matchIndex>>
        \/ \E m \in SlotOf(r) :
              \/ /\ nextIndex' = [nextIndex EXCEPT ![s][m] = r.match + 1]
                 /\ matchIndex' = [matchIndex EXCEPT ![s][m] = r.match]
              \/ /\ nextIndex' = [nextIndex EXCEPT ![s][m] =
                                                   BackOff(nextIndex[s][m])]
                 /\ UNCHANGED matchIndex
    BY <1>3 DEF HandleAppendEntriesResponse
  <2>3. /\ nextIndex' \in [Server -> [Server -> Nat]]
        /\ matchIndex' \in [Server -> [Server -> Nat]]
    <3>1. CASE UNCHANGED <<nextIndex, matchIndex>>
      BY <3>1 DEF TypeOK, PeerTypeOK
    <3>2. ASSUME NEW m \in SlotOf(r),
                 nextIndex' = [nextIndex EXCEPT ![s][m] = r.match + 1],
                 matchIndex' = [matchIndex EXCEPT ![s][m] = r.match]
          PROVE  /\ nextIndex' \in [Server -> [Server -> Nat]]
                 /\ matchIndex' \in [Server -> [Server -> Nat]]
      <4>1. m \in Server /\ r.match \in Nat /\ r.match + 1 \in Nat
        BY <1>0, SlotType DEF HandleAppendEntriesResponse
      <4> QED
        BY ZenonT(30), <1>0, <3>2, <4>1, ViewUpdate DEF TypeOK, PeerTypeOK
    <3>3. ASSUME NEW m \in SlotOf(r),
                 nextIndex' = [nextIndex EXCEPT ![s][m] =
                                                   BackOff(nextIndex[s][m])],
                 UNCHANGED matchIndex
          PROVE  /\ nextIndex' \in [Server -> [Server -> Nat]]
                 /\ matchIndex' \in [Server -> [Server -> Nat]]
      <4>1. m \in Server
        BY <1>0, SlotType
      <4>2. nextIndex[s][m] \in Nat
        BY <1>0, <4>1 DEF TypeOK, PeerTypeOK
      <4> DEFINE back == BackOff(nextIndex[s][m])
      <4>3. back \in Nat
        BY <4>2, BackOffIsIndex
      <4>4. nextIndex' = [nextIndex EXCEPT ![s][m] = back]
        BY <3>3
      <4> HIDE DEF back
      <4>5. nextIndex' \in [Server -> [Server -> Nat]]
        BY <1>0, <4>1, <4>3, <4>4, ViewUpdate DEF TypeOK, PeerTypeOK
      <4> QED
        BY <3>3, <4>5 DEF TypeOK, PeerTypeOK
    <3> QED
      BY <2>2, <3>1, <3>2, <3>3
  <2>4. PeerTypeOK'
    BY <1>3, <2>3 DEF TypeOK, PeerTypeOK, HandleAppendEntriesResponse
  <2>5. CallTypeOK'
    BY <1>3 DEF TypeOK, CallTypeOK, HandleAppendEntriesResponse
  <2> QED
    BY <2>1, <2>4, <2>5 DEF TypeOK
<1> QED
  BY <1>1, <1>2, <1>3

\* advanceCommitIndex() that does not panic leaves logs, terms, memberships
\* and requests alone.
LEMMA AdvanceChangesNoLog ==
    ASSUME NEW s \in Server, advanceCommitIndex(s), ~Panic(s)
    PROVE  UNCHANGED <<log, currentTerm, cluster, requests>>
<1>1. PICK ci \in 0..Len(log[s]) \cup {commitIndex[s]} :
          UNCHANGED <<nodeVars, log, cluster, votedFor, nextIndex,
                      matchIndex, callVars, faults>>
  BY Zenon DEF advanceCommitIndex
<1> QED
  BY <1>1 DEF nodeVars, callVars

\* advanceCommitIndex() keeps the types: only commands reach the state machine.
LEMMA advanceCommitIndexType ==
    ASSUME TypeOK, NEW s \in Server, advanceCommitIndex(s)
    PROVE  TypeOK'
<1>1. CASE Panic(s)
  BY <1>1, PanicType
<1>2. CASE ~Panic(s)
  <2>1. PICK ci \in 0..Len(log[s]) \cup {commitIndex[s]} :
          /\ ApplyNext(s, ci)
          /\ commitIndex' = [commitIndex EXCEPT ![s] = ci]
          /\ lastApplied[s] <= ci => lastApplied[s] <= Len(log[s])
          /\ UNCHANGED <<nodeVars, log, cluster, votedFor, nextIndex,
                         matchIndex, callVars, faults>>
    BY <1>2 DEF advanceCommitIndex
  <2>2. NodeTypeOK'
    BY <2>1 DEF TypeOK, NodeTypeOK, nodeVars
  <2>3. CallTypeOK'
    BY <2>1 DEF TypeOK, CallTypeOK, callVars
  <2>4. ci \in Nat /\ lastApplied[s] + 1 \in Nat \ {0}
    BY LenProperties DEF TypeOK, LogTypeOK
  <2>5. AppliedAfter(s, log[s][lastApplied[s]].cmd) \in Seq(Value)
    BY AppendProperties DEF AppliedAfter, TypeOK, LogTypeOK
  <2>6. /\ lastApplied' \in [Server -> Nat \ {0}]
        /\ applied' \in [Server -> Seq(Value)]
        /\ waiting' \in [Server -> SUBSET Nat]
        /\ pendingConfig' \in [Server -> Nat]
    <3>1. CASE lastApplied[s] <= ci
      <4> DEFINE new == AppliedAfter(s, log[s][lastApplied[s]].cmd)
                 pending == IF /\ log[s][lastApplied[s]].cmd = "config"
                               /\ pendingConfig[s] = lastApplied[s]
                            THEN 0 ELSE pendingConfig[s]
      <4>1. /\ lastApplied' = [lastApplied EXCEPT ![s] = lastApplied[s] + 1]
            /\ applied' = [applied EXCEPT ![s] = new]
            /\ waiting' = [waiting EXCEPT ![s] = waiting[s] \ {lastApplied[s]}]
            /\ pendingConfig' = [pendingConfig EXCEPT ![s] = pending]
        BY <2>1, <3>1 DEF ApplyNext
      <4>2. pending \in Nat
        BY DEF TypeOK, PeerTypeOK
      <4> HIDE DEF new, pending
      <4>3. pendingConfig' \in [Server -> Nat]
        BY <4>1, <4>2 DEF TypeOK, PeerTypeOK
      <4>4. new \in Seq(Value)
        BY <2>5 DEF new
      <4>5. lastApplied' \in [Server -> Nat \ {0}] /\ applied' \in [Server -> Seq(Value)]
        BY <2>4, <4>1, <4>4 DEF TypeOK, LogTypeOK
      <4>6. waiting' \in [Server -> SUBSET Nat]
        BY <4>1 DEF TypeOK, LogTypeOK
      <4> QED
        BY <4>3, <4>5, <4>6
    <3>2. CASE ~(lastApplied[s] <= ci)
      BY <2>1, <3>2 DEF ApplyNext, TypeOK, LogTypeOK, PeerTypeOK
    <3> QED
      BY <3>1, <3>2
  <2>7. LogTypeOK'
    BY <2>1, <2>4, <2>6 DEF TypeOK, LogTypeOK
  <2>8. PeerTypeOK'
    BY <2>1, <2>6 DEF TypeOK, PeerTypeOK
  <2> QED
    BY <2>2, <2>3, <2>7, <2>8 DEF TypeOK
<1> QED
  BY <1>1, <1>2

\* A lost call keeps the types.
LEMMA RPCErrorType ==
    ASSUME TypeOK, RPCError
    PROVE  TypeOK'
<1>1. NodeTypeOK' /\ LogTypeOK' /\ PeerTypeOK'
  BY DEF TypeOK, NodeTypeOK, LogTypeOK, PeerTypeOK, RPCError,
         nodeVars, logVars, peerVars
<1>2. CallTypeOK'
  BY DEF TypeOK, CallTypeOK, RPCError
<1> QED
  BY <1>1, <1>2 DEF TypeOK

\* A stuttering step keeps the types.
LEMMA StutterType ==
    ASSUME TypeOK, UNCHANGED vars
    PROVE  TypeOK'
<1>1. NodeTypeOK' /\ LogTypeOK'
  BY DEF TypeOK, NodeTypeOK, LogTypeOK, vars, nodeVars, logVars
<1>2. PeerTypeOK' /\ CallTypeOK'
  BY DEF TypeOK, PeerTypeOK, CallTypeOK, vars, peerVars, callVars
<1> QED
  BY <1>1, <1>2 DEF TypeOK

\* Every step of the server keeps the types.
LEMMA TypeStep == TypeOK /\ [Next]_vars => TypeOK'
<1> SUFFICES ASSUME TypeOK, [Next]_vars PROVE TypeOK'
  OBVIOUS
<1>1. CASE CallStep
  BY <1>1, BuildRequestVoteType, BuildAppendEntriesType,
     HandleRequestVoteRequestType, RefuseAppendEntriesType,
     AcceptAppendEntriesType, HandleRequestVoteResponseType,
     HandleAppendEntriesResponseType, RPCErrorType DEF CallStep
<1>2. ASSUME NEW s \in Server, ServerStep(s) PROVE TypeOK'
  BY <1>2, TimeoutType, BranchType, becomeLeaderType, heartbeatType,
     advanceCommitIndexType DEF ServerStep
<1>3. ASSUME NEW s \in Server, ClientStep(s) PROVE TypeOK'
  BY <1>3, ApplyType, AddServerType DEF ClientStep
<1>4. ASSUME NEW s \in Server, FaultStep(s) PROVE TypeOK'
  BY <1>4, CrashType, StopType, RestartType DEF FaultStep
<1> QED
  BY <1>1, <1>2, <1>3, <1>4, StutterType DEF Next

\* Whatever is delayed, lost or forgotten, the server's fields keep their
\* shape: Apply, restore and both RPC handlers leave a well-formed server.
THEOREM TypeCorrect == Spec => []TypeOK
<1>1. TypeOK /\ [Next]_vars => TypeOK'
  BY TypeStep
<1> QED
  BY InitType, <1>1, PTL DEF Spec

-----------------------------------------------------------------------------
(* The terms in a log *)

\* The inductive invariant: an AppendEntries request, which may be handled at
\* any later time, carries entries that are in order too, none older than the
\* entry it expects before them and none newer than its sender was.
RequestOrdered(r) ==
    r.kind = "append" =>
        /\ TermsOrdered(r.entries, r.term)
        /\ \A j \in 1..Len(r.entries) : r.prevLogTerm <= r.entries[j].term

RequestsOrdered == \A r \in requests : RequestOrdered(r)

OrderInv == TypeOK /\ LogTermsOrdered /\ RequestsOrdered

\* A step that leaves the logs alone and sends nothing new.
LEMMA OrderKept ==
    ASSUME OrderInv, TypeOK', UNCHANGED log,
           \A s \in Server : currentTerm'[s] >= currentTerm[s],
           \A r \in requests' :
              r.kind = "append" =>
                \E q \in requests :
                    /\ q.kind = "append" /\ q.term = r.term
                    /\ q.entries = r.entries /\ q.prevLogTerm = r.prevLogTerm
    PROVE  OrderInv'
<1>1. LogTermsOrdered'
  <2> SUFFICES ASSUME NEW s \in Server PROVE TermsOrdered(log[s], currentTerm'[s])
    BY DEF LogTermsOrdered
  <2>1. TermsOrdered(log[s], currentTerm[s])
    BY DEF OrderInv, LogTermsOrdered
  <2>2. currentTerm[s] \in Nat /\ currentTerm'[s] \in Nat
    BY DEF OrderInv, TypeOK, NodeTypeOK
  <2>3. \A j \in 1..Len(log[s]) : log[s][j].term \in Nat
    <3>1. \A j \in 1..Len(log[s]) : log[s][j] \in Entry
      BY ElementOfSeq DEF OrderInv, TypeOK, LogTypeOK
    <3> QED
      BY <3>1 DEF Entry
  <2> QED
    BY <2>1, <2>2, <2>3 DEF TermsOrdered
<1>2. RequestsOrdered'
  BY DEF OrderInv, RequestsOrdered, RequestOrdered, TermsOrdered
<1> QED
  BY <1>1, <1>2 DEF OrderInv

\* A leader appends an entry of its own term.
LEMMA OrderAppended ==
    ASSUME OrderInv, TypeOK', NEW s \in Server, NEW e \in Entry,
           e.term = currentTerm[s], log' = [log EXCEPT ![s] = Append(@, e)],
           UNCHANGED <<currentTerm, requests>>
    PROVE  OrderInv'
<1>1. RequestsOrdered'
  BY DEF OrderInv, RequestsOrdered
<1>2. ASSUME NEW n \in Server PROVE TermsOrdered(log'[n], currentTerm[n])
  <2>0. TermsOrdered(log[n], currentTerm[n])
    BY DEF OrderInv, LogTermsOrdered
  <2>1. CASE n # s
    BY <2>0, <2>1 DEF OrderInv, TypeOK, LogTypeOK
  <2>2. CASE n = s
    <3> DEFINE lg == log[s]
               new == Append(lg, e)
    <3>1. lg \in Seq(Entry) /\ Len(lg) \in Nat
      BY LenProperties DEF OrderInv, TypeOK, LogTypeOK
    <3>2. /\ Len(new) = Len(lg) + 1
          /\ \A i \in 1..Len(lg) : new[i] = lg[i]
          /\ new[Len(lg) + 1] = e
      BY <3>1, AppendProperties
    <3>3. log'[s] = new
      BY DEF OrderInv, TypeOK, LogTypeOK
    <3>4. TermsOrdered(lg, e.term) /\ e.term \in Nat
      BY <2>0, <2>2 DEF Entry
    <3> HIDE DEF lg, new
    <3>5. TermsOrdered(new, e.term)
      BY SMTT(30), <3>1, <3>2, <3>4 DEF TermsOrdered
    <3> QED
      BY <2>2, <3>3, <3>5
  <2> QED
    BY <2>1, <2>2
<1> QED
  BY <1>1, <1>2 DEF OrderInv, LogTermsOrdered

\* A dying process keeps the order: it sends nothing new.
LEMMA OrderDie ==
    ASSUME OrderInv, TypeOK', NEW s, NEW how, Die(s, how)
    PROVE  OrderInv'
<1>1. UNCHANGED <<log, currentTerm>>
  BY DEF Die, logVars
<1>2. \A n \in Server : currentTerm'[n] >= currentTerm[n]
  BY <1>1 DEF OrderInv, TypeOK, NodeTypeOK
<1>3. ASSUME NEW r \in requests', r.kind = "append"
      PROVE  \E q \in requests :
                /\ q.kind = "append" /\ q.term = r.term
                /\ q.entries = r.entries /\ q.prevLogTerm = r.prevLogTerm
  <2>1. PICK q \in requests : r = IF q.from = s THEN [q EXCEPT !.orphan = TRUE]
                                  ELSE q
    BY DEF Die
  <2>2. q \in VoteRequest \cup AppendRequest
    BY DEF OrderInv, TypeOK, CallTypeOK
  <2> QED
    BY <1>3, <2>1, <2>2, OrphanType
<1> QED
  BY <1>1, <1>2, <1>3, OrderKept

\* The terms of a log are natural numbers.
LEMMA EntryTerms ==
    ASSUME NEW lg \in Seq(Entry)
    PROVE  Len(lg) \in Nat /\ \A j \in 1..Len(lg) : lg[j].term \in Nat
<1>1. \A j \in 1..Len(lg) : lg[j] \in Entry
  BY ElementOfSeq
<1> QED
  BY <1>1, LenProperties DEF Entry

\* Consecutive entries of an ordered log are ordered, and follow the entry
\* before them.
LEMMA OrderedPart ==
    ASSUME NEW lg \in Seq(Entry), NEW es \in Seq(Entry), NEW t,
           NEW prev \in 0..Len(lg), TermsOrdered(lg, t),
           \A i \in 1..Len(es) : prev + i \in 1..Len(lg) /\ es[i] = lg[prev + i]
    PROVE  /\ TermsOrdered(es, t)
           /\ \A j \in 1..Len(es) : TermAt(lg, prev) <= es[j].term
<1>1. /\ Len(lg) \in Nat /\ Len(es) \in Nat
      /\ \A j \in 1..Len(lg) : lg[j].term \in Nat
  BY EntryTerms
<1>2. \A j \in 1..Len(es) : es[j].term <= t
  BY DEF TermsOrdered
<1>3. ASSUME NEW i \in 1..Len(es), NEW j \in 1..Len(es), i <= j
      PROVE  es[i].term <= es[j].term
  <2>1. prev + i <= prev + j
    BY <1>1, <1>3
  <2> QED
    BY <2>1 DEF TermsOrdered
<1>4. ASSUME NEW j \in 1..Len(es) PROVE TermAt(lg, prev) <= es[j].term
  <2>1. CASE prev = 0
    BY <1>1, <2>1 DEF TermAt
  <2>2. CASE prev # 0
    <3>1. prev \in 1..Len(lg) /\ prev <= prev + j
      BY <1>1, <2>2
    <3> QED
      BY <2>2, <3>1 DEF TermsOrdered, TermAt
  <2> QED
    BY <2>1, <2>2
<1> QED
  BY <1>2, <1>3, <1>4 DEF TermsOrdered

\* An ordered log cut after keep, continued with ordered entries that took
\* over where both agree.
LEMMA OrderedJoin ==
    ASSUME NEW lg \in Seq(Entry), NEW es \in Seq(Entry), NEW new \in Seq(Entry),
           NEW t \in Nat, NEW u \in Nat, NEW v \in Nat, t <= v, u <= v,
           TermsOrdered(lg, t), TermsOrdered(es, u),
           NEW prev \in Nat, NEW keep \in prev..Len(lg), keep <= Len(new),
           \A j \in 1..Len(es) : TermAt(lg, prev) <= es[j].term,
           \A i \in (prev + 1)..keep :
              i - prev <= Len(es) => lg[i].term = es[i - prev].term,
           \A i \in 1..keep : new[i] = lg[i],
           \A i \in (keep + 1)..Len(new) :
              i - prev \in 1..Len(es) /\ new[i] = es[i - prev]
    PROVE  TermsOrdered(new, v)
<1>1. /\ Len(lg) \in Nat /\ Len(es) \in Nat /\ Len(new) \in Nat
      /\ \A j \in 1..Len(lg) : lg[j].term \in Nat
      /\ \A j \in 1..Len(es) : es[j].term \in Nat
  BY EntryTerms
<1>2. ASSUME NEW i \in 1..keep, NEW j \in 1..Len(es), j > keep - prev
      PROVE  lg[i].term <= es[j].term
  <2>0. keep \in 1..Len(lg) /\ i \in 1..Len(lg) /\ i <= keep
    BY <1>1
  <2>1. lg[i].term <= lg[keep].term
    BY <2>0 DEF TermsOrdered
  <2>2. lg[keep].term <= es[j].term
    <3>1. CASE keep = prev
      BY <2>0, <3>1 DEF TermAt
    <3>2. CASE keep # prev
      <4>1. /\ keep \in (prev + 1)..keep /\ keep - prev \in 1..Len(es)
            /\ keep - prev <= j /\ keep - prev <= Len(es)
        BY <1>1, <1>2, <2>0, <3>2
      <4>2. lg[keep].term = es[keep - prev].term
        BY <4>1
      <4>3. es[keep - prev].term <= es[j].term
        BY <4>1 DEF TermsOrdered
      <4> QED
        BY <4>2, <4>3
    <3> QED
      BY <3>1, <3>2
  <2>3. lg[i].term \in Nat /\ lg[keep].term \in Nat /\ es[j].term \in Nat
    BY <1>1, <2>0
  <2> QED
    BY SMTT(30), <2>1, <2>2, <2>3
<1>3. ASSUME NEW j \in 1..Len(new) PROVE new[j].term <= v
  <2>1. CASE j <= keep
    <3>1. j \in 1..keep /\ j \in 1..Len(lg)
      BY <1>1, <2>1
    <3>2. new[j].term = lg[j].term /\ lg[j].term <= t /\ lg[j].term \in Nat
      BY <1>1, <3>1 DEF TermsOrdered
    <3> QED
      BY <3>2
  <2>2. CASE j > keep
    <3>1. j \in (keep + 1)..Len(new)
      BY <1>1, <2>2
    <3>2. j - prev \in 1..Len(es) /\ new[j] = es[j - prev]
      BY <3>1
    <3>3. es[j - prev].term <= u /\ es[j - prev].term \in Nat
      BY <1>1, <3>2 DEF TermsOrdered
    <3> QED
      BY <3>2, <3>3
  <2> QED
    BY <1>1, <2>1, <2>2
<1>4. ASSUME NEW i \in 1..Len(new), NEW j \in 1..Len(new), i <= j
      PROVE  new[i].term <= new[j].term
  <2>1. CASE j <= keep
    <3>1. /\ i \in 1..keep /\ j \in 1..keep
          /\ i \in 1..Len(lg) /\ j \in 1..Len(lg)
      BY <1>1, <1>4, <2>1
    <3> QED
      BY <1>4, <3>1 DEF TermsOrdered
  <2>2. CASE i > keep
    <3>1. /\ i \in (keep + 1)..Len(new) /\ j \in (keep + 1)..Len(new)
          /\ i - prev <= j - prev
      BY <1>1, <1>4, <2>2
    <3>2. /\ i - prev \in 1..Len(es) /\ new[i] = es[i - prev]
          /\ j - prev \in 1..Len(es) /\ new[j] = es[j - prev]
      BY <3>1
    <3> QED
      BY <3>1, <3>2 DEF TermsOrdered
  <2>3. CASE i <= keep /\ j > keep
    <3>1. i \in 1..keep /\ j \in (keep + 1)..Len(new)
      BY <1>1, <2>3
    <3>2. /\ new[i] = lg[i]
          /\ j - prev \in 1..Len(es) /\ new[j] = es[j - prev]
      BY <3>1
    <3>3. j - prev > keep - prev
      BY <1>1, <2>3
    <3> QED
      BY <1>2, <3>1, <3>2, <3>3
  <2> QED
    BY <1>1, <2>1, <2>2, <2>3
<1> QED
  BY <1>3, <1>4 DEF TermsOrdered

\* A request is built from the log of its sender, in the sender's term.
LEMMA OrderBuildAppendEntries ==
    ASSUME OrderInv, TypeOK', NEW g \in goroutines, BuildAppendEntries(g)
    PROVE  OrderInv'
<1> DEFINE s == g.from
<1>0. s \in Server
  BY DEF OrderInv, TypeOK, CallTypeOK, Goroutine
<1>1. CASE Panic(s)
  BY <1>1, OrderDie DEF Panic
<1>2. CASE ~Panic(s)
  <2>1. UNCHANGED <<log, currentTerm>>
    BY <1>2 DEF BuildAppendEntries, nodeVars, logVars
  <2>2. PICK m \in SlotOf(g) :
          /\ ~BadNext(s, m)
          /\ requests' = requests \cup
               {[call |-> g.call, kind |-> "append", from |-> s, to |-> m,
                 term |-> currentTerm[s], prevLogIndex |-> nextIndex[s][m] - 1,
                 prevLogTerm |-> TermAt(log[s], nextIndex[s][m] - 1),
                 entries |-> EntriesFor(s, m),
                 leaderCommit |-> commitIndex[s], orphan |-> FALSE]}
    BY <1>2 DEF BuildAppendEntries
  <2> DEFINE lg == log[s]
             prev == nextIndex[s][m] - 1
             es == EntriesFor(s, m)
             q == [call |-> g.call, kind |-> "append", from |-> s, to |-> m,
                   term |-> currentTerm[s], prevLogIndex |-> prev,
                   prevLogTerm |-> TermAt(lg, prev), entries |-> es,
                   leaderCommit |-> commitIndex[s], orphan |-> FALSE]
  <2>3. m \in Server
    BY <1>0, SlotType DEF OrderInv
  <2>4. /\ prev \in 0..Len(lg) /\ es \in Seq(Entry)
        /\ \A i \in 1..Len(es) : prev + i \in 1..Len(lg) /\ es[i] = lg[prev + i]
    BY <1>0, <2>2, <2>3, BuiltRequest DEF OrderInv
  <2>5. lg \in Seq(Entry) /\ TermsOrdered(lg, currentTerm[s])
    BY <1>0 DEF OrderInv, TypeOK, LogTypeOK, LogTermsOrdered
  <2>6. /\ q.kind = "append" /\ q.term = currentTerm[s] /\ q.entries = es
        /\ q.prevLogTerm = TermAt(lg, prev)
    OBVIOUS
  <2>7. requests' = requests \cup {q}
    BY <2>2
  <2> HIDE DEF lg, prev, es, q
  <2>8. /\ TermsOrdered(es, currentTerm[s])
        /\ \A j \in 1..Len(es) : TermAt(lg, prev) <= es[j].term
    BY <2>4, <2>5, OrderedPart
  <2>9. RequestOrdered(q)
    BY <2>6, <2>8 DEF RequestOrdered
  <2>10. RequestsOrdered'
    BY <2>7, <2>9 DEF OrderInv, RequestsOrdered, RequestOrdered, TermsOrdered
  <2>11. LogTermsOrdered'
    BY <2>1 DEF OrderInv, LogTermsOrdered
  <2> QED
    BY <2>10, <2>11 DEF OrderInv
<1> QED
  BY <1>1, <1>2

\* The kept entries end where the sent ones take over: at the entry both have
\* with the same term, or at the one the request expects before its own.
LEMMA OrderAcceptAppendEntries ==
    ASSUME OrderInv, TypeOK', NEW r \in requests, AcceptAppendEntries(r)
    PROVE  OrderInv'
<1> DEFINE s == r.to
           prev == r.prevLogIndex
           es == r.entries
           lg == log[s]
<1>0. /\ r.kind = "append" /\ s \in Server /\ r.term \in Nat
      /\ prev \in Nat /\ r.prevLogTerm \in Nat /\ es \in Seq(Entry)
  BY RequestFields DEF AcceptAppendEntries, OrderInv
<1>1. /\ updateTerm(s, r.term)
      /\ requests' = requests \ {r}
      /\ validPreviousLog(s, r)
  BY DEF AcceptAppendEntries, ReceiveAppend
<1>2. PICK keep \in prev..Len(lg) :
         /\ Keeps(s, r, keep)
         /\ log' = [log EXCEPT ![s] = NewLog(s, r, keep)]
  BY DEF AcceptAppendEntries
<1>3. /\ currentTerm'[s] >= r.term
      /\ \A n \in Server : currentTerm'[n] >= currentTerm[n]
  BY <1>0, <1>1, UpdateTermType DEF OrderInv
<1> DEFINE newLog == NewLog(s, r, keep)
<1>4. /\ newLog \in Seq(Entry)
      /\ Len(newLog) \in Nat /\ keep \in 0..Len(newLog)
      /\ \A i \in 1..keep : newLog[i] = lg[i]
      /\ \A i \in (keep + 1)..Len(newLog) :
            i - prev \in 1..Len(es) /\ newLog[i] = es[i - prev]
  BY <1>0, NewLogShape DEF OrderInv
<1>5. RequestsOrdered'
  BY <1>1 DEF OrderInv, RequestsOrdered, RequestOrdered, TermsOrdered
<1>6. ASSUME NEW n \in Server, n # s
      PROVE  TermsOrdered(log'[n], currentTerm'[n])
  <2>1. log'[n] = log[n]
    BY <1>2, <1>6 DEF OrderInv, TypeOK, LogTypeOK
  <2>2. currentTerm'[n] = currentTerm[n]
    BY <1>1, <1>6 DEF updateTerm, OrderInv, TypeOK, NodeTypeOK
  <2> QED
    BY <2>1, <2>2 DEF OrderInv, LogTermsOrdered
<1>7. TermsOrdered(newLog, currentTerm'[s])
  <2>1. TermsOrdered(lg, currentTerm[s]) /\ TermsOrdered(es, r.term)
    BY <1>0 DEF OrderInv, LogTermsOrdered, RequestsOrdered, RequestOrdered
  <2>2. \A j \in 1..Len(es) : r.prevLogTerm <= es[j].term
    BY <1>0 DEF OrderInv, RequestsOrdered, RequestOrdered
  <2>3. /\ lg \in Seq(Entry) /\ Len(lg) \in Nat /\ Len(es) \in Nat
        /\ \A j \in 1..Len(es) : es[j].term \in Nat
    BY <1>0, EntryTerms DEF OrderInv, TypeOK, LogTypeOK
  <2>4. \A j \in 1..Len(es) : TermAt(lg, prev) <= es[j].term
    BY <1>0, <1>1, <2>2, <2>3 DEF validPreviousLog, TermAt
  <2>5. \A i \in (prev + 1)..keep :
           i - prev <= Len(es) => lg[i].term = es[i - prev].term
    <3>1. \A i \in (prev + 1)..keep : ~Conflict(s, r, i)
      BY <1>2 DEF Keeps
    <3> SUFFICES ASSUME NEW i \in (prev + 1)..keep, i - prev <= Len(es)
                 PROVE  lg[i].term = es[i - prev].term
      OBVIOUS
    <3>2. i \in Int /\ i <= Len(lg) /\ i <= prev + Len(es)
      BY <1>0, <2>3
    <3>3. ~(/\ i <= Len(lg)
            /\ i <= prev + Len(es)
            /\ lg[i].term # es[i - prev].term)
      BY <3>1, Zenon DEF Conflict, MatchOf
    <3> QED
      BY <3>2, <3>3, Zenon
  <2>6. /\ currentTerm'[s] \in Nat /\ currentTerm[s] \in Nat
        /\ r.term <= currentTerm'[s] /\ currentTerm[s] <= currentTerm'[s]
    BY <1>0, <1>3 DEF OrderInv, TypeOK, NodeTypeOK
  <2>7. keep \in prev..Len(lg) /\ keep <= Len(newLog)
    BY <1>4
  <2> HIDE DEF lg, es, prev, s, newLog
  <2> QED
    BY <1>0, <1>4, <2>1, <2>3, <2>4, <2>5, <2>6, <2>7, OrderedJoin
<1>8. log'[s] = newLog
  BY <1>0, <1>2 DEF OrderInv, TypeOK, LogTypeOK
<1>9. LogTermsOrdered'
  BY <1>6, <1>7, <1>8 DEF LogTermsOrdered
<1> QED
  BY <1>5, <1>9 DEF OrderInv

\* The steps that leave the logs alone and take requests away at most.
LEMMA OrderNoNews ==
    ASSUME OrderInv, TypeOK', UNCHANGED log,
           \A s \in Server : currentTerm'[s] >= currentTerm[s],
           \A r \in requests' : r.kind = "append" => r \in requests
    PROVE  OrderInv'
  BY OrderKept

\* Every step of an RPC keeps the order of terms.
LEMMA OrderCallStep ==
    ASSUME OrderInv, TypeOK', CallStep
    PROVE  OrderInv'
<1>0. TypeOK /\ (currentTerm' = currentTerm =>
                   \A n \in Server : currentTerm'[n] >= currentTerm[n])
  BY DEF OrderInv, TypeOK, NodeTypeOK
<1>1. ASSUME NEW g \in goroutines, BuildRequestVote(g) PROVE OrderInv'
  <2>1. CASE Panic(g.from)
    BY <2>1, OrderDie DEF Panic
  <2>2. CASE ~Panic(g.from)
    <3>1. UNCHANGED <<log, currentTerm>>
      BY <1>1, <2>2 DEF BuildRequestVote, nodeVars, logVars
    <3>2. \A r \in requests' : r.kind = "append" => r \in requests
      BY <1>1, <2>2 DEF BuildRequestVote
    <3> QED
      BY <1>0, <3>1, <3>2, OrderNoNews
  <2> QED
    BY <2>1, <2>2
<1>2. ASSUME NEW r \in requests,
             HandleRequestVoteRequest(r) \/ RefuseAppendEntries(r)
      PROVE  OrderInv'
  <2>1. updateTerm(r.to, r.term) /\ requests' = requests \ {r} /\ UNCHANGED log
    BY <1>2 DEF HandleRequestVoteRequest, RefuseAppendEntries, ReceiveAppend,
                logVars
  <2>2. \A n \in Server : currentTerm'[n] >= currentTerm[n]
    BY <1>0, <2>1, RequestFields, UpdateTermType
  <2> QED
    BY <2>1, <2>2, OrderNoNews
<1>3. ASSUME NEW r \in replies, StepDown(r) PROVE OrderInv'
  <2>1. updateTerm(r.from, r.rspTerm) /\ UNCHANGED <<log, requests>>
    BY <1>3 DEF StepDown, logVars
  <2>2. \A n \in Server : currentTerm'[n] >= currentTerm[n]
    BY <1>0, <2>1, ReplyFields, UpdateTermType
  <2> QED
    BY <2>1, <2>2, OrderNoNews
<1>4. ASSUME NEW r \in replies, HandleRequestVoteResponse(r) PROVE OrderInv'
  <2>1. CASE Panic(r.from)
    BY <2>1, OrderDie DEF Panic
  <2>2. CASE ~Panic(r.from) /\ ~StepDown(r)
    <3>1. UNCHANGED <<log, currentTerm, requests>>
      BY <1>4, <2>2 DEF HandleRequestVoteResponse, nodeVars, logVars
    <3> QED
      BY <1>0, <3>1, OrderNoNews
  <2> QED
    BY <1>3, <2>1, <2>2
<1>5. ASSUME NEW r \in replies, HandleAppendEntriesResponse(r) PROVE OrderInv'
  <2>1. CASE Panic(r.from)
    BY <2>1, OrderDie DEF Panic
  <2>2. CASE ~Panic(r.from) /\ ~StepDown(r)
    <3>1. UNCHANGED <<log, currentTerm, requests>>
      BY <1>5, <2>2 DEF HandleAppendEntriesResponse, nodeVars, logVars
    <3> QED
      BY <1>0, <3>1, OrderNoNews
  <2> QED
    BY <1>3, <2>1, <2>2
<1>6. CASE RPCError
  <2>1. UNCHANGED <<log, currentTerm>> /\ requests' \subseteq requests
    BY <1>6 DEF RPCError, nodeVars, logVars
  <2> QED
    BY <1>0, <2>1, OrderNoNews
<1> QED
  BY <1>1, <1>2, <1>4, <1>5, <1>6, OrderBuildAppendEntries,
     OrderAcceptAppendEntries DEF CallStep

\* Every step of the state loop keeps the order of terms.
LEMMA OrderServerStep ==
    ASSUME OrderInv, TypeOK', NEW s \in Server, ServerStep(s)
    PROVE  OrderInv'
<1>0. currentTerm \in [Server -> Nat] /\ log \in [Server -> Seq(Entry)]
  BY DEF OrderInv, TypeOK, NodeTypeOK, LogTypeOK
<1>1. CASE Timeout(s)
  <2>1. /\ currentTerm' = [currentTerm EXCEPT ![s] = currentTerm[s] + 1]
        /\ UNCHANGED <<log, requests>>
    BY <1>1 DEF Timeout, logVars
  <2>2. \A n \in Server : currentTerm'[n] >= currentTerm[n]
    BY <1>0, <2>1
  <2> QED
    BY <2>1, <2>2, OrderNoNews
<1>2. CASE LoopReadsState(s) \/ LeaveBranch(s) \/ heartbeat(s)
  <2>1. UNCHANGED <<log, currentTerm, requests>>
    BY <1>2 DEF LoopReadsState, LeaveBranch, heartbeat,
                nodeVars, logVars, callVars
  <2>2. \A n \in Server : currentTerm'[n] >= currentTerm[n]
    BY <1>0, <2>1
  <2> QED
    BY <2>1, <2>2, OrderNoNews
<1>3. CASE becomeLeader(s)
  <2>1. /\ log' = [log EXCEPT ![s] = Append(@, Noop(currentTerm[s]))]
        /\ UNCHANGED <<currentTerm, requests>>
    BY <1>3 DEF becomeLeader, callVars
  <2>2. Noop(currentTerm[s]) \in Entry /\ Noop(currentTerm[s]).term = currentTerm[s]
    BY <1>0 DEF Noop, Entry
  <2> QED
    BY <2>1, <2>2, OrderAppended
<1>4. CASE advanceCommitIndex(s)
  <2>1. CASE Panic(s)
    BY <2>1, OrderDie DEF Panic
  <2>2. CASE ~Panic(s)
    <3>1. UNCHANGED <<log, currentTerm, requests>>
      BY <1>4, <2>2, AdvanceChangesNoLog
    <3>2. \A n \in Server : currentTerm'[n] >= currentTerm[n]
      BY <1>0, <3>1
    <3> QED
      BY <3>1, <3>2, OrderNoNews
  <2> QED
    BY <2>1, <2>2
<1> QED
  BY <1>1, <1>2, <1>3, <1>4 DEF ServerStep

\* Apply() and AddServer() keep the order of terms.
LEMMA OrderClientStep ==
    ASSUME OrderInv, TypeOK', NEW s \in Server, ClientStep(s)
    PROVE  OrderInv'
<1>0. currentTerm \in [Server -> Nat] /\ cluster \in [Server -> SUBSET Server]
  BY DEF OrderInv, TypeOK, NodeTypeOK, PeerTypeOK
<1>1. ASSUME NEW v \in Value, Apply(s, v) PROVE OrderInv'
  <2> DEFINE e == Command(currentTerm[s], v)
  <2>1. e \in Entry /\ e.term = currentTerm[s]
    BY <1>0 DEF Command, Entry
  <2>2. /\ log' = [log EXCEPT ![s] = Append(@, e)]
        /\ UNCHANGED <<currentTerm, requests>>
    BY <1>1 DEF Apply, appendLocked, nodeVars
  <2> HIDE DEF e
  <2> QED
    BY <2>1, <2>2, OrderAppended
<1>2. ASSUME NEW id \in Server, AddServer(s, id) PROVE OrderInv'
  <2> DEFINE e == ConfigChange(currentTerm[s], cluster[s] \cup {id})
  <2>1. e \in Entry /\ e.term = currentTerm[s]
    BY <1>0 DEF ConfigChange, Entry
  <2>2. /\ log' = [log EXCEPT ![s] = Append(@, e)]
        /\ UNCHANGED <<currentTerm, requests>>
    BY <1>2 DEF AddServer, appendLocked, nodeVars
  <2> HIDE DEF e
  <2> QED
    BY <2>1, <2>2, OrderAppended
<1> QED
  BY <1>1, <1>2 DEF ClientStep

\* Crashes, kills and restarts keep the order of terms.
LEMMA OrderFaultStep ==
    ASSUME OrderInv, TypeOK', NEW s \in Server, FaultStep(s)
    PROVE  OrderInv'
<1>1. CASE Crash(s)
  BY <1>1, OrderDie DEF Crash
<1>2. CASE Stop(s) \/ Restart(s)
  <2>1. UNCHANGED <<log, currentTerm, requests>>
    BY <1>2 DEF Stop, Restart, logVars, callVars
  <2>2. \A n \in Server : currentTerm'[n] >= currentTerm[n]
    BY <2>1 DEF OrderInv, TypeOK, NodeTypeOK
  <2> QED
    BY <2>1, <2>2, OrderNoNews
<1> QED
  BY <1>1, <1>2 DEF FaultStep

\* Empty logs are in order.
LEMMA OrderInit == Init => OrderInv
  BY InitType DEF Init, OrderInv, LogTermsOrdered, TermsOrdered, RequestsOrdered

\* Every step keeps the inductive invariant of term order.
LEMMA OrderStep == OrderInv /\ [Next]_vars => OrderInv'
<1> SUFFICES ASSUME OrderInv, [Next]_vars PROVE OrderInv'
  OBVIOUS
<1>1. TypeOK'
  BY TypeStep DEF OrderInv
<1>2. CASE UNCHANGED vars
  <2>1. UNCHANGED <<log, currentTerm, requests>>
    BY <1>2 DEF vars, nodeVars, logVars, callVars
  <2>2. \A n \in Server : currentTerm'[n] >= currentTerm[n]
    BY <2>1 DEF OrderInv, TypeOK, NodeTypeOK
  <2> QED
    BY <1>1, <2>1, <2>2, OrderNoNews
<1> QED
  BY <1>1, <1>2, OrderCallStep, OrderServerStep, OrderClientStep,
     OrderFaultStep DEF Next

\* In every log terms never decrease, and none is later than the server's:
\* whatever old requests, late goroutines and restarts do, the comparison of
\* last entries that grants votes compares what it means to.
THEOREM LogTermsCorrect == Spec => []LogTermsOrdered
<1>1. OrderInv => LogTermsOrdered
  BY DEF OrderInv
<1> QED
  BY OrderInit, OrderStep, <1>1, PTL DEF Spec

-----------------------------------------------------------------------------
(* The members in force *)

MembersInv == TypeOK /\ LogMembersInForce

\* A step that changes neither a log nor a cluster keeps memberships in force.
LEMMA MembersKept ==
    ASSUME MembersInv, TypeOK', UNCHANGED <<log, cluster>>
    PROVE  MembersInv'
  BY DEF MembersInv, LogMembersInForce

\* A dying process changes no log and no cluster.
LEMMA MembersDie ==
    ASSUME MembersInv, TypeOK', NEW s, NEW how, Die(s, how)
    PROVE  MembersInv'
  BY MembersKept DEF Die, logVars, peerVars

\* One server's log and cluster change together.
LEMMA MembersUpdated ==
    ASSUME MembersInv, TypeOK', NEW s \in Server, NEW lg, NEW ms,
           log' = [log EXCEPT ![s] = lg], cluster' = [cluster EXCEPT ![s] = ms],
           ClusterOf(s, lg) \subseteq ms
    PROVE  MembersInv'
<1>1. ASSUME NEW n \in Server PROVE ClusterOf(n, log'[n]) \subseteq cluster'[n]
  <2>1. CASE n = s
    BY <2>1 DEF MembersInv, TypeOK, LogTypeOK, PeerTypeOK
  <2>2. CASE n # s
    BY <2>2 DEF MembersInv, LogMembersInForce, TypeOK, LogTypeOK, PeerTypeOK
  <2> QED
    BY <2>1, <2>2
<1> QED
  BY <1>1 DEF MembersInv, LogMembersInForce, ClusterOf, baseCluster

\* A leader appends an entry and counts the members it names at once.
LEMMA MembersOfAppend ==
    ASSUME NEW lg \in Seq(Entry), NEW e \in Entry
    PROVE  MembersIn(Append(lg, e)) \subseteq MembersIn(lg) \cup e.members
<1> SUFFICES ASSUME NEW i \in 1..Len(Append(lg, e))
             PROVE  \/ \E j \in 1..Len(lg) : Append(lg, e)[i] = lg[j]
                    \/ Append(lg, e)[i] = e
  BY DEF MembersIn
<1> QED
  BY AppendProperties, LenProperties

\* An appended entry whose members are in the cluster keeps memberships in
\* force.
LEMMA MembersAppended ==
    ASSUME MembersInv, TypeOK', NEW s \in Server, NEW e \in Entry, NEW ms,
           log' = [log EXCEPT ![s] = Append(@, e)],
           cluster' = [cluster EXCEPT ![s] = ms],
           cluster[s] \subseteq ms, e.members \subseteq ms
    PROVE  MembersInv'
<1>1. log[s] \in Seq(Entry) /\ ClusterOf(s, log[s]) \subseteq cluster[s]
  BY DEF MembersInv, LogMembersInForce, TypeOK, LogTypeOK
<1>2. ClusterOf(s, Append(log[s], e)) \subseteq ms
  BY <1>1, MembersOfAppend DEF ClusterOf
<1> QED
  BY <1>2, MembersUpdated

\* A follower that cuts its log rebuilds its members from what is left; one
\* that does not adds those of every entry sent.
LEMMA MembersAcceptAppendEntries ==
    ASSUME MembersInv, TypeOK', NEW r \in requests, AcceptAppendEntries(r)
    PROVE  MembersInv'
<1> DEFINE s == r.to
<1>0. r.kind = "append" /\ s \in Server
  BY RequestFields DEF AcceptAppendEntries, MembersInv
<1>1. PICK keep \in r.prevLogIndex..Len(log[s]) :
         /\ log' = [log EXCEPT ![s] = NewLog(s, r, keep)]
         /\ cluster' = [cluster EXCEPT ![s] = ClusterAfter(s, r, keep)]
  BY DEF AcceptAppendEntries
<1>2. MembersIn(NewLog(s, r, keep)) \subseteq MembersIn(log[s]) \cup MembersIn(r.entries)
  BY <1>0, NewLogShape DEF MembersInv
<1>3. ClusterOf(s, log[s]) \subseteq cluster[s]
  BY <1>0 DEF MembersInv, LogMembersInForce
<1>4. ClusterOf(s, NewLog(s, r, keep)) \subseteq ClusterAfter(s, r, keep)
  BY <1>2, <1>3 DEF ClusterAfter, ClusterOf, Joins
<1> QED
  BY <1>0, <1>1, <1>4, MembersUpdated

\* Every step of an RPC keeps memberships in force.
LEMMA MembersCallStep ==
    ASSUME MembersInv, TypeOK', CallStep
    PROVE  MembersInv'
<1>1. ASSUME NEW g \in goroutines, BuildRequestVote(g) \/ BuildAppendEntries(g)
      PROVE  MembersInv'
  <2>1. CASE Panic(g.from)
    BY <2>1, MembersDie DEF Panic
  <2>2. CASE ~Panic(g.from)
    BY <1>1, <2>2, MembersKept DEF BuildRequestVote, BuildAppendEntries,
                                  logVars, peerVars
  <2> QED
    BY <2>1, <2>2
<1>2. ASSUME NEW r \in requests,
             HandleRequestVoteRequest(r) \/ RefuseAppendEntries(r)
      PROVE  MembersInv'
  BY <1>2, MembersKept DEF HandleRequestVoteRequest, RefuseAppendEntries, logVars
<1>3. ASSUME NEW r \in replies,
             HandleRequestVoteResponse(r) \/ HandleAppendEntriesResponse(r)
      PROVE  MembersInv'
  <2>1. CASE Panic(r.from)
    BY <2>1, MembersDie DEF Panic
  <2>2. CASE StepDown(r)
    BY <2>2, MembersKept DEF StepDown, logVars
  <2>3. CASE ~Panic(r.from) /\ ~StepDown(r)
    BY <1>3, <2>3, MembersKept DEF HandleRequestVoteResponse,
                                  HandleAppendEntriesResponse, logVars
  <2> QED
    BY <2>1, <2>2, <2>3
<1>4. CASE RPCError
  BY <1>4, MembersKept DEF RPCError, logVars, peerVars
<1> QED
  BY <1>1, <1>2, <1>3, <1>4, MembersAcceptAppendEntries DEF CallStep

\* Every step of the state loop keeps memberships in force.
LEMMA MembersServerStep ==
    ASSUME MembersInv, TypeOK', NEW s \in Server, ServerStep(s)
    PROVE  MembersInv'
<1>0. /\ currentTerm[s] \in Nat /\ cluster \in [Server -> SUBSET Server]
  BY DEF MembersInv, TypeOK, NodeTypeOK, PeerTypeOK
<1>1. CASE \/ Timeout(s) \/ LoopReadsState(s) \/ LeaveBranch(s)
           \/ heartbeat(s)
  BY <1>1, MembersKept DEF Timeout, LoopReadsState, LeaveBranch, heartbeat,
                          logVars, peerVars
<1>2. CASE becomeLeader(s)
  <2>1. /\ log' = [log EXCEPT ![s] = Append(@, Noop(currentTerm[s]))]
        /\ cluster' = [cluster EXCEPT ![s] = cluster[s]]
    BY <1>0, <1>2 DEF becomeLeader
  <2>2. Noop(currentTerm[s]) \in Entry /\ Noop(currentTerm[s]).members = {}
    BY <1>0 DEF Noop, Entry
  <2> QED
    BY <2>1, <2>2, MembersAppended
<1>3. CASE advanceCommitIndex(s)
  <2>1. CASE Panic(s)
    BY <2>1, MembersDie DEF Panic
  <2>2. CASE ~Panic(s)
    BY <2>2, AdvanceChangesNoLog, MembersKept, <1>3
  <2> QED
    BY <2>1, <2>2
<1> QED
  BY <1>1, <1>2, <1>3 DEF ServerStep

\* Apply() and AddServer() keep memberships in force.
LEMMA MembersClientStep ==
    ASSUME MembersInv, TypeOK', NEW s \in Server, ClientStep(s)
    PROVE  MembersInv'
<1>0. /\ currentTerm[s] \in Nat /\ cluster \in [Server -> SUBSET Server]
  BY DEF MembersInv, TypeOK, NodeTypeOK, PeerTypeOK
<1>1. ASSUME NEW v \in Value, Apply(s, v) PROVE MembersInv'
  <2>1. /\ log' = [log EXCEPT ![s] = Append(@, Command(currentTerm[s], v))]
        /\ cluster' = [cluster EXCEPT ![s] = cluster[s]]
    BY <1>0, <1>1 DEF Apply, appendLocked, peerVars
  <2>2. /\ Command(currentTerm[s], v) \in Entry
        /\ Command(currentTerm[s], v).members = {}
    BY <1>0 DEF Command, Entry
  <2> QED
    BY <2>1, <2>2, MembersAppended
<1>2. ASSUME NEW id \in Server, AddServer(s, id) PROVE MembersInv'
  <2> DEFINE ms == cluster[s] \cup {id}
             e == ConfigChange(currentTerm[s], ms)
  <2>1. /\ log' = [log EXCEPT ![s] = Append(@, e)]
        /\ cluster' = [cluster EXCEPT ![s] = ms]
    BY <1>2 DEF AddServer, appendLocked
  <2>2. e \in Entry /\ e.members = ms /\ cluster[s] \subseteq ms
    BY <1>0 DEF ConfigChange, Entry
  <2> HIDE DEF e, ms
  <2> QED
    BY <2>1, <2>2, MembersAppended
<1> QED
  BY <1>1, <1>2 DEF ClientStep

\* Crashes, kills and restarts keep memberships in force.
LEMMA MembersFaultStep ==
    ASSUME MembersInv, TypeOK', NEW s \in Server, FaultStep(s)
    PROVE  MembersInv'
<1>1. CASE Crash(s)
  BY <1>1, MembersDie DEF Crash
<1>2. CASE Stop(s)
  BY <1>2, MembersKept DEF Stop, logVars, peerVars
<1>3. CASE Restart(s)
  <2>1. /\ log' = [log EXCEPT ![s] = log[s]]
        /\ cluster' = [cluster EXCEPT ![s] = ClusterOf(s, log[s])]
    BY <1>3 DEF Restart, MembersInv, TypeOK, LogTypeOK
  <2> QED
    BY <2>1, MembersUpdated
<1> QED
  BY <1>1, <1>2, <1>3 DEF FaultStep

\* Every server starts with its base cluster and an empty log.
LEMMA MembersInit == Init => MembersInv
<1> SUFFICES ASSUME Init, NEW s \in Server
             PROVE  ClusterOf(s, log[s]) \subseteq cluster[s]
  BY InitType DEF MembersInv, LogMembersInForce
<1>1. log[s] = <<>> /\ cluster[s] = baseCluster(s)
  BY DEF Init
<1> QED
  BY <1>1, EmptySeq DEF ClusterOf, MembersIn

\* Every step keeps the inductive invariant of memberships.
LEMMA MembersStep == MembersInv /\ [Next]_vars => MembersInv'
<1> SUFFICES ASSUME MembersInv, [Next]_vars PROVE MembersInv'
  OBVIOUS
<1>1. TypeOK'
  BY TypeStep DEF MembersInv
<1>2. CASE UNCHANGED vars
  BY <1>1, <1>2, MembersKept DEF vars, logVars, peerVars
<1> QED
  BY <1>1, <1>2, MembersCallStep, MembersServerStep, MembersClientStep,
     MembersFaultStep DEF Next

\* Every member a log names, founding members included, is in the server's
\* cluster: after an append, a truncation, a restart, its quorums count it.
THEOREM MembersCorrect == Spec => []LogMembersInForce
<1>1. MembersInv => LogMembersInForce
  BY DEF MembersInv
<1> QED
  BY MembersInit, MembersStep, <1>1, PTL DEF Spec

-----------------------------------------------------------------------------
(* One membership change at a time *)

\* A candidate has no entry of the term it stands in.
StandsAfterLog(s) ==
    state[s] = "candidate" =>
        \A i \in 1..Len(log[s]) : log[s][i].term < currentTerm[s]

\* Of the uncommitted config entries of a leader only the one that
\* s.pendingConfigChangeIndex names is its own.
PendingNamesChange(s) ==
    state[s] = "leader" =>
        \A i \in (commitIndex[s] + 1)..Len(log[s]) :
            log[s][i].cmd = "config" /\ log[s][i].term = currentTerm[s]
                => i = pendingConfig[s]

\* The order of the terms, and what a leader's pending change stands for.
ChangeInv ==
    OrderInv /\ \A s \in Server : StandsAfterLog(s) /\ PendingNamesChange(s)

\* n follows, or nothing of it that matters here changes.
FollowsOrKeeps(n) ==
    \/ state'[n] = "follower"
    \/ /\ state'[n] = state[n] /\ currentTerm'[n] = currentTerm[n]
       /\ log'[n] = log[n] /\ commitIndex'[n] = commitIndex[n]
       /\ pendingConfig'[n] = pendingConfig[n]

\* A server that follows or keeps its state keeps the invariant.
LEMMA ChangeKept ==
    ASSUME ChangeInv, NEW n \in Server, FollowsOrKeeps(n)
    PROVE  StandsAfterLog(n)' /\ PendingNamesChange(n)'
<1>1. CASE state'[n] = "follower"
  BY <1>1 DEF StandsAfterLog, PendingNamesChange
<1>2. CASE state'[n] # "follower"
  <2>1. /\ state'[n] = state[n] /\ currentTerm'[n] = currentTerm[n]
        /\ log'[n] = log[n] /\ commitIndex'[n] = commitIndex[n]
        /\ pendingConfig'[n] = pendingConfig[n]
    BY <1>2 DEF FollowsOrKeeps
  <2>2. StandsAfterLog(n) /\ PendingNamesChange(n)
    BY DEF ChangeInv
  <2> QED
    BY <2>1, <2>2 DEF StandsAfterLog, PendingNamesChange
<1> QED
  BY <1>1, <1>2

\* A message of a newer term makes a server follow; another one changes
\* nothing that matters here.
LEMMA UpdateTermFollows ==
    ASSUME TypeOK, NEW s \in Server, NEW t \in Nat, updateTerm(s, t),
           state' = [state EXCEPT ![s] = RoleAfter(s, t)],
           UNCHANGED <<log, commitIndex>>, NEW n \in Server
    PROVE  FollowsOrKeeps(n)
<1>1. /\ state \in [Server -> {"follower", "candidate", "leader"}]
      /\ currentTerm \in [Server -> Nat] /\ pendingConfig \in [Server -> Nat]
  BY DEF TypeOK, NodeTypeOK, PeerTypeOK
<1>2. CASE n = s
  BY <1>1, <1>2 DEF updateTerm, RoleAfter, TermAfter, PendingAfter, FollowsOrKeeps
<1>3. CASE n # s
  BY <1>1, <1>3 DEF updateTerm, FollowsOrKeeps
<1> QED
  BY <1>2, <1>3

\* A process that dies keeps what is written here of it.
LEMMA DieFollows ==
    ASSUME NEW s, NEW how, Die(s, how), NEW n \in Server
    PROVE  FollowsOrKeeps(n)
  BY DEF Die, FollowsOrKeeps, logVars, peerVars

\* A follower takes entries, and nobody else does.
LEMMA AcceptFollows ==
    ASSUME TypeOK, NEW r \in requests, AcceptAppendEntries(r), NEW n \in Server
    PROVE  FollowsOrKeeps(n)
<1>1. /\ state \in [Server -> {"follower", "candidate", "leader"}]
      /\ currentTerm \in [Server -> Nat] /\ pendingConfig \in [Server -> Nat]
      /\ log \in [Server -> Seq(Entry)] /\ commitIndex \in [Server -> Nat]
  BY DEF TypeOK, NodeTypeOK, PeerTypeOK, LogTypeOK
<1>2. /\ FollowsSender(r.to, r) /\ updateTerm(r.to, r.term)
      /\ state' = [state EXCEPT ![r.to] = RoleOnAppend(r.to, r)]
  BY DEF AcceptAppendEntries, ReceiveAppend
<1>3. CASE n = r.to
  BY <1>1, <1>2, <1>3 DEF FollowsSender, FollowsOrKeeps
<1>4. CASE n # r.to
  <2>1. state'[n] = state[n]
    BY <1>1, <1>2, <1>4
  <2>2. currentTerm'[n] = currentTerm[n] /\ pendingConfig'[n] = pendingConfig[n]
    BY <1>1, <1>2, <1>4 DEF updateTerm
  <2>3. \E lg, ci : /\ log' = [log EXCEPT ![r.to] = lg]
                    /\ commitIndex' = [commitIndex EXCEPT ![r.to] = ci]
    <3>1. PICK keep \in r.prevLogIndex..Len(log[r.to]) :
             /\ log' = [log EXCEPT ![r.to] = NewLog(r.to, r, keep)]
             /\ commitIndex' = [commitIndex EXCEPT ![r.to] =
                                   CommitOnAppend(r.to, r, NewLog(r.to, r, keep))]
      BY Zenon DEF AcceptAppendEntries
    <3> QED
      BY <3>1, Zenon
  <2>4. log'[n] = log[n] /\ commitIndex'[n] = commitIndex[n]
    BY <1>1, <1>4, <2>3
  <2> QED
    BY <2>1, <2>2, <2>4 DEF FollowsOrKeeps
<1> QED
  BY <1>3, <1>4

\* A request refused only concerns the role and the term.
LEMMA RefuseFollows ==
    ASSUME TypeOK, NEW r \in requests, RefuseAppendEntries(r), NEW n \in Server
    PROVE  FollowsOrKeeps(n)
<1>1. /\ state \in [Server -> {"follower", "candidate", "leader"}]
      /\ currentTerm \in [Server -> Nat] /\ pendingConfig \in [Server -> Nat]
      /\ r.to \in Server /\ r.term \in Nat
  BY RequestFields DEF TypeOK, NodeTypeOK, PeerTypeOK
<1>2. /\ updateTerm(r.to, r.term) /\ UNCHANGED <<log, commitIndex>>
      /\ state' = [state EXCEPT ![r.to] = RoleOnAppend(r.to, r)]
  BY DEF RefuseAppendEntries, ReceiveAppend, logVars
<1>3. CASE r.term = currentTerm[r.to] /\ state[r.to] = "candidate"
  <2>1. n = r.to => state'[n] = "follower"
    BY <1>1, <1>2, <1>3 DEF RoleOnAppend
  <2>2. n # r.to => FollowsOrKeeps(n)
    BY <1>1, <1>2 DEF updateTerm, FollowsOrKeeps
  <2> QED
    BY <2>1, <2>2 DEF FollowsOrKeeps
<1>4. CASE ~(r.term = currentTerm[r.to] /\ state[r.to] = "candidate")
  <2>1. RoleOnAppend(r.to, r) = RoleAfter(r.to, r.term)
    BY <1>4 DEF RoleOnAppend
  <2> QED
    BY <1>1, <1>2, <2>1, UpdateTermFollows
<1> QED
  BY <1>3, <1>4

\* Calls make a server follow, or leave its term, its log and its pending
\* change alone.
LEMMA CallFollows ==
    ASSUME TypeOK, CallStep, NEW n \in Server
    PROVE  FollowsOrKeeps(n)
<1>1. ASSUME NEW r \in replies, StepDown(r) PROVE FollowsOrKeeps(n)
  <2>1. r.from \in Server /\ r.rspTerm \in Nat
    BY ReplyFields
  <2>2. /\ updateTerm(r.from, r.rspTerm) /\ UNCHANGED <<log, commitIndex>>
        /\ state' = [state EXCEPT ![r.from] = RoleAfter(r.from, r.rspTerm)]
    BY <1>1 DEF StepDown, logVars
  <2> QED
    BY <2>1, <2>2, UpdateTermFollows
<1>2. ASSUME NEW s, Panic(s) PROVE FollowsOrKeeps(n)
  BY <1>2, DieFollows DEF Panic
<1>3. ASSUME UNCHANGED <<nodeVars, logVars, pendingConfig>>
      PROVE  FollowsOrKeeps(n)
  BY <1>3 DEF FollowsOrKeeps, nodeVars, logVars
<1>4. ASSUME NEW r \in requests, HandleRequestVoteRequest(r)
      PROVE  FollowsOrKeeps(n)
  <2>1. r.to \in Server /\ r.term \in Nat
    BY RequestFields
  <2>2. /\ updateTerm(r.to, r.term) /\ UNCHANGED <<log, commitIndex>>
        /\ state' = [state EXCEPT ![r.to] = RoleAfter(r.to, r.term)]
    BY <1>4 DEF HandleRequestVoteRequest, logVars
  <2> QED
    BY <2>1, <2>2, UpdateTermFollows
<1>5. ASSUME NEW g \in goroutines, BuildRequestVote(g) \/ BuildAppendEntries(g)
      PROVE  FollowsOrKeeps(n)
  <2>1. (\E s : Panic(s)) \/ UNCHANGED <<nodeVars, logVars, pendingConfig>>
    BY <1>5 DEF BuildRequestVote, BuildAppendEntries, peerVars
  <2> QED
    BY <1>2, <1>3, <2>1
<1>6. ASSUME NEW r \in replies,
             HandleRequestVoteResponse(r) \/ HandleAppendEntriesResponse(r)
      PROVE  FollowsOrKeeps(n)
  <2>1. \/ StepDown(r) \/ (\E s : Panic(s))
        \/ UNCHANGED <<nodeVars, logVars, pendingConfig>>
    BY <1>6 DEF HandleRequestVoteResponse, HandleAppendEntriesResponse
  <2> QED
    BY <1>1, <1>2, <1>3, <2>1
<1>7. CASE RPCError
  BY <1>3, <1>7 DEF RPCError, peerVars
<1> QED
  BY <1>4, <1>5, <1>6, <1>7, AcceptFollows, RefuseFollows DEF CallStep

\* timeout(): the new term is after every entry of the log.
LEMMA ChangeTimeout ==
    ASSUME ChangeInv, NEW s \in Server, Timeout(s), NEW n \in Server
    PROVE  StandsAfterLog(n)' /\ PendingNamesChange(n)'
<1>1. /\ state \in [Server -> {"follower", "candidate", "leader"}]
      /\ currentTerm \in [Server -> Nat] /\ \A m \in Server : currentTerm[m] \in Nat
      /\ log \in [Server -> Seq(Entry)]
      /\ TermsOrdered(log[s], currentTerm[s])
  BY DEF ChangeInv, OrderInv, TypeOK, NodeTypeOK, LogTypeOK, LogTermsOrdered
<1>2. /\ state' = [state EXCEPT ![s] = "candidate"]
      /\ currentTerm' = [currentTerm EXCEPT ![s] = @ + 1]
      /\ UNCHANGED <<logVars, pendingConfig>>
  BY DEF Timeout
<1>3. CASE n = s
  <2>1. /\ state'[n] = "candidate" /\ currentTerm'[n] = currentTerm[n] + 1
        /\ log'[n] = log[n]
    BY <1>1, <1>2, <1>3 DEF logVars
  <2>2. \A i \in 1..Len(log[n]) : log[n][i].term \in Nat
    <3>1. log[n] \in Seq(Entry)
      BY <1>1
    <3> QED
      BY <3>1, EntryTerms
  <2>3. \A i \in 1..Len(log[n]) : log[n][i].term < currentTerm[n] + 1
    BY <1>1, <1>3, <2>2 DEF TermsOrdered
  <2> QED
    BY <2>1, <2>3 DEF StandsAfterLog, PendingNamesChange
<1>4. CASE n # s
  <2>1. FollowsOrKeeps(n)
    BY <1>1, <1>2, <1>4 DEF FollowsOrKeeps, logVars
  <2> QED
    BY <2>1, ChangeKept
<1> QED
  BY <1>3, <1>4

\* becomeLeader(): the blank entry is the only one of the new leader's term.
LEMMA ChangeBecomeLeader ==
    ASSUME ChangeInv, "loop" \notin Late, NEW s \in Server, becomeLeader(s),
           NEW n \in Server
    PROVE  StandsAfterLog(n)' /\ PendingNamesChange(n)'
<1>1. /\ state \in [Server -> {"follower", "candidate", "leader"}]
      /\ currentTerm \in [Server -> Nat] /\ log \in [Server -> Seq(Entry)]
      /\ log[s] \in Seq(Entry) /\ Len(log[s]) \in Nat /\ currentTerm[s] \in Nat
      /\ commitIndex[s] \in Nat
  BY LenProperties DEF ChangeInv, OrderInv, TypeOK, NodeTypeOK, LogTypeOK
<1>2. /\ state[s] = "candidate"
      /\ state' = [state EXCEPT ![s] = "leader"]
      /\ log' = [log EXCEPT ![s] = Append(@, Noop(currentTerm[s]))]
      /\ UNCHANGED <<currentTerm, commitIndex, pendingConfig>>
  BY DEF becomeLeader, InBranch
<1>3. CASE n = s
  <2>1. PICK e \in Entry : e = Noop(currentTerm[s])
    BY <1>1 DEF Noop, Entry
  <2>2. state'[n] = "leader" /\ log'[n] = Append(log[n], e)
    BY <1>1, <1>2, <1>3, <2>1
  <2>3. /\ Len(log'[n]) = Len(log[n]) + 1
        /\ \A i \in 1..Len(log[n]) : log'[n][i] = log[n][i]
        /\ log'[n][Len(log[n]) + 1] = e
    BY <1>1, <1>3, <2>2, AppendProperties
  <2>4. e.cmd # "config"
    BY <2>1 DEF Noop
  <2>5. \A i \in 1..Len(log[n]) : log[n][i].term < currentTerm[n]
    BY <1>2, <1>3 DEF ChangeInv, StandsAfterLog
  <2>6. \A i \in 1..Len(log[n]) : log[n][i].term # currentTerm[n]
    <3>1. \A i \in 1..Len(log[n]) : log[n][i].term \in Nat
      BY <1>1, <1>3, EntryTerms
    <3> QED
      BY <1>1, <1>3, <2>5, <3>1
  <2>7. \A i \in (commitIndex'[n] + 1)..Len(log'[n]) :
           ~(log'[n][i].cmd = "config" /\ log'[n][i].term = currentTerm'[n])
    <3> SUFFICES ASSUME NEW i \in (commitIndex'[n] + 1)..Len(log'[n]),
                        log'[n][i].cmd = "config", log'[n][i].term = currentTerm'[n]
                 PROVE  FALSE
      OBVIOUS
    <3>1. i \in 1..(Len(log[n]) + 1)
      BY <1>1, <1>2, <1>3, <2>3
    <3>2. i # Len(log[n]) + 1
      BY <2>3, <2>4
    <3>3. i \in 1..Len(log[n])
      BY <1>1, <1>3, <3>1, <3>2
    <3>4. log[n][i].term = currentTerm[n]
      BY <1>2, <2>3, <3>3
    <3> QED
      BY <2>6, <3>3, <3>4
  <2> QED
    BY <2>2, <2>7 DEF StandsAfterLog, PendingNamesChange
<1>4. CASE n # s
  <2>1. FollowsOrKeeps(n)
    BY <1>1, <1>2, <1>4 DEF FollowsOrKeeps
  <2> QED
    BY <2>1, ChangeKept
<1> QED
  BY <1>3, <1>4

\* A leader appends: a command, or a change that it remembers as pending.
LEMMA ChangeAppend ==
    ASSUME ChangeInv, NEW s \in Server, state[s] = "leader",
           NEW e \in Entry, appendLocked(s, e), UNCHANGED nodeVars,
           NEW p, pendingConfig' = [pendingConfig EXCEPT ![s] = p],
           \/ e.cmd # "config" /\ p = pendingConfig[s]
           \/ pendingConfig[s] = 0 /\ p = Len(log[s]) + 1,
           NEW n \in Server
    PROVE  StandsAfterLog(n)' /\ PendingNamesChange(n)'
<1>1. /\ log \in [Server -> Seq(Entry)] /\ pendingConfig \in [Server -> Nat]
      /\ log[s] \in Seq(Entry) /\ Len(log[s]) \in Nat
      /\ commitIndex[s] \in Nat
  BY LenProperties DEF ChangeInv, OrderInv, TypeOK, NodeTypeOK, LogTypeOK, PeerTypeOK
<1>2. /\ log' = [log EXCEPT ![s] = Append(@, e)]
      /\ UNCHANGED <<state, currentTerm, commitIndex>>
  BY DEF appendLocked, nodeVars
<1>3. CASE n = s
  <2>1. /\ state'[n] = "leader" /\ log'[n] = Append(log[n], e)
        /\ pendingConfig'[n] = p
    BY <1>1, <1>2, <1>3
  <2>2. /\ Len(log'[n]) = Len(log[n]) + 1
        /\ \A i \in 1..Len(log[n]) : log'[n][i] = log[n][i]
        /\ log'[n][Len(log[n]) + 1] = e
    BY <1>1, <1>3, <2>1, AppendProperties
  <2>3. \A i \in (commitIndex[n] + 1)..Len(log[n]) :
           log[n][i].cmd = "config" /\ log[n][i].term = currentTerm[n]
             => i = pendingConfig[n]
    BY <1>3 DEF ChangeInv, PendingNamesChange
  <2>4. ASSUME NEW i \in (commitIndex'[n] + 1)..Len(log'[n]),
               log'[n][i].cmd = "config", log'[n][i].term = currentTerm'[n]
        PROVE  i = pendingConfig'[n]
    <3>1. CASE i = Len(log[n]) + 1
      BY <1>3, <2>1, <2>2, <2>4, <3>1
    <3>2. CASE i # Len(log[n]) + 1
      <4>1. i \in (commitIndex[n] + 1)..Len(log[n]) /\ i \in 1..Len(log[n])
        BY <1>1, <1>2, <1>3, <2>2, <3>2
      <4>2. log[n][i].cmd = "config" /\ log[n][i].term = currentTerm[n]
        BY <1>2, <2>2, <2>4, <4>1
      <4>3. i = pendingConfig[n]
        BY <2>3, <4>1, <4>2
      <4>4. pendingConfig[n] # 0
        BY <4>1, <4>3
      <4> QED
        BY <1>3, <2>1, <4>3, <4>4
    <3> QED
      BY <3>1, <3>2
  <2> QED
    BY <2>1, <2>4 DEF StandsAfterLog, PendingNamesChange
<1>4. CASE n # s
  <2>1. FollowsOrKeeps(n)
    BY <1>1, <1>2, <1>4 DEF FollowsOrKeeps
  <2> QED
    BY <2>1, ChangeKept
<1> QED
  BY <1>3, <1>4

\* advanceCommitIndex forgets a pending change only once it is committed.
LEMMA ChangeCommit ==
    ASSUME ChangeInv, NEW s \in Server, advanceCommitIndex(s), NEW n \in Server
    PROVE  StandsAfterLog(n)' /\ PendingNamesChange(n)'
<1>1. /\ commitIndex \in [Server -> Nat] /\ pendingConfig \in [Server -> Nat]
      /\ lastApplied[s] \in Nat /\ Len(log[s]) \in Nat /\ commitIndex[s] \in Nat
  BY LenProperties DEF ChangeInv, OrderInv, TypeOK, LogTypeOK, PeerTypeOK
<1>2. CASE Panic(s)
  <2>1. FollowsOrKeeps(n)
    BY <1>2, DieFollows DEF Panic
  <2> QED
    BY <2>1, ChangeKept
<1>3. CASE ~Panic(s)
  <2>1. PICK ci \in 0..Len(log[s]) \cup {commitIndex[s]} :
          /\ NewCommit(s, ci) /\ ApplyNext(s, ci)
          /\ commitIndex' = [commitIndex EXCEPT ![s] = ci]
          /\ UNCHANGED <<state, currentTerm, log>>
    BY <1>3, Zenon DEF advanceCommitIndex, nodeVars
  <2>2. ci \in Nat /\ ci >= commitIndex[s]
    <3>1. ci = commitIndex[s] \/ ci \in (commitIndex[s] + 1)..Len(log[s])
      BY <2>1 DEF NewCommit
    <3> QED
      BY <1>1, <3>1
  <2>3. \/ UNCHANGED pendingConfig
        \/ /\ pendingConfig[s] <= ci
           /\ pendingConfig' = [pendingConfig EXCEPT ![s] = 0]
    <3>1. CASE ~(lastApplied[s] <= ci)
      BY <2>1, <3>1 DEF ApplyNext
    <3>2. CASE lastApplied[s] <= ci
      <4>1. PICK x : pendingConfig' = [pendingConfig EXCEPT ![s] =
               IF x = "config" /\ @ = lastApplied[s] THEN 0 ELSE @]
        BY <2>1, <3>2, Zenon DEF ApplyNext
      <4> QED
        BY <1>1, <3>2, <4>1
    <3> QED
      BY <3>1, <3>2
  <2>4. CASE n = s
    <3>1. commitIndex'[n] = ci /\ state'[n] = state[n]
      BY <1>1, <2>1, <2>4
    <3>2. StandsAfterLog(n)'
      BY <2>1 DEF ChangeInv, StandsAfterLog
    <3>3. ASSUME state[n] = "leader", NEW i \in (commitIndex'[n] + 1)..Len(log'[n]),
                 log'[n][i].cmd = "config", log'[n][i].term = currentTerm'[n]
          PROVE  i = pendingConfig'[n]
      <4>1. i \in (commitIndex[n] + 1)..Len(log[n]) /\ i > ci
        BY <1>1, <2>1, <2>2, <2>4, <3>1
      <4>2. i = pendingConfig[n]
        BY <2>1, <3>3, <4>1 DEF ChangeInv, PendingNamesChange
      <4>3. ~(pendingConfig[s] <= ci)
        BY <2>2, <2>4, <4>1, <4>2
      <4> QED
        BY <2>3, <4>2, <4>3
    <3> QED
      BY <3>1, <3>2, <3>3 DEF PendingNamesChange
  <2>5. CASE n # s
    <3>1. FollowsOrKeeps(n)
      BY <1>1, <2>1, <2>3, <2>5 DEF FollowsOrKeeps
    <3> QED
      BY <3>1, ChangeKept
  <2> QED
    BY <2>4, <2>5
<1> QED
  BY <1>2, <1>3


\* The initial state: everybody follows.
LEMMA ChangeInit == Init => ChangeInv
  BY OrderInit DEF Init, ChangeInv, StandsAfterLog, PendingNamesChange

\* Every step keeps the invariant of membership changes.
LEMMA ChangeStep ==
    ASSUME "loop" \notin Late
    PROVE  ChangeInv /\ [Next]_vars => ChangeInv'
<1> SUFFICES ASSUME ChangeInv, [Next]_vars PROVE ChangeInv'
  OBVIOUS
<1>0. TypeOK /\ OrderInv'
  BY OrderStep DEF ChangeInv, OrderInv
<1> SUFFICES ASSUME NEW n \in Server
             PROVE  StandsAfterLog(n)' /\ PendingNamesChange(n)'
  BY <1>0 DEF ChangeInv
<1>1. CASE UNCHANGED vars
  <2>1. FollowsOrKeeps(n)
    BY <1>1 DEF vars, nodeVars, logVars, peerVars, FollowsOrKeeps
  <2> QED
    BY <2>1, ChangeKept
<1>2. CASE CallStep
  BY <1>0, <1>2, CallFollows, ChangeKept
<1>3. ASSUME NEW s \in Server, ServerStep(s)
      PROVE  StandsAfterLog(n)' /\ PendingNamesChange(n)'
  <2>1. CASE LoopReadsState(s) \/ LeaveBranch(s) \/ heartbeat(s)
    <3>1. FollowsOrKeeps(n)
      BY <2>1 DEF LoopReadsState, LeaveBranch, heartbeat, nodeVars, logVars,
           peerVars, FollowsOrKeeps
    <3> QED
      BY <3>1, ChangeKept
  <2> QED
    BY <1>3, <2>1, ChangeTimeout, ChangeBecomeLeader, ChangeCommit DEF ServerStep
<1>4. ASSUME NEW s \in Server, NEW v \in Value, Apply(s, v)
      PROVE  StandsAfterLog(n)' /\ PendingNamesChange(n)'
  <2>1. PICK e : e = Command(currentTerm[s], v)
    OBVIOUS
  <2>2. e \in Entry /\ e.cmd # "config"
    <3>1. currentTerm[s] \in Nat
      BY <1>0 DEF TypeOK, NodeTypeOK
    <3> QED
      BY <2>1, <3>1, ValueAssumption DEF Command, Entry
  <2>3. /\ state[s] = "leader" /\ appendLocked(s, e) /\ UNCHANGED nodeVars
        /\ UNCHANGED pendingConfig
    BY <1>4, <2>1 DEF Apply, peerVars
  <2>4. pendingConfig' = [pendingConfig EXCEPT ![s] = pendingConfig[s]]
    BY <1>0, <2>3 DEF TypeOK, PeerTypeOK
  <2> QED
    BY <2>2, <2>3, <2>4, ChangeAppend
<1>5. ASSUME NEW s \in Server, NEW id \in Server, AddServer(s, id)
      PROVE  StandsAfterLog(n)' /\ PendingNamesChange(n)'
  <2>1. PICK e : e = ConfigChange(currentTerm[s], cluster[s] \cup {id})
    OBVIOUS
  <2>2. e \in Entry
    BY <1>0, <2>1 DEF ConfigChange, Entry, TypeOK, NodeTypeOK, PeerTypeOK
  <2>3. /\ state[s] = "leader" /\ appendLocked(s, e) /\ UNCHANGED nodeVars
        /\ pendingConfig[s] = 0
        /\ pendingConfig' = [pendingConfig EXCEPT ![s] = Len(log[s]) + 1]
    BY <1>5, <2>1 DEF AddServer, MayAdd
  <2> QED
    BY <2>2, <2>3, ChangeAppend
<1>6. ASSUME NEW s \in Server, FaultStep(s)
      PROVE  StandsAfterLog(n)' /\ PendingNamesChange(n)'
  <2>1. CASE Crash(s) \/ Stop(s)
    <3>1. FollowsOrKeeps(n)
      BY <2>1, DieFollows DEF Crash, Stop, logVars, peerVars, FollowsOrKeeps
    <3> QED
      BY <3>1, ChangeKept
  <2>2. CASE Restart(s)
    <3>1. FollowsOrKeeps(n)
      BY <1>0, <2>2 DEF Restart, FollowsOrKeeps, TypeOK, NodeTypeOK, LogTypeOK,
           PeerTypeOK
    <3> QED
      BY <3>1, ChangeKept
  <2> QED
    BY <1>6, <2>1, <2>2 DEF FaultStep
<1> QED
  BY <1>1, <1>2, <1>3, <1>4, <1>5, <1>6 DEF Next, ClientStep

\* AddServer's gate works across elections and truncations: a leader has at
\* most one uncommitted change of its own, whatever is lost, delayed or
\* forgotten, as long as its state loop does not act on a role it read in an
\* earlier term.
THEOREM OneChangeAtATimeCorrect ==
    ASSUME "loop" \notin Late
    PROVE  Spec => []OneChangeAtATime
<1>1. ChangeInv => OneChangeAtATime
  <2> SUFFICES ASSUME ChangeInv, NEW s \in Server, state[s] = "leader"
               PROVE  Cardinality({i \in Uncommitted(s) :
                                       log[s][i].term = currentTerm[s]}) <= 1
    BY DEF OneChangeAtATime
  <2>1. {i \in Uncommitted(s) : log[s][i].term = currentTerm[s]}
           \subseteq {pendingConfig[s]}
    BY DEF ChangeInv, PendingNamesChange, Uncommitted
  <2>2. IsFiniteSet({pendingConfig[s]}) /\ Cardinality({pendingConfig[s]}) = 1
    BY FS_Singleton
  <2> QED
    BY <2>1, <2>2, FS_Subset
<1>2. ChangeInv /\ [Next]_vars => ChangeInv'
  BY ChangeStep
<1> QED
  BY <1>1, <1>2, ChangeInit, PTL DEF Spec

-----------------------------------------------------------------------------
(* Where entries stand: logs and requests agree *)

\* A run of entries that starts after index prev, behind an entry of term pt,
\* has e at index i, behind an entry of term t.
PartHas(prev, pt, es, i, t, e) ==
    /\ i \in Nat /\ i - prev \in 1..Len(es) /\ e = es[i - prev]
    /\ t = IF i = 1 THEN 0 ELSE IF i = prev + 1 THEN pt ELSE es[i - prev - 1].term

\* A log, or an AppendEntries request that may still be handled, has e at
\* index i behind an entry of term t.
Placed(i, t, e) ==
    \/ \E s \in Server : PartHas(0, 0, log[s], i, t, e)
    \/ \E r \in requests :
          /\ r.kind = "append"
          /\ PartHas(r.prevLogIndex, r.prevLogTerm, r.entries, i, t, e)

\* The inductive invariant: an index and a term stand for one entry and for
\* one term before it, wherever they are met;
PlaceUnique ==
    \A i, t, e, u, f :
        Placed(i, t, e) /\ Placed(i, u, f) /\ e.term = f.term => t = u /\ e = f

\* and a leader has appended in its term, is the only one of it, dead ones
\* included, and nothing of its term stands beyond its log.
Leads(s) ==
    state[s] = "leader" =>
        /\ \E i \in 1..Len(log[s]) : log[s][i].term = currentTerm[s]
        /\ \A u \in Server :
              state[u] = "leader" /\ currentTerm[u] = currentTerm[s] => u = s
        /\ \A i, t, e :
              Placed(i, t, e) /\ e.term = currentTerm[s] => i <= Len(log[s])

PlacesInv == TypeOK /\ PlaceUnique /\ \A s \in Server : Leads(s)

\* What a step may do to the leadership of n without any harm: end it, or
\* leave it alone.
LeadsOrKeeps(n) ==
    state'[n] = "leader" =>
        /\ state[n] = "leader"
        /\ currentTerm'[n] = currentTerm[n] /\ log'[n] = log[n]

\* A step that puts no entry where it was not.
PutsNothing == \A i, t, e : Placed(i, t, e)' => Placed(i, t, e)

\* A step that puts no entry anywhere and makes nobody leader.
LEMMA PlacesKept ==
    ASSUME PlacesInv, TypeOK', \A n \in Server : LeadsOrKeeps(n), PutsNothing
    PROVE  PlacesInv'
<1>1. PlaceUnique'
  BY DEF PlacesInv, PlaceUnique, PutsNothing
<1>2. ASSUME NEW s \in Server, state'[s] = "leader"
      PROVE  /\ \E i \in 1..Len(log'[s]) : log'[s][i].term = currentTerm'[s]
             /\ \A u \in Server :
                   state'[u] = "leader" /\ currentTerm'[u] = currentTerm'[s]
                     => u = s
             /\ \A i, t, e :
                   Placed(i, t, e)' /\ e.term = currentTerm'[s]
                     => i <= Len(log'[s])
  <2>1. /\ Leads(s) /\ state[s] = "leader"
        /\ currentTerm'[s] = currentTerm[s] /\ log'[s] = log[s]
    BY <1>2 DEF PlacesInv, LeadsOrKeeps
  <2>2. \A u \in Server : state'[u] = "leader"
           => state[u] = "leader" /\ currentTerm'[u] = currentTerm[u]
    BY DEF LeadsOrKeeps
  <2> QED
    BY <2>1, <2>2 DEF Leads, PutsNothing
<1> QED
  BY <1>1, <1>2 DEF PlacesInv, Leads

\* A step that leaves the logs alone and sends nothing new adds no place.
LEMMA NothingSent ==
    ASSUME UNCHANGED log,
           \A r \in requests' :
              r.kind = "append" =>
                \E q \in requests :
                    /\ q.kind = "append" /\ q.entries = r.entries
                    /\ q.prevLogIndex = r.prevLogIndex
                    /\ q.prevLogTerm = r.prevLogTerm
    PROVE  PutsNothing
<1> SUFFICES ASSUME NEW i, NEW t, NEW e, Placed(i, t, e)' PROVE Placed(i, t, e)
  BY DEF PutsNothing
<1>1. \/ \E s \in Server : PartHas(0, 0, log'[s], i, t, e)
      \/ \E r \in requests' :
            /\ r.kind = "append"
            /\ PartHas(r.prevLogIndex, r.prevLogTerm, r.entries, i, t, e)
  BY DEF Placed, PartHas
<1> QED
  BY <1>1 DEF Placed

\* A dying process sends nothing.
LEMMA PutsDie ==
    ASSUME TypeOK, NEW s, NEW how, Die(s, how)
    PROVE  PutsNothing
<1>1. ASSUME NEW r \in requests', r.kind = "append"
      PROVE  \E q \in requests :
                /\ q.kind = "append" /\ q.entries = r.entries
                /\ q.prevLogIndex = r.prevLogIndex
                /\ q.prevLogTerm = r.prevLogTerm
  <2>1. PICK q \in requests : r = IF q.from = s THEN [q EXCEPT !.orphan = TRUE]
                                  ELSE q
    BY DEF Die
  <2>2. q \in VoteRequest \cup AppendRequest
    BY DEF TypeOK, CallTypeOK
  <2>3. \/ r = q
        \/ /\ r.kind = q.kind /\ (r.kind = "append" => r.entries = q.entries
                                  /\ r.prevLogIndex = q.prevLogIndex
                                  /\ r.prevLogTerm = q.prevLogTerm)
    BY <2>1, <2>2 DEF VoteRequest, AppendRequest
  <2> QED
    BY <1>1, <2>3
<1>2. UNCHANGED log
  BY DEF Die, logVars
<1> QED
  BY <1>1, <1>2, NothingSent

\* A leader, or a new one in a term without entries, appends an entry of its
\* term.
LEMMA PlacesAppended ==
    ASSUME PlacesInv, TypeOK', NEW s \in Server, NEW e \in Entry,
           e.term = currentTerm[s], log' = [log EXCEPT ![s] = Append(@, e)],
           UNCHANGED <<currentTerm, requests>>,
           state' = [state EXCEPT ![s] = "leader"],
           state[s] = "leader" \/ ~EntryOf(currentTerm[s])
    PROVE  PlacesInv'
<1>1. /\ log \in [Server -> Seq(Entry)] /\ log[s] \in Seq(Entry)
      /\ Len(log[s]) \in Nat /\ state \in [Server -> {"follower", "candidate", "leader"}]
  BY LenProperties DEF PlacesInv, TypeOK, LogTypeOK, NodeTypeOK
<1>2. PICK lg, new : lg = log[s] /\ new = Append(lg, e)
  OBVIOUS
<1>3. /\ Len(new) = Len(lg) + 1 /\ Len(lg) \in Nat
      /\ \A i \in 1..Len(lg) : new[i] = lg[i]
      /\ new[Len(lg) + 1] = e
  BY <1>1, <1>2, AppendProperties
<1>4. /\ log'[s] = new /\ state'[s] = "leader"
      /\ \A n \in Server \ {s} : log'[n] = log[n] /\ state'[n] = state[n]
  BY <1>1, <1>2
<1>5. \A i, t, f : PartHas(0, 0, new, i, t, f)
         => \/ PartHas(0, 0, lg, i, t, f)
            \/ i = Len(lg) + 1 /\ f = e /\ t = IF i = 1 THEN 0 ELSE lg[i - 1].term
  <2> SUFFICES ASSUME NEW i, NEW t, NEW f, PartHas(0, 0, new, i, t, f),
                      i # Len(lg) + 1 \/ i = Len(lg) + 1
               PROVE  \/ PartHas(0, 0, lg, i, t, f)
                      \/ /\ i = Len(lg) + 1 /\ f = e
                         /\ t = IF i = 1 THEN 0 ELSE lg[i - 1].term
    OBVIOUS
  <2>1. /\ i \in 1..(Len(lg) + 1) /\ f = new[i]
        /\ t = IF i = 1 THEN 0 ELSE new[i - 1].term
    BY <1>3 DEF PartHas
  <2>2. i # 1 => i - 1 \in 1..Len(lg) /\ new[i - 1] = lg[i - 1]
    BY <1>3, <2>1
  <2>3. CASE i = Len(lg) + 1
    BY <1>3, <2>1, <2>2, <2>3
  <2>4. CASE i # Len(lg) + 1
    <3>1. i \in 1..Len(lg) /\ new[i] = lg[i]
      BY <1>3, <2>1, <2>4
    <3> QED
      BY <1>3, <2>1, <2>2, <3>1 DEF PartHas
  <2> QED
    BY <2>3, <2>4
<1>6. \A i, t, f : Placed(i, t, f)'
         => \/ Placed(i, t, f)
            \/ i = Len(lg) + 1 /\ f = e /\ t = IF i = 1 THEN 0 ELSE lg[i - 1].term
  <2> SUFFICES ASSUME NEW i, NEW t, NEW f, Placed(i, t, f)', ~Placed(i, t, f)
               PROVE  /\ i = Len(lg) + 1 /\ f = e
                      /\ t = IF i = 1 THEN 0 ELSE lg[i - 1].term
    OBVIOUS
  <2>1. \/ \E n \in Server : PartHas(0, 0, log'[n], i, t, f)
        \/ \E r \in requests :
              /\ r.kind = "append"
              /\ PartHas(r.prevLogIndex, r.prevLogTerm, r.entries, i, t, f)
    BY DEF Placed, PartHas
  <2>2. PICK n \in Server : PartHas(0, 0, log'[n], i, t, f)
    BY <2>1 DEF Placed
  <2>3. ~PartHas(0, 0, log[n], i, t, f)
    BY DEF Placed
  <2>4. n = s
    BY <1>4, <2>2, <2>3
  <2> QED
    BY <1>2, <1>4, <1>5, <2>2, <2>3, <2>4
<1>7. \A i, t, f : Placed(i, t, f) /\ f.term = currentTerm[s] => i <= Len(lg)
  <2>1. CASE state[s] = "leader"
    BY <1>2, <2>1 DEF PlacesInv, Leads
  <2>2. CASE ~EntryOf(currentTerm[s])
    BY <2>2, Zenon DEF EntryOf, Placed, PartHas
  <2> QED
    BY <2>1, <2>2
<1>8. \A u \in Server :
         state[u] = "leader" /\ currentTerm[u] = currentTerm[s] => u = s
  <2>1. CASE state[s] = "leader"
    BY <2>1 DEF PlacesInv, Leads
  <2>2. CASE ~EntryOf(currentTerm[s])
    BY <2>2 DEF EntryOf, PlacesInv, Leads
  <2> QED
    BY <2>1, <2>2
<1>9. PlaceUnique'
  <2> SUFFICES ASSUME NEW i, NEW t, NEW f, NEW u, NEW g,
                      Placed(i, t, f)', Placed(i, u, g)', f.term = g.term
               PROVE  t = u /\ f = g
    BY DEF PlaceUnique
  <2>1. CASE Placed(i, t, f) /\ Placed(i, u, g)
    BY <2>1 DEF PlacesInv, PlaceUnique
  <2>2. CASE ~(Placed(i, t, f) /\ Placed(i, u, g))
    <3>1. i = Len(lg) + 1 /\ g.term = currentTerm[s] /\ f.term = currentTerm[s]
      BY <1>6, <2>2
    <3>2. ~Placed(i, t, f) /\ ~Placed(i, u, g)
      BY <1>3, <1>7, <3>1
    <3> QED
      BY <1>6, <3>2
  <2> QED
    BY <2>1, <2>2
<1>10. ASSUME NEW n \in Server, state'[n] = "leader"
       PROVE  /\ \E i \in 1..Len(log'[n]) : log'[n][i].term = currentTerm'[n]
              /\ \A u \in Server :
                    state'[u] = "leader" /\ currentTerm'[u] = currentTerm'[n]
                      => u = n
              /\ \A i, t, f :
                    Placed(i, t, f)' /\ f.term = currentTerm'[n]
                      => i <= Len(log'[n])
  <2>1. CASE n = s
    <3>1. \E i \in 1..Len(log'[n]) : log'[n][i].term = currentTerm'[n]
      BY <1>3, <1>4, <2>1
    <3>2. \A u \in Server :
             state'[u] = "leader" /\ currentTerm'[u] = currentTerm'[n] => u = n
      BY <1>4, <1>8, <2>1
    <3>3. \A i, t, f : Placed(i, t, f)' /\ f.term = currentTerm'[n]
             => i <= Len(log'[n])
      <4> SUFFICES ASSUME NEW i, NEW t, NEW f, Placed(i, t, f)',
                          f.term = currentTerm'[n]
                   PROVE  i <= Len(log'[n])
        OBVIOUS
      <4>1. CASE Placed(i, t, f)
        <5>1. i \in Nat
          BY <4>1 DEF Placed, PartHas
        <5>2. f.term = currentTerm[s]
          BY <2>1
        <5>3. i <= Len(lg)
          BY <1>7, <4>1, <5>2
        <5> QED
          BY <1>3, <1>4, <2>1, <5>1, <5>3
      <4>2. CASE ~Placed(i, t, f)
        BY <1>3, <1>4, <1>6, <2>1, <4>2
      <4> QED
        BY <4>1, <4>2
    <3> QED
      BY <3>1, <3>2, <3>3
  <2>2. CASE n # s
    <3>1. /\ state[n] = "leader" /\ log'[n] = log[n] /\ Leads(n)
          /\ currentTerm[n] # currentTerm[s]
      BY <1>4, <1>8, <1>10, <2>2 DEF PlacesInv
    <3>2. \A u \in Server :
             state'[u] = "leader" /\ currentTerm'[u] = currentTerm'[n] => u = n
      BY <1>4, <3>1 DEF Leads
    <3>3. \A i, t, f : Placed(i, t, f)' /\ f.term = currentTerm'[n]
             => i <= Len(log'[n])
      BY <1>6, <3>1 DEF Leads
    <3> QED
      BY <3>1, <3>2, <3>3 DEF Leads
  <2> QED
    BY <2>1, <2>2
<1> QED
  BY <1>9, <1>10 DEF PlacesInv, Leads


\* A term has entries when some place has one of it.
EntriesPlaced ==
    \A t : EntryOf(t) <=> \E i, u, e : Placed(i, u, e) /\ e.term = t

\* Entries are met in logs and requests only.
LEMMA EntryPlaced == TypeOK => EntriesPlaced
<1> SUFFICES ASSUME TypeOK, NEW t
             PROVE  EntryOf(t) <=> \E i, u, e : Placed(i, u, e) /\ e.term = t
  BY DEF EntriesPlaced
<1>1. ASSUME NEW s \in Server, NEW i \in 1..Len(log[s]), log[s][i].term = t
      PROVE  \E j, u, e : Placed(j, u, e) /\ e.term = t
  <2>1. PICK u : u = IF i = 1 THEN 0 ELSE log[s][i - 1].term
    OBVIOUS
  <2>2. PartHas(0, 0, log[s], i, u, log[s][i])
    <3>1. Len(log[s]) \in Nat
      BY LenProperties DEF TypeOK, LogTypeOK
    <3>2. /\ i \in Nat /\ i - 0 \in 1..Len(log[s]) /\ i - 0 = i
          /\ (i = 0 + 1 <=> i = 1) /\ i - 0 - 1 = i - 1
      BY <3>1
    <3> QED
      BY <2>1, <3>2 DEF PartHas
  <2> QED
    BY <1>1, <2>2 DEF Placed
<1>2. ASSUME NEW r \in requests, r.kind = "append", NEW k \in 1..Len(r.entries),
             r.entries[k].term = t
      PROVE  \E j, u, e : Placed(j, u, e) /\ e.term = t
  <2>1. r.prevLogIndex \in Nat /\ Len(r.entries) \in Nat
    BY <1>2, RequestFields, LenProperties
  <2>2. PICK i : i = r.prevLogIndex + k
    OBVIOUS
  <2>3. PICK u : u = IF i = 1 THEN 0 ELSE
                     IF i = r.prevLogIndex + 1 THEN r.prevLogTerm
                     ELSE r.entries[i - r.prevLogIndex - 1].term
    OBVIOUS
  <2>4. i \in Nat /\ i - r.prevLogIndex = k
    BY <2>1, <2>2
  <2>5. PartHas(r.prevLogIndex, r.prevLogTerm, r.entries, i, u, r.entries[k])
    BY <2>3, <2>4 DEF PartHas
  <2> QED
    BY <1>2, <2>5 DEF Placed
<1>3. ASSUME NEW i, NEW u, NEW e, Placed(i, u, e), e.term = t
      PROVE  EntryOf(t)
  <2>1. CASE \E s \in Server : PartHas(0, 0, log[s], i, u, e)
    <3>1. PICK s \in Server : PartHas(0, 0, log[s], i, u, e)
      BY <2>1
    <3>2. i - 0 \in 1..Len(log[s]) /\ e = log[s][i - 0]
      BY <3>1 DEF PartHas
    <3> QED
      BY <1>3, <3>2 DEF EntryOf
  <2>2. CASE \E r \in requests :
                /\ r.kind = "append"
                /\ PartHas(r.prevLogIndex, r.prevLogTerm, r.entries, i, u, e)
    BY <1>3, <2>2, Zenon DEF EntryOf, PartHas
  <2> QED
    BY <1>3, <2>1, <2>2 DEF Placed
<1> QED
  BY <1>1, <1>2, <1>3 DEF EntryOf

\* What a request carries its sender's log carries.
LEMMA PartPlaced ==
    ASSUME NEW lg \in Seq(Entry), NEW es \in Seq(Entry), NEW prev \in 0..Len(lg),
           \A i \in 1..Len(es) : prev + i \in 1..Len(lg) /\ es[i] = lg[prev + i],
           NEW i, NEW t, NEW e, PartHas(prev, TermAt(lg, prev), es, i, t, e)
    PROVE  PartHas(0, 0, lg, i, t, e)
<1>0. Len(lg) \in Nat /\ Len(es) \in Nat
  BY LenProperties
<1>1. /\ i \in Nat /\ i - prev \in 1..Len(es) /\ e = es[i - prev]
      /\ t = IF i = 1 THEN 0 ELSE
             IF i = prev + 1 THEN TermAt(lg, prev) ELSE es[i - prev - 1].term
  BY DEF PartHas
<1>2. prev + (i - prev) = i
  BY <1>0, <1>1
<1>3. i \in 1..Len(lg) /\ e = lg[i]
  BY <1>1, <1>2
<1>4. t = IF i = 1 THEN 0 ELSE lg[i - 1].term
  <2>1. CASE i = 1
    BY <1>1, <2>1
  <2>2. CASE i # 1 /\ i = prev + 1
    BY <1>0, <1>1, <2>2 DEF TermAt
  <2>3. CASE i # 1 /\ i # prev + 1
    <3>1. i - prev - 1 \in 1..Len(es) /\ prev + (i - prev - 1) = i - 1
      BY SMTT(30), <1>0, <1>1, <2>3
    <3> QED
      BY <1>1, <2>3, <3>1
  <2> QED
    BY <2>1, <2>2, <2>3
<1> QED
  BY <1>0, <1>3, <1>4 DEF PartHas

\* A request is built from places of its sender's log.
LEMMA PutsBuildAppendEntries ==
    ASSUME TypeOK, NEW g \in goroutines, BuildAppendEntries(g)
    PROVE  PutsNothing
<1> DEFINE s == g.from
<1>0. s \in Server
  BY DEF TypeOK, CallTypeOK, Goroutine
<1>1. CASE Panic(s)
  BY <1>1, PutsDie DEF Panic
<1>2. CASE ~Panic(s)
  <2>1. UNCHANGED log
    BY <1>2 DEF BuildAppendEntries, logVars
  <2>2. PICK m \in SlotOf(g) :
          /\ ~BadNext(s, m)
          /\ requests' = requests \cup
               {[call |-> g.call, kind |-> "append", from |-> s, to |-> m,
                 term |-> currentTerm[s], prevLogIndex |-> nextIndex[s][m] - 1,
                 prevLogTerm |-> TermAt(log[s], nextIndex[s][m] - 1),
                 entries |-> EntriesFor(s, m),
                 leaderCommit |-> commitIndex[s], orphan |-> FALSE]}
    BY <1>2 DEF BuildAppendEntries
  <2> DEFINE lg == log[s]
             prev == nextIndex[s][m] - 1
             es == EntriesFor(s, m)
             q == [call |-> g.call, kind |-> "append", from |-> s, to |-> m,
                   term |-> currentTerm[s], prevLogIndex |-> prev,
                   prevLogTerm |-> TermAt(lg, prev), entries |-> es,
                   leaderCommit |-> commitIndex[s], orphan |-> FALSE]
  <2>3. m \in Server
    BY <1>0, SlotType
  <2>4. /\ prev \in 0..Len(lg) /\ es \in Seq(Entry)
        /\ \A i \in 1..Len(es) : prev + i \in 1..Len(lg) /\ es[i] = lg[prev + i]
    BY <1>0, <2>2, <2>3, BuiltRequest
  <2>5. lg \in Seq(Entry)
    BY <1>0 DEF TypeOK, LogTypeOK
  <2>6. /\ q.entries = es /\ q.prevLogIndex = prev
        /\ q.prevLogTerm = TermAt(lg, prev)
    OBVIOUS
  <2>7. requests' = requests \cup {q}
    BY <2>2
  <2>8. PICK lg1, prev1, es1, q1 : lg1 = lg /\ prev1 = prev /\ es1 = es /\ q1 = q
    OBVIOUS
  <2> HIDE DEF lg, prev, es, q
  <2>9. \A i, t, e : PartHas(q1.prevLogIndex, q1.prevLogTerm, q1.entries, i, t, e)
           => PartHas(0, 0, lg1, i, t, e)
    BY <2>4, <2>5, <2>6, <2>8, PartPlaced
  <2>10. ASSUME NEW i, NEW t, NEW e, Placed(i, t, e)' PROVE Placed(i, t, e)
    <3>1. \/ \E n \in Server : PartHas(0, 0, log[n], i, t, e)
          \/ \E r \in requests \cup {q1} :
                /\ r.kind = "append"
                /\ PartHas(r.prevLogIndex, r.prevLogTerm, r.entries, i, t, e)
      BY <2>1, <2>7, <2>8, <2>10 DEF Placed, PartHas
    <3>2. PartHas(0, 0, lg1, i, t, e) => Placed(i, t, e)
      BY <1>0, <2>8 DEF Placed, lg
    <3> QED
      BY <2>9, <3>1, <3>2 DEF Placed
  <2> QED
    BY <2>10 DEF PutsNothing
<1> QED
  BY <1>1, <1>2

\* The entries a follower keeps, and the sent ones behind them, stood where
\* they stand now: the previous-entry check and the search for a conflict see
\* to it where the two meet.
LEMMA JoinPlaced ==
    ASSUME NEW lg \in Seq(Entry), NEW es \in Seq(Entry), NEW new \in Seq(Entry),
           NEW prev \in Nat, NEW pt, NEW keep \in prev..Len(lg), keep <= Len(new),
           prev = 0 \/ TermAt(lg, prev) = pt,
           \A i \in (prev + 1)..keep :
              i - prev <= Len(es) => lg[i].term = es[i - prev].term,
           \A i \in 1..keep : new[i] = lg[i],
           \A i \in (keep + 1)..Len(new) :
              i - prev \in 1..Len(es) /\ new[i] = es[i - prev],
           NEW i, NEW t, NEW e, PartHas(0, 0, new, i, t, e)
    PROVE  PartHas(0, 0, lg, i, t, e) \/ PartHas(prev, pt, es, i, t, e)
<1>0. Len(lg) \in Nat /\ Len(es) \in Nat /\ Len(new) \in Nat
  BY LenProperties
<1>1. /\ i \in 1..Len(new) /\ e = new[i]
      /\ t = IF i = 1 THEN 0 ELSE new[i - 1].term
  BY <1>0 DEF PartHas
<1>2. CASE i <= keep
  <2>1. i \in 1..Len(lg) /\ new[i] = lg[i]
    BY <1>0, <1>1, <1>2
  <2>2. i # 1 => i - 1 \in 1..keep /\ new[i - 1] = lg[i - 1]
    BY <1>0, <1>1, <1>2
  <2> QED
    BY <1>0, <1>1, <2>1, <2>2 DEF PartHas
<1>3. CASE i > keep
  <2>1. /\ i \in (keep + 1)..Len(new) /\ i - prev \in 1..Len(es)
        /\ e = es[i - prev]
    BY <1>0, <1>1, <1>3
  <2>2. t = IF i = 1 THEN 0 ELSE
            IF i = prev + 1 THEN pt ELSE es[i - prev - 1].term
    <3>1. CASE i = 1
      BY <1>1, <3>1
    <3>2. CASE i # 1 /\ i - 1 > keep
      <4>1. /\ i - 1 \in (keep + 1)..Len(new)
            /\ (i - 1) - prev = i - prev - 1 /\ i # prev + 1
        BY <1>0, <1>1, <3>2
      <4>2. new[i - 1] = es[(i - 1) - prev]
        BY <4>1
      <4> QED
        BY <1>1, <3>2, <4>1, <4>2
    <3>3. CASE i # 1 /\ i - 1 = keep /\ keep = prev
      <4>1. new[i - 1] = lg[prev] /\ prev # 0 /\ i = prev + 1
        BY <1>0, <1>1, <3>3
      <4> QED
        BY <1>1, <3>3, <4>1 DEF TermAt
    <3>4. CASE i # 1 /\ i - 1 = keep /\ keep # prev
      <4>1. /\ keep \in (prev + 1)..keep /\ keep - prev <= Len(es)
            /\ keep - prev = i - prev - 1 /\ i # prev + 1
        BY SMTT(30), <1>0, <1>1, <2>1, <3>4
      <4>2. new[keep] = lg[keep] /\ lg[keep].term = es[keep - prev].term
        BY <1>0, <1>1, <3>4, <4>1
      <4> QED
        BY <1>1, <3>4, <4>1, <4>2
    <3> QED
      BY <1>0, <1>1, <1>3, <3>1, <3>2, <3>3, <3>4
  <2> QED
    BY <1>1, <2>1, <2>2 DEF PartHas
<1> QED
  BY <1>0, <1>1, <1>2, <1>3

\* Which of the sent entries a follower may keep: those whose term is the
\* sent one's.
LEMMA KeptAgree ==
    ASSUME TypeOK, NEW r \in requests, r.kind = "append", NEW s \in Server,
           NEW keep \in r.prevLogIndex..Len(log[s]), Keeps(s, r, keep)
    PROVE  \A i \in (r.prevLogIndex + 1)..keep :
              i - r.prevLogIndex <= Len(r.entries)
                => log[s][i].term = r.entries[i - r.prevLogIndex].term
<1> DEFINE lg == log[s]
           prev == r.prevLogIndex
           es == r.entries
<1>0. prev \in Nat /\ Len(es) \in Nat /\ Len(lg) \in Nat
  BY RequestFields, LenProperties DEF TypeOK, LogTypeOK
<1>1. \A i \in (prev + 1)..keep : ~Conflict(s, r, i)
  BY DEF Keeps
<1> SUFFICES ASSUME NEW i \in (prev + 1)..keep, i - prev <= Len(es)
             PROVE  lg[i].term = es[i - prev].term
  OBVIOUS
<1>2. i \in Int /\ i <= Len(lg) /\ i <= prev + Len(es)
  BY <1>0
<1>3. ~(/\ i <= Len(lg)
        /\ i <= prev + Len(es)
        /\ lg[i].term # es[i - prev].term)
  BY <1>1, Zenon DEF Conflict, MatchOf
<1> QED
  BY <1>2, <1>3, Zenon

\* What a follower takes from a request it puts where the request had it.
LEMMA PutsAcceptAppendEntries ==
    ASSUME TypeOK, NEW r \in requests, AcceptAppendEntries(r)
    PROVE  PutsNothing
<1> DEFINE s == r.to
           prev == r.prevLogIndex
           es == r.entries
           lg == log[s]
<1>0. /\ r.kind = "append" /\ s \in Server
      /\ prev \in Nat /\ es \in Seq(Entry) /\ lg \in Seq(Entry)
      /\ log \in [Server -> Seq(Entry)]
  BY RequestFields DEF AcceptAppendEntries, TypeOK, LogTypeOK
<1>1. requests' = requests \ {r} /\ validPreviousLog(s, r)
  BY DEF AcceptAppendEntries, ReceiveAppend
<1>2. PICK keep \in prev..Len(lg) :
         /\ Keeps(s, r, keep)
         /\ log' = [log EXCEPT ![s] = NewLog(s, r, keep)]
  BY DEF AcceptAppendEntries
<1>3. PICK new, old : new = NewLog(s, r, keep) /\ old = lg
  OBVIOUS
<1>4. /\ new \in Seq(Entry)
      /\ Len(new) \in Nat /\ keep \in 0..Len(new)
      /\ \A i \in 1..keep : new[i] = lg[i]
      /\ \A i \in (keep + 1)..Len(new) :
            i - prev \in 1..Len(es) /\ new[i] = es[i - prev]
  BY <1>0, <1>3, NewLogShape
<1>5. \A i \in (prev + 1)..keep :
         i - prev <= Len(es) => lg[i].term = es[i - prev].term
  BY <1>0, <1>2, KeptAgree
<1>6. prev = 0 \/ TermAt(lg, prev) = r.prevLogTerm
  BY <1>1 DEF validPreviousLog
<1>7. \A i, t, e : PartHas(0, 0, new, i, t, e)
         => PartHas(0, 0, old, i, t, e) \/ PartHas(prev, r.prevLogTerm, es, i, t, e)
  <2>1. /\ old \in Seq(Entry) /\ keep \in prev..Len(old) /\ keep <= Len(new)
        /\ (prev = 0 \/ TermAt(old, prev) = r.prevLogTerm)
        /\ \A i \in (prev + 1)..keep :
              i - prev <= Len(es) => old[i].term = es[i - prev].term
        /\ \A i \in 1..keep : new[i] = old[i]
    BY <1>0, <1>2, <1>3, <1>4, <1>5, <1>6
  <2> HIDE DEF lg, es, prev, s
  <2> QED
    BY <1>0, <1>4, <2>1, JoinPlaced
<1>8. log'[s] = new /\ \A n \in Server \ {s} : log'[n] = log[n]
  BY <1>0, <1>2, <1>3
<1>9. ASSUME NEW i, NEW t, NEW e, Placed(i, t, e)' PROVE Placed(i, t, e)
  <2>1. \/ \E n \in Server : PartHas(0, 0, log'[n], i, t, e)
        \/ \E q \in requests \ {r} :
              /\ q.kind = "append"
              /\ PartHas(q.prevLogIndex, q.prevLogTerm, q.entries, i, t, e)
    BY <1>1, <1>9 DEF Placed, PartHas
  <2>2. CASE PartHas(0, 0, log'[s], i, t, e)
    <3>1. \/ PartHas(0, 0, log[s], i, t, e)
          \/ PartHas(r.prevLogIndex, r.prevLogTerm, r.entries, i, t, e)
      BY <1>3, <1>7, <1>8, <2>2
    <3> QED
      BY <1>0, <3>1 DEF Placed
  <2>3. CASE ~PartHas(0, 0, log'[s], i, t, e)
    BY <1>0, <1>8, <2>1, <2>3 DEF Placed
  <2> QED
    BY <2>2, <2>3
<1> QED
  BY <1>9 DEF PutsNothing


\* The steps that leave the logs alone and take requests away at most.
LEMMA PutsNoNews ==
    ASSUME UNCHANGED log,
           \A r \in requests' : r.kind = "append" => r \in requests
    PROVE  PutsNothing
  BY NothingSent

\* No step of an RPC puts an entry where none was.
LEMMA PutsCallStep ==
    ASSUME TypeOK, CallStep
    PROVE  PutsNothing
<1>1. ASSUME NEW g \in goroutines, BuildRequestVote(g) PROVE PutsNothing
  <2>1. CASE Panic(g.from)
    BY <2>1, PutsDie DEF Panic
  <2>2. CASE ~Panic(g.from)
    <3>1. UNCHANGED log /\ \E m : requests' = requests \cup
             {[call |-> g.call, kind |-> "vote", from |-> g.from, to |-> m,
               term |-> currentTerm[g.from],
               lastLogIndex |-> Len(log[g.from]),
               lastLogTerm |-> LastTerm(log[g.from]), orphan |-> FALSE]}
      BY <1>1, <2>2 DEF BuildRequestVote, logVars
    <3>2. \A r \in requests' : r.kind = "append" => r \in requests
      BY <3>1
    <3> QED
      BY <3>1, <3>2, PutsNoNews
  <2> QED
    BY <2>1, <2>2
<1>2. ASSUME NEW r \in requests,
             HandleRequestVoteRequest(r) \/ RefuseAppendEntries(r)
      PROVE  PutsNothing
  <2>1. UNCHANGED log /\ requests' = requests \ {r}
    BY <1>2 DEF HandleRequestVoteRequest, RefuseAppendEntries, ReceiveAppend,
                logVars
  <2> QED
    BY <2>1, PutsNoNews
<1>3. ASSUME NEW r \in replies,
             HandleRequestVoteResponse(r) \/ HandleAppendEntriesResponse(r)
      PROVE  PutsNothing
  <2>1. CASE Panic(r.from)
    BY <2>1, PutsDie DEF Panic
  <2>2. CASE ~Panic(r.from)
    <3>1. UNCHANGED <<log, requests>>
      BY <1>3, <2>2 DEF HandleRequestVoteResponse, HandleAppendEntriesResponse,
                        StepDown, logVars
    <3> QED
      BY <3>1, PutsNoNews
  <2> QED
    BY <2>1, <2>2
<1>4. CASE RPCError
  <2>1. UNCHANGED log /\ requests' \subseteq requests
    BY <1>4 DEF RPCError, logVars
  <2> QED
    BY <2>1, PutsNoNews
<1> QED
  BY <1>1, <1>2, <1>3, <1>4, PutsBuildAppendEntries,
     PutsAcceptAppendEntries DEF CallStep

\* becomeLeader, Apply and AddServer append one entry, of the leader's term; no
\* other step puts an entry where none was.
Appends(s, e) ==
    /\ e \in Entry /\ e.term = currentTerm[s]
    /\ state[s] = "leader" \/ becomeLeader(s)
    /\ log' = [log EXCEPT ![s] = Append(@, e)]
    /\ UNCHANGED <<currentTerm, requests>>
    /\ state' = [state EXCEPT ![s] = "leader"]

\* The other steps, and what they may do to leaders.
PutsNoEntry == PutsNothing /\ \A n \in Server : LeadsOrKeeps(n)

\* The steps of the state loop and of clients.
LEMMA PutsServerStep ==
    ASSUME TypeOK, NEW s \in Server, ServerStep(s) \/ ClientStep(s)
    PROVE  PutsNoEntry \/ \E e : Appends(s, e)
<1>0. /\ currentTerm[s] \in Nat /\ cluster \in [Server -> SUBSET Server]
      /\ state \in [Server -> {"follower", "candidate", "leader"}]
      /\ currentTerm \in [Server -> Nat]
  BY DEF TypeOK, NodeTypeOK, PeerTypeOK
<1>1. CASE \/ Timeout(s) \/ LoopReadsState(s) \/ LeaveBranch(s)
           \/ heartbeat(s)
  <2>1. UNCHANGED <<log, requests>>
    BY <1>1 DEF Timeout, LoopReadsState, LeaveBranch, heartbeat, logVars,
                callVars
  <2>2. \/ UNCHANGED <<state, currentTerm>>
        \/ /\ state' = [state EXCEPT ![s] = "candidate"]
           /\ currentTerm' = [currentTerm EXCEPT ![s] = @ + 1]
    BY <1>1 DEF Timeout, LoopReadsState, LeaveBranch, heartbeat, nodeVars
  <2>3. \A n \in Server : LeadsOrKeeps(n)
    BY <1>0, <2>1, <2>2 DEF LeadsOrKeeps
  <2> QED
    BY <2>1, <2>3, PutsNoNews DEF PutsNoEntry
<1>2. CASE becomeLeader(s)
  <2>1. /\ log' = [log EXCEPT ![s] = Append(@, Noop(currentTerm[s]))]
        /\ state' = [state EXCEPT ![s] = "leader"]
        /\ UNCHANGED <<currentTerm, requests>>
    BY <1>2 DEF becomeLeader, callVars
  <2>2. PICK e : e = Noop(currentTerm[s])
    OBVIOUS
  <2>3. e \in Entry /\ e.term = currentTerm[s]
    BY <1>0, <2>2 DEF Noop, Entry
  <2> QED
    BY <1>2, <2>1, <2>2, <2>3 DEF Appends
<1>3. CASE advanceCommitIndex(s)
  <2>1. CASE Panic(s)
    <3>1. \A n \in Server : FollowsOrKeeps(n)
      BY <2>1, DieFollows DEF Panic
    <3> QED
      BY <2>1, <3>1, PutsDie DEF Panic, PutsNoEntry, FollowsOrKeeps, LeadsOrKeeps
  <2>2. CASE ~Panic(s)
    <3>1. UNCHANGED <<log, requests>>
      BY <1>3, <2>2, AdvanceChangesNoLog
    <3>2. UNCHANGED <<state, currentTerm>>
      BY <1>3, <2>2, Zenon DEF advanceCommitIndex, nodeVars
    <3> QED
      BY <3>1, <3>2, PutsNoNews DEF PutsNoEntry, LeadsOrKeeps
  <2> QED
    BY <2>1, <2>2
<1>4. ASSUME NEW e \in Entry, e.term = currentTerm[s], state[s] = "leader",
             appendLocked(s, e), UNCHANGED <<nodeVars, requests>>
      PROVE  Appends(s, e)
  <2>1. state' = [state EXCEPT ![s] = "leader"]
    BY <1>0, <1>4 DEF nodeVars
  <2> QED
    BY <1>4, <2>1 DEF appendLocked, Appends, nodeVars
<1>5. ASSUME NEW v \in Value, Apply(s, v) PROVE \E e : Appends(s, e)
  <2>1. PICK e : e = Command(currentTerm[s], v)
    OBVIOUS
  <2>2. e \in Entry /\ e.term = currentTerm[s]
    BY <1>0, <2>1 DEF Command, Entry
  <2>3. /\ state[s] = "leader" /\ appendLocked(s, e)
        /\ UNCHANGED <<nodeVars, requests>>
    BY <1>5, <2>1 DEF Apply
  <2> QED
    BY <1>4, <2>2, <2>3
<1>6. ASSUME NEW id \in Server, AddServer(s, id) PROVE \E e : Appends(s, e)
  <2>1. PICK e : e = ConfigChange(currentTerm[s], cluster[s] \cup {id})
    OBVIOUS
  <2>2. e \in Entry /\ e.term = currentTerm[s]
    BY <1>0, <2>1 DEF ConfigChange, Entry
  <2>3. /\ state[s] = "leader" /\ appendLocked(s, e)
        /\ UNCHANGED <<nodeVars, requests>>
    BY <1>6, <2>1 DEF AddServer
  <2> QED
    BY <1>4, <2>2, <2>3
<1> QED
  BY <1>1, <1>2, <1>3, <1>5, <1>6 DEF ServerStep, ClientStep

\* Crashes, kills, restarts and stuttering write nothing.
LEMMA PutsFaultStep ==
    ASSUME TypeOK, NEW s, FaultStep(s) \/ UNCHANGED vars
    PROVE  PutsNoEntry
<1>1. CASE Crash(s)
  <2>1. \A n \in Server : FollowsOrKeeps(n)
    BY <1>1, DieFollows DEF Crash
  <2> QED
    BY <1>1, <2>1, PutsDie DEF Crash, PutsNoEntry, FollowsOrKeeps, LeadsOrKeeps
<1>2. CASE Stop(s) \/ Restart(s) \/ UNCHANGED vars
  <2>1. /\ UNCHANGED <<log, requests, currentTerm>>
        /\ \A n \in Server : state'[n] \in {state[n], "follower"}
    BY <1>2 DEF Stop, Restart, vars, nodeVars, logVars, callVars, TypeOK,
                NodeTypeOK
  <2>2. PutsNothing
    BY <2>1, PutsNoNews
  <2> QED
    BY <2>1, <2>2 DEF PutsNoEntry, LeadsOrKeeps
<1> QED
  BY <1>1, <1>2 DEF FaultStep

\* Every step is quiet or appends an entry of a leader's term.
LEMMA PutsStep ==
    ASSUME TypeOK, [Next]_vars
    PROVE  PutsNoEntry \/ \E s \in Server : \E e : Appends(s, e)
<1>1. CASE CallStep
  <2>1. \A n \in Server : FollowsOrKeeps(n)
    BY <1>1, CallFollows
  <2> QED
    BY <1>1, <2>1, PutsCallStep DEF PutsNoEntry, FollowsOrKeeps, LeadsOrKeeps
<1> QED
  BY <1>1, PutsServerStep, PutsFaultStep DEF Next

\* The first logs are empty.
LEMMA PlacesInit == Init => PlacesInv
<1> SUFFICES ASSUME Init PROVE PlacesInv
  OBVIOUS
<1>1. \A i, t, e : ~Placed(i, t, e)
  BY EmptySeq DEF Init, Placed, PartHas
<1>2. \A s \in Server : state[s] = "follower"
  BY DEF Init
<1> QED
  BY <1>1, <1>2, InitType DEF PlacesInv, PlaceUnique, Leads

\* Every step keeps the places, if becomeLeader only runs in a term of which
\* nothing is written yet.
LEMMA PlacesStep ==
    ASSUME PlacesInv, [Next]_vars,
           \A s \in Server : becomeLeader(s) => ~EntryOf(currentTerm[s])
    PROVE  PlacesInv'
<1>1. TypeOK /\ TypeOK'
  BY TypeStep DEF PlacesInv
<1>2. CASE PutsNoEntry
  BY <1>1, <1>2, PlacesKept DEF PutsNoEntry
<1>3. ASSUME NEW s \in Server, NEW e, Appends(s, e)
      PROVE  PlacesInv'
  BY <1>1, <1>3, PlacesAppended DEF Appends
<1> QED
  BY <1>1, <1>2, <1>3, PutsStep

\* Where places are unique, two logs that agree on the term at an index agree
\* on everything up to it: they agree at the index, and from there downwards.
LEMMA PlacesMatch == PlacesInv => LogMatching
<1> SUFFICES ASSUME PlacesInv, NEW s \in Server, NEW u \in Server,
                    NEW i \in 1..Least(Len(log[s]), Len(log[u])),
                    log[s][i].term = log[u][i].term,
                    NEW j \in 1..i
             PROVE  log[s][j] = log[u][j]
  BY DEF LogMatching
<1>1. PICK a, b : a = log[s] /\ b = log[u]
  OBVIOUS
<1>2. /\ Len(a) \in Nat /\ Len(b) \in Nat
      /\ i \in 1..Len(a) /\ i \in 1..Len(b) /\ j \in Nat
  BY <1>1, LenProperties DEF PlacesInv, TypeOK, LogTypeOK, Least
<1>3. ASSUME NEW k \in 1..i, a[k].term = b[k].term
      PROVE  /\ a[k] = b[k]
             /\ k # 1 => a[k - 1].term = b[k - 1].term
  <2>1. PICK t, v : /\ t = IF k = 1 THEN 0 ELSE a[k - 1].term
                    /\ v = IF k = 1 THEN 0 ELSE b[k - 1].term
    OBVIOUS
  <2>2. PartHas(0, 0, a, k, t, a[k]) /\ PartHas(0, 0, b, k, v, b[k])
    BY <1>2, <2>1 DEF PartHas
  <2>3. Placed(k, t, a[k]) /\ Placed(k, v, b[k])
    BY <1>1, <2>2 DEF Placed
  <2>4. t = v /\ a[k] = b[k]
    BY <1>3, <2>3 DEF PlacesInv, PlaceUnique
  <2> QED
    BY <2>1, <2>4
<1> DEFINE D == {d \in Nat : d < i /\ a[i - d].term # b[i - d].term}
<1>4. D = {}
  <2> SUFFICES ASSUME D # {} PROVE FALSE
    OBVIOUS
  <2>1. PICK d \in D : \A x \in D : ~(<<x, d>> \in OpToRel(<, Nat))
    BY NatLessThanWellFounded, WFMin
  <2>2. d # 0
    BY <1>1, <1>2
  <2>3. d - 1 \in Nat /\ d - 1 < i /\ <<d - 1, d>> \in OpToRel(<, Nat)
    BY <1>2, <2>2 DEF OpToRel
  <2>4. a[i - (d - 1)].term = b[i - (d - 1)].term
    BY <2>1, <2>3
  <2>5. /\ i - (d - 1) \in 1..i /\ i - (d - 1) # 1
        /\ (i - (d - 1)) - 1 = i - d
    <3>1. d \in Nat \ {0} /\ d < i /\ i \in Nat
      BY <1>2, <2>2
    <3> QED
      BY <3>1
  <2>6. a[(i - (d - 1)) - 1].term = b[(i - (d - 1)) - 1].term
    BY <1>3, <2>4, <2>5
  <2> QED
    BY <2>1, <2>5, <2>6
<1>5. i - j \in Nat /\ i - j < i /\ i - (i - j) = j
  BY <1>2
<1>6. a[j].term = b[j].term
  BY <1>4, <1>5
<1> QED
  BY <1>1, <1>3, <1>6

\* A term gets its first entry from its leader.
LEMMA EntryStep ==
    ASSUME TypeOK, TypeOK', [Next]_vars, NEW t, EntryOf(t)', ~EntryOf(t)
    PROVE  \E s \in Server : \E e : Appends(s, e) /\ e.term = t
<1>1. PICK i, u, e : Placed(i, u, e)' /\ e.term = t
  <2>1. (TypeOK => EntriesPlaced)'
    BY EntryPlaced, PTL
  <2> QED
    BY <2>1 DEF EntriesPlaced
<1>2. ~Placed(i, u, e)
  BY <1>1, EntryPlaced DEF EntriesPlaced
<1>0. PICK s \in Server : \E f : Appends(s, f)
  BY <1>1, <1>2, PutsStep DEF PutsNoEntry, PutsNothing
<1>3. PICK f : Appends(s, f)
  BY <1>0
<1>4. f.term = t
  <2>1. /\ log \in [Server -> Seq(Entry)] /\ log[s] \in Seq(Entry)
        /\ log' = [log EXCEPT ![s] = Append(@, f)] /\ f \in Entry
        /\ UNCHANGED requests
    BY <1>3 DEF Appends, TypeOK, LogTypeOK
  <2>2. /\ Len(Append(log[s], f)) = Len(log[s]) + 1 /\ Len(log[s]) \in Nat
        /\ \A k \in 1..Len(log[s]) : Append(log[s], f)[k] = log[s][k]
        /\ Append(log[s], f)[Len(log[s]) + 1] = f
    BY <2>1, AppendProperties, LenProperties
  <2>3. \/ \E n \in Server : \E k \in 1..Len(log'[n]) : log'[n][k].term = t
        \/ \E r \in requests' : /\ r.kind = "append"
                                /\ \E k \in 1..Len(r.entries) : r.entries[k].term = t
    BY DEF EntryOf
  <2>0. PICK n \in Server : \E k \in 1..Len(log'[n]) : log'[n][k].term = t
    BY <2>1, <2>3 DEF EntryOf
  <2>4. PICK k \in 1..Len(log'[n]) : log'[n][k].term = t
    BY <2>0
  <2>5. n = s
    BY <2>1, <2>4 DEF EntryOf
  <2>6. k \notin 1..Len(log[s])
    BY <2>1, <2>2, <2>4, <2>5 DEF EntryOf
  <2>7. k = Len(log[s]) + 1
    BY <2>1, <2>2, <2>4, <2>5, <2>6
  <2> QED
    BY <2>1, <2>2, <2>4, <2>5, <2>7
<1> QED
  BY <1>3, <1>4

\* becomeLeader appends: a step of it is no stuttering.
LEMMA OnceHolds ==
    ASSUME TypeOK,
           [\A s \in Server : becomeLeader(s) => ~EntryOf(currentTerm[s])]_vars,
           NEW s \in Server, becomeLeader(s)
    PROVE  ~EntryOf(currentTerm[s])
<1>1. /\ log \in [Server -> Seq(Entry)] /\ log[s] \in Seq(Entry)
      /\ log' = [log EXCEPT ![s] = Append(@, Noop(currentTerm[s]))]
      /\ currentTerm[s] \in Nat
  BY DEF TypeOK, LogTypeOK, NodeTypeOK, becomeLeader
<1>2. Noop(currentTerm[s]) \in Entry
  BY <1>1 DEF Noop, Entry
<1>3. Len(log'[s]) = Len(log[s]) + 1 /\ Len(log[s]) \in Nat
  BY <1>1, <1>2, AppendProperties, LenProperties
<1>4. CASE UNCHANGED vars
  <2>1. log' = log
    BY <1>4 DEF vars, logVars
  <2> QED
    BY <1>3, <2>1
<1> QED
  BY <1>4

\* The prev-entry check keeps logs matching whatever members join, whichever
\* way the scheduler delays the steps, and whatever is lost or crashes: all it
\* takes is that becomeLeader does not run in a term that already has entries.
THEOREM LogMatchingByTerms == Spec /\ TermsLedOnce => []LogMatching
<1> DEFINE Once == \A s \in Server : becomeLeader(s) => ~EntryOf(currentTerm[s])
<1>1. PlacesInv /\ [Next]_vars /\ [Once]_vars => PlacesInv'
  <2> SUFFICES ASSUME PlacesInv, [Next]_vars, [Once]_vars PROVE PlacesInv'
    OBVIOUS
  <2>1. Once
    BY OnceHolds DEF PlacesInv
  <2> QED
    BY <2>1, PlacesStep
<1> QED
  BY <1>1, PlacesInit, PlacesMatch, PTL DEF Spec, TermsLedOnce

-----------------------------------------------------------------------------
(* The membership in force is the one the log describes *)

\* The members of a log with one entry more.
LEMMA MembersOfLonger ==
    ASSUME NEW lg \in Seq(Entry), NEW e \in Entry
    PROVE  MembersIn(Append(lg, e)) = MembersIn(lg) \cup e.members
<1>1. /\ Len(Append(lg, e)) = Len(lg) + 1 /\ Len(lg) \in Nat
      /\ \A i \in 1..Len(lg) : Append(lg, e)[i] = lg[i]
      /\ Append(lg, e)[Len(lg) + 1] = e
  BY AppendProperties, LenProperties
<1>2. MembersIn(lg) \subseteq MembersIn(Append(lg, e))
  <2> SUFFICES ASSUME NEW i \in 1..Len(lg)
               PROVE  /\ i \in 1..Len(Append(lg, e))
                      /\ lg[i] = Append(lg, e)[i]
    BY DEF MembersIn
  <2> QED
    BY <1>1
<1>3. e.members \subseteq MembersIn(Append(lg, e))
  <2>1. Len(lg) + 1 \in 1..Len(Append(lg, e))
    BY <1>1
  <2> QED
    BY <1>1, <2>1 DEF MembersIn
<1> QED
  BY <1>2, <1>3, MembersOfAppend

\* The inductive invariant: the places make the entries a follower keeps, and
\* those of a request that it does not take because it has them, the same.
FollowInv == PlacesInv /\ ClusterFollowsLog

\* A step that changes neither a log nor a cluster.
LEMMA FollowKept ==
    ASSUME FollowInv, PlacesInv', UNCHANGED <<log, cluster>>
    PROVE  FollowInv'
  BY DEF FollowInv, ClusterFollowsLog, ClusterOf, baseCluster

\* One server's log and cluster change together.
LEMMA FollowUpdated ==
    ASSUME FollowInv, PlacesInv', NEW s \in Server, NEW lg, NEW ms,
           log' = [log EXCEPT ![s] = lg], cluster' = [cluster EXCEPT ![s] = ms],
           ms = ClusterOf(s, lg)
    PROVE  FollowInv'
<1>1. log \in [Server -> Seq(Entry)] /\ cluster \in [Server -> SUBSET Server]
  BY DEF FollowInv, PlacesInv, TypeOK, LogTypeOK, PeerTypeOK
<1>2. ASSUME NEW n \in Server PROVE cluster'[n] = ClusterOf(n, log'[n])
  <2>1. CASE n = s
    BY <1>1, <2>1
  <2>2. CASE n # s
    BY <1>1, <2>2 DEF FollowInv, ClusterFollowsLog
  <2> QED
    BY <2>1, <2>2
<1> QED
  BY <1>2 DEF FollowInv, ClusterFollowsLog, ClusterOf, baseCluster

\* A leader's appended entry brings the members it names into force, and they
\* contain those that were.
LEMMA FollowAppended ==
    ASSUME FollowInv, PlacesInv', NEW s \in Server, NEW e \in Entry, NEW ms,
           log' = [log EXCEPT ![s] = Append(@, e)],
           cluster' = [cluster EXCEPT ![s] = ms],
           ms = cluster[s] \cup e.members
    PROVE  FollowInv'
<1>1. log[s] \in Seq(Entry) /\ cluster[s] = ClusterOf(s, log[s])
  BY DEF FollowInv, PlacesInv, ClusterFollowsLog, TypeOK, LogTypeOK
<1>2. ms = ClusterOf(s, Append(log[s], e))
  BY <1>1, MembersOfLonger DEF ClusterOf
<1> QED
  BY <1>2, FollowUpdated

\* A dying process changes no log and no cluster.
LEMMA FollowDie ==
    ASSUME FollowInv, PlacesInv', NEW s, NEW how, Die(s, how)
    PROVE  FollowInv'
  BY FollowKept DEF Die, logVars, peerVars

\* A follower that cuts nothing merges the members of every entry sent, those
\* it had already included: they are the same entries.
LEMMA FollowAcceptAppendEntries ==
    ASSUME FollowInv, PlacesInv', NEW r \in requests, AcceptAppendEntries(r)
    PROVE  FollowInv'
<1> DEFINE s == r.to
           prev == r.prevLogIndex
           es == r.entries
           lg == log[s]
<1>0. /\ r.kind = "append" /\ s \in Server /\ TypeOK /\ PlacesInv
      /\ prev \in Nat /\ es \in Seq(Entry) /\ lg \in Seq(Entry)
      /\ Len(lg) \in Nat /\ Len(es) \in Nat
      /\ cluster[s] = ClusterOf(s, lg)
  BY RequestFields, LenProperties DEF AcceptAppendEntries, FollowInv, PlacesInv,
     TypeOK, LogTypeOK, ClusterFollowsLog
<1>1. PICK keep \in prev..Len(lg) :
         /\ Keeps(s, r, keep)
         /\ log' = [log EXCEPT ![s] = NewLog(s, r, keep)]
         /\ cluster' = [cluster EXCEPT ![s] = ClusterAfter(s, r, keep)]
  BY DEF AcceptAppendEntries
<1>2. PICK new : new = NewLog(s, r, keep)
  OBVIOUS
<1>3. /\ new \in Seq(Entry)
      /\ Len(new) \in Nat /\ keep \in 0..Len(new)
      /\ \A i \in 1..keep : new[i] = lg[i]
      /\ \A i \in (keep + 1)..Len(new) :
            i - prev \in 1..Len(es) /\ new[i] = es[i - prev]
      /\ MembersIn(new) \subseteq MembersIn(lg) \cup MembersIn(es)
  BY <1>0, <1>2, NewLogShape
<1>4. CASE keep < Len(lg)
  BY <1>0, <1>1, <1>4, FollowUpdated DEF ClusterAfter
<1>6. \A i \in (prev + 1)..keep :
         i - prev <= Len(es) => lg[i].term = es[i - prev].term
  BY <1>0, <1>1, KeptAgree
<1>5. CASE ~(keep < Len(lg))
  <2>1. keep = Len(lg)
    BY <1>0, <1>1, <1>5
  <2>2. ClusterAfter(s, r, keep) = cluster[s] \cup MembersIn(es)
    BY <1>5 DEF ClusterAfter, Joins
  <2>3. \/ prev + Len(es) <= keep
        \/ Len(new) = prev + Len(es)
    <3>1. Len(new) = keep + Len(SubSeq(es, keep - prev + 1, Len(es)))
      <4>1. /\ SubSeq(lg, 1, keep) \in Seq(Entry) /\ Len(SubSeq(lg, 1, keep)) = keep
        <5>1. 1 \in Nat \ {0} /\ keep \in 0..Len(lg)
          BY <1>0, <2>1
        <5>2. /\ SubSeq(lg, 1, keep) \in Seq(Entry)
              /\ Len(SubSeq(lg, 1, keep)) = IF 1 <= keep THEN keep - 1 + 1 ELSE 0
          BY <1>0, <5>1, MembersOfSubSeq
        <5> QED
          BY <5>1, <5>2
      <4>2. SubSeq(es, keep - prev + 1, Len(es)) \in Seq(Entry)
        <5>1. keep - prev + 1 \in Nat \ {0} /\ Len(es) \in 0..Len(es)
          BY <1>0, <1>1
        <5> QED
          BY <1>0, <5>1, MembersOfSubSeq
      <4> QED
        BY <1>2, <4>1, <4>2, ConcatProperties DEF NewLog
    <3>2. Len(SubSeq(es, keep - prev + 1, Len(es))) =
             IF keep - prev + 1 <= Len(es)
             THEN Len(es) - (keep - prev + 1) + 1 ELSE 0
      <4>1. keep - prev + 1 \in Nat \ {0} /\ Len(es) \in 0..Len(es)
        BY <1>0, <1>1
      <4> QED
        BY <1>0, <4>1, MembersOfSubSeq
    <3> HIDE DEF es, prev, lg, s
    <3> QED
      BY <1>0, <1>1, <3>1, <3>2
  <2>4. ASSUME NEW k \in 1..Len(es)
        PROVE  \E i \in 1..Len(new) : new[i] = es[k]
    <3>1. CASE prev + k <= keep
      <4>1. PICK i, t, u : /\ i = prev + k
                           /\ t = IF i = 1 THEN 0 ELSE lg[i - 1].term
                           /\ u = IF i = 1 THEN 0 ELSE
                                  IF i = prev + 1 THEN r.prevLogTerm
                                  ELSE es[i - prev - 1].term
        OBVIOUS
      <4>2. /\ i \in 1..Len(lg) /\ i - prev = k /\ i \in (prev + 1)..keep
            /\ i \in 1..Len(new) /\ i \in 1..keep
        <5> HIDE DEF es, prev, lg, s
        <5> QED
          BY <1>0, <1>3, <2>1, <3>1, <4>1
      <4>3. lg[i].term = es[k].term
        BY <1>6, <4>2
      <4>4. /\ PartHas(0, 0, lg, i, t, lg[i])
            /\ PartHas(prev, r.prevLogTerm, es, i, u, es[k])
        <5> HIDE DEF es, prev, lg, s
        <5>1. i - 0 = i /\ i \in Nat /\ i - 0 - 1 = i - 1 /\ (i = 0 + 1 <=> i = 1)
          BY <1>0, <4>2
        <5>2. PartHas(0, 0, lg, i, t, lg[i])
          BY <4>1, <4>2, <5>1 DEF PartHas
        <5>3. PartHas(prev, r.prevLogTerm, es, i, u, es[k])
          BY <4>1, <4>2, <5>1 DEF PartHas
        <5> QED
          BY <5>2, <5>3
      <4>5. Placed(i, t, lg[i]) /\ Placed(i, u, es[k])
        BY <1>0, <4>4 DEF Placed
      <4>6. lg[i] = es[k]
        BY <1>0, <4>3, <4>5 DEF PlacesInv, PlaceUnique
      <4> QED
        BY <1>3, <4>2, <4>6
    <3>2. CASE ~(prev + k <= keep)
      <4> HIDE DEF es, prev, lg, s
      <4>1. Len(new) = prev + Len(es)
        BY <1>0, <1>1, <1>3, <2>3, <3>2
      <4>2. /\ prev + k \in (keep + 1)..Len(new) /\ prev + k \in 1..Len(new)
            /\ (prev + k) - prev = k
        BY <1>0, <1>1, <1>3, <3>2, <4>1
      <4> QED
        BY <1>3, <4>2
    <3> QED
      BY <3>1, <3>2
  <2>5. MembersIn(es) \subseteq MembersIn(new)
    BY <2>4 DEF MembersIn
  <2>6. MembersIn(lg) \subseteq MembersIn(new)
    <3>1. \A i \in 1..Len(lg) : i \in 1..Len(new) /\ new[i] = lg[i]
      BY <1>0, <1>3, <2>1
    <3> QED
      BY <3>1 DEF MembersIn
  <2>7. ClusterAfter(s, r, keep) = ClusterOf(s, new)
    BY <1>0, <1>3, <2>2, <2>5, <2>6 DEF ClusterOf
  <2> QED
    BY <1>0, <1>1, <1>2, <2>7, FollowUpdated
<1> QED
  BY <1>4, <1>5

\* Every step keeps the membership what the log says.
LEMMA FollowStep ==
    ASSUME FollowInv, PlacesInv', [Next]_vars
    PROVE  FollowInv'
<1>0. /\ TypeOK /\ cluster \in [Server -> SUBSET Server]
      /\ \A n \in Server : currentTerm[n] \in Nat
  BY DEF FollowInv, PlacesInv, TypeOK, NodeTypeOK, PeerTypeOK
<1>1. CASE UNCHANGED <<log, cluster>>
  BY <1>1, FollowKept
<1>2. ASSUME NEW s, Panic(s) PROVE FollowInv'
  BY <1>2, FollowDie DEF Panic
<1>3. CASE CallStep
  <2>1. \/ \E r \in requests : AcceptAppendEntries(r)
        \/ UNCHANGED <<log, cluster>>
        \/ \E s : Panic(s)
    <3>1. ASSUME NEW g \in goroutines,
                 BuildRequestVote(g) \/ BuildAppendEntries(g), ~Panic(g.from)
          PROVE  UNCHANGED <<log, cluster>>
      BY <3>1 DEF BuildRequestVote, BuildAppendEntries, logVars, peerVars
    <3>2. ASSUME NEW r \in requests,
                 HandleRequestVoteRequest(r) \/ RefuseAppendEntries(r)
          PROVE  UNCHANGED <<log, cluster>>
      BY <3>2 DEF HandleRequestVoteRequest, RefuseAppendEntries, logVars
    <3>3. ASSUME NEW r \in replies,
                 HandleRequestVoteResponse(r) \/ HandleAppendEntriesResponse(r),
                 ~Panic(r.from)
          PROVE  UNCHANGED <<log, cluster>>
      BY <3>3 DEF HandleRequestVoteResponse, HandleAppendEntriesResponse,
                  StepDown, logVars
    <3>4. RPCError => UNCHANGED <<log, cluster>>
      BY DEF RPCError, logVars, peerVars
    <3> QED
      BY <1>3, <3>1, <3>2, <3>3, <3>4 DEF CallStep
  <2> QED
    BY <1>1, <1>2, <2>1, FollowAcceptAppendEntries
<1>4. ASSUME NEW s \in Server, ServerStep(s) PROVE FollowInv'
  <2>1. CASE becomeLeader(s)
    <3>1. PICK e : e = Noop(currentTerm[s])
      OBVIOUS
    <3>2. e \in Entry /\ e.members = {}
      BY <1>0, <3>1 DEF Noop, Entry
    <3>3. /\ log' = [log EXCEPT ![s] = Append(@, e)]
          /\ cluster' = [cluster EXCEPT ![s] = cluster[s]]
          /\ cluster[s] = cluster[s] \cup e.members
      BY <1>0, <2>1, <3>1, <3>2 DEF becomeLeader
    <3> QED
      BY <3>2, <3>3, FollowAppended
  <2>2. CASE advanceCommitIndex(s)
    BY <1>1, <1>2, <2>2, AdvanceChangesNoLog
  <2>3. CASE \/ Timeout(s) \/ LoopReadsState(s) \/ LeaveBranch(s)
             \/ heartbeat(s)
    BY <1>1, <2>3 DEF Timeout, LoopReadsState, LeaveBranch, heartbeat,
                      logVars, peerVars
  <2> QED
    BY <1>4, <2>1, <2>2, <2>3 DEF ServerStep
<1>5. ASSUME NEW s \in Server, NEW v \in Value, Apply(s, v) PROVE FollowInv'
  <2>1. PICK e : e = Command(currentTerm[s], v)
    OBVIOUS
  <2>2. e \in Entry /\ e.members = {}
    BY <1>0, <2>1 DEF Command, Entry
  <2>3. /\ log' = [log EXCEPT ![s] = Append(@, e)]
        /\ cluster' = [cluster EXCEPT ![s] = cluster[s]]
        /\ cluster[s] = cluster[s] \cup e.members
    BY <1>0, <1>5, <2>1, <2>2 DEF Apply, appendLocked, peerVars
  <2> QED
    BY <2>2, <2>3, FollowAppended
<1>6. ASSUME NEW s \in Server, NEW id \in Server, AddServer(s, id)
      PROVE  FollowInv'
  <2>1. PICK ms, e : /\ ms = cluster[s] \cup {id}
                     /\ e = ConfigChange(currentTerm[s], ms)
    OBVIOUS
  <2>2. e \in Entry /\ ms = cluster[s] \cup e.members
    BY <1>0, <2>1 DEF ConfigChange, Entry
  <2>3. /\ log' = [log EXCEPT ![s] = Append(@, e)]
        /\ cluster' = [cluster EXCEPT ![s] = ms]
    BY <1>6, <2>1 DEF AddServer, appendLocked
  <2> QED
    BY <2>2, <2>3, FollowAppended
<1>7. ASSUME NEW s \in Server, FaultStep(s) PROVE FollowInv'
  <2>1. CASE Crash(s)
    BY <2>1, FollowDie DEF Crash
  <2>2. CASE Stop(s)
    BY <1>1, <2>2 DEF Stop, logVars, peerVars
  <2>3. CASE Restart(s)
    <3>1. /\ log' = [log EXCEPT ![s] = log[s]]
          /\ cluster' = [cluster EXCEPT ![s] = ClusterOf(s, log[s])]
      BY <1>0, <2>3 DEF Restart, TypeOK, LogTypeOK
    <3> QED
      BY <3>1, FollowUpdated
  <2> QED
    BY <1>7, <2>1, <2>2, <2>3 DEF FaultStep
<1>8. CASE UNCHANGED vars
  BY <1>1, <1>8 DEF vars, logVars, peerVars
<1> QED
  BY <1>3, <1>4, <1>5, <1>6, <1>7, <1>8 DEF Next, ClientStep

\* Every server starts with its base cluster and an empty log.
LEMMA FollowInit == Init => FollowInv
<1> SUFFICES ASSUME Init, NEW s \in Server
             PROVE  cluster[s] = ClusterOf(s, log[s])
  BY PlacesInit DEF FollowInv, ClusterFollowsLog
<1>1. log[s] = <<>> /\ cluster[s] = baseCluster(s)
  BY DEF Init
<1> QED
  BY <1>1, EmptySeq DEF ClusterOf, MembersIn

\* mergeClusterConfig and rebuildClusterFromLog agree: after every append,
\* truncation and restart a server's members are exactly the founding ones and
\* those its log names, however many join, as long as becomeLeader does not
\* run in a term that already has entries.
THEOREM ClusterFollowsLogCorrect == Spec /\ TermsLedOnce => []ClusterFollowsLog
<1> DEFINE Once == \A s \in Server : becomeLeader(s) => ~EntryOf(currentTerm[s])
<1>1. FollowInv /\ [Next]_vars /\ [Once]_vars => FollowInv'
  <2> SUFFICES ASSUME FollowInv, [Next]_vars, [Once]_vars PROVE FollowInv'
    OBVIOUS
  <2>1. Once /\ PlacesInv
    BY OnceHolds DEF FollowInv, PlacesInv
  <2>2. PlacesInv'
    BY <2>1, PlacesStep
  <2> QED
    BY <2>2, FollowStep
<1>2. FollowInv => ClusterFollowsLog
  BY DEF FollowInv
<1> QED
  BY <1>1, <1>2, FollowInit, PTL DEF Spec, TermsLedOnce


=============================================================================
