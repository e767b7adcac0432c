-------------------------------- MODULE Raft --------------------------------
(***************************************************************************)
(* The navi Raft server: the state navi.Server keeps behind s.mu, and every *)
(* critical section of s.mu as one action.                                 *)
(*                                                                         *)
(* Indices are the code's.  s.log[0] is the empty entry ensureLog puts     *)
(* there; nothing touches it and applying it does nothing, so log[s] holds  *)
(* s.log[1..], Len(log[s]) is the index of the last entry, and lastApplied  *)
(* starts after it.                                                        *)
(*                                                                         *)
(* An RPC is a goroutine that takes s.mu three times: to build the request  *)
(* (after it was spawned, maybe much later), at the receiver, and to use    *)
(* the response.  A call has an identity of Call; it is a member of         *)
(* goroutines, then of requests, then of replies.  Time is abstracted: a    *)
(* timeout may fire at any moment.                                         *)
(*                                                                         *)
(* What survives a process crash is what persist wrote: every critical      *)
(* section that changes the term, the vote or the log ends in persist, so   *)
(* currentTerm and log are also the disk's (module Disk is about the file). *)
(***************************************************************************)
EXTENDS Integers, Sequences, FiniteSets, Functions

CONSTANTS
    Server,      \* ids of every server that may take part; never 0
    Founder,     \* the --cluster list of the founding members
    Value,       \* commands of the state machine (all fit one entry)
    MaxMembers,  \* members that fit one config entry (encodeConfigChange)
    MaxBatch,    \* MAX_APPEND_ENTRIES_BATCH
    Wrap,        \* 2^64: the modulus of the uint64 index arithmetic
    Call,        \* identities of RPCs under way; their number is a bound
    Late,        \* which steps the scheduler may delay past a term change
    Impatient,   \* bound: servers whose election timer may fire
    MaxTerm,     \* bound: terms
    MaxLog,      \* bound: log length at which leaders stop appending
    MaxFaults    \* bound: crashes and /kill calls

ASSUME ServerAssumption ==
    /\ 0 \notin Server
    /\ IsFiniteSet(Server)
    /\ Founder \subseteq Server

ASSUME ValueAssumption == Value \cap {"noop", "config"} = {}

ASSUME BoundAssumption ==
    /\ MaxBatch \in Nat \ {0}
    /\ Wrap \in Nat \ {0}
    /\ Late \subseteq {"build", "reply", "loop"}
    /\ {MaxMembers, MaxTerm, MaxLog, MaxFaults} \subseteq Nat

VARIABLES
    proc,           \* "running", "stopped" (/kill), "down" or "panicked"
    state,          \* s.state
    currentTerm,    \* s.currentTerm
    passive,        \* s.Passive
    branch,         \* the branch of the state loop that runs, or "none"
    log,            \* s.log[1..]
    commitIndex,    \* s.commitIndex
    lastApplied,    \* s.lastApplied: the next index to apply
    applied,        \* what s.statemachine has been given, in order
    waiting,        \* log indices whose entry has a result channel
    cluster,        \* the ids in s.cluster
    votedFor,       \* s.cluster[m].votedFor; own entry: this server's vote
    nextIndex,      \* s.cluster[m].nextIndex
    matchIndex,     \* s.cluster[m].matchIndex
    pendingConfig,  \* s.pendingConfigChangeIndex
    goroutines,     \* RPC goroutines that have not taken s.mu yet
    requests,       \* RPC requests on their way
    replies,        \* RPC responses on their way
    faults          \* crashes and kills so far

nodeVars == <<proc, state, currentTerm, passive, branch>>
logVars  == <<log, commitIndex, lastApplied, applied, waiting>>
peerVars == <<cluster, votedFor, nextIndex, matchIndex, pendingConfig>>
callVars == <<goroutines, requests, replies>>
vars     == <<nodeVars, logVars, peerVars, callVars, faults>>

-----------------------------------------------------------------------------
(* Entries, members, messages *)

\* Entry.Command is nil for the blank entry, a command, or a config change
\* carrying the whole membership.
Entry == [term : Nat, cmd : Value \cup {"noop", "config"},
          members : SUBSET Server]

Noop(t)             == [term |-> t, cmd |-> "noop", members |-> {}]
Command(t, v)       == [term |-> t, cmd |-> v, members |-> {}]
ConfigChange(t, ms) == [term |-> t, cmd |-> "config", members |-> ms]

Least(a, b) == IF a < b THEN a ELSE b

TermAt(lg, i) == IF i = 0 THEN 0 ELSE lg[i].term
LastTerm(lg)  == TermAt(lg, Len(lg))

\* s.baseCluster: a joining server is started with itself alone.
baseCluster(s) == IF s \in Founder THEN Founder ELSE {s}

\* mergeClusterConfig only ever unions, so folding it over a log adds up to
\* the union of the config entries.
MembersIn(lg)    == UNION {lg[i].members : i \in 1..Len(lg)}
ClusterOf(s, lg) == baseCluster(s) \cup MembersIn(lg)

\* The index of the entry that first names m: the merge gives a new member
\* the nextIndex after it.
FirstNaming(lg, m) ==
    CHOOSE i \in 1..Len(lg) :
        /\ m \in lg[i].members
        /\ \A j \in 1..Len(lg) : m \in lg[j].members => i <= j

Goroutine ==
    [call : Call, kind : {"vote", "append"}, from : Server, to : Server]

VoteRequest ==
    [call : Call, kind : {"vote"}, from : Server, to : Server, term : Nat,
     lastLogIndex : Nat, lastLogTerm : Nat, orphan : BOOLEAN]
AppendRequest ==
    [call : Call, kind : {"append"}, from : Server, to : Server, term : Nat,
     prevLogIndex : Nat, prevLogTerm : Nat, entries : Seq(Entry),
     leaderCommit : Nat, orphan : BOOLEAN]

\* term is the request's; match is the last index the request covered.
VoteReply ==
    [call : Call, kind : {"vote"}, from : Server, to : Server, term : Nat,
     rspTerm : Nat, success : BOOLEAN]
AppendReply ==
    [call : Call, kind : {"append"}, from : Server, to : Server, term : Nat,
     rspTerm : Nat, success : BOOLEAN, match : Nat]

\* A killed server (Stop) has left its state loop, but its RPC connections
\* are hijacked ones http.Server.Close does not close: it still answers.
Alive(s) == proc[s] \in {"running", "stopped"}

FreeCalls == Call \ {c.call : c \in goroutines \cup requests \cup replies}

\* Faulty: half of the members.
half(s) == Cardinality(cluster[s]) \div 2

quorum(s) == Cardinality(cluster[s]) \div 2 + 1

\* Unless "build" is in Late, a spawned goroutine takes s.mu before anything
\* else happens.
Settled == "build" \in Late \/ goroutines = {}

\* One goroutine per member of s.cluster but the server itself.  A call whose
\* transport fails at once (the member is unreachable) changes nothing, so
\* only the others are followed.
Spawn(s, kind, members) ==
    \E reached \in SUBSET (members \ {s}) :
        \E id \in Injection(reached, FreeCalls) :
            goroutines' = goroutines \cup
                {[call |-> id[m], kind |-> kind, from |-> s, to |-> m] :
                     m \in reached}

\* A goroutine holds an index into s.cluster, where the founding members come
\* first.  A joined member's place may be gone, or another's, once its config
\* entry was cut: while the goroutine waited to be scheduled, or after its
\* caller ceased to be the candidate or the leader of the call's term.  (In
\* which order members joined is not kept.)
MayHaveCut(c) ==
    IF c \in goroutines THEN "build" \in Late
    ELSE \/ "loop" \in Late
         \/ state[c.from] = "follower" \/ currentTerm[c.from] # c.term

InPlace(c) ==
    /\ c.to \in cluster[c.from]
    /\ c.to \in baseCluster(c.from) \/ ~MayHaveCut(c)

\* The members that may be at the index c holds, and whether none may be.
SlotOf(c)   == IF InPlace(c) THEN {c.to} ELSE cluster[c.from] \ baseCluster(c.from)
SlotLost(c) == ~InPlace(c) /\ ~(Server \subseteq cluster[c.from])

\* The process dies: its goroutines die with it and nobody waits for the
\* replies; a request on its way may still be executed.
Die(s, how) ==
    /\ proc' = [proc EXCEPT ![s] = how]
    /\ goroutines' = {g \in goroutines : g.from # s}
    /\ requests' = {IF r.from = s THEN [r EXCEPT !.orphan = TRUE] ELSE r :
                        r \in requests}
    /\ replies' = {r \in replies : r.from # s}
    /\ UNCHANGED <<state, currentTerm, passive, branch, logVars, peerVars>>

\* An unrecovered panic in a goroutine or an RPC handler ends the process.
Panic(s) == Die(s, "panicked") /\ UNCHANGED faults

-----------------------------------------------------------------------------
(* Starting, stopping, crashing *)

Init ==
    /\ proc = [s \in Server |-> "running"]
    /\ state = [s \in Server |-> "follower"]
    /\ currentTerm = [s \in Server |-> 0]
    /\ passive = [s \in Server |-> s \notin Founder]
    /\ branch = [s \in Server |-> "none"]
    /\ log = [s \in Server |-> <<>>]
    /\ commitIndex = [s \in Server |-> 0]
    /\ lastApplied = [s \in Server |-> 1]
    /\ applied = [s \in Server |-> <<>>]
    /\ waiting = [s \in Server |-> {}]
    /\ cluster = [s \in Server |-> baseCluster(s)]
    /\ votedFor = [s \in Server |-> [m \in Server |-> 0]]
    /\ nextIndex = [s \in Server |-> [m \in Server |-> 0]]
    /\ matchIndex = [s \in Server |-> [m \in Server |-> 0]]
    /\ pendingConfig = [s \in Server |-> 0]
    /\ goroutines = {} /\ requests = {} /\ replies = {}
    /\ faults = 0

Crash(s) ==
    /\ Settled
    /\ Alive(s)
    /\ faults < MaxFaults
    /\ faults' = faults + 1
    /\ Die(s, "down")

\* /kill: s.Stop() ends the state loop and closes the listener.
Stop(s) ==
    /\ Settled
    /\ proc[s] = "running"
    /\ faults < MaxFaults
    /\ faults' = faults + 1
    /\ proc' = [proc EXCEPT ![s] = "stopped"]
    /\ UNCHANGED <<state, currentTerm, passive, branch, logVars, peerVars,
                   callVars>>

\* rebuildClusterFromLog: founding members come back as NewServer copied
\* them, without their bookkeeping, the server's own vote included.
NoVotes == [m \in Server |-> 0]
RebuiltNext(s, lg) ==
    [m \in Server |-> IF m \in MembersIn(lg) \ baseCluster(s)
                      THEN FirstNaming(lg, m) + 1 ELSE 0]

\* restore() reads as many entries as the header says, s.log[0] included;
\* before the first entry is persisted the file ends after the header, and
\* the read panics.
CanRestore(s) == currentTerm[s] = 0 \/ log[s] # <<>>

\* A new process: NewServer, Start, restore.
Restart(s) ==
    /\ Settled
    /\ ~Alive(s)
    /\ CanRestore(s)
    /\ proc' = [proc EXCEPT ![s] = "running"]
    /\ state' = [state EXCEPT ![s] = "follower"]
    /\ passive' = [passive EXCEPT ![s] = s \notin Founder]
    /\ branch' = [branch EXCEPT ![s] = "none"]
    /\ cluster' = [cluster EXCEPT ![s] = ClusterOf(s, log[s])]
    /\ votedFor' = [votedFor EXCEPT ![s] = NoVotes]
    /\ nextIndex' = [nextIndex EXCEPT ![s] = RebuiltNext(s, log[s])]
    /\ matchIndex' = [matchIndex EXCEPT ![s] = [m \in Server |-> 0]]
    /\ pendingConfig' = [pendingConfig EXCEPT ![s] = 0]
    /\ commitIndex' = [commitIndex EXCEPT ![s] = 0]
    /\ lastApplied' = [lastApplied EXCEPT ![s] = 1]
    /\ applied' = [applied EXCEPT ![s] = <<>>]
    /\ waiting' = [waiting EXCEPT ![s] = {}]
    /\ UNCHANGED <<currentTerm, log, callVars, faults>>

-----------------------------------------------------------------------------
(* Election *)

\* updateTerm(msg): what the server's term, role, votes and pending change
\* are once a message of term t was looked at.
TermAfter(s, t)    == IF t > currentTerm[s] THEN t ELSE currentTerm[s]
RoleAfter(s, t)    == IF t > currentTerm[s] THEN "follower" ELSE state[s]
VotesAfter(s, t)   == IF t > currentTerm[s]
                      THEN [votedFor[s] EXCEPT ![s] = 0] ELSE votedFor[s]
PendingAfter(s, t) == IF t > currentTerm[s] THEN 0 ELSE pendingConfig[s]

\* Faulty: the newer term is answered with but not stored.
updateTermLost(s, t) == UNCHANGED <<currentTerm, pendingConfig>>

updateTerm(s, t) ==
    /\ currentTerm' = [currentTerm EXCEPT ![s] = TermAfter(s, t)]
    /\ pendingConfig' = [pendingConfig EXCEPT ![s] = PendingAfter(s, t)]

\* A response of a newer term makes the caller a follower and is dropped.
StepDown(r) ==
    LET s == r.from IN
    /\ r.rspTerm > currentTerm[s]
    /\ updateTerm(s, r.rspTerm)
    /\ state' = [state EXCEPT ![s] = RoleAfter(s, r.rspTerm)]
    /\ votedFor' = [votedFor EXCEPT ![s] = VotesAfter(s, r.rspTerm)]
    /\ replies' = replies \ {r}
    /\ UNCHANGED <<proc, passive, branch, logVars, cluster, nextIndex,
                   matchIndex, goroutines, requests, faults>>

\* A reply may reach a caller that has moved to another term since.
Timely(r) ==
    \/ "reply" \in Late
    \/ currentTerm[r.from] = r.term
    \/ r.rspTerm > currentTerm[r.from]

\* timeout(): run by the follower and the candidate branch of the loop.
Timeout(s) ==
    /\ Settled
    /\ proc[s] = "running"
    /\ state[s] # "leader" /\ branch[s] # "leader"
    /\ ~passive[s]
    /\ s \in Impatient /\ currentTerm[s] < MaxTerm
    /\ state' = [state EXCEPT ![s] = "candidate"]
    /\ currentTerm' = [currentTerm EXCEPT ![s] = @ + 1]
    /\ votedFor' = [votedFor EXCEPT ![s] =
                        [m \in Server |-> IF m = s THEN s ELSE
                                          IF m \in cluster[s] THEN 0 ELSE @[m]]]
    /\ Spawn(s, "vote", cluster[s])
    /\ UNCHANGED <<proc, passive, branch, logVars, cluster, nextIndex,
                   matchIndex, pendingConfig, requests, replies, faults>>

\* requestVote(), first critical section of the goroutine.
BuildRequestVote(g) ==
    LET s == g.from IN
    /\ g.kind = "vote"
    /\ \/ SlotLost(g) /\ Panic(s)
       \/ /\ goroutines' = goroutines \ {g}
          /\ \E m \in SlotOf(g) :
                requests' = requests \cup
                    {[call |-> g.call, kind |-> "vote", from |-> s, to |-> m,
                      term |-> currentTerm[s], lastLogIndex |-> Len(log[s]),
                      lastLogTerm |-> LastTerm(log[s]), orphan |-> FALSE]}
          /\ UNCHANGED <<nodeVars, logVars, peerVars, replies, faults>>

\* Faulty: the logs are not compared.
logOkAlways(s, r) == TRUE

\* The candidate's log is not older than the receiver's.
logOk(s, r) ==
    \/ r.lastLogTerm > LastTerm(log[s])
    \/ /\ r.lastLogTerm = LastTerm(log[s])
       /\ r.lastLogIndex >= Len(log[s])

\* Faulty: grants without looking at the vote already given.
grantToAll(s, r) == r.term = TermAfter(s, r.term) /\ logOk(s, r)

grant(s, r) ==
    /\ r.term = TermAfter(s, r.term)
    /\ logOk(s, r)
    /\ VotesAfter(s, r.term)[s] \in {0, r.from}

HandleRequestVoteRequest(r) ==
    LET s == r.to
        reply == [call |-> r.call, kind |-> "vote", from |-> r.from, to |-> s,
                  term |-> r.term, rspTerm |-> TermAfter(s, r.term),
                  success |-> grant(s, r)]
    IN
    /\ Settled
    /\ r.kind = "vote"
    /\ Alive(s)
    /\ updateTerm(s, r.term)
    /\ state' = [state EXCEPT ![s] = RoleAfter(s, r.term)]
    /\ votedFor' = [votedFor EXCEPT ![s] =
                        IF grant(s, r)
                        THEN [VotesAfter(s, r.term) EXCEPT ![s] = r.from]
                        ELSE VotesAfter(s, r.term)]
    /\ requests' = requests \ {r}
    /\ replies' = IF r.orphan THEN replies ELSE replies \cup {reply}
    /\ UNCHANGED <<proc, passive, branch, logVars, cluster, nextIndex,
                   matchIndex, goroutines, faults>>

\* Faulty: counts every answer of the request's term.
countsAnswers(r) == r.rspTerm = r.term

\* Whether a vote counts depends on the request's term, not on the current
\* one.
counts(r) == r.success /\ r.rspTerm = r.term

\* requestVote(), the goroutine's second critical section.
HandleRequestVoteResponse(r) ==
    LET s == r.from IN
    /\ Settled
    /\ r.kind = "vote"
    /\ Timely(r)
    /\ \/ StepDown(r)
       \/ /\ r.rspTerm <= currentTerm[s]
          /\ counts(r) /\ SlotLost(r)
          /\ Panic(s)
       \/ /\ r.rspTerm <= currentTerm[s]
          /\ \/ ~counts(r) /\ UNCHANGED votedFor
             \/ /\ counts(r)
                /\ \E m \in SlotOf(r) :
                      votedFor' = [votedFor EXCEPT ![s][m] = s]
          /\ replies' = replies \ {r}
          /\ UNCHANGED <<nodeVars, logVars, cluster, nextIndex, matchIndex,
                         pendingConfig, goroutines, requests, faults>>

\* The state loop reads s.state, drops the lock, and acts on what it read.
\* becomeLeader and heartbeat depend on it: timeout treats follower and
\* candidate alike, and advanceCommitIndex looks at s.state again.
LoopReadsState(s) ==
    /\ Settled
    /\ "loop" \in Late
    /\ proc[s] = "running"
    /\ state[s] # "follower"
    /\ branch[s] = "none"
    /\ branch' = [branch EXCEPT ![s] = state[s]]
    /\ UNCHANGED <<proc, state, currentTerm, passive, logVars, peerVars,
                   callVars, faults>>

\* The branch of role runs; without "loop" in Late, at once.
InBranch(s, role) ==
    IF "loop" \in Late THEN Alive(s) /\ branch[s] = role
    ELSE proc[s] = "running" /\ state[s] = role

hasQuorum(s) ==
    Cardinality({m \in cluster[s] : votedFor[s][m] = s}) >= quorum(s)

\* becomeLeader() returns without a quorum, heartbeat() before it is time: the
\* iteration is over.
LeaveBranch(s) ==
    /\ Settled
    /\ branch[s] # "none"
    /\ Alive(s)
    /\ branch[s] = "candidate" => ~hasQuorum(s)
    /\ branch' = [branch EXCEPT ![s] = "none"]
    /\ UNCHANGED <<proc, state, currentTerm, passive, logVars, peerVars,
                   callVars, faults>>

\* nextIndex is computed before the blank entry is appended, from len(s.log)
\* which counts s.log[0]: the first request is always refused.
becomeLeader(s) ==
    /\ Settled
    /\ InBranch(s, "candidate")
    /\ hasQuorum(s)
    /\ Len(log[s]) < MaxLog
    /\ branch' = [branch EXCEPT ![s] = "none"]
    /\ state' = [state EXCEPT ![s] = "leader"]
    /\ nextIndex' = [nextIndex EXCEPT ![s] =
                        [m \in Server |-> IF m \in cluster[s]
                                          THEN Len(log[s]) + 2 ELSE @[m]]]
    /\ matchIndex' = [matchIndex EXCEPT ![s] =
                        [m \in Server |-> IF m \in cluster[s] THEN 0 ELSE @[m]]]
    /\ log' = [log EXCEPT ![s] = Append(@, Noop(currentTerm[s]))]
    /\ UNCHANGED <<proc, currentTerm, passive, commitIndex, lastApplied,
                   applied, waiting, cluster, votedFor, pendingConfig,
                   callVars, faults>>

-----------------------------------------------------------------------------
(* Replication *)

\* appendLocked(): what a leader appends; the caller waits for its index.
appendLocked(s, e) ==
    /\ Len(log[s]) < MaxLog
    /\ log' = [log EXCEPT ![s] = Append(@, e)]
    /\ waiting' = [waiting EXCEPT ![s] = @ \cup {Len(log[s]) + 1}]
    /\ UNCHANGED <<commitIndex, lastApplied, applied>>

\* Apply(): the entry is appended, persisted and sent at once.
Apply(s, v) ==
    /\ Settled
    /\ Alive(s)
    /\ state[s] = "leader"
    /\ appendLocked(s, Command(currentTerm[s], v))
    /\ Spawn(s, "append", cluster[s])
    /\ UNCHANGED <<nodeVars, peerVars, requests, replies, faults>>

\* Faulty: does not look for a change in progress.
MayAddAlways(s, id) ==
    id \notin cluster[s] /\ Cardinality(cluster[s]) < MaxMembers

\* One change at a time, of a server that is not a member, if the members
\* still fit one entry.
MayAdd(s, id) ==
    /\ pendingConfig[s] = 0
    /\ id \notin cluster[s]
    /\ Cardinality(cluster[s]) < MaxMembers

\* AddServer(): the new member is in force as soon as it is appended.
AddServer(s, id) ==
    LET newMembers == cluster[s] \cup {id}
        newIndex == Len(log[s]) + 1
    IN
    /\ Settled
    /\ Alive(s)
    /\ state[s] = "leader"
    /\ MayAdd(s, id)
    /\ appendLocked(s, ConfigChange(currentTerm[s], newMembers))
    /\ cluster' = [cluster EXCEPT ![s] = newMembers]
    /\ votedFor' = [votedFor EXCEPT ![s][id] = 0]
    /\ nextIndex' = [nextIndex EXCEPT ![s][id] = newIndex + 1]
    /\ matchIndex' = [matchIndex EXCEPT ![s][id] = 0]
    /\ pendingConfig' = [pendingConfig EXCEPT ![s] = newIndex]
    /\ Spawn(s, "append", newMembers)
    /\ UNCHANGED <<nodeVars, requests, replies, faults>>

\* heartbeat(): the leader branch of the loop, which may run after s was
\* deposed.  It does not look at s.state.
heartbeat(s) ==
    /\ Settled
    /\ InBranch(s, "leader")
    /\ branch' = [branch EXCEPT ![s] = "none"]
    /\ Spawn(s, "append", cluster[s])
    /\ UNCHANGED <<proc, state, currentTerm, passive, logVars, peerVars,
                   requests, replies, faults>>

\* s.log[next-1] is out of range (next-1 wraps around when next is 0).
BadNext(s, m) == nextIndex[s][m] = 0 \/ nextIndex[s][m] > Len(log[s]) + 1

EntriesFor(s, m) ==
    SubSeq(log[s], nextIndex[s][m],
           Least(Len(log[s]), nextIndex[s][m] + MaxBatch - 1))

\* appendEntries(), first critical section of the goroutine.  It does not
\* look at s.state: it sends in the term it finds.
BuildAppendEntries(g) ==
    LET s == g.from IN
    /\ g.kind = "append"
    /\ \/ /\ SlotLost(g) \/ \E m \in SlotOf(g) : BadNext(s, m)
          /\ Panic(s)
       \/ /\ goroutines' = goroutines \ {g}
          /\ \E m \in SlotOf(g) :
                LET prev == nextIndex[s][m] - 1 IN
                /\ ~BadNext(s, m)
                /\ requests' = requests \cup
                     {[call |-> g.call, kind |-> "append", from |-> s, to |-> m,
                       term |-> currentTerm[s], prevLogIndex |-> prev,
                       prevLogTerm |-> TermAt(log[s], prev),
                       entries |-> EntriesFor(s, m),
                       leaderCommit |-> commitIndex[s], orphan |-> FALSE]}
          /\ UNCHANGED <<nodeVars, logVars, peerVars, replies, faults>>

\* HandleAppendEntriesRequest up to "rsp.Term = s.currentTerm": a candidate
\* of the same term becomes a follower.
RoleOnAppend(s, r) ==
    IF r.term = currentTerm[s] /\ state[s] = "candidate" THEN "follower"
    ELSE RoleAfter(s, r.term)

FollowsSender(s, r) ==
    RoleOnAppend(s, r) = "follower" /\ r.term >= currentTerm[s]

\* Faulty: only the index of the previous entry is looked at.
validPreviousIndex(s, r) == r.prevLogIndex <= Len(log[s])

\* The entry before the new ones is there.
validPreviousLog(s, r) ==
    \/ r.prevLogIndex = 0
    \/ /\ r.prevLogIndex <= Len(log[s])
       /\ TermAt(log[s], r.prevLogIndex) = r.prevLogTerm

\* Faulty: off by one.
NextOf(r) == r.prevLogIndex + Len(r.entries) + 1

\* The last index the request covered: nextIndex - 1 after a success.
MatchOf(r) == r.prevLogIndex + Len(r.entries)

\* What every path of the handler does.
ReceiveAppend(r, success) ==
    LET s == r.to
        reply == [call |-> r.call, kind |-> "append", from |-> r.from, to |-> s,
                  term |-> r.term, rspTerm |-> TermAfter(s, r.term),
                  success |-> success, match |-> MatchOf(r)]
    IN
    /\ Settled
    /\ r.kind = "append"
    /\ Alive(s)
    /\ updateTerm(s, r.term)
    /\ state' = [state EXCEPT ![s] = RoleOnAppend(s, r)]
    /\ requests' = requests \ {r}
    /\ replies' = IF r.orphan THEN replies ELSE replies \cup {reply}
    /\ UNCHANGED <<proc, branch, goroutines, faults>>

\* A leader, or a server in a later term, refuses; so does a follower whose
\* log does not reach the new entries, but it is not passive any more.
RefuseAppendEntries(r) ==
    LET s == r.to IN
    /\ r.kind = "append"
    /\ ~(FollowsSender(s, r) /\ validPreviousLog(s, r))
    /\ ReceiveAppend(r, FALSE)
    /\ passive' = [passive EXCEPT ![s] = @ /\ ~FollowsSender(s, r)]
    /\ votedFor' = [votedFor EXCEPT ![s] = VotesAfter(s, r.term)]
    /\ UNCHANGED <<logVars, cluster, nextIndex, matchIndex>>

\* Faulty: existing entries are never compared with the sent ones.
NoConflict(s, r, i) == FALSE

\* The existing entry at position i conflicts with the one sent for it.
Conflict(s, r, i) ==
    /\ i <= Len(log[s])
    /\ i <= MatchOf(r)
    /\ log[s][i].term # r.entries[i - r.prevLogIndex].term

\* The entries of s that stay: all of them, or those before the first
\* conflict.
Keeps(s, r, keep) ==
    /\ \A i \in (r.prevLogIndex + 1)..keep : ~Conflict(s, r, i)
    /\ keep = Len(log[s]) \/ Conflict(s, r, keep + 1)

\* Faulty: a repeated request appends its entries again.
NewLogTwice(s, r, keep) == SubSeq(log[s], 1, keep) \o r.entries

\* The loop over req.Entries: the sent entries beyond the kept ones are
\* appended.
NewLog(s, r, keep) ==
    SubSeq(log[s], 1, keep) \o
        SubSeq(r.entries, keep - r.prevLogIndex + 1, Len(r.entries))

\* commitIndex follows the leader's as far as the log goes.
CommitOnAppend(s, r, newLog) ==
    IF r.leaderCommit > commitIndex[s] THEN Least(r.leaderCommit, Len(newLog))
    ELSE commitIndex[s]

\* Faulty: config entries are not looked at on append; a truncation does not
\* rebuild the membership.
JoinsNobody(s, r) == {}
ClusterUnion(s, r, keep) == cluster[s] \cup MembersIn(r.entries)

\* The members the config entries sent add, and the membership once they are
\* merged: a truncation rebuilds it from the log first.
Joins(s, r) == MembersIn(r.entries) \ cluster[s]
ClusterAfter(s, r, keep) ==
    IF keep < Len(log[s]) THEN ClusterOf(s, NewLog(s, r, keep))
    ELSE cluster[s] \cup Joins(s, r)

\* The rebuild also forgets the votes, this server's own included.
AcceptAppendEntries(r) ==
    LET s == r.to
        votes == VotesAfter(s, r.term)
    IN
    /\ r.kind = "append"
    /\ FollowsSender(s, r)
    /\ validPreviousLog(s, r)
    /\ ReceiveAppend(r, TRUE)
    /\ passive' = [passive EXCEPT ![s] = FALSE]
    /\ \E keep \in r.prevLogIndex..Len(log[s]) :
        LET newLog == NewLog(s, r, keep)
            Fresh(m) == keep < Len(log[s]) \/ m \in Joins(s, r)
        IN
        /\ Keeps(s, r, keep)
        /\ log' = [log EXCEPT ![s] = newLog]
        /\ waiting' = [waiting EXCEPT ![s] = {i \in @ : i <= keep}]
        /\ commitIndex' = [commitIndex EXCEPT ![s] =
                               CommitOnAppend(s, r, newLog)]
        /\ cluster' = [cluster EXCEPT ![s] = ClusterAfter(s, r, keep)]
        /\ votedFor' = [votedFor EXCEPT ![s] =
              [m \in Server |-> IF Fresh(m) THEN 0 ELSE votes[m]]]
        /\ matchIndex' = [matchIndex EXCEPT ![s] =
              [m \in Server |-> IF Fresh(m) THEN 0 ELSE @[m]]]
        /\ nextIndex' = [nextIndex EXCEPT ![s] =
              IF keep < Len(log[s]) THEN RebuiltNext(s, newLog)
              ELSE [m \in Server |->
                       IF m \in Joins(s, r)
                       THEN r.prevLogIndex + FirstNaming(r.entries, m) + 1
                       ELSE @[m]]]
    /\ UNCHANGED <<lastApplied, applied>>

\* Faulty: without max(., 1); without going back.
BackOffPastOne(next) == (next - 1) % Wrap
NoBackOff(next) == next

\* max(nextIndex-1, 1) in uint64.
BackOff(next) == IF next = 1 THEN 1 ELSE (next - 1) % Wrap

\* appendEntries(), the goroutine's second critical section.  The response
\* of an old term is only dropped when it carries another term than its
\* request and the caller is the leader.
HandleAppendEntriesResponse(r) ==
    LET s == r.from
        drop == r.rspTerm # r.term /\ state[s] = "leader"
    IN
    /\ Settled
    /\ r.kind = "append"
    /\ Timely(r)
    /\ \/ StepDown(r)
       \/ /\ r.rspTerm <= currentTerm[s]
          /\ ~drop /\ SlotLost(r)
          /\ Panic(s)
       \/ /\ r.rspTerm <= currentTerm[s]
          /\ \/ drop /\ UNCHANGED <<nextIndex, matchIndex>>
             \/ /\ ~drop
                /\ \E m \in SlotOf(r) :
                   IF r.success
                   THEN /\ nextIndex' = [nextIndex EXCEPT ![s][m] = r.match + 1]
                        /\ matchIndex' = [matchIndex EXCEPT ![s][m] = r.match]
                   ELSE /\ nextIndex' = [nextIndex EXCEPT ![s][m] = BackOff(@)]
                        /\ UNCHANGED matchIndex
          /\ replies' = replies \ {r}
          /\ UNCHANGED <<nodeVars, logVars, cluster, votedFor, pendingConfig,
                         goroutines, requests, faults>>

\* A quorum of the leader's cluster, itself included, has entry i.
Replicated(s, i) ==
    Cardinality({m \in cluster[s] : m = s \/ matchIndex[s][m] >= i})
        >= quorum(s)

\* advanceCommitIndex(), first half: the leader's commit index becomes the
\* highest replicated entry, of whatever term.
NewCommit(s, ci) ==
    LET beyond == (commitIndex[s] + 1)..Len(log[s])
    IN  IF state[s] = "leader" /\ \E i \in beyond : Replicated(s, i)
        THEN /\ ci \in beyond
             /\ Replicated(s, ci)
             /\ \A i \in beyond : Replicated(s, i) => i <= ci
        ELSE ci = commitIndex[s]

\* Faulty: the blank entry and config entries are applied too.
AppliedAlways(s, cmd) == Append(applied[s], cmd)

\* statemachine.Apply is called for commands only.
AppliedAfter(s, cmd) ==
    IF cmd \in Value THEN Append(applied[s], cmd) ELSE applied[s]

\* Second half: the next entry, if committed, is applied, and its caller, if
\* it waits on this server, is answered.
ApplyNext(s, ci) ==
    LET i == lastApplied[s]
        cmd == log[s][i].cmd
    IN
    IF i <= ci
    THEN /\ lastApplied' = [lastApplied EXCEPT ![s] = i + 1]
         /\ applied' = [applied EXCEPT ![s] = AppliedAfter(s, cmd)]
         /\ pendingConfig' = [pendingConfig EXCEPT ![s] =
                                  IF cmd = "config" /\ @ = i THEN 0 ELSE @]
         /\ waiting' = [waiting EXCEPT ![s] = @ \ {i}]
    ELSE UNCHANGED <<lastApplied, applied, pendingConfig, waiting>>

\* The leader and the follower branch of the loop end with it.  (A follower
\* that timed out runs it as a candidate, with the effect it would have had
\* just before timeout().)
advanceCommitIndex(s) ==
    /\ Settled
    /\ proc[s] = "running"
    /\ state[s] # "candidate"
    /\ \E ci \in 0..Len(log[s]) \cup {commitIndex[s]} :
        /\ NewCommit(s, ci)
        /\ \/ /\ lastApplied[s] <= ci /\ lastApplied[s] > Len(log[s])
              /\ Panic(s)
           \/ /\ lastApplied[s] <= ci => lastApplied[s] <= Len(log[s])
              /\ ApplyNext(s, ci)
              /\ commitIndex' = [commitIndex EXCEPT ![s] = ci]
              /\ UNCHANGED <<nodeVars, log, cluster, votedFor, nextIndex,
                             matchIndex, callVars, faults>>

\* The transport returns an error: unreachable, dropped or timed out, before
\* the handler ran or after it.
RPCError ==
    /\ Settled
    /\ \/ /\ \E r \in requests : requests' = requests \ {r}
          /\ UNCHANGED replies
       \/ /\ \E r \in replies : replies' = replies \ {r}
          /\ UNCHANGED requests
    /\ UNCHANGED <<nodeVars, logVars, peerVars, goroutines, faults>>

-----------------------------------------------------------------------------
(* Specification *)

CallStep ==
    \/ \E g \in goroutines : BuildRequestVote(g)
    \/ \E g \in goroutines : BuildAppendEntries(g)
    \/ \E r \in requests : HandleRequestVoteRequest(r)
    \/ \E r \in requests : RefuseAppendEntries(r)
    \/ \E r \in requests : AcceptAppendEntries(r)
    \/ \E r \in replies : HandleRequestVoteResponse(r)
    \/ \E r \in replies : HandleAppendEntriesResponse(r)
    \/ RPCError

ServerStep(s) ==
    \/ Timeout(s) \/ LoopReadsState(s) \/ LeaveBranch(s) \/ becomeLeader(s)
    \/ heartbeat(s) \/ advanceCommitIndex(s)

ClientStep(s) ==
    \/ \E v \in Value : Apply(s, v)
    \/ \E id \in Server : AddServer(s, id)

FaultStep(s) == Crash(s) \/ Stop(s) \/ Restart(s)

Next ==
    \/ CallStep
    \/ \E s \in Server : ServerStep(s) \/ ClientStep(s) \/ FaultStep(s)

Spec == Init /\ [][Next]_vars

Heartbeats(s, m) ==
    /\ heartbeat(s)
    /\ \E g \in goroutines' : g.from = s /\ g.to = m
Answers(s, m) ==
    \E r \in requests :
        /\ r.from = s /\ r.to = m
        /\ \/ HandleRequestVoteRequest(r)
           \/ RefuseAppendEntries(r) \/ AcceptAppendEntries(r)
HearsFrom(s, m) ==
    \E r \in replies :
        /\ r.from = s /\ r.to = m
        /\ HandleRequestVoteResponse(r) \/ HandleAppendEntriesResponse(r)

\* The state loop spins for ever and the runtime schedules every goroutine;
\* a call that is made again and again gets through again and again.  (Only
\* a server whose timer fires can lead.)
Fairness ==
    /\ WF_vars(\E g \in goroutines : BuildRequestVote(g) \/ BuildAppendEntries(g))
    /\ \A s \in Impatient :
          /\ SF_vars(advanceCommitIndex(s))
          /\ \A m \in Server \ {s} : /\ SF_vars(Heartbeats(s, m))
                                     /\ SF_vars(Answers(s, m))
                                     /\ SF_vars(HearsFrom(s, m))

FairSpec == Spec /\ Fairness

-----------------------------------------------------------------------------
(* Properties that hold whatever the scheduler, the network and crashes do *)

NodeTypeOK ==
    /\ proc \in [Server -> {"running", "stopped", "down", "panicked"}]
    /\ state \in [Server -> {"follower", "candidate", "leader"}]
    /\ currentTerm \in [Server -> Nat]
    /\ passive \in [Server -> BOOLEAN]
    /\ branch \in [Server -> {"none", "candidate", "leader"}]

LogTypeOK ==
    /\ log \in [Server -> Seq(Entry)]
    /\ commitIndex \in [Server -> Nat]
    /\ lastApplied \in [Server -> Nat \ {0}]
    /\ applied \in [Server -> Seq(Value)]
    /\ waiting \in [Server -> SUBSET Nat]

PeerTypeOK ==
    /\ cluster \in [Server -> SUBSET Server]
    /\ votedFor \in [Server -> [Server -> Server \cup {0}]]
    /\ nextIndex \in [Server -> [Server -> Nat]]
    /\ matchIndex \in [Server -> [Server -> Nat]]
    /\ pendingConfig \in [Server -> Nat]

CallTypeOK ==
    /\ goroutines \subseteq Goroutine
    /\ requests \subseteq VoteRequest \cup AppendRequest
    /\ replies \subseteq VoteReply \cup AppendReply
    /\ faults \in Nat

\* Every variable has the shape the server's fields have: no index goes below
\* the log, only commands reach the state machine, and what a goroutine takes
\* up after waiting for s.mu is still an entry, a member or an index.
TypeOK == NodeTypeOK /\ LogTypeOK /\ PeerTypeOK /\ CallTypeOK

\* Along a sequence of entries terms never decrease, and none is later than
\* t.
TermsOrdered(lg, t) ==
    /\ \A j \in 1..Len(lg) : lg[j].term <= t
    /\ \A i, j \in 1..Len(lg) : i <= j => lg[i].term <= lg[j].term

\* HandleAppendEntriesRequest cuts and appends only after its term and
\* previous-entry checks, so no interleaving of leaders, old requests and
\* restarts puts an older entry behind a newer one: the logOk comparison of
\* last entries means what it says.
LogTermsOrdered == \A s \in Server : TermsOrdered(log[s], currentTerm[s])

\* A config change takes effect on append: truncating, rebuilding and
\* restoring never leave a server with a cluster that misses a member its
\* log names (its quorums would be too small).
LogMembersInForce == \A s \in Server : ClusterOf(s, log[s]) \subseteq cluster[s]

-----------------------------------------------------------------------------
(* Properties of prompt scheduling: Late = {}, no lost votes *)

\* One vote per term and votes counted in their own term: at most one live
\* server is leader in a term.
ElectionSafety ==
    \A s, t \in Server :
        /\ Alive(s) /\ Alive(t)
        /\ state[s] = "leader" /\ state[t] = "leader"
        /\ currentTerm[s] = currentTerm[t]
        => s = t

\* A candidate only counts votes of this term: a member it counts, if it is
\* still in the term, has given its vote to this candidate, and has forgotten
\* it at most when the term's leader made it truncate its log.
VotesAreReal ==
    \A s \in Server : \A m \in cluster[s] :
        /\ Alive(s) /\ state[s] = "candidate"
        /\ votedFor[s][m] = s /\ currentTerm[m] = currentTerm[s]
        => votedFor[m][m] = s \/ LastTerm(log[m]) = currentTerm[m]

\* What the terms of a log rest on: whenever becomeLeader runs with its quorum,
\* no log and no request on its way has an entry of its term.  A term has one
\* leader, those that crashed, were killed or never got an answer included.
EntryOf(t) ==
    \/ \E s \in Server : \E i \in 1..Len(log[s]) : log[s][i].term = t
    \/ \E r \in requests :
          r.kind = "append" /\ \E k \in 1..Len(r.entries) : r.entries[k].term = t

TermsLedOnce ==
    [][\A s \in Server : becomeLeader(s) => ~EntryOf(currentTerm[s])]_vars

\* The prev-entry check makes two logs with an entry of the same term at the
\* same index equal up to it, whatever was truncated in between.
LogMatching ==
    \A s, t \in Server :
        \A i \in 1..Least(Len(log[s]), Len(log[t])) :
            log[s][i].term = log[t][i].term
                => \A j \in 1..i : log[s][j] = log[t][j]

\* advanceCommitIndex commits an entry of any term as soon as a quorum has
\* it: a leader still has every entry that a server of its term or of an
\* earlier one knows to be committed.
LeaderCompleteness ==
    \A l, s \in Server :
        Alive(l) /\ state[l] = "leader" /\ currentTerm[s] <= currentTerm[l]
        => \A i \in 1..commitIndex[s] :
               i <= Len(log[l]) /\ log[l][i] = log[s][i]

\* Responses overtake each other and a request may be answered twice, yet
\* what a leader believes a follower of its term has stored is stored.
MatchIndexSound ==
    \A s, m \in Server :
        /\ Alive(s) /\ state[s] = "leader" /\ m \in cluster[s] \ {s}
        /\ currentTerm[m] = currentTerm[s]
        => \A i \in 1..matchIndex[s][m] :
               i <= Len(log[m]) /\ i <= Len(log[s]) /\ log[m][i] = log[s][i]

\* advanceCommitIndex applies by index without looking back: the state
\* machines are nevertheless given the same commands in the same order.
StateMachineSafety ==
    \A s, t \in Server :
        \A i \in 1..Least(Len(applied[s]), Len(applied[t])) :
            applied[s][i] = applied[t][i]

\* No AppendEntries request, however old, makes a server change or cut an
\* entry it knows to be committed.
CommittedNeverOverwritten ==
    [][\A s \in Server : \A i \in 1..commitIndex[s] :
            i <= Len(log[s]) =>
                i <= Len(log'[s]) /\ log'[s][i] = log[s][i]]_vars

\* No index of appendEntries, of its response or of advanceCommitIndex runs
\* out of its slice.
NoPanic == \A s \in Server : proc[s] # "panicked"

-----------------------------------------------------------------------------
(* Membership and progress *)

\* mergeClusterConfig on append and rebuildClusterFromLog on truncation
\* agree: the membership in force is exactly the one the log describes.
ClusterFollowsLog == \A s \in Server : cluster[s] = ClusterOf(s, log[s])

\* The config entries a leader has not seen committed.
Uncommitted(s) ==
    {i \in (commitIndex[s] + 1)..Len(log[s]) : log[s][i].cmd = "config"}

\* AddServer's gate lets a leader have one change of its own under way.
OneChangeAtATime ==
    \A s \in Server :
        Alive(s) /\ state[s] = "leader"
        => Cardinality({i \in Uncommitted(s) :
                            log[s][i].term = currentTerm[s]}) <= 1

\* With a leader that keeps its term, lost calls and refused requests only
\* delay: a caller of Apply or AddServer is eventually answered.
CallersAnswered ==
    \A s \in Server : (waiting[s] # {}) ~> (waiting[s] = {})

=============================================================================
