-------------------------------- MODULE KVApi --------------------------------
(***************************************************************************)
(* kv-api: the HTTP handlers and the map every node builds from what its    *)
(* navi.Server applies.  Of navi, what the handlers can notice: who takes   *)
(* itself for a leader, the entries in the log of a server whose result     *)
(* channel a handler waits on, and the decided commands (ReplicatedLog).    *)
(* A request stands for its command: a handler appends it at most once.     *)
(*                                                                         *)
(* A request's answer is "ok" or a value (200), "bad" (400), "error" (500)  *)
(* or "lost": the client timed out or the connection was closed.  decided   *)
(* is the sequence module RaftLog shows Raft to have when it is scheduled   *)
(* promptly; which of the appended commands get there is left open.         *)
(***************************************************************************)
EXTENDS Naturals, Sequences

CONSTANTS
    Node,        \* the kv-api processes
    Key, Val,
    Request,     \* identities of HTTP requests; their number is a bound
    Missing,     \* a key that is not in a map
    NotAsked,    \* the operation of a request not made yet
    MaxFaults    \* bound: crashes, kills and commands that are too large

ASSUME KVAssumption ==
    /\ Node # {}
    /\ MaxFaults \in Nat
    /\ Missing \notin Val
    /\ Val \cap {"ok", "error", "none", "lost", "bad"} = {}
    /\ Missing \notin {"ok", "error", "none", "lost", "bad"}

VARIABLES
    proc,        \* "running", "stopped" (/kill) or "wedged" (s.mu held for ever)
    leader,      \* leader[n]: s.state is leaderState
    decided,     \* the committed commands, in order
    given,       \* given[n]: what n's state machine was given
    db,          \* db[n]: the sync.Map of n
    waiting,     \* waiting[n]: commands in n's log with a result channel
    open,        \* commands in some log that may yet be committed
    op,          \* op[r]: kind, key and value of the request
    at,          \* at[r]: the node it was sent to
    reply,       \* reply[r]: what the client was told
    faults

raftVars == <<proc, leader, decided, given, waiting, open>>
httpVars == <<op, at, reply>>
vars     == <<raftVars, db, httpVars, faults>>

Op == [kind : {"set"}, key : Key, val : Val] \cup
      [kind : {"get", "relaxed"}, key : Key, val : {Missing}]

ASSUME NotAskedAssumption == NotAsked \notin Op

EmptyMap == [k \in Key |-> Missing]

Init ==
    /\ proc = [n \in Node |-> "running"]
    /\ leader = [n \in Node |-> FALSE]
    /\ decided = <<>>
    /\ given = [n \in Node |-> <<>>]
    /\ db = [n \in Node |-> EmptyMap]
    /\ waiting = [n \in Node |-> {}]
    /\ open = {}
    /\ op = [r \in Request |-> NotAsked]
    /\ at = [r \in Request |-> NotAsked]
    /\ reply = [r \in Request |-> "none"]
    /\ faults = 0

-----------------------------------------------------------------------------
(* Handlers *)

\* A get answers the value it found, or 500.
Found(v) == IF v = Missing THEN "error" ELSE v

\* A client sends r to n, whose handler runs.
Asks(r, n, o) ==
    /\ op[r] = NotAsked
    /\ op' = [op EXCEPT ![r] = o]
    /\ at' = [at EXCEPT ![r] = n]

\* Nobody hears the answer to a request that was given up.
Tell(r, answer) ==
    reply' = [reply EXCEPT ![r] = IF @ = "none" THEN answer ELSE @]

\* Faulty: every get is.
ReadsAlways(o) == o.kind \in {"get", "relaxed"}

\* ?relaxed=true: the map is read here and now.
ReadsMap(o) == o.kind = "relaxed"

RelaxedGet(r, n, o) ==
    /\ ReadsMap(o)
    /\ Asks(r, n, o)
    /\ Tell(r, Found(db[n][o.key]))
    /\ UNCHANGED <<raftVars, db, faults>>

\* Apply returns ErrApplyToLeader: a set answers 400, a get 500.
Refuse(r, n, o) ==
    /\ ~ReadsMap(o)
    /\ proc[n] # "wedged"
    /\ ~leader[n]
    /\ Asks(r, n, o)
    /\ Tell(r, IF o.kind = "set" THEN "bad" ELSE "error")
    /\ UNCHANGED <<raftVars, db, faults>>

\* Apply appends the command and blocks on its result channel.
Propose(r, n, o) ==
    /\ ~ReadsMap(o)
    /\ proc[n] # "wedged"
    /\ leader[n]
    /\ Asks(r, n, o)
    /\ waiting' = [waiting EXCEPT ![n] = @ \cup {r}]
    /\ open' = open \cup {r}
    /\ UNCHANGED <<proc, leader, decided, given, db, reply, faults>>

\* A command that does not fit an entry, a set's or a get's with a long key:
\* persist panics, net/http recovers and closes the connection, and s.mu is
\* never unlocked.
ProposeTooLarge(r, n, o) ==
    /\ ~ReadsMap(o)
    /\ proc[n] # "wedged"
    /\ leader[n]
    /\ faults < MaxFaults
    /\ faults' = faults + 1
    /\ Asks(r, n, o)
    /\ proc' = [proc EXCEPT ![n] = "wedged"]
    /\ Tell(r, "lost")
    /\ UNCHANGED <<leader, decided, given, waiting, open, db>>

\* Apply waits for s.mu.
Hang(r, n, o) ==
    /\ ~ReadsMap(o)
    /\ proc[n] = "wedged"
    /\ Asks(r, n, o)
    /\ UNCHANGED <<raftVars, db, reply, faults>>

\* The client gives up; the handler goes on.
Timeout(r) ==
    /\ op[r] # NotAsked
    /\ reply[r] = "none"
    /\ Tell(r, "lost")
    /\ UNCHANGED <<raftVars, db, op, at, faults>>

-----------------------------------------------------------------------------
(* navi, as far as the handlers notice *)

\* Several servers may take themselves for leaders.
ChangeRole(n) ==
    /\ proc[n] # "wedged"
    /\ proc[n] = "stopped" => leader[n]
    /\ leader' = [leader EXCEPT ![n] = ~@]
    /\ UNCHANGED <<proc, decided, given, waiting, open, db, httpVars, faults>>

Commit(r) ==
    /\ r \in open
    /\ decided' = Append(decided, r)
    /\ open' = open \ {r}
    /\ UNCHANGED <<proc, leader, given, waiting, db, httpVars, faults>>

\* A follower's uncommitted entry is replaced: its channel is gone, while the
\* command may still be in other logs.
Truncate(n, r) ==
    /\ ~leader[n] /\ proc[n] # "wedged"
    /\ r \in waiting[n] \cap open
    /\ waiting' = [waiting EXCEPT ![n] = @ \ {r}]
    /\ UNCHANGED <<proc, leader, decided, given, open, db, httpVars, faults>>

-----------------------------------------------------------------------------
(* The state machine *)

\* Faulty: LoadOrStore.
StoredOnce(m, o) ==
    IF o.kind = "set" /\ m[o.key] = Missing THEN [m EXCEPT ![o.key] = o.val] ELSE m

\* statemachine.Apply on the map m: what it leaves and what it returns.
Stored(m, o) == IF o.kind = "set" THEN [m EXCEPT ![o.key] = o.val] ELSE m
Result(m, o) == IF o.kind = "set" THEN "ok" ELSE Found(m[o.key])

\* Faulty: skips to the newest; only a leader answers.
LastDecided(n) == decided[Len(decided)]
AnswersAsLeader(n, r) == r \in waiting[n] /\ leader[n]

\* The command n applies next, and whether a handler waits for it there.
NextDecided(n) == decided[Len(given[n]) + 1]
Answers(n, r) == r \in waiting[n]

\* advanceCommitIndex gives the next command to the state machine and, when
\* a handler waits for it on this server, sends it the result.
ApplyNext(n) ==
    LET r == NextDecided(n) IN
    /\ proc[n] = "running"
    /\ Len(given[n]) < Len(decided)
    /\ given' = [given EXCEPT ![n] = Append(@, r)]
    /\ db' = [db EXCEPT ![n] = Stored(@, op[r])]
    /\ IF Answers(n, r)
       THEN /\ waiting' = [waiting EXCEPT ![n] = @ \ {r}]
            /\ Tell(r, Result(db[n], op[r]))
       ELSE UNCHANGED <<waiting, reply>>
    /\ UNCHANGED <<proc, leader, decided, open, op, at, faults>>

-----------------------------------------------------------------------------
(* Faults *)

\* killHandler: the state loop ends; handlers and relaxed gets go on.
Kill(n) ==
    /\ proc[n] = "running"
    /\ faults < MaxFaults
    /\ faults' = faults + 1
    /\ proc' = [proc EXCEPT ![n] = "stopped"]
    /\ UNCHANGED <<leader, decided, given, waiting, open, db, httpVars>>

\* The process dies with its connections and its map, and starts again: the
\* log comes from disk, and is applied from its start to an empty map.  One
\* whose restore panics (module Disk) takes no step after this one.
Crash(n) ==
    /\ faults < MaxFaults
    /\ faults' = faults + 1
    /\ proc' = [proc EXCEPT ![n] = "running"]
    /\ leader' = [leader EXCEPT ![n] = FALSE]
    /\ given' = [given EXCEPT ![n] = <<>>]
    /\ db' = [db EXCEPT ![n] = EmptyMap]
    /\ waiting' = [waiting EXCEPT ![n] = {}]
    /\ reply' = [r \in Request |->
                    IF /\ op[r] # NotAsked
                       /\ at[r] = n /\ reply[r] = "none" THEN "lost" ELSE reply[r]]
    /\ UNCHANGED <<decided, open, op, at>>

Next ==
    \/ \E r \in Request :
          \/ \E n \in Node, o \in Op :
                \/ RelaxedGet(r, n, o) \/ Refuse(r, n, o) \/ Propose(r, n, o)
                \/ ProposeTooLarge(r, n, o) \/ Hang(r, n, o)
          \/ Timeout(r) \/ Commit(r)
    \/ \E n \in Node :
          \/ ChangeRole(n) \/ ApplyNext(n) \/ Kill(n) \/ Crash(n)
          \/ \E r \in Request : Truncate(n, r)

Spec == Init /\ [][Next]_vars

-----------------------------------------------------------------------------
(* Properties *)

TypeOK ==
    /\ proc \in [Node -> {"running", "stopped", "wedged"}]
    /\ leader \in [Node -> BOOLEAN]
    /\ decided \in Seq(Request)
    /\ given \in [Node -> Seq(Request)]
    /\ db \in [Node -> [Key -> Val \cup {Missing}]]
    /\ waiting \in [Node -> SUBSET Request]
    /\ open \in SUBSET Request
    /\ op \in [Request -> Op \cup {NotAsked}]
    /\ at \in [Request -> Node \cup {NotAsked}]
    /\ reply \in [Request -> Val \cup {"ok", "error", "none", "lost", "bad"}]
    /\ faults \in Nat

\* The value of k after the commands s, where ops says what each command
\* asks: that of the last set of k.
SetsOf(ops, s, k) ==
    {i \in 1..Len(s) : ops[s[i]].kind = "set" /\ ops[s[i]].key = k}

Latest(ops, s, k) ==
    IF SetsOf(ops, s, k) = {} THEN Missing
    ELSE LET last == CHOOSE i \in SetsOf(ops, s, k) :
                        \A j \in SetsOf(ops, s, k) : j <= i
         IN  ops[s[last]].val

\* statemachine.Apply and a restart keep the map and the log together: on
\* every node, also one that started again with an empty map, or was killed,
\* a key has the value of its last set among the commands given so far.
MapsFollowLog ==
    \A n \in Node : \A k \in Key : db[n][k] = Latest(op, given[n], k)

\* Apply's caller blocks on its result channel for as long as that is there:
\* a command somebody waits for is still to be applied by the node it was
\* sent to, or may still be committed.  None is passed by.
WaitersCanBeAnswered ==
    \A n \in Node : \A r \in waiting[n] :
        \/ r \in open
        \/ \E i \in (Len(given[n]) + 1)..Len(decided) : decided[i] = r

\* What the clients of the nodes see, as one map: a request takes effect when
\* its command is decided, whichever node applies it first.
Before(s, r) == (CHOOSE i \in 1..Len(s) : s[i] = r) - 1

Effect(ops, s, r) ==
    IF \A i \in 1..Len(s) : s[i] # r THEN "none"
    ELSE IF ops[r].kind = "set" THEN "ok"
    ELSE Found(Latest(ops, SubSeq(s, 1, Before(s, r)), ops[r].key))

Past(ops, s, k) == {Missing} \cup {ops[s[i]].val : i \in SetsOf(ops, s, k)}

ContentNow == [k \in Key |-> Latest(op, decided, k)]
PastNow == [k \in Key |-> Past(op, decided, k)]
EffectNow == [r \in Request |-> Effect(op, decided, r)]

Contents == INSTANCE Store WITH
    content <- ContentNow, past <- PastNow, effect <- EffectNow

\* setHandler and getHandler serve one map: whatever nodes the clients talk
\* to, and whoever leads, fails or is killed meanwhile, an answered set or get
\* took effect exactly once between question and answer, a refused one never
\* does, and a relaxed get returns a value the key has had.
Linearizable == Contents!Spec

\* What every map is built from: given is a prefix of what was decided, one
\* command at a time, from the first one again after a restart.
Log == INSTANCE ReplicatedLog WITH Cmd <- Request
FollowsLog == Log!Spec
=============================================================================
