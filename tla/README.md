# A TLA+ model of navi-kv

navi-kv is a key-value store replicated by its own implementation of Raft
(`src/navi`), an HTTP server around it (`src/cmd/kv-api`) and a terminal UI that
drives clusters (`src/cmd/navi-cli`). The modules here model all three: the Raft
server, the file it persists to, the client cache of its transport, what HTTP
clients see, and the message loop of the UI with the goroutines and containers
behind it. They are translated from the code; where the code differs from what its
README or its comments say, the code is what is modelled and a run shows the
difference.

## 1. The system

| Component | State | Operations |
|---|---|---|
| Server, state loop (`server.go`) | everything below, behind `s.mu`; `done` | `Start`, the spinning loop, `Stop` |
| Election (`election.go`) | `state`, `currentTerm`, `votedFor` of every member | `timeout`, `requestVote` (a goroutine per member), `updateTerm`, `HandleRequestVoteRequest`, `becomeLeader` |
| Replication (`replication.go`) | `log`, `commitIndex`, `lastApplied`, `nextIndex`, `matchIndex`, result channels | `Apply`, `appendEntries` (a goroutine per member), `HandleAppendEntriesRequest`, `advanceCommitIndex`, `heartbeat` |
| Membership (`membership.go`) | `cluster`, `baseCluster`, `pendingConfigChangeIndex` | `AddServer`, merge on append, rebuild on truncation and restore |
| Persistence (`persistence.go`, `storage.go`) | the metadata file: a header page and one slot per entry | `persist`, `restore` |
| RPC transport (`transport.go`) | one cached client per address | `dial`, `call`, `evict`, `Serve`, `Close` |
| Memory transport (`transport_memory.go`) | routes, partitions, drops, paused transports | test-only fault injection |
| Clock (`clock.go`), debug (`debug.go`) | the time; nothing | `Now`, `Advance`; logging |
| kv-api (`cmd/kv-api/main.go`) | the `sync.Map` a node builds from its log | `/set`, `/get`, `/get?relaxed=true`, `/kill`, `/add-server`, `statemachine.Apply` |
| navi-cli (`cmd/navi-cli`) | tabs, active tab, input mode, list of the kill prompt, ports, compose path, log context; the compose file and docker's containers | `Update` of keys and messages, goroutines of `start-navi`, `stop-navi`, `reset-navi`, `add-node`, `kill-node`, log streaming |

**How they interact.** All of a server's Raft state is behind one mutex. Three kinds
of goroutine take it: the state loop, the RPC handlers, and the goroutines that make
calls, which take it twice, to build the request and to use the response. HTTP
handlers call `Apply` and `AddServer`, which take it once and then block on a result
channel that `advanceCommitIndex` sends on, after it gave the command to
`statemachine.Apply`, which stores it in the map. Every critical section that changes
the term, the vote or the log ends in `persist`. navi-cli renders a compose file, runs
`docker compose`, calls `/add-server`, and reads the containers' logs line by line
through a channel; the results of its goroutines come back as messages, in any
order.

**What is hard.** Between any two critical sections anything may happen: a goroutine
may build its request in another term than the one it was spawned in, a response may
be used after the role has changed, and the loop acts on a state it read before it
unlocked. Calls are lost, executed without an answer and overtaken. Processes crash
and restart with what `persist` wrote; `/kill` only half stops a server. Memberships
take effect when appended and are undone by truncation. HTTP clients give up while
their command is in a log; a deposed leader still answers; a restarted node applies
its whole log again. In navi-cli indices into the list of tabs are kept while
messages and keys change the list, and commands that take seconds may fail half way.

**What makes each part correct.** Elections: one leader per term, of votes given in
it. Replication: logs agree, committed entries stay, what a leader believes of its
followers is so, callers are answered, and all servers together are one replicated log.
Membership: the cluster in force is the one the log describes, one change at a time.
Persistence: what was acknowledged is restored, and a server that was stopped can be
started. Transport: calls are made on open connections and a cut connection is
replaced. kv-api: the clients of all nodes see one map. navi-cli: indices follow
what they name, log lines stay in order, the nodes it shows have containers and are members,
and no log is followed twice.

## 2. Modules

| Module | What it is |
|---|---|
| `Raft` | the server, one action per critical section of `s.mu` |
| `ReplicatedLog` | abstract: one growing sequence of commands, every state machine is given a prefix |
| `RaftLog` | the refinement mapping from `Raft` to `ReplicatedLog`, and the serial schedule |
| `Disk` | `persist`, write by write, crashes and `restore` |
| `RPCTransport` | the cached client of one address and its callers |
| `Store` | abstract: the map HTTP clients are promised |
| `KVApi` | the handlers, the maps and the answers; implements `Store` and `ReplicatedLog` |
| `Cli` | navi-cli's message loop, its goroutines, docker and the log lines |
| `MCRaft`, `MCKVApi`, `MCCli` | symmetry and views for TLC |
| `RaftProofs` | theorems about logs, terms and memberships, whatever is late or lost and whoever joins |
| `RaftElectionProofs` | one leader per term, elected once |
| `RaftCommitProofs` | logs match, committed entries stay, the refinement of `ReplicatedLog` |
| `CliClusterProofs` | navi-cli's indices, nodes and streams |
| `CliProofs` | navi-cli's tabs and their lines |
| `DiskProofs`, `RPCTransportProofs`, `KVApiProofs` | theorems about the module each is named after |

The layers meet in `ReplicatedLog`: `Raft` is shown to implement it (`RefinesLog`, by
TLC under the conditions of section 3, by proof under those of section 4), `KVApi` takes
of navi only what it has, and `KVApi` implements `Store`.

Operators whose comment starts with "Faulty" are wrong variants of the operator that
follows them. Nothing uses them: they show, put in its place, that a property notices.

### Raft

| Action | Code |
|---|---|
| `Timeout` | `timeout` |
| `BuildRequestVote`, `HandleRequestVoteResponse` | the two critical sections of `requestVote`'s goroutine |
| `HandleRequestVoteRequest` | the handler |
| `LoopReadsState`, `becomeLeader`, `LeaveBranch` | the loop: the state it read, its candidate branch, and a branch that does nothing more |
| `Apply`, `AddServer` | the part under `s.mu` and the `appendEntries` after it |
| `heartbeat` | the leader branch when its timer is due |
| `BuildAppendEntries`, `HandleAppendEntriesResponse` | the two critical sections of `appendEntries`' goroutine |
| `AcceptAppendEntries`, `RefuseAppendEntries` | `HandleAppendEntriesRequest`, by outcome |
| `advanceCommitIndex` | one iteration: new commit index, at most one entry applied |
| `Crash`, `Stop`, `Restart`, `RPCError` | process death, `/kill`, `NewServer`+`Start`+`restore`, a failed call |

A call is an identity of `Call` that moves from `goroutines` to `requests` to
`replies`. `log[s]` is `s.log[1..]`: the empty entry `ensureLog` puts at index 0
never changes, so indices are the code's. `votedFor[s][m]`, `nextIndex[s][m]` and
`matchIndex[s][m]` are the fields of `s.cluster[m]`; `votedFor[s][s]` is the server's own
vote. `waiting[s]` are the indices whose result channel somebody waits on, `applied[s]` what
the state machine was given. `HandleAppendEntriesRequest`'s loop is described by what it
leaves: the entries kept (all, or those before the first conflict), the sent ones
appended after them, and the membership and bookkeeping after the merge or the
rebuild. A panic outside an HTTP handler ends the process: `proc[s] = "panicked"`. A call holds an
index into `s.cluster`; the founders come first and keep their places, but once the config entry
of a joined member may have been cut, the index may be any joined member's, or beyond the end
(`SlotOf`, `SlotLost`): the order in which members joined is not kept.

`Late` names the scheduler's delays a run allows: `"build"` (a goroutine may take
`s.mu` any time after it was spawned; otherwise it does before anything else happens:
`Settled`), `"reply"` (a response may be used in a later term than its request's;
otherwise it is lost) and `"loop"` (the loop may act on a state it has read, candidate or
leader, after that has passed). With all three the model has every interleaving of the code's critical
sections. With none it is the scheduling most tests see.

`RaftLog` maps `decided` to the commands of the entries up to the highest `s.commitIndex`, and
`given` to `applied`. Its `SerialSpec` is a schedule in which the calls begun are answered,
or lost with their effect or without, before a server or a client takes another
step: a network that is fast beside the timers. Which call comes first is open.

### Disk, RPCTransport

`Disk`: header page, then flushes of the buffered entries (`WriteHeader`, `WriteEntries`),
oversize commands that panic in between (`"wedged"`), `Crash` at every point, `Restart`: `restore`
reads the file back, or panics on a slot that is not there (`"panicked"`), as every later start will.
`Raft` takes `persist` as atomic; `Disk` is about whether it may. `RPCTransport`: callers in
`dial` (`Hit`, `Dial`), waiting, and in the two halves of `evict`.

### KVApi and Store

| Action | Code |
|---|---|
| `RelaxedGet`, `Refuse`, `Propose`, `ProposeTooLarge`, `Hang` | `setHandler` and `getHandler`, by what the map, `s.state`, `persist` and `s.mu` make of the request |
| `Timeout` | the client gives up; the handler goes on |
| `ApplyNext` | one command of `advanceCommitIndex`: `statemachine.Apply`, and the answer when a handler waits |
| `Kill`, `Crash` | `killHandler`; the process dies and starts again from its log |
| `ChangeRole`, `Commit`, `Truncate` | navi: roles, the replicated log, a replaced entry's result channel |

`Store` is what clients are promised: a request takes effect once between question and
answer, at any later time if its answer was lost, never if it was refused; a relaxed get
returns a value the key has had. The mapping makes a command take effect when it is
decided, and computes the map and the results from `decided` alone: `ContentNow`,
`PastNow`, `EffectNow`. An answer given by a slow node, much later and from its own map, must
still be that one.

### Cli

| Action | Code |
|---|---|
| `SwitchTab`, `CloseSearch`, `StartSearchInput`, `updateSearchInput`, `updateKillSelect` | keys, by mode (`main.go`, `modals.go`) |
| `startNaviCommand`, `stopNaviCommand`, `resetNaviCommand`, `killNodeCommand`, `addNodeCommand` | `runCommand` (`commands.go`): the guard, and the goroutine it starts |
| `RunStart`, `RunStop`, `RunKill`, `RunAddNode`, `RunAddServer` | those goroutines: compose files, `docker compose`, `doAddServer`; each may fail |
| `MessageFailed`, `killNodesLoadedMsg`, `nodeAddedMsg`, `clusterStartedMsg`, `clusterStoppedMsg` | the cases of `Update` for their results |
| `streamContainerLogs`, `waitForLog`, `logLineMsg` | a log line on its way from a container to the tabs (`logs.go`) |
| `StreamEnds` | the container a stream follows was removed or recreated: `docker logs -f` ends and the goroutine returns |

`ComposeUp` and `ComposeDown` run docker, and are modelled by what docker then does: `up -d` recreates
the containers whose arguments changed, with an empty disk, for no volume keeps the metadata
file, and creates those that are missing; `down` removes those in the file. A container carries the
command that made it (`born`), and a stream the container it was started on, so that a stream does
not go over to the container that takes its name.

`Hasty` names what users and goroutines may do at a bad moment; the code prevents none of it:
`"leave"` (leave the console while a command that replaces the tabs runs), `"overlap"` (give a
cluster command before the last one has finished) and `"late"` (a log line read from an old cluster
is handled after a new one was started). The run allows `"leave"`; what the others break is
in section 3.

## 3. Checks

Deadlock is not checked in any run: at the bounds, after a panic or a crash without
a restart, with all callers idle, the model may stop.

| Run | Instance | Shows |
|---|---|---|
| `core` | 3 servers, 2 timers, 2 calls in flight, 2 terms, 2 entries | `ElectionSafety`, `VotesAreReal`, `LeaderCompleteness`, `MatchIndexSound`, `NoPanic`, `CommittedNeverOverwritten` |
| `clients` | `SerialSpec`; 2 founders and 2 joiners, 2 commands, 2 timers, 2 terms, 3 entries | `RefinesLog`, `StateMachineSafety`, `LogMatching`, `LeaderCompleteness`, `ElectionSafety`, `TermsLedOnce`, `ClusterFollowsLog`, `OneChangeAtATime` |
| `late` | 2 servers, one joining; all of `Late`; a crash or kill | `TypeOK`, `LogTermsOrdered`, `LogMembersInForce` |
| `progress` | 2 founders and a joiner, a leader that keeps its term | `CallersAnswered` |
| `disk` | logs of 5, appends of 3, buffer of 2, 3 terms | `TypeOK`, `RestoreYieldsMemory`, `RestartKeepsAcknowledged` |
| `transport` | 3 callers, 3 connections | `ClosedNeverCached`, `DeadClientReplaced` |
| `kvapi` | 2 nodes, 3 requests, 2 values of 1 key, a crash, a kill or an oversize command | `Linearizable`, `FollowsLog`, `MapsFollowLog`, `WaitersCanBeAnswered` |
| `cli` | 3 cluster commands, 2 search tabs, 2 log lines, clusters of 1 and what `add-node` adds | `RangeKept`, `SourceStays`, `SearchTabsTail`, `FocusReturns`, `LinesInOrder`, `ShownNodesRun`, `FollowedOnce` |

**Bounds.** `Impatient` are the servers whose timer fires: two rivals are what a split
vote, a deposed leader and a truncation take; the third server of `core` is the voter both
need. In `clients` the rivals are the two founders, and the joiners make quorums of 2
out of 2, 2 of 3 and 3 of 4. Two terms give each rival a leadership. `MaxLog` 2 gives each
leader's blank entry a place and one entry more that can conflict or be kept; `MaxLog` 3
adds a command or a second change. Two calls in flight overtake each other; a call whose
transport fails at once changes nothing, so it takes none. `MaxBatch` 8 is more than any
log here; `Wrap` stands for 2^64 and is larger than any index. `MaxMembers` 5 is what 112
bytes hold with addresses like `node1:3030`. In `late` two servers are enough because its
properties are about one log and the requests that reach it. `disk` has logs longer than
two flushes; that a start panics there is not a bound: the same file stops every later start. Three callers of one address are two evictions and a dial.

In `kvapi` three requests are a set, a later set or get, and one in doubt; two nodes are
the deposed leader that answers late and the new one, or the one that restarted and the
one that did not; a second key would be independent of the first. Its properties are
proved for any number of everything. In `cli` three commands are a start, an `add-node` and
a stop, or a start, a failure and a retry; two search tabs can be nested, be opened out of
order and move each other; two lines can overtake each other. `MaxNodes` 1
and `add-node` give two nodes, a second `add-node` three, and recreates the first two.

**Symmetry and view.** Commands, calls, impatient founders and joining servers without a timer
are interchangeable: no definition tells them apart, and every constant holds all of
a kind or none; so are requests, values and nodes in `kvapi`. `LiveView` drops from the
fingerprint what nobody reads again when `Late` is empty: votes of others outside a candidacy,
`nextIndex` and `matchIndex` outside a leadership. The runs with a late scheduler, restarts or
liveness do not use it, and liveness uses no symmetry. `MCKVApi!View` drops the operation of
a request no log has any more, and whether a client still waits for a handler that
waits for nothing; `MCCli!View` drops the list of the kill prompt while it is not shown,
takes a stop and a reset under way for one, which do the same, and drops streams that can only end
once the bound on lines is reached.
`RefinesLog`, `Linearizable` and `FollowsLog` are checked step by step (initial states and
steps; they state no fairness), which views and symmetry do not disturb.

**Fairness.** `progress` assumes weak fairness of building requests (the runtime
schedules every goroutine), strong fairness of `advanceCommitIndex` (the loop spins),
and for each link strong fairness of heartbeats, of the handler and of using the
answer: the leader calls every member every 300 ms for ever, and a link that is not
permanently down gets calls through again and again. It does not assume that any
particular call arrives. One impatient server and one term mean the leader is not
deposed; with a new leader an uncommitted entry's caller may wait for ever, which the
TODO at `replication.go:38` admits. `transport` assumes that a caller goes on: `call` ends by
its timeout at the latest.

**Runs that find a violation.** Each shows a place where the code does other than the
repository says; PROJECT.json quotes both.

| Run | What happens |
|---|---|
| `lostvote` | `restore` loses the vote it read, and so does a truncation |
| `latebuild` | a follower sends its old log in the new leader's term |
| `stuck` | `persist` writes the header first: a server whose header promises a slot that is not on file cannot be started again. A term persisted before the first entry is enough; so is a crash between the header of a longer log and its slots, or an oversize command, and then the acknowledged entries are on file and out of reach |
| `joiner` | a joining server that refuses its first request elects itself, next to the leader its term has |

**Shown while modelling, no run kept.** In Raft, with the constants named:

* `Late = {"reply"}`: a vote of an earlier term is counted (`election.go:95` compares the
  request's term, not the current one, with the answer's), and `ElectionSafety` fails.
* `Late = {"loop"}`: `becomeLeader` does not look at `s.state` again, so a follower of a later
  term becomes its leader with the votes of an earlier one.
* `MaxBatch` 1 (for 8000) and `MaxTerm` 4: an entry of an earlier term is committed by
  `replication.go:258`, then overwritten; `CommittedNeverOverwritten` fails.
* A leader that lost and regained its role has `pendingConfigChangeIndex` 0 with an
  uncommitted change in its log, which the comment at `server.go:77` excludes.
* `evict` drops whatever client is cached, so a second eviction drops a fresh client, which
  stays open (`transport.go:87-92`).

* The setting of `joiner` with `MaxTerm` 3: the self-elected server commits its blank entry, and the
  leader of the cluster it was to join overwrites it; `CommittedNeverOverwritten` fails too.

In navi-cli:

* The second `add-node` writes every old node with the longer `--cluster` list and the node that
  joined first as a founder (`compose.go:116-124`): the arguments of every container change, and
  `docker compose up` recreates them all, without their metadata files, which are in no volume.
* A user who leaves the console while `start-navi` runs, and is in a tab that the new ones do not
  reach when its message arrives: `main.go:425` keeps `activeTab`, and the program panics. This is the
  step that `RangeKept` excepts; it happens in the run `cli`.
* After the second `add-node` no stream follows the recreated containers: `nodeAddedMsg` starts one for
  the new node only (`main.go:407-410`), and those of all other nodes have ended. The tabs of these
  nodes stay silent until the cluster is stopped and started, although `README.md:46` says
  "streams per-node logs". `FollowedOnce` claims a stream only for containers as old as the cluster.
* `Hasty = {"overlap"}`: two starts in flight leave the first one's streams and reader behind,
  lines overtake each other, and shown nodes need not have containers.
* `Hasty = {"late"}`: a line of an old cluster, handled after the new one was started, starts
  a second reader: `LinesInOrder` fails.
* A search tab opened on a search tab does not tail (`main.go:157`, against the comment at
  `main.go:195`); closing a search tab that another was opened on leaves their `sourceTab` at a
  neighbour (`main.go:243`).
* `killNodesLoadedMsg` changes the mode under a user who is typing a query (`main.go:381`).
* `add-node` gives up after 2 s while `/add-server` may still succeed, and a retry is refused; a
  failed start leaves containers that only `reset-navi` removes.
* Texts are not modelled, but one thing about them was seen: `renderLine` cuts a line by indices into
  its lower-case form (`main.go:173-192`), which may be of another length in bytes; the slice may
  be out of range.

In kv-api:

* A `set` or a `get` that does not fit a slot wedges the leader it is sent to: `s.mu` is held for ever
  (`persistence.go:73` under `main.go:109` and `main.go:144`). `Linearizable` survives it, the node
  does not: by `stuck` it may not even start again.

**What the results hang on.** The properties of `core` and `clients`, `RefinesLog` among
them, are conditional: the runs have prompt scheduling (`Late` empty) and no restarts,
`clients` moreover the serial schedule. The theorems of section 4 drop the serial schedule and
allow restarts that forget nothing, but fix the membership; a membership that changes is only
in `clients`. Those of `kvapi` hold for every behaviour of a
replicated log, so for navi as far as it is one. The properties of `late` and `transport` hold without
conditions. So do those of `disk`, which say what a start gives back *if* it does not panic, and when
it does; that it may panic is a finding. `RangeKept` needs no condition, `ShownNodesRun` and
`FollowedOnce` need that cluster commands do not overlap, and the others of `cli` moreover that no line
of an old cluster is handled late. The code ensures neither: users and their patience do.

## 4. Proofs

All for every set of servers, nodes, keys, requests, commands and lines and every value of the
constants that satisfies the named assumptions of the modules (server ids are not 0, founders
are servers, batches, buffers and the modulus are positive, values are not status texts, ...).
Where a theorem needs more, it says so:

| Hypothesis | Says | Without it |
|---|---|---|
| `Prompt` | `Late = {}`: goroutines and replies do not outlive their term | `latebuild`, and the first items under "no run kept" |
| | `Founder = Server`: nobody joins | `joiner`: two leaders of a term |
| | `MaxLog <= MaxBatch`: a log fits one `AppendEntries` (8000 entries) | `MaxBatch` 1 and `MaxTerm` 4: a committed entry is overwritten |
| `VotesRemembered` | a server that has voted in its term restarts only if its last entry is of that term | `lostvote` |
| `TermsLedOnce` | `becomeLeader` does not run in a term of which a log, or a request on its way, has an entry | `joiner`, `lostvote`: two leaders of a term put different entries at one index |
| `CommitsRemembered` | when a server restarts, some server knows as much to be committed as it did | `commitIndex` is not persisted: `decided`, which is computed from it, would shrink |
| `NoWrap` | `MaxLog < Wrap`: indices fit 64 bits | back-off would wrap |
| `"loop" \notin Late` | the loop does not act on a state that has passed | a leader of another term, with a pending change it does not know |
| `"overlap" \notin Hasty` | a cluster command is given when the last one has finished | streams and readers of an earlier start are left behind |
| `Hasty \subseteq {"leave"}` | the same, and no line of an old cluster is handled after a new one was started | a second reader: lines overtake each other |

`TermsLedOnce`, `VotesRemembered` and `CommitsRemembered` are about steps (`[][...]_vars`). The first is itself
a theorem under `Prompt` and `VotesRemembered`, and where servers join TLC checks it in `clients`. The second permits
the restarts that are safe although `restore` forgets every vote: when the last entry is
of the current term, the leader of that term has been elected and cannot be elected again.

**`RaftProofs`**: no hypothesis but where one is named.

* `TypeCorrect`: `Spec => []TypeOK`. `TypeOK` is inductive; there is a lemma per action.
  What is not obvious: `FirstNaming` chooses an index of the log (a well-founded minimum),
  back-off stays natural in modular arithmetic, what a goroutine finds in its slot
  after the cluster has changed is a server, and the log after an accepted request is a
  sequence of entries.
* `LogTermsCorrect`: `Spec => []LogTermsOrdered`. Not inductive alone: a request in
  flight carries entries that may be appended long after they were read. `OrderInv` adds
  `RequestsOrdered`: the entries of a request are ordered, start no earlier than its
  previous entry's term and end no later than its term. The acceptance step joins a
  prefix and the sent part at the entry the handler has compared.
* `MembersCorrect`: `Spec => []LogMembersInForce`, with `TypeOK`: truncation rebuilds from
  what remains, and what remains names no more members.
* `OneChangeAtATimeCorrect`, for `"loop" \notin Late`: `ChangeInv` says that the one uncommitted
  change a leader may have of its own term is the one its `pendingConfigChangeIndex` names. It
  holds across joins, truncations, late requests and restarts, because a server becomes leader
  of a term with no entry of that term in its log.
* `LogMatchingByTerms`: `Spec /\ TermsLedOnce => []LogMatching`, for every `Late`, every membership
  and every fault. Matching logs alone are not inductive, because a request carries a part of a log
  that its sender may have lost since. `PlacesInv` speaks of places instead: wherever an entry stands
  (`Placed`), in the log of a running or dead server or in a request, its index and term determine it
  and the term of the entry before it (`PlaceUnique`). An acceptance joins two such parts at the
  compared entry, so it creates no new place (`KeptAgree`, `JoinPlaced`); `becomeLeader`
  does, in a term that had none; a leader's appends do, at an index beyond every place of its term (`Leads`).
  Equal logs up to an index follow by descent from it (`PlacesMatch`): a least counterexample.
* `ClusterFollowsLogCorrect`: `Spec /\ TermsLedOnce => []ClusterFollowsLog`. `FollowInv` adds
  `ClusterFollowsLog` to `PlacesInv`: an append merges into the members in force what the entry
  names, a truncation and a restart rebuild from the founders, and both come to the same set. A
  request that cuts nothing merges the members of every entry it carries, and those the follower
  already has must be the same entries: that is `PlaceUnique`.

**`RaftElectionProofs`**: `ElectionSafetyCorrect`, `VotesAreRealCorrect` and `TermsLedOnceCorrect`, for `Prompt` and
`VotesRemembered`. The code keeps no record of votes: a follower's vote is overwritten at its next
term, and a restart or a truncation erases it. So the invariant says that *some* set of ballots
(voter, candidate, term, and the candidate's log) explains the state (`BallotsFit`): nobody casts
two in a term for different candidates; a vote on its way or counted is one; a leader has those of a
majority; and a voter remembers its ballot, is in a later term, or has an entry of the
term's leader, which makes its log newer than any candidate's (`BallotKept`). Each action's lemma gives the set
after the step. Two quorums meet (`MajoritiesMeet`, from cardinalities), so two leaders of a term
would share a voter. `TermsLedOnceCorrect` adds that a term with entries has a majority of ballots for a
server that is past its candidacy (`LedBy`), whether it still leads, crashed or was deposed: a
second winner of the term would share a voter with it, and would be it.

**`RaftCommitProofs`**: for `Prompt`, `VotesRemembered` and `NoWrap`, `LogMatchingCorrect`,
`LeaderCompletenessCorrect`, `MatchIndexSoundCorrect`, `StateMachineSafetyCorrect`,
`CommittedNeverOverwrittenCorrect` and `NoPanicCorrect`. Next to the ballots the invariant is
about holdings: some set of pairs of a server and a log that contains every log each server had.

* Of the holdings: two that have an entry of the same term at the same index agree up to it
  (`LogsMatch`); of two that end in the same term one continues the other (`SameEnd`). They hold
  because every entry goes back to the log with which a leader of its term was elected (`Stems`),
  and because a request in flight carries the rest of a holding of its sender (`RequestHeld`).
* `advanceCommitIndex` counts replicas of entries of *any* term, which Raft's own argument forbids. It
  is sound here because a leader appends a blank entry when it is elected and a request carries
  the rest of the log (`MaxLog <= MaxBatch`): a member that has acknowledged an entry in the
  leader's term holds a log that ends in that term, so a majority does, and `ChosenSurvives` shows by the
  least later term that would not have the entry that every later leader has it.
* From there each property is a lemma: what is committed is chosen, so no acceptance conflicts
  with it; what two servers applied are prefixes of chosen logs; what was acknowledged is in
  the leader's log (`AckedFits`), so no index of `appendEntries` or its response leaves its slice.
* `RefinesLogCorrect`, with `CommitsRemembered` as well: `decided` is what the server that knows most to be
  committed holds committed, and every step maps to one of `ReplicatedLog` or to a stutter. Together with
  `FollowsLogCorrect` and `LinearizableCorrect` it reaches from the critical sections of `s.mu` to
  what HTTP clients see.

**`DiskProofs`**: `TypeCorrect`, `RestoreCorrect` and `RestartCorrect`, from `DiskInv`. `RestoreYieldsMemory` speaks of
the moments between two calls of `persist` only; what carries it through one is
`WrittenSoFar` (up to `next` the slots have the log, and the header reaches that far),
`HeaderFirst` and `FirstEmpty`. Stale slots behind the header's length are allowed: a restart
may bring them back after a crash, which `RestartKeepsAcknowledged` permits and `WrittenSoFar`
survives. `RestartCorrect` is about every start, the ones that panic included: these leave all entries
acknowledged before in their slots, and come only after a `persist` that was interrupted before it had
written its entries, or when no entry was ever persisted. That nothing can then be read is no part of a
theorem but the finding of `stuck`.

**`RPCTransportProofs`**: `ClosedNeverCachedCorrect`. `CacheInv` says that between the two halves of its
eviction a client is not the cached one.

**`KVApiProofs`**: `MapsFollowLogCorrect`, `WaitersCorrect` and the two refinements `FollowsLogCorrect`
and `LinearizableCorrect`, from `KVInv`. Neither `MapsFollowLog` nor the refinement is inductive
alone: an answer is right because the node's log is a prefix of `decided`
(`GivenIsPrefix`), because the command is decided at one index only (`DecidedOnce`), so that
"the map before it" is one map, because nobody was answered before (`OpenUnanswered`), and
because later requests cannot change what an old command asks (`Asked`). `StepKinds` reduces
the actions to five kinds; `LatestOfAppend` and `SetsOfSame` are the facts about the last set
of a key they need, found by a well-founded maximum and not by induction. The refinement
then has a lemma for each kind: `HandlersServe`, `CommitTakesEffect`, `ApplyAnswers`, `OthersLose`.

**`CliClusterProofs`**: what needs little of the tabs.

* `RangeKeptCorrect`, for every `Hasty`: whatever users do and in whatever order commands end, the kill
  cursor stays on its list, and the active tab leaves the tabs only in the step that replaces them after
  a start. `RangeFits` adds that there is always a tab, and that the nodes to kill are listed only
  of a cluster that has some.
* `ShownNodesRunCorrect` and `FollowedOnceCorrect`, for `"overlap" \notin Hasty`, from `CInv`. One cluster
  command is under way, and what it was given still fits the nodes shown (`NodesFit`). The
  nodes shown have containers and are members, unless a stop went through whose message is under way,
  and `docker compose up` finds the containers of n founders as they were only if their
  cluster is the one that runs (`DockerFits`): this makes a start after any failed command safe.
  A container of a node that nobody follows was made by a later command than the one that
  started the cluster (`FollowFits`).

**`CliProofs`**, for `Hasty \subseteq {"leave"}`: `SourceStaysCorrect`, `SearchTabsTailCorrect`,
`LinesInOrderCorrect` and `FocusReturnsCorrect`, from `CInv` and one more invariant, `TabInv`.

* `AllFits`, about the tabs: ids are unique, a base tab's is its node's, a `sourceTab` is the
  index its origin has *now*, a search tab has its origin's matching lines, lines rise. One lemma
  per operation on tabs (`AppendedFits`, `OpenedFits`, `ClosedFits`, `AddedFits`, `FreshFits`).
  `MatchingAppend` is the fact about the recursive `MatchingLines` they need; that its values exist
  is shown by a least count for which they would not.
* `ErrorsFit`: Errors/Warnings is the second tab while there are logs, which is why its constant index
  (`main.go:136`) may be used. A search on the console would come before it; one is possible only
  when a stop moves the focus under an unfinished search, and then no cluster runs or is starting
  (`FocusFits`).
* `ReadersFit`: a reader, or one line under way, never both; the line follows all lines shown and
  precedes all lines in the channel. It cannot reach a tab twice although Errors/Warnings and
  the node's tab both propagate it: a search tab is on one of them.

**Only model-checked.** `DeadClientReplaced` and `CallersAnswered`, which are liveness, out of the prover's
reach. Of clusters that servers join, everything that needs overlapping quorums: `ElectionSafety`,
`TermsLedOnce`, `LeaderCompleteness`, `StateMachineSafety` and `RefinesLog` are checked in `clients`, where
the joiners' timers do not fire, and proved for fixed membership. They do not hold of joining in
general, as `joiner` shows. A theorem would have to exclude more than that run: `AddServer` does
not wait until the leader has committed an entry of its own term, so a change by a new leader and
an uncommitted one of its predecessor can be in force at once, and their quorums need not
meet. This second point is an argument from the code; its shortest run has three
rivals (section 5).

## 5. Not modelled

* Time: timers may fire whenever their branch runs. The clock and the randomised interval
  only make bad luck rare.
* Bytes: config entries, commands and gob messages are values. Size limits appear as
  `MaxMembers` and as the oversize commands of `Disk` and `KVApi`.
* Data races (`Apply` ranging over `s.cluster` unlocked, request entries encoded after
  the unlock): listed as hazards.
* A second `Start` in the same process (two loops): no caller does it outside tests.
* `MemoryTransport`: only tests use it. Its partitions, drops and delays are among the losses and
  delays of calls in `Raft`; `Pause` holds a call until a test ends the pause.
* `RPCTransport.Serve` and `Close` as actions; `Raft`'s `Stop` has what they do to calls.
* kv-api's flags, its query parsing and its command encoding. `/add-server` is `Raft`'s `AddServer`.
* navi-cli's window sizes, quitting, console history, texts and their rendering, and its commands
  `status`, `set` and `get`, which leave no state behind. A `docker compose down` that fails is taken to
  have done nothing. Containers do not stop by themselves, and `docker logs` attaches as soon as it is
  started. The log channel has no capacity in the model.
* Three rival leaders with two membership changes in a row: the shortest interesting behaviour
  is some 70 steps long, which breadth-first search does not reach.

## 6. Plan

1. *Done*: `Raft`, `Disk`, `RPCTransport`, their runs, and the invariants that hold
   unconditionally, proved.
2. *Done*: `ReplicatedLog`, and the refinement `Raft` has of it under a prompt schedule.
3. *Done*: `KVApi`, `Store` and their refinement, checked and proved; `Cli`.
4. *Done*: `RestoreYieldsMemory` and `RestartKeepsAcknowledged`, proved.
5. *Done*: one leader per term, `LogMatching`, `LeaderCompleteness` and what rests on them, and the
   refinement of `ReplicatedLog`, proved for prompt schedules and fixed membership;
   `OneChangeAtATime`; `Cli`.
6. *Done*: `LogMatching` and `ClusterFollowsLog` whoever joins, and `TermsLedOnce`, which they rest on,
   for fixed membership; `FocusReturns`. Elections among changing memberships are not safe as the
   code stands (`joiner`), so there is no theorem to prove about them.
7. *Done*: restarts that panic, streams that end with their containers, a loop that acts late on
   either state, and `Cli` for users who leave the console at any time.
8. Open: membership with three rivals, by a smaller abstraction of the exchange of entries.
