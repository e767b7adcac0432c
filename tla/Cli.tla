--------------------------------- MODULE Cli ---------------------------------
(***************************************************************************)
(* navi-cli: a Bubble Tea program.  Update handles one message at a time:   *)
(* a key, or the result of a command that ran in a goroutine.  Commands run *)
(* docker compose and call kv-api; several may be under way, and their      *)
(* results come in any order.  Every log line of a container goes through a *)
(* channel to waitForLog, which makes it a message.                        *)
(*                                                                         *)
(* Indices of tabs are the code's, from 0.  Texts are left out, the console *)
(* history too; a node is its number (node<i>, kv-node<i>, port 2020+i).    *)
(***************************************************************************)
EXTENDS Integers, Sequences, FiniteSets

CONSTANTS
    MaxNodes,    \* bound: -n of start-navi
    MaxCommands, \* bound: cluster commands given
    MaxSearches, \* bound: search tabs opened
    MaxLines,    \* bound: lines logged
    Hasty        \* what users and goroutines may do too early or too late

ASSUME CliAssumption == {MaxNodes, MaxCommands, MaxSearches, MaxLines} \subseteq Nat

ASSUME HastyAssumption == Hasty \subseteq {"overlap", "leave", "late"}

VARIABLES
    tabs, activeTab, mode,   \* the fields of model
    killNodes, killCursor,   \* how many nodes are listed; the one selected
    nodePorts,               \* the nodes whose ports the model knows
    composePath,             \* whether it is set
    logCtx,                  \* the number of the current log context; 0: nil
    commands,                \* goroutines of commands whose message is not handled
    composeFile,             \* founders and joiner in the generated file
    containers,              \* containers[i]: the arguments kv-node<i> runs with,
                             \* and the command that created or started it
    members,                 \* the Raft cluster the containers form
    streams,                 \* streamContainerLogs: its context, its node, and
                             \* the command that created the container it follows
    channel,                 \* channel[c]: lines in the logChan of context c
    waiters,                 \* waiters[c]: waitForLog commands on it
    lineMsgs,                \* logLineMsgs not handled yet, with their context
    given, searches, lines   \* counters for the bounds

modelVars  == <<tabs, activeTab, mode, killNodes, killCursor, nodePorts,
                composePath, logCtx>>
dockerVars == <<composeFile, containers, members>>
logVars    == <<streams, channel, waiters, lineMsgs, lines>>
countVars  == <<given, searches>>
vars       == <<modelVars, commands, dockerVars, logVars, countVars>>

Context == 0..MaxCommands

-----------------------------------------------------------------------------
(* Tabs *)

\* id names a tab; origin is the id of the tab a search tab was opened on.
BaseTab(id, node) == [id |-> id, node |-> node, isSearch |-> FALSE,
                      sourceTab |-> 0, origin |-> 0, query |-> "", lines |-> <<>>]

\* Console, Errors/Warnings and a tab per node.
FreshTabs(n) ==
    [i \in 1..(n + 2) |-> BaseTab(i, IF i <= 2 THEN 0 ELSE i - 2)]

errorsTabIndex == 1
SearchId(k) == -(k + 1)

\* A query that matches the lines of level ERROR only, or every line.
Matches(query, line) == query = "e" \/ line.error

\* The lines of a tab that a search tab opened on it starts with.
MatchingLines(ls, query) ==
    LET found[i \in 0..Len(ls)] ==
            IF i = 0 THEN <<>>
            ELSE IF Matches(query, ls[i]) THEN Append(found[i - 1], ls[i])
                 ELSE found[i - 1]
    IN  found[Len(ls)]

\* Faulty: the line is not propagated.
appendToTabAlone(ts, idx, line) ==
    [i \in DOMAIN ts |-> IF i = idx + 1
                         THEN [ts[i] EXCEPT !.lines = Append(@, line)] ELSE ts[i]]

\* appendToTab, propagateToSearchTabs: the line goes to the tab and to the
\* search tabs on it.
appendToTab(ts, idx, line) ==
    [i \in DOMAIN ts |->
        [ts[i] EXCEPT !.lines =
            @ \o (IF i = idx + 1 THEN <<line>> ELSE <<>>)
              \o (IF /\ ts[i].isSearch /\ ts[i].sourceTab = idx
                     /\ Matches(ts[i].query, line)
                  THEN <<line>> ELSE <<>>)]]

nodeTabIndex(ts, node) ==
    LET S == {i \in DOMAIN ts : ts[i].node = node}
    IN  IF S = {} THEN -1 ELSE (CHOOSE i \in S : \A j \in S : i <= j) - 1

\* Faulty: a search tab on the tab at from itself is left behind.
ShiftedStrict(ts, from, by) ==
    [i \in DOMAIN ts |->
        IF ts[i].isSearch /\ ts[i].sourceTab > from
        THEN [ts[i] EXCEPT !.sourceTab = @ + by] ELSE ts[i]]

\* Search tabs on a tab at from or behind move along with it.
Shifted(ts, from, by) ==
    [i \in DOMAIN ts |->
        IF ts[i].isSearch /\ ts[i].sourceTab >= from
        THEN [ts[i] EXCEPT !.sourceTab = @ + by] ELSE ts[i]]

openSearchTab(source, query) ==
    LET at == source + 1
        old == Shifted(tabs, at, 1)
        new == [id |-> SearchId(searches), node |-> 0, isSearch |-> TRUE,
                sourceTab |-> source, origin |-> tabs[at].id, query |-> query,
                lines |-> MatchingLines(tabs[at].lines, query)]
    IN
    /\ tabs' = SubSeq(old, 1, at) \o <<new>> \o SubSeq(old, at + 1, Len(tabs))
    /\ activeTab' = at

Without(ts, i) == SubSeq(ts, 1, i - 1) \o SubSeq(ts, i + 1, Len(ts))

\* Faulty: focus goes to the tab on the left.
closeSearchTabLeft(idx) ==
    /\ tabs' = Shifted(Without(tabs, idx + 1), idx + 1, -1)
    /\ activeTab' = idx - 1

closeSearchTab(idx) ==
    LET source == tabs[idx + 1].sourceTab
        back == IF source > idx THEN source - 1 ELSE source
        left == Len(tabs) - 1
    IN
    /\ tabs' = Shifted(Without(tabs, idx + 1), idx + 1, -1)
    /\ activeTab' = IF back >= left THEN left - 1 ELSE back

-----------------------------------------------------------------------------
(* Keys *)

TabInRange    == activeTab < Len(tabs)
CursorInRange == mode = "killSelect" => killCursor < killNodes

\* The prompt indexes m.killNodes with m.killCursor; otherwise Update and View
\* index m.tabs with m.activeTab.  Beyond the end the program panics.
InRange == (mode # "killSelect" => TabInRange) /\ CursorInRange

Restarting == \E c \in commands : c.kind \in {"start", "stop", "reset"}

ClusterCommand(c) == c.kind \in {"start", "stop", "reset", "add"}
Busy == \E c \in commands : ClusterCommand(c)

\* Without "leave", users stay at the console while a command that replaces
\* the tabs runs.
MayLeave == "leave" \in Hasty \/ ~Restarting

KeyVars == <<nodePorts, composePath, logCtx, commands, dockerVars, logVars, given>>

SwitchTab ==
    /\ mode = "normal"
    /\ \E by \in {1, Len(tabs) - 1} : activeTab' = (activeTab + by) % Len(tabs)
    /\ MayLeave
    /\ UNCHANGED <<tabs, mode, killNodes, killCursor, KeyVars, searches>>

CloseSearch ==
    /\ mode = "normal"
    /\ activeTab # 0
    /\ tabs[activeTab + 1].isSearch
    /\ closeSearchTab(activeTab)
    /\ UNCHANGED <<mode, killNodes, killCursor, KeyVars, searches>>

StartSearchInput ==
    /\ mode = "normal"
    /\ activeTab # 0
    /\ mode' = "searchInput"
    /\ MayLeave
    /\ UNCHANGED <<tabs, activeTab, killNodes, killCursor, KeyVars, searches>>

updateSearchInput ==
    /\ mode = "searchInput"
    /\ mode' = "normal"
    /\ \/ UNCHANGED <<tabs, activeTab, searches>>
       \/ /\ searches < MaxSearches
          /\ searches' = searches + 1
          /\ \E query \in {"e", "error"} : openSearchTab(activeTab, query)
    /\ UNCHANGED <<killNodes, killCursor, KeyVars>>

updateKillSelect ==
    /\ mode = "killSelect"
    /\ \/ /\ killCursor > 0
          /\ killCursor' = killCursor - 1 /\ UNCHANGED mode
       \/ /\ killCursor < killNodes - 1
          /\ killCursor' = killCursor + 1 /\ UNCHANGED mode
       \/ mode' = "normal" /\ UNCHANGED killCursor
    /\ UNCHANGED <<tabs, activeTab, killNodes, KeyVars, searches>>

-----------------------------------------------------------------------------
(* Commands typed in the console *)

\* runCommand starts a goroutine.  Without "overlap", users wait for the
\* cluster command before.
Give(kind, n) ==
    /\ mode = "normal" /\ activeTab = 0
    /\ given < MaxCommands
    /\ "overlap" \in Hasty \/ ~Busy
    /\ given' = given + 1
    /\ commands' = commands \cup
           {[id |-> given, kind |-> kind, n |-> n, stage |-> "run", ok |-> TRUE]}
    /\ UNCHANGED <<modelVars, dockerVars, logVars, searches>>

requireRunningCluster == nodePorts # <<>>

startNaviCommand == logCtx = 0 /\ \E n \in 1..MaxNodes : Give("start", n)
stopNaviCommand  == composePath /\ Give("stop", 0)
resetNaviCommand == composeFile.founders > 0 /\ Give("reset", 0)
killNodeCommand  == requireRunningCluster /\ Give("kill", Len(nodePorts))
addNodeCommand   == requireRunningCluster /\ Give("add", Len(nodePorts))

-----------------------------------------------------------------------------
(* Goroutines of commands, and docker *)

\* The services of a compose file, and the arguments that matter.
Services(f) == 1..(f.founders + (IF f.joiner THEN 1 ELSE 0))
Arguments(f, i) ==
    IF i <= f.founders THEN [cluster |-> f.founders, pendingJoin |-> FALSE]
    ELSE [cluster |-> i, pendingJoin |-> TRUE]

SameArguments(f, i) ==
    /\ i \in DOMAIN containers
    /\ containers[i].cluster = Arguments(f, i).cluster
    /\ containers[i].pendingJoin = Arguments(f, i).pendingJoin

Container(f, i, c) ==
    [cluster |-> Arguments(f, i).cluster, pendingJoin |-> Arguments(f, i).pendingJoin,
     born |-> c.id + 1]

\* ComposeUp for command c: docker compose up -d recreates the containers whose
\* arguments changed, without the metadata file, which is in no volume, and
\* creates those that are missing.
ComposeUp(f, c) ==
    /\ composeFile' = f
    /\ containers' = [i \in DOMAIN containers \cup Services(f) |->
          IF i \notin Services(f) \/ SameArguments(f, i) THEN containers[i]
          ELSE Container(f, i, c)]
    /\ members' = IF \A i \in 1..f.founders : SameArguments(f, i)
                  THEN members ELSE 1..f.founders

ComposeDown ==
    /\ containers' = [i \in DOMAIN containers \ Services(composeFile) |-> containers[i]]
    /\ members' = {}
    /\ UNCHANGED composeFile

Becomes(c, stage, ok) ==
    commands' = (commands \ {c}) \cup {[c EXCEPT !.stage = stage, !.ok = ok]}

\* renderCompose writes the file; docker compose up may fail after it, with
\* its work done or not.  (A down that fails is taken to have done nothing.)
ComposeUpFails(f, c) ==
    \/ ComposeUp(f, c)
    \/ composeFile' = f /\ UNCHANGED <<containers, members>>
    \/ UNCHANGED dockerVars

RunStart(c) ==
    /\ c.kind = "start" /\ c.stage = "run"
    /\ "late" \in Hasty \/ lineMsgs = {}
    /\ LET f == [founders |-> c.n, joiner |-> FALSE] IN
       \/ ComposeUp(f, c) /\ Becomes(c, "done", TRUE)
       \/ ComposeUpFails(f, c) /\ Becomes(c, "done", FALSE)
    /\ UNCHANGED <<modelVars, logVars, countVars>>

RunStop(c) ==
    /\ c.kind \in {"stop", "reset"} /\ c.stage = "run"
    /\ \/ ComposeDown /\ Becomes(c, "done", TRUE)
       \/ UNCHANGED dockerVars /\ Becomes(c, "done", FALSE)
    /\ UNCHANGED <<modelVars, logVars, countVars>>

RunKill(c) ==
    /\ c.kind = "kill" /\ c.stage = "run"
    /\ Becomes(c, "done", TRUE)
    /\ UNCHANGED <<modelVars, dockerVars, logVars, countVars>>

\* Once a leader answers the probe, AddComposeNode writes a file for c.n nodes
\* and a joiner.
RunAddNode(c) ==
    /\ c.kind = "add" /\ c.stage = "run"
    /\ LET f == [founders |-> c.n, joiner |-> TRUE] IN
       \/ ComposeUp(f, c) /\ Becomes(c, "join", TRUE)
       \/ ComposeUpFails(f, c) /\ Becomes(c, "done", FALSE)
    /\ UNCHANGED <<modelVars, logVars, countVars>>

\* Faulty: the status of the answer is not looked at.
RunAddServerUnchecked(c) ==
    /\ c.kind = "add" /\ c.stage = "join"
    /\ \/ /\ c.n + 1 \notin members /\ members # {}
          /\ members' = members \cup {c.n + 1}
       \/ UNCHANGED members
    /\ Becomes(c, "done", TRUE)
    /\ UNCHANGED <<modelVars, composeFile, containers, logVars, countVars>>

\* doAddServer: a member is refused; an answer may come too late.
RunAddServer(c) ==
    /\ c.kind = "add" /\ c.stage = "join"
    /\ \/ /\ c.n + 1 \notin members /\ members # {}
          /\ members' = members \cup {c.n + 1}
          /\ \E ok \in BOOLEAN : Becomes(c, "done", ok)
       \/ UNCHANGED members /\ Becomes(c, "done", FALSE)
    /\ UNCHANGED <<modelVars, composeFile, containers, logVars, countVars>>

-----------------------------------------------------------------------------
(* Messages *)

\* docker logs finds the container that has the name now, or ends at once.
Followers(ctx, nodes) ==
    {[ctx |-> ctx, node |-> i, born |-> containers[i].born] :
        i \in nodes \cap DOMAIN containers}

Done(c, kind) == c.kind = kind /\ c.stage = "done" /\ commands' = commands \ {c}
MsgVars == <<dockerVars, countVars, lines, lineMsgs>>

MessageFailed(c) ==
    /\ c.stage = "done" /\ ~c.ok
    /\ commands' = commands \ {c}
    /\ UNCHANGED <<modelVars, dockerVars, logVars, countVars>>

killNodesLoadedMsg(c) ==
    /\ Done(c, "kill")
    /\ mode' = "killSelect"
    /\ killNodes' = c.n /\ killCursor' = 0
    /\ UNCHANGED <<tabs, activeTab, nodePorts, composePath, logCtx, streams,
                   channel, waiters, MsgVars>>

\* Faulty: starts a second reader of the channel.
nodeAddedMsgWaits(c) ==
    LET node == c.n + 1 IN
    /\ Done(c, "add") /\ c.ok
    /\ nodePorts' = Append(nodePorts, node)
    /\ tabs' = Append(tabs, BaseTab(node + 2, node))
    /\ streams' = streams \cup Followers(logCtx, {node})
    /\ waiters' = [waiters EXCEPT ![logCtx] = @ + 1]
    /\ UNCHANGED <<activeTab, mode, killNodes, killCursor, composePath, logCtx,
                   channel, MsgVars>>

nodeAddedMsg(c) ==
    LET node == c.n + 1 IN
    /\ Done(c, "add") /\ c.ok
    /\ nodePorts' = Append(nodePorts, node)
    /\ tabs' = Append(tabs, BaseTab(node + 2, node))
    /\ streams' = IF logCtx = 0 THEN streams
                  ELSE streams \cup Followers(logCtx, {node})
    /\ UNCHANGED <<activeTab, mode, killNodes, killCursor, composePath, logCtx,
                   channel, waiters, MsgVars>>

\* A new context, channel and reader for every start; the active tab stays.
clusterStartedMsg(c) ==
    LET ctx == c.id + 1 IN
    /\ Done(c, "start") /\ c.ok
    /\ composePath' = TRUE
    /\ nodePorts' = [i \in 1..c.n |-> i]
    /\ tabs' = FreshTabs(c.n)
    /\ logCtx' = ctx
    /\ streams' = streams \cup Followers(ctx, 1..c.n)
    /\ waiters' = [waiters EXCEPT ![ctx] = 1]
    /\ UNCHANGED <<activeTab, mode, killNodes, killCursor, channel, MsgVars>>

\* Faulty: the context is not cancelled.
clusterStoppedMsgStreams(c) ==
    /\ Done(c, "stop") \/ Done(c, "reset")
    /\ c.ok
    /\ logCtx' = 0
    /\ composePath' = FALSE
    /\ nodePorts' = <<>>
    /\ tabs' = FreshTabs(0)
    /\ activeTab' = 0
    /\ UNCHANGED <<mode, killNodes, killCursor, streams, waiters, channel, MsgVars>>

\* Faulty: the active tab stays.
clusterStoppedMsgStays(c) ==
    /\ Done(c, "stop") \/ Done(c, "reset")
    /\ c.ok
    /\ streams' = {s \in streams : s.ctx # logCtx}
    /\ waiters' = [waiters EXCEPT ![logCtx] = 0]
    /\ channel' = [channel EXCEPT ![logCtx] = <<>>]
    /\ logCtx' = 0
    /\ composePath' = FALSE
    /\ nodePorts' = <<>>
    /\ tabs' = FreshTabs(0)
    /\ UNCHANGED <<activeTab, mode, killNodes, killCursor, MsgVars>>

\* The context is cancelled: docker logs ends, and so do the readers.
clusterStoppedMsg(c) ==
    /\ Done(c, "stop") \/ Done(c, "reset")
    /\ c.ok
    /\ streams' = {s \in streams : s.ctx # logCtx}
    /\ waiters' = [waiters EXCEPT ![logCtx] = 0]
    /\ channel' = [channel EXCEPT ![logCtx] = <<>>]
    /\ logCtx' = 0
    /\ composePath' = FALSE
    /\ nodePorts' = <<>>
    /\ tabs' = FreshTabs(0)
    /\ activeTab' = 0
    /\ UNCHANGED <<mode, killNodes, killCursor, MsgVars>>

-----------------------------------------------------------------------------
(* Log lines *)

\* The container a stream was started on is still there.
Follows(s) == s.node \in DOMAIN containers /\ containers[s.node].born = s.born

\* A line of the container, or one it had written before it was replaced.
streamContainerLogs(s) ==
    /\ lines < MaxLines
    /\ lines' = lines + 1
    /\ \E e \in BOOLEAN :
          channel' = [channel EXCEPT ![s.ctx] =
                         Append(@, [no |-> lines, node |-> s.node, error |-> e])]
    /\ UNCHANGED <<modelVars, commands, dockerVars, streams, waiters, lineMsgs,
                   countVars>>

\* docker logs -f ends with its container, removed or recreated, and the
\* goroutine returns: nothing follows the new container.
StreamEnds(s) ==
    /\ ~Follows(s)
    /\ streams' = streams \ {s}
    /\ UNCHANGED <<modelVars, commands, dockerVars, channel, waiters, lineMsgs,
                   lines, countVars>>

waitForLog(c) ==
    /\ waiters[c] > 0
    /\ channel[c] # <<>>
    /\ waiters' = [waiters EXCEPT ![c] = @ - 1]
    /\ channel' = [channel EXCEPT ![c] = Tail(@)]
    /\ lineMsgs' = lineMsgs \cup {Head(channel[c])}
    /\ UNCHANGED <<modelVars, commands, dockerVars, streams, lines, countVars>>

\* classifyLevel made the level; the line also goes to Errors/Warnings.
logLineMsg(l) ==
    LET shown == appendToTab(tabs, nodeTabIndex(tabs, l.node), l) IN
    /\ lineMsgs' = lineMsgs \ {l}
    /\ IF logCtx = 0 THEN UNCHANGED <<tabs, waiters>>
       ELSE /\ tabs' = IF l.error THEN appendToTab(shown, errorsTabIndex, l) ELSE shown
            /\ waiters' = [waiters EXCEPT ![logCtx] = @ + 1]
    /\ UNCHANGED <<activeTab, mode, killNodes, killCursor, nodePorts, composePath,
                   logCtx, commands, dockerVars, streams, channel, lines,
                   countVars>>

-----------------------------------------------------------------------------

Init ==
    /\ tabs = FreshTabs(0) /\ activeTab = 0 /\ mode = "normal"
    /\ killNodes = 0 /\ killCursor = 0
    /\ nodePorts = <<>> /\ composePath = FALSE /\ logCtx = 0
    /\ commands = {}
    /\ composeFile = [founders |-> 0, joiner |-> FALSE]
    /\ containers = <<>> /\ members = {}
    /\ streams = {} /\ channel = [c \in Context |-> <<>>]
    /\ waiters = [c \in Context |-> 0] /\ lineMsgs = {}
    /\ given = 0 /\ searches = 0 /\ lines = 0

Key ==
    \/ SwitchTab \/ CloseSearch \/ StartSearchInput
    \/ updateSearchInput \/ updateKillSelect
    \/ startNaviCommand \/ stopNaviCommand \/ resetNaviCommand
    \/ killNodeCommand \/ addNodeCommand

Goroutine(c) ==
    RunStart(c) \/ RunStop(c) \/ RunKill(c) \/ RunAddNode(c) \/ RunAddServer(c)

Message(c) ==
    \/ MessageFailed(c) \/ killNodesLoadedMsg(c) \/ nodeAddedMsg(c)
    \/ clusterStartedMsg(c) \/ clusterStoppedMsg(c)

Next ==
    /\ InRange
    /\ \/ Key
       \/ \E c \in commands : Goroutine(c) \/ Message(c)
       \/ \E s \in streams : streamContainerLogs(s) \/ StreamEnds(s)
       \/ \E c \in Context : waitForLog(c)
       \/ \E l \in lineMsgs : logLineMsg(l)

Spec == Init /\ [][Next]_vars

-----------------------------------------------------------------------------
(* Properties *)

Ids == {tabs[i].id : i \in DOMAIN tabs}
SearchTabs == {i \in DOMAIN tabs : tabs[i].isSearch}

\* m.activeTab and m.killCursor are kept while keys and messages move, remove
\* and replace what they index.  Handling the message of a started cluster may
\* leave m.activeTab beyond the end, which is where the program panics;
\* nothing else does, and m.killCursor always stays on the list.
RangeKept ==
    [][/\ TabInRange => TabInRange' \/ \E c \in commands : clusterStartedMsg(c)
       /\ CursorInRange']_vars

\* Opening and closing search tabs moves the others: a search tab's sourceTab
\* goes on naming the tab it was opened on, for as long as that is open.
SourceStays ==
    \A i \in SearchTabs :
        tabs[i].origin \in Ids => tabs[tabs[i].sourceTab + 1].id = tabs[i].origin

\* A search tab on a node's tab or on Errors/Warnings shows exactly that tab's
\* lines that match, those logged before it was opened and those after.
SearchTabsTail ==
    \A i \in SearchTabs : \A j \in DOMAIN tabs \ SearchTabs :
        tabs[i].origin = tabs[j].id =>
            tabs[i].lines = MatchingLines(tabs[j].lines, tabs[i].query)

\* One waitForLog is under way at a time: every tab shows lines in the order
\* they were read, also after clusters were stopped and started.
LinesInOrder ==
    \A i \in DOMAIN tabs : \A k, m \in DOMAIN tabs[i].lines :
        k < m => tabs[i].lines[k].no < tabs[i].lines[m].no

\* When no cluster command is under way, and whatever has failed before, the
\* nodes shown are numbered from 1, have containers and are members of the
\* Raft cluster.
ShownNodesRun ==
    ~Busy =>
        \A i \in 1..Len(nodePorts) :
            nodePorts[i] = i /\ i \in members \cap DOMAIN containers

\* A node's log is followed once, under the current context, and only if the
\* node is shown; a shown node whose container is the one that its cluster was
\* started with is followed.  Nothing is promised of a container that a later
\* add-node recreated: only the node it added has a stream then.
FollowedOnce ==
    /\ \A s \in streams : s.ctx = logCtx /\ s.node \in 1..Len(nodePorts)
    /\ \A s, t \in streams : s.node = t.node => s = t
    /\ \A i \in 1..Len(nodePorts) \cap DOMAIN containers :
          containers[i].born <= logCtx => \E s \in streams : s.node = i

\* closeSearchTab "returns focus to its source", wherever the source has moved
\* to, if it is still open.
FocusReturns ==
    [][\A i \in SearchTabs :
          /\ tabs[i].id \notin {tabs'[j].id : j \in DOMAIN tabs'}
          /\ tabs[i].origin \in {tabs'[j].id : j \in DOMAIN tabs'}
          /\ commands' = commands
          => tabs'[activeTab' + 1].id = tabs[i].origin]_vars

=============================================================================
