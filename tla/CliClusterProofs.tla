--------------------------- MODULE CliClusterProofs ---------------------------
(***************************************************************************)
(* Two things about navi-cli that need little of the tabs.                  *)
(*                                                                         *)
(* Whatever users and goroutines do too early or too late (every Hasty),    *)
(* m.killCursor stays on its list, and m.activeTab leaves the tabs only     *)
(* when the message of a started cluster replaces them (RangeKept).         *)
(*                                                                         *)
(* When users wait for one cluster command before they give the next        *)
(* ("overlap" \notin Hasty: the code does not make them), the nodes shown   *)
(* have containers and are members, and the log of each is followed at most *)
(* once (ShownNodesRun, FollowedOnce).  The invariant says what the message *)
(* of a command under way will find (NodesFit), that the nodes shown have   *)
(* containers unless a stop went through whose message is not handled       *)
(* (DockerFits), that a compose file for n founders finds their n           *)
(* containers only if their cluster still is there (DockerFits), and that a *)
(* container without a stream was made by a later command than the one that *)
(* started the cluster (FollowFits).                                       *)
(***************************************************************************)
EXTENDS Cli, TLAPS, SequenceTheorems

-----------------------------------------------------------------------------
(* Types *)

\* A goroutine of a command, with what it was given.
Command == [id : 0..(MaxCommands - 1),
            kind : {"start", "stop", "reset", "kill", "add"},
            n : Nat, stage : {"run", "join", "done"}, ok : BOOLEAN]

\* The types of what commands and their messages use.
ClusterTypeOK ==
    /\ commands \subseteq Command
    /\ composeFile \in [founders : Nat, joiner : BOOLEAN]
    /\ nodePorts \in Seq(Nat) /\ logCtx \in Context
    /\ given \in 0..MaxCommands

\* Only the stage and the outcome of a command change.
LEMMA BecomesCommand ==
    ASSUME commands \subseteq Command, NEW c \in commands,
           NEW stage \in {"run", "join", "done"}, NEW ok \in BOOLEAN,
           Becomes(c, stage, ok)
    PROVE  \E d \in Command :
              /\ d.id = c.id /\ d.kind = c.kind /\ d.n = c.n
              /\ d.stage = stage /\ d.ok = ok
              /\ commands' = (commands \ {c}) \cup {d}
<1>1. PICK d : d = [c EXCEPT !.stage = stage, !.ok = ok]
  OBVIOUS
<1>2. c \in Command
  OBVIOUS
<1>3. /\ d \in Command /\ d.id = c.id /\ d.kind = c.kind /\ d.n = c.n
      /\ d.stage = stage /\ d.ok = ok
  BY <1>1, <1>2 DEF Command
<1> QED
  BY <1>1, <1>3 DEF Becomes

\* The goroutine of c goes on as d, at a stage; nothing of the model changes.
GoesOn(c, d, stage, ok) ==
    /\ d \in Command /\ d.id = c.id /\ d.kind = c.kind /\ d.n = c.n
    /\ d.stage = stage /\ d.ok = ok
    /\ commands' = (commands \ {c}) \cup {d}
    /\ UNCHANGED <<modelVars, logVars, countVars>>

\* A command becomes another in one step of its goroutine.
LEMMA GoesOnAs ==
    ASSUME ClusterTypeOK, NEW c \in commands, NEW stage \in {"run", "join", "done"},
           NEW ok \in BOOLEAN, Becomes(c, stage, ok),
           UNCHANGED <<modelVars, logVars, countVars>>
    PROVE  \E d : GoesOn(c, d, stage, ok)
<1>1. PICK d \in Command :
         /\ d.id = c.id /\ d.kind = c.kind /\ d.n = c.n /\ d.stage = stage /\ d.ok = ok
         /\ commands' = (commands \ {c}) \cup {d}
  BY BecomesCommand DEF ClusterTypeOK
<1> QED
  BY <1>1 DEF GoesOn

\* What a goroutine that goes on leaves alone.
LEMMA GoesOnLeaves ==
    ASSUME NEW c, NEW d, NEW stage, NEW ok, GoesOn(c, d, stage, ok)
    PROVE  /\ UNCHANGED <<tabs, activeTab, mode, killNodes, killCursor, nodePorts>>
           /\ UNCHANGED <<composePath, logCtx, streams, given, searches>>
  BY DEF GoesOn, modelVars, logVars, countVars

\* docker compose up leaves the file it was given, or the one before.
LEMMA UpWrites ==
    ASSUME ClusterTypeOK, NEW f \in [founders : Nat, joiner : BOOLEAN], NEW c,
           ComposeUp(f, c) \/ ComposeUpFails(f, c)
    PROVE  composeFile' \in [founders : Nat, joiner : BOOLEAN]
  BY DEF ComposeUp, ComposeUpFails, dockerVars, ClusterTypeOK

\* Every step of a goroutine is of this form, and says what docker has done.
LEMMA GoroutineGoesOn ==
    ASSUME ClusterTypeOK, NEW c \in commands, Goroutine(c)
    PROVE  /\ \E d, stage, ok : GoesOn(c, d, stage, ok)
           /\ composeFile' \in [founders : Nat, joiner : BOOLEAN]
<1>1. c \in Command /\ c.n \in Nat
  BY DEF ClusterTypeOK, Command
<1>2. /\ \E stage \in {"run", "join", "done"}, ok \in BOOLEAN : Becomes(c, stage, ok)
      /\ UNCHANGED <<modelVars, logVars, countVars>>
      /\ composeFile' \in [founders : Nat, joiner : BOOLEAN]
  <2>1. CASE RunStart(c)
    <3>1. PICK f : f = [founders |-> c.n, joiner |-> FALSE]
      OBVIOUS
    <3>2. f \in [founders : Nat, joiner : BOOLEAN]
      BY <1>1, <3>1
    <3> QED
      BY <2>1, <3>1, <3>2, UpWrites DEF RunStart
  <2>2. CASE RunStop(c)
    BY <2>2 DEF RunStop, ComposeDown, dockerVars, ClusterTypeOK
  <2>3. CASE RunKill(c)
    BY <2>3 DEF RunKill, dockerVars, ClusterTypeOK
  <2>4. CASE RunAddNode(c)
    <3>1. PICK f : f = [founders |-> c.n, joiner |-> TRUE]
      OBVIOUS
    <3>2. f \in [founders : Nat, joiner : BOOLEAN]
      BY <1>1, <3>1
    <3> QED
      BY <2>4, <3>1, <3>2, UpWrites DEF RunAddNode
  <2>5. CASE RunAddServer(c)
    BY <2>5 DEF RunAddServer, logVars, countVars, ClusterTypeOK
  <2> QED
    BY <2>1, <2>2, <2>3, <2>4, <2>5 DEF Goroutine
<1>3. PICK stage \in {"run", "join", "done"}, ok \in BOOLEAN : Becomes(c, stage, ok)
  BY <1>2
<1> QED
  BY <1>2, <1>3, GoesOnAs

\* A command that is given.
LEMMA GivenCommand ==
    ASSUME ClusterTypeOK, NEW kind \in {"start", "stop", "reset", "kill", "add"},
           NEW n \in Nat, Give(kind, n)
    PROVE  /\ given' = given + 1 /\ given' \in 0..MaxCommands
           /\ UNCHANGED <<tabs, activeTab, mode, killNodes, killCursor, nodePorts>>
           /\ UNCHANGED <<composePath, logCtx, composeFile, containers, members, streams>>
           /\ \E d \in Command :
                 /\ d.id = given /\ d.kind = kind /\ d.n = n /\ d.stage = "run"
                 /\ commands' = commands \cup {d}
<1>1. given < MaxCommands /\ given' = given + 1
  BY DEF Give
<1>2. given \in 0..(MaxCommands - 1) /\ given' \in 0..MaxCommands
  BY <1>1, CliAssumption DEF ClusterTypeOK
<1>3. PICK d : d = [id |-> given, kind |-> kind, n |-> n, stage |-> "run", ok |-> TRUE]
  OBVIOUS
<1>4. d \in Command /\ d.id = given /\ d.kind = kind /\ d.n = n /\ d.stage = "run"
  BY <1>2, <1>3 DEF Command
<1>5. commands' = commands \cup {d}
  BY <1>3 DEF Give
<1>6. /\ UNCHANGED <<tabs, activeTab, mode, killNodes, killCursor, nodePorts>>
      /\ UNCHANGED <<composePath, logCtx, composeFile, containers, members, streams>>
  BY DEF Give, modelVars, dockerVars, logVars
<1> QED
  BY <1>1, <1>2, <1>4, <1>5, <1>6

\* The keys that give a command.
Given == \/ startNaviCommand \/ stopNaviCommand \/ resetNaviCommand
         \/ killNodeCommand \/ addNodeCommand

\* What they give: a node is killed or added only of nodes that are known.
LEMMA GivenAs ==
    ASSUME ClusterTypeOK, Given
    PROVE  \E kind \in {"start", "stop", "reset", "kill", "add"}, n \in Nat :
              /\ Give(kind, n)
              /\ kind \in {"start", "kill", "add"} => n > 0
              /\ kind = "start" => logCtx = 0
              /\ kind = "add" => n = Len(nodePorts) /\ nodePorts # <<>>
<1>1. nodePorts \in Seq(Nat) /\ Len(nodePorts) \in Nat
  BY LenProperties DEF ClusterTypeOK
<1>2. requireRunningCluster => Len(nodePorts) > 0 /\ nodePorts # <<>>
  BY <1>1, EmptySeq DEF requireRunningCluster
<1>3. CASE startNaviCommand
  <2>1. PICK n \in 1..MaxNodes : logCtx = 0 /\ Give("start", n)
    BY <1>3 DEF startNaviCommand
  <2>2. n \in Nat /\ n > 0
    BY CliAssumption
  <2> QED
    BY <2>1, <2>2
<1>4. CASE stopNaviCommand
  BY <1>4 DEF stopNaviCommand
<1>5. CASE resetNaviCommand
  BY <1>5 DEF resetNaviCommand
<1>6. CASE killNodeCommand
  BY <1>1, <1>2, <1>6 DEF killNodeCommand
<1>7. CASE addNodeCommand
  BY <1>1, <1>2, <1>7 DEF addNodeCommand
<1> QED
  BY <1>3, <1>4, <1>5, <1>6, <1>7 DEF Given

\* What is left of a command's message is its effect on the model.
LEMMA NodesShown ==
    ASSUME NEW n \in Nat
    PROVE  /\ [i \in 1..n |-> i] \in Seq(Nat)
           /\ Len([i \in 1..n |-> i]) = n
<1>1. PICK p : p = [i \in 1..n |-> i]
  OBVIOUS
<1>2. p \in [1..n -> Nat]
  BY <1>1
<1> QED
  BY <1>1, <1>2, SeqDef, LenProperties

\* Messages keep the types.
LEMMA MessageTyped ==
    ASSUME ClusterTypeOK, NEW c \in commands, Message(c)
    PROVE  ClusterTypeOK' /\ commands' = commands \ {c}
<1>1. c \in Command /\ c.n \in Nat /\ c.id \in 0..(MaxCommands - 1)
  BY DEF ClusterTypeOK, Command
<1>2. /\ commands' = commands \ {c} /\ composeFile' = composeFile /\ given' = given
      /\ nodePorts' \in Seq(Nat) /\ logCtx' \in Context
  <2>1. CASE MessageFailed(c)
    BY <2>1 DEF MessageFailed, modelVars, dockerVars, countVars, ClusterTypeOK
  <2>2. CASE killNodesLoadedMsg(c)
    BY <2>2 DEF killNodesLoadedMsg, Done, MsgVars, dockerVars, countVars, ClusterTypeOK
  <2>3. CASE nodeAddedMsg(c)
    <3>1. PICK p \in Seq(Nat) : p = nodePorts
      BY DEF ClusterTypeOK
    <3>2. PICK node \in Nat : node = c.n + 1
      BY <1>1
    <3>3. Append(p, node) \in Seq(Nat)
      BY <3>1, <3>2, AppendProperties
    <3> QED
      BY <2>3, <3>1, <3>2, <3>3
      DEF nodeAddedMsg, Done, MsgVars, dockerVars, countVars, ClusterTypeOK
  <2>4. CASE clusterStartedMsg(c)
    <3>1. c.id + 1 \in Context
      BY <1>1, CliAssumption DEF Context
    <3> QED
      BY <1>1, <2>4, <3>1, NodesShown
      DEF clusterStartedMsg, Done, MsgVars, dockerVars, countVars, ClusterTypeOK
  <2>5. CASE clusterStoppedMsg(c)
    <3>1. 0 \in Context /\ <<>> \in Seq(Nat)
      BY CliAssumption, EmptySeq DEF Context
    <3> QED
      BY <2>5, <3>1
      DEF clusterStoppedMsg, Done, MsgVars, dockerVars, countVars, ClusterTypeOK
  <2> QED
    BY <2>1, <2>2, <2>3, <2>4, <2>5 DEF Message
<1> QED
  BY <1>2 DEF ClusterTypeOK

\* A step that is none of a command: it changes nothing of the cluster.
Elsewhere ==
    /\ UNCHANGED <<commands, nodePorts, logCtx, given>>
    /\ UNCHANGED <<composeFile, containers, members>>

\* The other keys, and log lines, are such steps.
LEMMA OtherSteps ==
    ASSUME \/ SwitchTab \/ CloseSearch \/ StartSearchInput
           \/ updateSearchInput \/ updateKillSelect
           \/ \E s \in streams : streamContainerLogs(s) \/ StreamEnds(s)
           \/ \E c \in Context : waitForLog(c)
           \/ \E l \in lineMsgs : logLineMsg(l)
           \/ UNCHANGED vars
    PROVE  /\ Elsewhere
           /\ UNCHANGED streams \/ \E s \in streams : StreamEnds(s)
<1>1. CASE UNCHANGED KeyVars
  BY <1>1 DEF KeyVars, dockerVars, logVars, Elsewhere
<1>2. CASE UNCHANGED vars
  BY <1>2 DEF vars, modelVars, dockerVars, logVars, countVars, Elsewhere
<1>3. ASSUME NEW s \in streams, streamContainerLogs(s)
      PROVE  Elsewhere /\ UNCHANGED streams
  BY <1>3 DEF streamContainerLogs, modelVars, dockerVars, countVars, Elsewhere
<1>4. ASSUME NEW s \in streams, StreamEnds(s) PROVE Elsewhere
  BY <1>4 DEF StreamEnds, modelVars, dockerVars, countVars, Elsewhere
<1>5. ASSUME NEW c \in Context, waitForLog(c) PROVE Elsewhere /\ UNCHANGED streams
  BY <1>5 DEF waitForLog, modelVars, dockerVars, countVars, Elsewhere
<1>6. ASSUME NEW l \in lineMsgs, logLineMsg(l) PROVE Elsewhere /\ UNCHANGED streams
  BY <1>6 DEF logLineMsg, dockerVars, countVars, Elsewhere
<1> QED
  BY <1>1, <1>2, <1>3, <1>4, <1>5, <1>6
  DEF SwitchTab, CloseSearch, StartSearchInput, updateSearchInput, updateKillSelect

\* A step is of a goroutine, a message, a key that gives a command, or such.
LEMMA StepKinds ==
    ASSUME [Next]_vars
    PROVE  \/ \E c \in commands : Goroutine(c)
           \/ \E c \in commands : Message(c)
           \/ Given
           \/ /\ \/ SwitchTab \/ CloseSearch \/ StartSearchInput
                 \/ updateSearchInput \/ updateKillSelect
                 \/ \E s \in streams : streamContainerLogs(s) \/ StreamEnds(s)
                 \/ \E c \in Context : waitForLog(c)
                 \/ \E l \in lineMsgs : logLineMsg(l)
                 \/ UNCHANGED vars
  BY DEF Next, Key, Given

\* Whatever happens, the types stay.
LEMMA TypesStay ==
    ASSUME ClusterTypeOK, [Next]_vars
    PROVE  ClusterTypeOK'
<1>1. ASSUME NEW c \in commands, Goroutine(c) PROVE ClusterTypeOK'
  <2>1. PICK d, stage, ok : GoesOn(c, d, stage, ok)
    BY <1>1, GoroutineGoesOn
  <2>2. composeFile' \in [founders : Nat, joiner : BOOLEAN]
    BY <1>1, GoroutineGoesOn
  <2>3. UNCHANGED <<nodePorts, logCtx, given>>
    BY <2>1, GoesOnLeaves
  <2> QED
    BY <2>1, <2>2, <2>3 DEF ClusterTypeOK, GoesOn
<1>2. ASSUME NEW c \in commands, Message(c) PROVE ClusterTypeOK'
  BY <1>2, MessageTyped
<1>3. CASE Given
  <2>1. PICK kind \in {"start", "stop", "reset", "kill", "add"}, n \in Nat : Give(kind, n)
    BY <1>3, GivenAs
  <2> QED
    BY <2>1, GivenCommand DEF ClusterTypeOK
<1>4. CASE Elsewhere
  BY <1>4 DEF Elsewhere, ClusterTypeOK
<1> QED
  BY <1>1, <1>2, <1>3, <1>4, StepKinds, OtherSteps

-----------------------------------------------------------------------------
(* The tab shown and the node selected *)

\* A tab, as far as the tab shown depends on it.
IsRow(t) == "sourceTab" \in DOMAIN t /\ t.sourceTab \in Nat

\* ts is a row of m tabs.
Rows(ts, m) == \E S : (\A t \in S : IsRow(t)) /\ ts \in Seq(S) /\ Len(ts) = m

\* Whatever each of the tabs becomes, as many are left.
LEMMA RowsMapped ==
    ASSUME NEW m \in Nat, NEW us, DOMAIN us = 1..m, us = [i \in 1..m |-> us[i]],
           \A i \in 1..m : IsRow(us[i])
    PROVE  Rows(us, m)
<1> DEFINE S == {us[i] : i \in 1..m}
<1>1. us \in [1..m -> S]
  OBVIOUS
<1>2. us \in Seq(S) /\ Len(us) = m
  BY <1>1, SeqDef, LenProperties
<1>3. \A t \in S : IsRow(t)
  OBVIOUS
<1> HIDE DEF S
<1> QED
  BY <1>2, <1>3 DEF Rows

\* The indices of a row.
LEMMA RowsDomain ==
    ASSUME NEW ts, NEW m \in Nat, Rows(ts, m)
    PROVE  DOMAIN ts = 1..m /\ Len(ts) = m /\ \A i \in 1..m : IsRow(ts[i])
<1>1. PICK S : (\A t \in S : IsRow(t)) /\ ts \in Seq(S) /\ Len(ts) = m
  BY DEF Rows
<1> QED
  BY <1>1, LenProperties, ElementOfSeq

\* The tabs of a new cluster.
LEMMA RowsFresh ==
    ASSUME NEW n \in Nat
    PROVE  Rows(FreshTabs(n), n + 2)
<1>1. PICK us : us = FreshTabs(n)
  OBVIOUS
<1>2. us = [i \in 1..(n + 2) |-> us[i]] /\ DOMAIN us = 1..(n + 2)
  BY <1>1 DEF FreshTabs
<1>3. \A i \in 1..(n + 2) : IsRow(us[i])
  BY <1>1 DEF FreshTabs, BaseTab, IsRow
<1> QED
  BY <1>1, <1>2, <1>3, RowsMapped

\* One tab more.
LEMMA RowsAppended ==
    ASSUME NEW ts, NEW m \in Nat, Rows(ts, m), NEW t, IsRow(t)
    PROVE  Rows(Append(ts, t), m + 1)
<1>1. PICK S : (\A u \in S : IsRow(u)) /\ ts \in Seq(S) /\ Len(ts) = m
  BY DEF Rows
<1>2. PICK T : T = S \cup {t}
  OBVIOUS
<1>3. ts \in Seq(T)
  BY <1>1, <1>2, SeqMonotonic
<1>4. Append(ts, t) \in Seq(T) /\ Len(Append(ts, t)) = m + 1
  BY <1>1, <1>2, <1>3, AppendProperties
<1> QED
  BY <1>1, <1>2, <1>4 DEF Rows

\* Search tabs move by one: those behind from have a tab before them.
LEMMA RowsShifted ==
    ASSUME NEW ts, NEW m \in Nat, Rows(ts, m), NEW from \in Nat,
           NEW by \in Int, by = 1 \/ (by = -1 /\ from > 0)
    PROVE  Rows(Shifted(ts, from, by), m)
<1>1. DOMAIN ts = 1..m /\ \A i \in 1..m : IsRow(ts[i])
  BY RowsDomain
<1>2. PICK us : us = Shifted(ts, from, by)
  OBVIOUS
<1>3. us = [i \in 1..m |-> us[i]] /\ DOMAIN us = 1..m
  BY <1>1, <1>2 DEF Shifted
<1>4. ASSUME NEW i \in 1..m PROVE IsRow(us[i])
  <2>1. PICK t : t = ts[i]
    OBVIOUS
  <2>2. us[i] = IF t.isSearch /\ t.sourceTab >= from
                THEN [t EXCEPT !.sourceTab = @ + by] ELSE t
    BY <1>1, <1>2, <2>1 DEF Shifted
  <2>3. "sourceTab" \in DOMAIN t /\ t.sourceTab \in Nat
    BY <1>1, <2>1 DEF IsRow
  <2>4. t.sourceTab >= from => t.sourceTab + by \in Nat
    BY <2>3
  <2> QED
    BY <2>2, <2>3, <2>4 DEF IsRow
<1> QED
  BY <1>2, <1>3, <1>4, RowsMapped

\* A line may be added to every tab.
LEMMA RowsWritten ==
    ASSUME NEW ts, NEW m \in Nat, Rows(ts, m), NEW idx, NEW l
    PROVE  Rows(appendToTab(ts, idx, l), m)
<1>1. DOMAIN ts = 1..m /\ \A i \in 1..m : IsRow(ts[i])
  BY RowsDomain
<1>2. PICK us : us = appendToTab(ts, idx, l)
  OBVIOUS
<1>3. us = [i \in 1..m |-> us[i]] /\ DOMAIN us = 1..m
  BY <1>1, <1>2 DEF appendToTab
<1>4. ASSUME NEW i \in 1..m PROVE IsRow(us[i])
  <2>1. PICK t : t = ts[i]
    OBVIOUS
  <2>2. \E ls : us[i] = [t EXCEPT !.lines = ls]
    BY <1>1, <1>2, <2>1 DEF appendToTab
  <2>3. "sourceTab" \in DOMAIN t /\ t.sourceTab \in Nat
    BY <1>1, <2>1 DEF IsRow
  <2> QED
    BY <2>2, <2>3 DEF IsRow
<1> QED
  BY <1>2, <1>3, <1>4, RowsMapped

\* A part of the tabs.
LEMMA RowsPart ==
    ASSUME NEW S, NEW ts \in Seq(S), NEW a \in Nat \ {0}, NEW b \in 0..Len(ts), a <= b + 1
    PROVE  SubSeq(ts, a, b) \in Seq(S) /\ Len(SubSeq(ts, a, b)) = b - a + 1
<1>1. Len(ts) \in Nat
  BY LenProperties
<1>2. a \in Int /\ b \in Int /\ \A i \in a..b : ts[i] \in S
  BY <1>1, ElementOfSeq
<1>3. /\ SubSeq(ts, a, b) \in Seq(S)
      /\ Len(SubSeq(ts, a, b)) = IF a <= b THEN b - a + 1 ELSE 0
  BY <1>2, SubSeqProperties
<1> QED
  BY <1>1, <1>3

\* One tab less.
LEMMA RowsWithout ==
    ASSUME NEW ts, NEW m \in Nat, Rows(ts, m), NEW p \in 1..m
    PROVE  Rows(Without(ts, p), m - 1)
<1>1. PICK S : (\A t \in S : IsRow(t)) /\ ts \in Seq(S) /\ Len(ts) = m
  BY DEF Rows
<1>2. SubSeq(ts, 1, p - 1) \in Seq(S) /\ Len(SubSeq(ts, 1, p - 1)) = p - 1
  BY <1>1, RowsPart
<1>3. SubSeq(ts, p + 1, m) \in Seq(S) /\ Len(SubSeq(ts, p + 1, m)) = m - p
  BY <1>1, RowsPart
<1>4. Without(ts, p) \in Seq(S) /\ Len(Without(ts, p)) = m - 1
  BY <1>1, <1>2, <1>3, ConcatProperties DEF Without
<1> QED
  BY <1>1, <1>4 DEF Rows

\* One tab more, behind the tab at at.
LEMMA RowsOpened ==
    ASSUME NEW ts, NEW m \in Nat, Rows(ts, m), NEW at \in 1..m, NEW t, IsRow(t)
    PROVE  Rows(SubSeq(ts, 1, at) \o <<t>> \o SubSeq(ts, at + 1, m), m + 1)
<1>1. PICK S : (\A u \in S : IsRow(u)) /\ ts \in Seq(S) /\ Len(ts) = m
  BY DEF Rows
<1>2. PICK T : T = S \cup {t}
  OBVIOUS
<1>3. ts \in Seq(T)
  BY <1>1, <1>2, SeqMonotonic
<1>4. SubSeq(ts, 1, at) \in Seq(T) /\ Len(SubSeq(ts, 1, at)) = at
  BY <1>1, <1>3, RowsPart
<1>5. SubSeq(ts, at + 1, m) \in Seq(T) /\ Len(SubSeq(ts, at + 1, m)) = m - at
  BY <1>1, <1>3, RowsPart
<1>6. PICK a, b : a = SubSeq(ts, 1, at) /\ b = SubSeq(ts, at + 1, m)
  OBVIOUS
<1>7. <<t>> \in Seq(T) /\ Len(<<t>>) = 1
  BY <1>2
<1>8. a \o <<t>> \in Seq(T) /\ Len(a \o <<t>>) = at + 1
  BY <1>4, <1>6, <1>7, ConcatProperties
<1>9. PICK c : c = a \o <<t>>
  OBVIOUS
<1>10. c \o b \in Seq(T) /\ Len(c \o b) = m + 1
  BY <1>5, <1>6, <1>8, <1>9, ConcatProperties
<1> QED
  BY <1>1, <1>2, <1>6, <1>9, <1>10 DEF Rows

\* There is a tab; the nodes to kill are listed only of a cluster that has
\* some; and the selection is on the list.
RangeFits ==
    /\ activeTab \in Nat /\ killNodes \in Nat /\ killCursor \in Nat
    /\ \E m \in Nat \ {0} : Rows(tabs, m)
    /\ \A c \in commands : c.kind = "kill" => c.n > 0
    /\ CursorInRange

\* The invariant, for whatever users and goroutines do.
RangeInv == ClusterTypeOK /\ RangeFits

\* What a step does to the tabs and the focus, when it gives and takes no
\* command to kill a node.
FocusStep ==
    /\ activeTab' \in Nat
    /\ \E m \in Nat \ {0} : Rows(tabs', m) /\ (TabInRange => activeTab' < m)

\* A key or a line that keeps the list of nodes to kill.
LEMMA FocusSteps ==
    ASSUME RangeInv, FocusStep, UNCHANGED <<killNodes, killCursor, commands>>,
           mode' = mode \/ mode' # "killSelect"
    PROVE  RangeFits' /\ (TabInRange => TabInRange')
<1>1. PICK m \in Nat \ {0} : Rows(tabs', m) /\ (TabInRange => activeTab' < m)
  BY DEF FocusStep
<1>2. Len(tabs') = m
  BY <1>1, RowsDomain
<1>3. CursorInRange'
  BY DEF RangeInv, RangeFits, CursorInRange
<1> QED
  BY <1>1, <1>2, <1>3 DEF RangeInv, RangeFits, FocusStep, TabInRange

\* Keys that are no commands, and log lines: nothing indexes beyond the tabs,
\* or the program has panicked before.
LEMMA OtherFocus ==
    ASSUME RangeInv, InRange \/ UNCHANGED vars,
           \/ SwitchTab \/ CloseSearch \/ StartSearchInput
           \/ updateSearchInput \/ updateKillSelect
           \/ \E s \in streams : streamContainerLogs(s) \/ StreamEnds(s)
           \/ \E c \in Context : waitForLog(c)
           \/ \E l \in lineMsgs : logLineMsg(l)
           \/ UNCHANGED vars
    PROVE  RangeFits' /\ (TabInRange => TabInRange')
<1>1. PICK m \in Nat \ {0} : Rows(tabs, m)
  BY DEF RangeInv, RangeFits
<1>2. /\ Len(tabs) = m /\ DOMAIN tabs = 1..m /\ \A i \in 1..m : IsRow(tabs[i])
      /\ activeTab \in Nat
  BY <1>1, RowsDomain DEF RangeInv, RangeFits
<1>3. CASE UNCHANGED <<tabs, activeTab, mode, killNodes, killCursor, commands>>
  BY <1>1, <1>2, <1>3, FocusSteps DEF FocusStep, TabInRange
<1>4. CASE InRange /\ SwitchTab
  <2>1. PICK by \in {1, m - 1} : activeTab' = (activeTab + by) % m
    BY <1>2, <1>4 DEF SwitchTab
  <2>2. activeTab' \in Nat /\ activeTab' < m
    BY <1>2, <2>1
  <2>3. UNCHANGED <<tabs, mode, killNodes, killCursor, commands>>
    BY <1>4 DEF SwitchTab, KeyVars
  <2> QED
    BY <1>1, <2>2, <2>3, FocusSteps DEF FocusStep
<1>5. CASE InRange /\ CloseSearch
  <2>1. /\ activeTab # 0 /\ activeTab < m /\ closeSearchTab(activeTab)
        /\ UNCHANGED <<mode, killNodes, killCursor, commands>>
    BY <1>2, <1>5 DEF CloseSearch, InRange, TabInRange, KeyVars
  <2>2. PICK p \in 1..m : p = activeTab + 1
    BY <1>2, <2>1
  <2>3. PICK source \in Nat : source = tabs[p].sourceTab
    BY <1>2 DEF IsRow
  <2>4. /\ tabs' = Shifted(Without(tabs, p), p, -1)
        /\ \E back \in Nat : activeTab' = IF back >= m - 1 THEN m - 2 ELSE back
    <3>1. PICK back \in Nat : back = IF source > activeTab THEN source - 1 ELSE source
      BY <1>2, <2>3
    <3>2. m - 1 - 1 = m - 2
      OBVIOUS
    <3> QED
      BY <1>2, <2>1, <2>2, <2>3, <3>1, <3>2 DEF closeSearchTab
  <2>5. m - 1 \in Nat \ {0} /\ activeTab' \in Nat /\ activeTab' < m - 1
    BY <1>2, <2>1, <2>4
  <2>6. Rows(Without(tabs, p), m - 1)
    BY <1>1, RowsWithout
  <2>7. Rows(tabs', m - 1)
    BY <2>4, <2>5, <2>6, RowsShifted
  <2> QED
    BY <2>1, <2>5, <2>7, FocusSteps DEF FocusStep
<1>6. CASE StartSearchInput
  <2>1. /\ mode' = "searchInput"
        /\ UNCHANGED <<tabs, activeTab, killNodes, killCursor, commands>>
    BY <1>6 DEF StartSearchInput, KeyVars
  <2> QED
    BY <1>1, <1>2, <2>1, FocusSteps DEF FocusStep, TabInRange
<1>7. CASE InRange /\ updateSearchInput
  <2>1. mode' = "normal" /\ UNCHANGED <<killNodes, killCursor, commands>> /\ activeTab < m
    BY <1>2, <1>7 DEF updateSearchInput, KeyVars, InRange, TabInRange
  <2>2. CASE UNCHANGED <<tabs, activeTab>>
    BY <1>1, <1>2, <2>1, <2>2, FocusSteps DEF FocusStep, TabInRange
  <2>3. ASSUME NEW query, openSearchTab(activeTab, query)
        PROVE  RangeFits' /\ (TabInRange => TabInRange')
    <3>1. PICK at \in 1..m : at = activeTab + 1
      BY <1>2, <2>1
    <3>2. PICK old : old = Shifted(tabs, at, 1)
      OBVIOUS
    <3>3. PICK new : new = [id |-> SearchId(searches), node |-> 0, isSearch |-> TRUE,
                            sourceTab |-> activeTab, origin |-> tabs[at].id, query |-> query,
                            lines |-> MatchingLines(tabs[at].lines, query)]
      OBVIOUS
    <3>4. IsRow(new)
      BY <1>2, <3>3 DEF IsRow
    <3>5. /\ tabs' = SubSeq(old, 1, at) \o <<new>> \o SubSeq(old, at + 1, m)
          /\ activeTab' = at
      BY <1>2, <2>3, <3>1, <3>2, <3>3 DEF openSearchTab
    <3>6. Rows(old, m)
      BY <1>1, <3>1, <3>2, RowsShifted
    <3>7. Rows(tabs', m + 1)
      BY <3>4, <3>5, <3>6, RowsOpened
    <3>8. activeTab' \in Nat /\ activeTab' < m + 1 /\ m + 1 \in Nat \ {0}
      BY <3>1, <3>5
    <3> QED
      BY <2>1, <3>7, <3>8, FocusSteps DEF FocusStep
  <2> QED
    BY <1>7, <2>2, <2>3 DEF updateSearchInput
<1>8. CASE updateKillSelect
  <2>1. /\ UNCHANGED <<tabs, activeTab, killNodes, commands>>
        /\ killNodes \in Nat /\ killCursor \in Nat /\ killCursor < killNodes
        /\ killCursor' \in Nat /\ CursorInRange'
    BY <1>8 DEF updateKillSelect, KeyVars, RangeInv, RangeFits, CursorInRange
  <2> QED
    BY <1>1, <1>2, <2>1 DEF RangeInv, RangeFits, TabInRange
<1>9. ASSUME NEW l \in lineMsgs, logLineMsg(l)
      PROVE  RangeFits' /\ (TabInRange => TabInRange')
  <2>1. UNCHANGED <<activeTab, mode, killNodes, killCursor, commands>>
    BY <1>9 DEF logLineMsg
  <2>2. PICK shown : shown = appendToTab(tabs, nodeTabIndex(tabs, l.node), l)
    OBVIOUS
  <2>3. Rows(shown, m) /\ Rows(appendToTab(shown, errorsTabIndex, l), m)
    BY <1>1, <2>2, RowsWritten
  <2>4. \/ tabs' = tabs \/ tabs' = shown
        \/ tabs' = appendToTab(shown, errorsTabIndex, l)
    BY <1>9, <2>2 DEF logLineMsg
  <2>5. Rows(tabs', m)
    BY <1>1, <2>3, <2>4
  <2> QED
    BY <1>2, <2>1, <2>5, FocusSteps DEF FocusStep, TabInRange
<1>10. ASSUME NEW s \in streams, streamContainerLogs(s) \/ StreamEnds(s)
       PROVE  UNCHANGED <<tabs, activeTab, mode, killNodes, killCursor, commands>>
  BY <1>10 DEF streamContainerLogs, StreamEnds, modelVars
<1>11. ASSUME NEW c \in Context, waitForLog(c)
       PROVE  UNCHANGED <<tabs, activeTab, mode, killNodes, killCursor, commands>>
  BY <1>11 DEF waitForLog, modelVars
<1>12. CASE UNCHANGED vars
  BY <1>3, <1>12 DEF vars, modelVars
<1> QED
  BY <1>3, <1>4, <1>5, <1>6, <1>7, <1>8, <1>9, <1>10, <1>11, <1>12

\* The message of a started cluster is the only one that loses the focus.
LEMMA MessageFocus ==
    ASSUME RangeInv, NEW c \in commands, Message(c)
    PROVE  /\ RangeFits'
           /\ TabInRange => TabInRange' \/ clusterStartedMsg(c)
<1>1. PICK m \in Nat \ {0} : Rows(tabs, m)
  BY DEF RangeInv, RangeFits
<1>2. Len(tabs) = m /\ activeTab \in Nat /\ killNodes \in Nat /\ killCursor \in Nat
  BY <1>1, RowsDomain DEF RangeInv, RangeFits
<1>3. c \in Command /\ c.n \in Nat
  BY DEF RangeInv, ClusterTypeOK, Command
<1>4. commands' = commands \ {c} /\ \A d \in commands' : d.kind = "kill" => d.n > 0
  BY MessageTyped DEF RangeInv, RangeFits
<1>5. CASE MessageFailed(c)
  <2>1. UNCHANGED <<tabs, activeTab, mode, killNodes, killCursor>>
    BY <1>5 DEF MessageFailed, modelVars
  <2> QED
    BY <1>1, <1>2, <1>4, <2>1 DEF RangeInv, RangeFits, CursorInRange, TabInRange
<1>6. CASE killNodesLoadedMsg(c)
  <2>1. /\ UNCHANGED <<tabs, activeTab>> /\ killNodes' = c.n /\ killCursor' = 0
        /\ c.kind = "kill"
    BY <1>6 DEF killNodesLoadedMsg, Done
  <2>2. c.n > 0
    BY <2>1 DEF RangeInv, RangeFits
  <2> QED
    BY <1>1, <1>2, <1>3, <1>4, <2>1, <2>2
    DEF RangeInv, RangeFits, CursorInRange, TabInRange
<1>7. CASE nodeAddedMsg(c)
  <2>1. PICK t : t = BaseTab(c.n + 1 + 2, c.n + 1)
    OBVIOUS
  <2>2. /\ tabs' = Append(tabs, t)
        /\ UNCHANGED <<activeTab, mode, killNodes, killCursor>>
    BY <1>7, <2>1 DEF nodeAddedMsg
  <2>3. IsRow(t)
    BY <2>1 DEF IsRow, BaseTab
  <2>4. Rows(tabs', m + 1) /\ m + 1 \in Nat \ {0}
    BY <1>1, <2>2, <2>3, RowsAppended
  <2>5. Len(tabs') = m + 1
    BY <2>4, RowsDomain
  <2> QED
    BY <1>2, <1>4, <2>2, <2>4, <2>5 DEF RangeInv, RangeFits, CursorInRange, TabInRange
<1>8. CASE clusterStartedMsg(c)
  <2>1. tabs' = FreshTabs(c.n) /\ UNCHANGED <<activeTab, mode, killNodes, killCursor>>
    BY <1>8 DEF clusterStartedMsg
  <2>2. Rows(tabs', c.n + 2) /\ c.n + 2 \in Nat \ {0}
    BY <1>3, <2>1, RowsFresh
  <2> QED
    BY <1>2, <1>4, <1>8, <2>1, <2>2 DEF RangeInv, RangeFits, CursorInRange
<1>9. CASE clusterStoppedMsg(c)
  <2>1. /\ tabs' = FreshTabs(0) /\ activeTab' = 0
        /\ UNCHANGED <<mode, killNodes, killCursor>>
    BY <1>9 DEF clusterStoppedMsg
  <2>2. Rows(tabs', 2) /\ 2 \in Nat \ {0} /\ 0 \in Nat
    <3>1. Rows(FreshTabs(0), 0 + 2) /\ 0 + 2 = 2
      BY RowsFresh
    <3> QED
      BY <2>1, <3>1
  <2>3. Len(tabs') = 2
    BY <2>2, RowsDomain
  <2> QED
    BY <1>2, <1>4, <2>1, <2>2, <2>3 DEF RangeInv, RangeFits, CursorInRange, TabInRange
<1> QED
  BY <1>5, <1>6, <1>7, <1>8, <1>9 DEF Message

\* Goroutines and the keys that give a command leave tabs and focus alone.
LEMMA CommandFocus ==
    ASSUME RangeInv, Given \/ \E c \in commands : Goroutine(c)
    PROVE  RangeFits' /\ (TabInRange => TabInRange')
<1>1. /\ UNCHANGED <<tabs, activeTab, mode, killNodes, killCursor>>
      /\ \A d \in commands' : d.kind = "kill" => d.n > 0
  <2>1. CASE Given
    <3>1. PICK kind \in {"start", "stop", "reset", "kill", "add"}, n \in Nat :
             Give(kind, n) /\ (kind \in {"start", "kill", "add"} => n > 0)
      BY <2>1, GivenAs DEF RangeInv
    <3>2. PICK d \in Command :
             d.kind = kind /\ d.n = n /\ commands' = commands \cup {d}
      BY <3>1, GivenCommand DEF RangeInv
    <3> QED
      BY <3>1, <3>2, GivenCommand DEF RangeInv, RangeFits
  <2>2. ASSUME NEW c \in commands, Goroutine(c)
        PROVE  /\ UNCHANGED <<tabs, activeTab, mode, killNodes, killCursor>>
               /\ \A d \in commands' : d.kind = "kill" => d.n > 0
    <3>1. PICK d, stage, ok : GoesOn(c, d, stage, ok)
      BY <2>2, GoroutineGoesOn DEF RangeInv
    <3>2. d.kind = c.kind /\ d.n = c.n /\ commands' = (commands \ {c}) \cup {d}
      BY <3>1 DEF GoesOn
    <3> QED
      BY <3>1, <3>2, GoesOnLeaves DEF RangeInv, RangeFits
  <2> QED
    BY <2>1, <2>2
<1> QED
  BY <1>1 DEF RangeInv, RangeFits, CursorInRange, TabInRange

\* A step keeps the invariant, and the focus unless a cluster has started.
LEMMA RangeStep ==
    ASSUME RangeInv, [Next]_vars
    PROVE  /\ RangeInv'
           /\ TabInRange => TabInRange' \/ \E c \in commands : clusterStartedMsg(c)
<1>1. ClusterTypeOK'
  BY TypesStay DEF RangeInv
<1>2. InRange \/ UNCHANGED vars
  BY DEF Next
<1> QED
  BY <1>1, <1>2, StepKinds, CommandFocus, MessageFocus, OtherFocus DEF RangeInv

\* navi-cli starts without nodes and without commands.
LEMMA TypedInit == Init => ClusterTypeOK
<1> SUFFICES ASSUME Init PROVE ClusterTypeOK
  OBVIOUS
<1>1. 0 \in Context /\ 0 \in 0..MaxCommands /\ <<>> \in Seq(Nat)
  BY CliAssumption, EmptySeq DEF Context
<1> QED
  BY <1>1 DEF Init, ClusterTypeOK

\* Console and Errors/Warnings are there from the start.
LEMMA RangeInit == Init => RangeInv
<1> SUFFICES ASSUME Init PROVE RangeInv
  OBVIOUS
<1>1. /\ tabs = FreshTabs(0) /\ activeTab = 0 /\ mode = "normal"
      /\ killNodes = 0 /\ killCursor = 0 /\ commands = {}
  BY DEF Init
<1>2. Rows(tabs, 2) /\ 2 \in Nat \ {0}
  <2>1. Rows(FreshTabs(0), 0 + 2) /\ 0 + 2 = 2
    BY RowsFresh
  <2> QED
    BY <1>1, <2>1
<1> QED
  BY <1>1, <1>2, TypedInit DEF RangeInv, RangeFits, CursorInRange

\* Whatever users do and in whatever order commands end: the cursor of the kill
\* prompt stays on its list, and only the message of a started cluster may
\* leave m.activeTab beyond the tabs.
THEOREM RangeKeptCorrect == Spec => RangeKept
<1>1. RangeInv /\ [Next]_vars => RangeInv'
  BY RangeStep
<1>2. RangeInv /\ [Next]_vars =>
         [/\ TabInRange => TabInRange' \/ \E c \in commands : clusterStartedMsg(c)
          /\ CursorInRange']_vars
  <2> SUFFICES ASSUME RangeInv, [Next]_vars
               PROVE  /\ TabInRange =>
                            TabInRange' \/ \E c \in commands : clusterStartedMsg(c)
                      /\ CursorInRange'
    OBVIOUS
  <2> QED
    BY RangeStep DEF RangeInv, RangeFits
<1> QED
  BY <1>1, <1>2, RangeInit, PTL DEF Spec, RangeKept

-----------------------------------------------------------------------------
(* The nodes shown, when cluster commands wait for each other *)

\* What is under way fits what is shown: one cluster command at a time, given
\* after the one that the log context is of, and a node is added behind the
\* nodes there are.
NodesFit ==
    /\ \A c, d \in commands : ClusterCommand(c) /\ ClusterCommand(d) => c = d
    /\ \A c \in commands :
          /\ c.id < given
          /\ c.kind \in {"start", "kill", "add"} => c.n > 0
          /\ c.kind = "start" => logCtx = 0
          /\ c.kind = "add" => c.n = Len(nodePorts) /\ logCtx # 0 /\ logCtx <= c.id
    /\ logCtx <= given
    /\ logCtx = 0 => nodePorts = <<>>
    /\ \A i \in 1..Len(nodePorts) : nodePorts[i] = i

\* Streams are of the nodes shown; a node without one runs in a container that
\* was made after the cluster was started.
FollowFits ==
    /\ \A s \in streams : s.ctx = logCtx /\ s.node \in 1..Len(nodePorts)
    /\ \A s, t \in streams : s.node = t.node => s = t
    /\ \A i \in 1..Len(nodePorts) \cap DOMAIN containers :
          containers[i].born <= logCtx =>
              \E s \in streams : s.node = i /\ s.born = containers[i].born

\* Node i runs as a founder of a cluster of n.
FoundedFor(i, n) ==
    i \in DOMAIN containers /\ containers[i].cluster = n /\ ~containers[i].pendingJoin

\* The nodes run that are shown or about to be, unless a stop went through;
\* and a compose file brings up either its cluster anew or the one it made.
DockerFits ==
    /\ 1 \in DOMAIN containers => composeFile.founders > 0
    /\ \A n \in Nat \ {0} : (\A i \in 1..n : FoundedFor(i, n)) => 1..n \subseteq members
    /\ \/ 1..Len(nodePorts) \subseteq members \cap DOMAIN containers
       \/ \E c \in commands : c.kind \in {"stop", "reset"} /\ c.stage = "done" /\ c.ok
    /\ \A c \in commands :
          /\ c.kind = "start" /\ c.stage = "done" /\ c.ok =>
                 1..c.n \subseteq members \cap DOMAIN containers
          /\ c.kind = "add" /\ c.stage = "join" => c.n + 1 \in DOMAIN containers
          /\ c.kind = "add" /\ c.stage = "done" /\ c.ok =>
                 c.n + 1 \in members \cap DOMAIN containers

\* The invariant, when users wait.
CInv == ClusterTypeOK /\ NodesFit /\ FollowFits /\ DockerFits

\* docker compose up brings up the nodes of the file, and keeps the others; a
\* container that it made is younger than its command.
LEMMA UpFits ==
    ASSUME CInv, NEW f \in [founders : Nat \ {0}, joiner : BOOLEAN], NEW c,
           ComposeUp(f, c)
    PROVE  /\ composeFile' = f
           /\ 1..f.founders \subseteq members' \cap DOMAIN containers'
           /\ f.joiner => f.founders + 1 \in DOMAIN containers'
           /\ DOMAIN containers \subseteq DOMAIN containers'
           /\ \A n \in Nat \ {0} :
                 (\A i \in 1..n : FoundedFor(i, n)') => 1..n \subseteq members'
           /\ \A i \in DOMAIN containers' :
                 \/ containers'[i].born = c.id + 1
                 \/ i \in DOMAIN containers /\ containers'[i] = containers[i]
<1>1. PICK m \in Nat \ {0} : m = f.founders
  OBVIOUS
<1>2. /\ composeFile' = f
      /\ DOMAIN containers' = DOMAIN containers \cup Services(f)
      /\ \A i \in DOMAIN containers' :
            containers'[i] = IF i \notin Services(f) \/ SameArguments(f, i)
                             THEN containers[i] ELSE Container(f, i, c)
  BY DEF ComposeUp
<1>3. members' = IF \A i \in 1..m : SameArguments(f, i) THEN members ELSE 1..m
  BY <1>1 DEF ComposeUp
<1>4. 1..m \subseteq Services(f) /\ (f.joiner => m + 1 \in Services(f))
  BY <1>1 DEF Services
<1>5. \A i \in 1..m : Arguments(f, i) = [cluster |-> m, pendingJoin |-> FALSE]
  BY <1>1 DEF Arguments
<1>6. 1..m \subseteq members'
  <2>1. CASE \A i \in 1..m : SameArguments(f, i)
    <3>1. \A i \in 1..m : FoundedFor(i, m)
      BY <1>5, <2>1 DEF SameArguments, FoundedFor
    <3> QED
      BY <1>3, <2>1, <3>1 DEF CInv, DockerFits
  <2>2. CASE ~(\A i \in 1..m : SameArguments(f, i))
    BY <1>3, <2>2
  <2> QED
    BY <2>1, <2>2
<1>7. ASSUME NEW n \in Nat \ {0}, \A i \in 1..n : FoundedFor(i, n)'
      PROVE  1..n \subseteq members'
  <2>1. 1 \in 1..n /\ 1 \in 1..m
    BY <1>1
  <2>2. containers'[1].cluster = m
    <3>1. 1 \in DOMAIN containers' /\ 1 \in Services(f)
      BY <1>2, <1>4, <2>1
    <3>2. CASE SameArguments(f, 1)
      BY <1>2, <1>5, <2>1, <3>1, <3>2 DEF SameArguments
    <3>3. CASE ~SameArguments(f, 1)
      <4>1. containers'[1] = Container(f, 1, c)
        BY <1>2, <3>1, <3>3
      <4>2. Arguments(f, 1).cluster = m
        BY <1>5, <2>1
      <4> QED
        BY <4>1, <4>2 DEF Container
    <3> QED
      BY <3>2, <3>3
  <2>3. containers'[1].cluster = n
    BY <1>7, <2>1 DEF FoundedFor
  <2> QED
    BY <1>6, <2>2, <2>3
<1>8. \A i \in DOMAIN containers' :
         \/ containers'[i].born = c.id + 1
         \/ i \in DOMAIN containers /\ containers'[i] = containers[i]
  <2>1. \A i : Container(f, i, c).born = c.id + 1
    BY DEF Container
  <2>2. \A i \in Services(f) : SameArguments(f, i) => i \in DOMAIN containers
    BY DEF SameArguments
  <2> QED
    BY <1>2, <2>1, <2>2
<1> QED
  BY <1>1, <1>2, <1>4, <1>6, <1>7, <1>8

\* A goroutine that goes on keeps what is about the model.
LEMMA GoesOnFits ==
    ASSUME CInv, NEW c \in commands, NEW d, NEW stage, NEW ok, GoesOn(c, d, stage, ok)
    PROVE  NodesFit'
<1>1. UNCHANGED <<logCtx, nodePorts, given>>
  BY GoesOnLeaves
<1>2. /\ d.id = c.id /\ d.kind = c.kind /\ d.n = c.n
      /\ commands' = (commands \ {c}) \cup {d}
  BY DEF GoesOn
<1>3. \A e, f \in commands' : ClusterCommand(e) /\ ClusterCommand(f) => e = f
  BY <1>2 DEF CInv, NodesFit, ClusterCommand
<1>4. \A e \in commands' :
         /\ e.id < given
         /\ e.kind \in {"start", "kill", "add"} => e.n > 0
         /\ e.kind = "start" => logCtx = 0
         /\ e.kind = "add" => e.n = Len(nodePorts) /\ logCtx # 0 /\ logCtx <= e.id
  BY <1>2 DEF CInv, NodesFit
<1> QED
  BY <1>1, <1>3, <1>4 DEF CInv, NodesFit

\* Containers that are replaced, or gone, need no stream.
LEMMA FollowKeeps ==
    ASSUME CInv, UNCHANGED <<streams, nodePorts, logCtx>>,
           \A i \in 1..Len(nodePorts) \cap DOMAIN containers' :
              \/ ~(containers'[i].born <= logCtx)
              \/ i \in DOMAIN containers /\ containers'[i] = containers[i]
    PROVE  FollowFits'
  BY DEF CInv, FollowFits

\* A goroutine goes on, and the containers stay as they were: unless it adds a
\* node that is there.
LEMMA SameContainers ==
    ASSUME CInv, NEW c \in commands, NEW d, NEW stage, NEW ok, GoesOn(c, d, stage, ok),
           UNCHANGED dockerVars, stage = "done" /\ (ok => d.kind = "kill"),
           ~(c.stage = "done" /\ c.ok)
    PROVE  DockerFits' /\ FollowFits'
<1>1. UNCHANGED <<composeFile, containers, members, nodePorts, streams, logCtx>>
  BY GoesOnLeaves DEF dockerVars
<1>2. /\ d.kind = c.kind /\ d.n = c.n /\ d.stage = stage /\ d.ok = ok
      /\ commands' = (commands \ {c}) \cup {d}
  BY DEF GoesOn
<1>3. \/ 1..Len(nodePorts) \subseteq members \cap DOMAIN containers
      \/ \E e \in commands' : e.kind \in {"stop", "reset"} /\ e.stage = "done" /\ e.ok
  BY <1>2 DEF CInv, DockerFits
<1>4. \A e \in commands' :
          /\ e.kind = "start" /\ e.stage = "done" /\ e.ok =>
                 1..e.n \subseteq members \cap DOMAIN containers
          /\ e.kind = "add" /\ e.stage = "join" => e.n + 1 \in DOMAIN containers
          /\ e.kind = "add" /\ e.stage = "done" /\ e.ok =>
                 e.n + 1 \in members \cap DOMAIN containers
  BY <1>2 DEF CInv, DockerFits
<1>5. DockerFits'
  BY <1>1, <1>3, <1>4 DEF CInv, DockerFits, FoundedFor
<1> QED
  BY <1>1, <1>5, FollowKeeps

\* The command under way is the only one for the cluster: no stop went through.
LEMMA NoStopDone ==
    ASSUME CInv, NEW c \in commands, c.kind \in {"start", "stop", "reset", "add"},
           ~(c.kind \in {"stop", "reset"} /\ c.stage = "done")
    PROVE  /\ 1..Len(nodePorts) \subseteq members \cap DOMAIN containers
           /\ \A e \in commands : e # c => e.kind = "kill"
<1>1. \A e \in commands : e # c => ~ClusterCommand(e)
  BY DEF CInv, NodesFit, ClusterCommand
<1>2. \A e \in commands : e # c => e.kind = "kill"
  BY <1>1 DEF ClusterCommand, CInv, ClusterTypeOK, Command
<1> QED
  BY <1>2 DEF CInv, DockerFits

\* docker compose up by the goroutine of c, which then is d.
LEMMA UpByCommand ==
    ASSUME CInv, NEW c \in commands, c.kind \in {"start", "add"},
           NEW d, NEW stage, NEW ok, GoesOn(c, d, stage, ok),
           NEW f \in [founders : Nat \ {0}, joiner : BOOLEAN], ComposeUp(f, c),
           f.founders = c.n,
           c.kind = "add" => f.joiner /\ ~(stage = "done" /\ ok)
    PROVE  DockerFits' /\ FollowFits'
<1>1. /\ composeFile' = f
      /\ 1..f.founders \subseteq members' \cap DOMAIN containers'
      /\ f.joiner => f.founders + 1 \in DOMAIN containers'
      /\ DOMAIN containers \subseteq DOMAIN containers'
      /\ \A n \in Nat \ {0} :
            (\A i \in 1..n : FoundedFor(i, n)') => 1..n \subseteq members'
      /\ \A i \in DOMAIN containers' :
            \/ containers'[i].born = c.id + 1
            \/ i \in DOMAIN containers /\ containers'[i] = containers[i]
  BY UpFits
<1>2. /\ d.kind = c.kind /\ d.n = c.n /\ d.stage = stage /\ d.ok = ok
      /\ commands' = (commands \ {c}) \cup {d}
  BY DEF GoesOn
<1>3. UNCHANGED <<nodePorts, logCtx, streams>>
  BY GoesOnLeaves
<1>4. /\ 1..Len(nodePorts) \subseteq members \cap DOMAIN containers
      /\ \A e \in commands : e # c => e.kind = "kill"
  BY NoStopDone
<1>5. c.id \in Nat /\ logCtx \in Nat
  BY CliAssumption DEF CInv, ClusterTypeOK, Command, Context
<1>6. CASE c.kind = "start"
  <2>1. nodePorts = <<>> /\ Len(nodePorts) = 0
    BY <1>6 DEF CInv, NodesFit
  <2>2. 1..Len(nodePorts) = {}
    BY <2>1
  <2>3. \A e \in commands' :
          /\ e.kind = "start" /\ e.stage = "done" /\ e.ok =>
                 1..e.n \subseteq members' \cap DOMAIN containers'
          /\ e.kind # "add"
    BY <1>1, <1>2, <1>4, <1>6
  <2>4. FollowFits'
    BY <1>3, <2>2, FollowKeeps
  <2> QED
    BY <1>1, <1>3, <2>2, <2>3, <2>4 DEF DockerFits
<1>7. CASE c.kind = "add"
  <2>1. c.n = Len(nodePorts) /\ logCtx <= c.id
    BY <1>7 DEF CInv, NodesFit
  <2>2. 1..Len(nodePorts) \subseteq members' \cap DOMAIN containers'
    BY <1>1, <2>1
  <2>3. \A e \in commands' :
          /\ e.kind # "start"
          /\ e.kind = "add" /\ e.stage = "join" => e.n + 1 \in DOMAIN containers'
          /\ ~(e.kind = "add" /\ e.stage = "done" /\ e.ok)
    BY <1>1, <1>2, <1>4, <1>7
  <2>4. \A i \in DOMAIN containers' :
           \/ ~(containers'[i].born <= logCtx)
           \/ i \in DOMAIN containers /\ containers'[i] = containers[i]
    BY <1>1, <1>5, <2>1
  <2>5. FollowFits'
    BY <1>3, <2>4, FollowKeeps
  <2> QED
    BY <1>1, <1>3, <2>2, <2>3, <2>5 DEF DockerFits
<1> QED
  BY <1>6, <1>7

\* docker compose up that fails by the goroutine of c.
LEMMA UpFailsByCommand ==
    ASSUME CInv, NEW c \in commands, c.kind \in {"start", "add"}, c.stage = "run",
           NEW d, GoesOn(c, d, "done", FALSE),
           NEW f \in [founders : Nat \ {0}, joiner : BOOLEAN], ComposeUpFails(f, c),
           f.founders = c.n, c.kind = "add" => f.joiner
    PROVE  DockerFits' /\ FollowFits'
<1>1. CASE ComposeUp(f, c)
  BY <1>1, UpByCommand
<1>2. CASE UNCHANGED dockerVars
  BY <1>2, SameContainers
<1>3. CASE composeFile' = f /\ UNCHANGED <<containers, members>>
  <2>1. /\ d.kind = c.kind /\ d.n = c.n /\ d.ok = FALSE /\ d.stage = "done"
        /\ commands' = (commands \ {c}) \cup {d}
    BY DEF GoesOn
  <2>2. UNCHANGED <<containers, members, nodePorts, streams, logCtx>>
    BY <1>3, GoesOnLeaves
  <2>3. /\ 1..Len(nodePorts) \subseteq members \cap DOMAIN containers
        /\ \A e \in commands : e # c => e.kind = "kill"
    BY NoStopDone
  <2>4. \A e \in commands' : /\ ~(e.kind = "start" /\ e.stage = "done" /\ e.ok)
                             /\ ~(e.kind = "add" /\ e.stage = "join")
                             /\ ~(e.kind = "add" /\ e.stage = "done" /\ e.ok)
    BY <2>1, <2>3
  <2>5. composeFile'.founders > 0
    BY <1>3
  <2>6. FollowFits'
    BY <2>2, FollowKeeps
  <2>7. DockerFits'
    BY <2>2, <2>3, <2>4, <2>5 DEF CInv, DockerFits, FoundedFor
  <2> QED
    BY <2>6, <2>7
<1> QED
  BY <1>1, <1>2, <1>3 DEF ComposeUpFails

\* start-navi and add-node, up to the containers, keep the invariant.
LEMMA RunUpFits ==
    ASSUME CInv, NEW c \in commands, RunStart(c) \/ RunAddNode(c)
    PROVE  NodesFit' /\ FollowFits' /\ DockerFits'
<1>1. /\ c \in Command /\ c.kind \in {"start", "add"} /\ c.stage = "run" /\ c.n > 0
      /\ UNCHANGED <<modelVars, logVars, countVars>>
  BY DEF RunStart, RunAddNode, CInv, ClusterTypeOK, NodesFit
<1>2. PICK f : f = [founders |-> c.n, joiner |-> c.kind = "add"]
  OBVIOUS
<1>3. /\ f \in [founders : Nat \ {0}, joiner : BOOLEAN] /\ f.founders = c.n
      /\ c.kind = "add" => f.joiner
  <2>1. c.n \in Nat \ {0}
    BY <1>1 DEF Command
  <2> QED
    BY <1>2, <2>1
<1>4. PICK stage \in {"join", "done"}, ok \in BOOLEAN :
         /\ Becomes(c, stage, ok)
         /\ \/ ComposeUp(f, c) /\ (c.kind = "add" => stage = "join")
            \/ ComposeUpFails(f, c) /\ stage = "done" /\ ok = FALSE
  <2>1. CASE RunStart(c)
    <3>1. f = [founders |-> c.n, joiner |-> FALSE] /\ c.kind # "add"
      BY <1>2, <2>1 DEF RunStart
    <3> QED
      BY <2>1, <3>1 DEF RunStart
  <2>2. CASE RunAddNode(c)
    <3>1. f = [founders |-> c.n, joiner |-> TRUE]
      BY <1>2, <2>2 DEF RunAddNode
    <3> QED
      BY <2>2, <3>1 DEF RunAddNode
  <2> QED
    BY <2>1, <2>2
<1>5. PICK d : GoesOn(c, d, stage, ok)
  BY <1>1, <1>4, GoesOnAs DEF CInv
<1>6. NodesFit'
  BY <1>5, GoesOnFits
<1>7. CASE ComposeUp(f, c) /\ (c.kind = "add" => stage = "join")
  BY <1>1, <1>3, <1>5, <1>6, <1>7, UpByCommand
<1>8. CASE ComposeUpFails(f, c) /\ stage = "done" /\ ok = FALSE
  BY <1>1, <1>3, <1>5, <1>6, <1>8, UpFailsByCommand
<1> QED
  BY <1>4, <1>7, <1>8

\* stop-navi and reset-navi keep the invariant.
LEMMA RunStopFits ==
    ASSUME CInv, NEW c \in commands, RunStop(c)
    PROVE  NodesFit' /\ FollowFits' /\ DockerFits'
<1>1. /\ c.kind \in {"stop", "reset"} /\ c.stage = "run"
      /\ UNCHANGED <<modelVars, logVars, countVars>>
  BY DEF RunStop
<1>2. CASE ComposeDown /\ Becomes(c, "done", TRUE)
  <2>1. PICK d : GoesOn(c, d, "done", TRUE)
    BY <1>1, <1>2, GoesOnAs DEF CInv
  <2>2. /\ DOMAIN containers' = DOMAIN containers \ Services(composeFile)
        /\ \A i \in DOMAIN containers' : containers'[i] = containers[i]
    BY <1>2 DEF ComposeDown
  <2>3. 1 \notin DOMAIN containers'
    <3>1. CASE 1 \in DOMAIN containers
      <4>1. composeFile.founders > 0 /\ composeFile.founders \in Nat
        BY <3>1 DEF CInv, ClusterTypeOK, DockerFits
      <4>2. 1 \in Services(composeFile)
        BY <4>1 DEF Services
      <4> QED
        BY <2>2, <4>2
    <3> QED
      BY <2>2, <3>1
  <2>4. \A e \in commands : e # c => e.kind = "kill"
    BY <1>1, NoStopDone
  <2>5. /\ d \in commands' /\ d.kind = c.kind /\ d.stage = "done" /\ d.ok = TRUE
        /\ \A e \in commands' : e.kind = "kill" \/ e = d
    BY <2>1, <2>4 DEF GoesOn
  <2>6. \E e \in commands' : e.kind \in {"stop", "reset"} /\ e.stage = "done" /\ e.ok
    BY <1>1, <2>5
  <2>7. \A e \in commands' : e.kind # "start" /\ e.kind # "add"
    BY <1>1, <2>5
  <2>8. \A n \in Nat \ {0} : ~FoundedFor(1, n)' /\ 1 \in 1..n
    BY <2>3 DEF FoundedFor
  <2>9. DockerFits'
    BY <2>3, <2>6, <2>7, <2>8 DEF DockerFits
  <2>10. FollowFits'
    BY <2>1, <2>2, GoesOnLeaves, FollowKeeps
  <2> QED
    BY <2>1, <2>9, <2>10, GoesOnFits
<1>3. CASE UNCHANGED dockerVars /\ Becomes(c, "done", FALSE)
  <2>1. PICK d : GoesOn(c, d, "done", FALSE)
    BY <1>1, <1>3, GoesOnAs DEF CInv
  <2> QED
    BY <1>1, <1>3, <2>1, GoesOnFits, SameContainers
<1> QED
  BY <1>2, <1>3 DEF RunStop

\* kill-node keeps the invariant.
LEMMA RunKillFits ==
    ASSUME CInv, NEW c \in commands, RunKill(c)
    PROVE  NodesFit' /\ FollowFits' /\ DockerFits'
<1>1. /\ c.kind = "kill" /\ c.stage = "run" /\ Becomes(c, "done", TRUE)
      /\ UNCHANGED <<modelVars, logVars, countVars>> /\ UNCHANGED dockerVars
  BY DEF RunKill
<1>2. PICK d : GoesOn(c, d, "done", TRUE)
  BY <1>1, GoesOnAs DEF CInv
<1>3. d.kind = "kill"
  BY <1>1, <1>2 DEF GoesOn
<1> QED
  BY <1>1, <1>2, <1>3, GoesOnFits, SameContainers

\* add-node, when it asks for the membership, keeps the invariant.
LEMMA RunAddServerFits ==
    ASSUME CInv, NEW c \in commands, RunAddServer(c)
    PROVE  NodesFit' /\ FollowFits' /\ DockerFits'
<1>1. c \in Command /\ c.kind = "add" /\ c.stage = "join" /\ c.n > 0
  BY DEF RunAddServer, CInv, ClusterTypeOK, NodesFit
<1>2. /\ UNCHANGED <<modelVars, logVars, countVars>>
      /\ composeFile' = composeFile /\ containers' = containers
  BY DEF RunAddServer, logVars, countVars
<1>3. PICK ok \in BOOLEAN :
         /\ Becomes(c, "done", ok)
         /\ members \subseteq members' /\ (ok => c.n + 1 \in members')
  BY DEF RunAddServer
<1>4. PICK d : GoesOn(c, d, "done", ok)
  BY <1>2, <1>3, GoesOnAs DEF CInv
<1>5. /\ UNCHANGED <<nodePorts, logCtx, streams>> /\ commands' = (commands \ {c}) \cup {d}
      /\ d.kind = c.kind /\ d.n = c.n /\ d.stage = "done" /\ d.ok = ok
  BY <1>4, GoesOnLeaves DEF GoesOn
<1>6. DockerFits'
  <2>1. /\ 1..Len(nodePorts) \subseteq members \cap DOMAIN containers
        /\ \A e \in commands : e # c => e.kind = "kill"
    BY <1>1, NoStopDone
  <2>2. c.n + 1 \in DOMAIN containers
    BY <1>1 DEF CInv, DockerFits
  <2>3. \A e \in commands' :
          /\ e.kind = "start" /\ e.stage = "done" /\ e.ok =>
                 1..e.n \subseteq members' \cap DOMAIN containers
          /\ e.kind = "add" /\ e.stage = "join" => e.n + 1 \in DOMAIN containers
          /\ e.kind = "add" /\ e.stage = "done" /\ e.ok =>
                 e.n + 1 \in members' \cap DOMAIN containers
    BY <1>1, <1>3, <1>5, <2>1, <2>2
  <2>4. \A n \in Nat \ {0} :
           (\A i \in 1..n : FoundedFor(i, n)) => 1..n \subseteq members'
    BY <1>3 DEF CInv, DockerFits
  <2>5. 1 \in DOMAIN containers => composeFile.founders > 0
    BY DEF CInv, DockerFits
  <2>6. 1..Len(nodePorts) \subseteq members' \cap DOMAIN containers
    BY <1>3, <2>1
  <2> QED
    BY <1>2, <1>5, <2>3, <2>4, <2>5, <2>6 DEF DockerFits, FoundedFor
<1>7. FollowFits'
  BY <1>2, <1>5, FollowKeeps
<1> QED
  BY <1>4, <1>6, <1>7, GoesOnFits

\* Every step of a goroutine keeps the invariant.
LEMMA GoroutineFits ==
    ASSUME CInv, NEW c \in commands, Goroutine(c)
    PROVE  NodesFit' /\ FollowFits' /\ DockerFits'
  BY RunUpFits, RunStopFits, RunKillFits, RunAddServerFits DEF Goroutine

\* What is asked of commands is asked of every one alone.
LEMMA FewerCommands ==
    ASSUME CInv, NEW c, commands' = commands \ {c}, UNCHANGED <<logCtx, nodePorts, given>>
    PROVE  NodesFit'
  BY DEF CInv, NodesFit, ClusterCommand

\* Without a message, the containers fit as long as the nodes shown do.
LEMMA FewerDocker ==
    ASSUME CInv, NEW c, commands' = commands \ {c}, UNCHANGED dockerVars,
           \/ 1..Len(nodePorts') \subseteq members \cap DOMAIN containers
           \/ nodePorts' = nodePorts /\ ~(c.stage = "done" /\ c.ok /\ c.kind # "kill")
    PROVE  DockerFits'
<1>1. UNCHANGED <<composeFile, containers, members>>
  BY DEF dockerVars
<1>2. \/ 1..Len(nodePorts') \subseteq members \cap DOMAIN containers
      \/ \E e \in commands' : e.kind \in {"stop", "reset"} /\ e.stage = "done" /\ e.ok
  BY DEF CInv, DockerFits
<1>3. \A e \in commands' :
          /\ e.kind = "start" /\ e.stage = "done" /\ e.ok =>
                 1..e.n \subseteq members \cap DOMAIN containers
          /\ e.kind = "add" /\ e.stage = "join" => e.n + 1 \in DOMAIN containers
          /\ e.kind = "add" /\ e.stage = "done" /\ e.ok =>
                 e.n + 1 \in members \cap DOMAIN containers
  BY DEF CInv, DockerFits
<1> QED
  BY <1>1, <1>2, <1>3 DEF CInv, DockerFits, FoundedFor

\* The message of a command that failed, and the list of nodes to kill, keep
\* the invariant.
LEMMA PlainMessageFits ==
    ASSUME CInv, NEW c \in commands, MessageFailed(c) \/ killNodesLoadedMsg(c)
    PROVE  NodesFit' /\ FollowFits' /\ DockerFits'
<1>1. /\ commands' = commands \ {c} /\ UNCHANGED dockerVars
      /\ UNCHANGED <<containers, nodePorts, logCtx, given, streams>>
      /\ ~(c.stage = "done" /\ c.ok /\ c.kind # "kill")
  BY DEF MessageFailed, killNodesLoadedMsg, Done, MsgVars, modelVars, dockerVars,
         logVars, countVars
<1>2. FollowFits'
  BY <1>1, FollowKeeps
<1> QED
  BY <1>1, <1>2, FewerCommands, FewerDocker

\* nodeAddedMsg keeps the invariant: the node is new, and so is its stream.
LEMMA NodeAddedFits ==
    ASSUME CInv, NEW c \in commands, nodeAddedMsg(c)
    PROVE  NodesFit' /\ FollowFits' /\ DockerFits'
<1>1. /\ c.kind = "add" /\ c.stage = "done" /\ c.ok
      /\ c.n \in Nat /\ c.n > 0 /\ c.n = Len(nodePorts) /\ logCtx # 0
  BY DEF nodeAddedMsg, Done, CInv, NodesFit, ClusterTypeOK, Command
<1>2. PICK n \in Nat : n = Len(nodePorts) /\ n > 0 /\ c.n = n
  BY <1>1
<1>3. /\ commands' = commands \ {c}
      /\ nodePorts' = Append(nodePorts, n + 1)
      /\ streams' = streams \cup Followers(logCtx, {n + 1})
  BY <1>1, <1>2 DEF nodeAddedMsg, Done
<1>4. /\ UNCHANGED dockerVars /\ UNCHANGED <<containers, logCtx, given>>
  BY DEF nodeAddedMsg, MsgVars, dockerVars, countVars
<1>5. nodePorts \in Seq(Nat)
  BY DEF CInv, ClusterTypeOK
<1>6. /\ Len(nodePorts') = n + 1 /\ nodePorts'[n + 1] = n + 1
      /\ \A i \in 1..n : nodePorts'[i] = nodePorts[i]
  BY <1>2, <1>3, <1>5, AppendProperties
<1>7. \A e \in commands' : e.kind = "kill"
  BY <1>1, <1>3, NoStopDone
<1>8. NodesFit'
  <2>1. \A i \in 1..(n + 1) : nodePorts'[i] = i
    BY <1>2, <1>6 DEF CInv, NodesFit
  <2>2. \A e \in commands' : e.n > 0 /\ ~ClusterCommand(e) /\ e.id < given
    BY <1>3, <1>7 DEF CInv, NodesFit, ClusterCommand
  <2> QED
    BY <1>1, <1>4, <1>6, <1>7, <2>1, <2>2 DEF CInv, NodesFit
<1>9. FollowFits'
  <2> DEFINE new == [ctx |-> logCtx, node |-> n + 1, born |-> containers[n + 1].born]
  <2>1. \A s \in Followers(logCtx, {n + 1}) : s = new
    BY DEF Followers
  <2>a. new.ctx = logCtx /\ new.node = n + 1
    OBVIOUS
  <2> HIDE DEF new
  <2>2. \A s \in streams : s.ctx = logCtx /\ s.node \in 1..n
    BY <1>2 DEF CInv, FollowFits
  <2>3. \A s \in streams' : s.ctx = logCtx /\ s.node \in 1..(n + 1)
    <3>1. \A s \in streams' : s \in streams \/ s = new
      BY <1>3, <2>1
    <3>2. n + 1 \in 1..(n + 1) /\ 1..n \subseteq 1..(n + 1)
      OBVIOUS
    <3> QED
      BY <2>a, <2>2, <3>1, <3>2
  <2>4. ASSUME NEW s \in streams', NEW t \in streams', s.node = t.node PROVE s = t
    <3>1. CASE s \in streams /\ t \in streams
      BY <2>4, <3>1 DEF CInv, FollowFits
    <3>2. (s \in streams \/ s = new) /\ (t \in streams \/ t = new)
      BY <1>3, <2>1
    <3>3. n + 1 \notin 1..n
      OBVIOUS
    <3> QED
      BY <2>4, <2>a, <2>2, <3>1, <3>2, <3>3
  <2>5. ASSUME NEW i \in 1..(n + 1) \cap DOMAIN containers, containers[i].born <= logCtx
        PROVE  \E s \in streams' : s.node = i /\ s.born = containers[i].born
    <3>1. CASE i = n + 1
      <4>1. PICK s : s = [ctx |-> logCtx, node |-> n + 1, born |-> containers[n + 1].born]
        OBVIOUS
      <4>2. s \in Followers(logCtx, {n + 1})
        BY <3>1, <4>1 DEF Followers
      <4> QED
        BY <1>3, <3>1, <4>1, <4>2
    <3>2. CASE i # n + 1
      BY <1>2, <1>3, <2>5, <3>2 DEF CInv, FollowFits
    <3> QED
      BY <3>1, <3>2
  <2> QED
    BY <1>4, <1>6, <2>3, <2>4, <2>5 DEF FollowFits
<1>10. DockerFits'
  <2>1. 1..n \subseteq members \cap DOMAIN containers
    BY <1>1, <1>2, NoStopDone
  <2>2. n + 1 \in members \cap DOMAIN containers
    BY <1>1, <1>2 DEF CInv, DockerFits
  <2>3. 1..(n + 1) \subseteq members \cap DOMAIN containers
    BY <2>1, <2>2
  <2> QED
    BY <1>3, <1>4, <1>6, <2>3, FewerDocker
<1> QED
  BY <1>8, <1>9, <1>10

\* clusterStartedMsg keeps the invariant: every container there is is followed.
LEMMA ClusterStartedFits ==
    ASSUME CInv, NEW c \in commands, clusterStartedMsg(c)
    PROVE  NodesFit' /\ FollowFits' /\ DockerFits'
<1>1. /\ c.kind = "start" /\ c.stage = "done" /\ c.ok
      /\ c.n \in Nat /\ c.n > 0 /\ c.id \in Nat /\ c.id < given
      /\ logCtx = 0 /\ given \in Nat
  BY CliAssumption DEF clusterStartedMsg, Done, CInv, NodesFit, ClusterTypeOK, Command
<1>2. PICK n \in Nat, ctx \in Nat : n = c.n /\ n > 0 /\ ctx = c.id + 1
  BY <1>1
<1>3. /\ commands' = commands \ {c}
      /\ nodePorts' = [i \in 1..n |-> i]
      /\ logCtx' = ctx
      /\ streams' = streams \cup Followers(ctx, 1..n)
  BY <1>2 DEF clusterStartedMsg, Done
<1>4. UNCHANGED dockerVars /\ UNCHANGED <<containers, given>>
  BY DEF clusterStartedMsg, MsgVars, dockerVars, countVars
<1>5. Len(nodePorts') = n /\ \A i \in 1..n : nodePorts'[i] = i
  BY <1>3, NodesShown
<1>6. \A e \in commands' : e.kind = "kill"
  BY <1>1, <1>3, NoStopDone
<1>7. NodesFit'
  <2>1. \A e \in commands' : e.n > 0 /\ ~ClusterCommand(e) /\ e.id < given
    BY <1>3, <1>6 DEF CInv, NodesFit, ClusterCommand
  <2>2. ctx # 0 /\ ctx <= given
    BY <1>1, <1>2
  <2> QED
    BY <1>3, <1>4, <1>5, <1>6, <2>1, <2>2 DEF NodesFit
<1>8. FollowFits'
  <2>1. nodePorts = <<>> /\ Len(nodePorts) = 0
    BY <1>1 DEF CInv, NodesFit
  <2>2. streams' = Followers(ctx, 1..n)
    BY <1>3, <2>1 DEF CInv, FollowFits
  <2>3. \A s \in streams' :
           /\ s.ctx = ctx /\ s.node \in 1..n
           /\ s = [ctx |-> ctx, node |-> s.node, born |-> containers[s.node].born]
    BY <2>2 DEF Followers
  <2>4. ASSUME NEW i \in 1..n \cap DOMAIN containers
        PROVE  \E s \in streams' : s.node = i /\ s.born = containers[i].born
    <3>1. PICK s : s = [ctx |-> ctx, node |-> i, born |-> containers[i].born]
      OBVIOUS
    <3>2. s \in streams'
      BY <2>2, <3>1 DEF Followers
    <3> QED
      BY <3>1, <3>2
  <2>5. ASSUME NEW s \in streams', NEW t \in streams', s.node = t.node PROVE s = t
    BY <2>3, <2>5
  <2> QED
    BY <1>3, <1>4, <1>5, <2>3, <2>4, <2>5 DEF FollowFits
<1>9. DockerFits'
  <2>1. 1..n \subseteq members \cap DOMAIN containers
    BY <1>1, <1>2 DEF CInv, DockerFits
  <2> QED
    BY <1>3, <1>4, <1>5, <2>1, FewerDocker
<1> QED
  BY <1>7, <1>8, <1>9

\* clusterStoppedMsg keeps the invariant: its context has no stream left.
LEMMA ClusterStoppedFits ==
    ASSUME CInv, NEW c \in commands, clusterStoppedMsg(c)
    PROVE  NodesFit' /\ FollowFits' /\ DockerFits'
<1>1. c.kind \in {"stop", "reset"} /\ c.stage = "done" /\ c.ok
  BY DEF clusterStoppedMsg, Done
<1>2. /\ commands' = commands \ {c} /\ nodePorts' = <<>> /\ logCtx' = 0
      /\ streams' = {s \in streams : s.ctx # logCtx}
      /\ UNCHANGED dockerVars /\ UNCHANGED <<containers, given>>
  BY DEF clusterStoppedMsg, Done, MsgVars, dockerVars, countVars
<1>3. Len(nodePorts') = 0 /\ 1..Len(nodePorts') = {}
  BY <1>2
<1>4. \A e \in commands' : e.kind = "kill"
  <2>1. \A e \in commands : e # c => ~ClusterCommand(e)
    BY <1>1 DEF CInv, NodesFit, ClusterCommand
  <2> QED
    BY <1>2, <2>1 DEF ClusterCommand, CInv, ClusterTypeOK, Command
<1>5. NodesFit'
  <2>1. \A e \in commands' : e.n > 0 /\ ~ClusterCommand(e) /\ e.id < given
    BY <1>2, <1>4 DEF CInv, NodesFit, ClusterCommand
  <2>2. 0 <= given
    BY DEF CInv, ClusterTypeOK
  <2> QED
    BY <1>2, <1>3, <1>4, <2>1, <2>2 DEF NodesFit
<1>6. FollowFits'
  <2>1. streams' = {}
    BY <1>2 DEF CInv, FollowFits
  <2> QED
    BY <1>3, <2>1 DEF FollowFits
<1>7. DockerFits'
  BY <1>2, <1>3, FewerDocker
<1> QED
  BY <1>5, <1>6, <1>7

\* Every message keeps the invariant.
LEMMA MessageFits ==
    ASSUME CInv, NEW c \in commands, Message(c)
    PROVE  NodesFit' /\ FollowFits' /\ DockerFits'
  BY PlainMessageFits, NodeAddedFits, ClusterStartedFits, ClusterStoppedFits DEF Message

\* A command given fits, as users wait for the one before.
LEMMA GiveFits ==
    ASSUME CInv, "overlap" \notin Hasty, Given
    PROVE  NodesFit' /\ FollowFits' /\ DockerFits'
<1>1. PICK kind \in {"start", "stop", "reset", "kill", "add"}, n \in Nat :
         /\ Give(kind, n)
         /\ kind \in {"start", "kill", "add"} => n > 0
         /\ kind = "start" => logCtx = 0
         /\ kind = "add" => n = Len(nodePorts) /\ nodePorts # <<>>
  BY GivenAs DEF CInv
<1>2. /\ given' = given + 1 /\ given \in Nat
      /\ UNCHANGED <<nodePorts, logCtx, composeFile, containers, members, streams>>
  BY <1>1, GivenCommand DEF CInv, ClusterTypeOK
<1>3. PICK d \in Command : /\ d.id = given /\ d.kind = kind /\ d.n = n /\ d.stage = "run"
                           /\ commands' = commands \cup {d}
  BY <1>1, GivenCommand DEF CInv
<1>4. ~Busy
  BY <1>1 DEF Give
<1>5. NodesFit'
  <2>1. \A e \in commands : ~ClusterCommand(e)
    BY <1>4 DEF Busy
  <2>2. \A e, f \in commands' : ClusterCommand(e) /\ ClusterCommand(f) => e = f
    BY <1>3, <2>1
  <2>3. \A e \in commands : e.id < given + 1
    BY <1>2 DEF CInv, NodesFit, ClusterTypeOK, Command
  <2>4. logCtx <= given + 1 /\ logCtx <= given /\ given < given + 1
    BY <1>2, CliAssumption DEF CInv, NodesFit, ClusterTypeOK, Context
  <2>5. logCtx = 0 => nodePorts = <<>>
    BY DEF CInv, NodesFit
  <2>6. \A e \in commands' :
           /\ e.id < given + 1
           /\ e.kind \in {"start", "kill", "add"} => e.n > 0
           /\ e.kind = "start" => logCtx = 0
           /\ e.kind = "add" => e.n = Len(nodePorts) /\ logCtx # 0 /\ logCtx <= e.id
    BY <1>1, <1>3, <2>3, <2>4, <2>5 DEF CInv, NodesFit
  <2> QED
    BY <1>2, <2>2, <2>4, <2>6 DEF CInv, NodesFit, ClusterCommand
<1>6. FollowFits'
  BY <1>2, FollowKeeps
<1>7. DockerFits'
  BY <1>2, <1>3 DEF CInv, DockerFits, FoundedFor
<1> QED
  BY <1>5, <1>6, <1>7

\* A stream that ends had lost its container to a later command.
LEMMA StreamEndsFits ==
    ASSUME CInv, NEW s \in streams, StreamEnds(s)
    PROVE  FollowFits'
<1>1. /\ streams' = streams \ {s} /\ ~Follows(s)
      /\ UNCHANGED <<nodePorts, logCtx, containers>>
  BY DEF StreamEnds, modelVars, dockerVars
<1>2. ASSUME NEW i \in 1..Len(nodePorts) \cap DOMAIN containers, containers[i].born <= logCtx
      PROVE  \E t \in streams' : t.node = i /\ t.born = containers[i].born
  <2>1. PICK t \in streams : t.node = i /\ t.born = containers[i].born
    BY <1>2 DEF CInv, FollowFits
  <2>2. t # s
    BY <1>1, <2>1 DEF Follows
  <2> QED
    BY <1>1, <2>1, <2>2
<1> QED
  BY <1>1, <1>2 DEF CInv, FollowFits

\* Every step keeps the invariant.
LEMMA ClusterStep ==
    ASSUME "overlap" \notin Hasty, CInv, [Next]_vars
    PROVE  CInv'
<1>1. ClusterTypeOK'
  BY TypesStay DEF CInv
<1>2. ASSUME Elsewhere, UNCHANGED streams \/ \E s \in streams : StreamEnds(s)
      PROVE  CInv'
  <2>1. NodesFit' /\ DockerFits'
    BY <1>2 DEF Elsewhere, CInv, NodesFit, ClusterCommand, DockerFits, FoundedFor
  <2>2. CASE UNCHANGED streams
    <3>1. FollowFits'
      BY <1>2, <2>2, FollowKeeps DEF Elsewhere
    <3> QED
      BY <1>1, <2>1, <3>1 DEF CInv
  <2>3. CASE \E s \in streams : StreamEnds(s)
    BY <1>1, <2>1, <2>3, StreamEndsFits DEF CInv
  <2> QED
    BY <1>2, <2>2, <2>3
<1> QED
  BY <1>1, <1>2, StepKinds, OtherSteps, GoroutineFits, MessageFits, GiveFits DEF CInv

\* navi-cli starts without nodes.
LEMMA ClusterInit == Init => CInv
<1> SUFFICES ASSUME Init PROVE CInv
  OBVIOUS
<1>1. /\ nodePorts = <<>> /\ logCtx = 0 /\ commands = {} /\ given = 0
      /\ containers = <<>> /\ streams = {}
  BY DEF Init
<1>2. Len(nodePorts) = 0 /\ 1..Len(nodePorts) = {} /\ DOMAIN containers = {}
  BY <1>1
<1>3. NodesFit
  BY <1>1, <1>2 DEF NodesFit
<1>4. FollowFits
  BY <1>1, <1>2 DEF FollowFits
<1>5. DockerFits
  <2>1. \A n \in Nat \ {0} : 1 \in 1..n /\ ~FoundedFor(1, n)
    BY <1>2 DEF FoundedFor
  <2> QED
    BY <1>1, <1>2, <2>1 DEF DockerFits
<1> QED
  BY <1>3, <1>4, <1>5, TypedInit DEF CInv

\* Whatever docker compose and AddServer answered before: between cluster
\* commands the nodes navi-cli shows have containers and are members.
THEOREM ShownNodesRunCorrect ==
    ASSUME "overlap" \notin Hasty
    PROVE  Spec => []ShownNodesRun
<1>1. CInv => ShownNodesRun
  <2> SUFFICES ASSUME CInv, ~Busy PROVE ShownNodesRun
    BY DEF ShownNodesRun
  <2>1. \A c \in commands : c.kind \notin {"stop", "reset"}
    BY DEF Busy, ClusterCommand
  <2>2. 1..Len(nodePorts) \subseteq members \cap DOMAIN containers
    BY <2>1 DEF CInv, DockerFits
  <2>3. \A i \in 1..Len(nodePorts) : nodePorts[i] = i
    BY DEF CInv, NodesFit
  <2> QED
    BY <2>2, <2>3 DEF ShownNodesRun
<1>2. CInv /\ [Next]_vars => CInv'
  BY ClusterStep
<1> QED
  BY <1>1, <1>2, ClusterInit, PTL DEF Spec

\* streamContainerLogs runs at most once for a node, under the current log
\* context, while containers are recreated, streams end and clusters change;
\* only a node whose container a later add-node recreated may have none.
THEOREM FollowedOnceCorrect ==
    ASSUME "overlap" \notin Hasty
    PROVE  Spec => []FollowedOnce
<1>1. CInv => FollowedOnce
  BY DEF CInv, FollowFits, FollowedOnce
<1>2. CInv /\ [Next]_vars => CInv'
  BY ClusterStep
<1> QED
  BY <1>1, <1>2, ClusterInit, PTL DEF Spec

=============================================================================
