------------------------------ MODULE CliProofs ------------------------------
(***************************************************************************)
(* What holds of the tabs of navi-cli when users wait for one cluster       *)
(* command before they give the next, and no line read from a cluster is    *)
(* still unhandled when the next one is started (Hasty \subseteq {"leave"}: *)
(* the code enforces neither).  They may leave the console meanwhile.       *)
(*                                                                         *)
(* The invariant adds to that of CliClusterProofs: tabs are told apart by   *)
(* ids, and a search tab's sourceTab is the index its origin has now        *)
(* (AllFits); Errors/Warnings is the second tab while there are logs        *)
(* (ErrorsFit): a search on the console, which would come before it, is     *)
(* possible only when a stop moves the focus of an unfinished search, and   *)
(* then no cluster is starting (FocusFits).  One line is under way; it      *)
(* follows all lines shown and precedes all lines in the channel            *)
(* (ReadersFit), so no line is shown twice or out of order.  Because a      *)
(* sourceTab is its origin's index, closing a search tab returns to the tab *)
(* it was opened on (FocusReturns).                                         *)
(***************************************************************************)
EXTENDS CliClusterProofs, WellFoundedInduction

-----------------------------------------------------------------------------
(* The lines a search tab starts with *)

\* f gives the lines found among the first n of ls, at every count up to n.
Finds(f, ls, query, n) ==
    f = [i \in 0..n |->
            IF i = 0 THEN <<>>
            ELSE IF Matches(query, ls[i]) THEN Append(f[i - 1], ls[i]) ELSE f[i - 1]]

\* There is such an f.
LEMMA FindsExists ==
    ASSUME NEW ls, NEW query, NEW n \in Nat
    PROVE  \E f : Finds(f, ls, query, n)
<1> DEFINE T == {k \in Nat : ~\E f : Finds(f, ls, query, k)}
<1> SUFFICES ASSUME T # {} PROVE FALSE
  OBVIOUS
<1>1. PICK k \in T : \A j \in T : ~(<<j, k>> \in OpToRel(<, Nat))
  BY NatLessThanWellFounded, WFMin
<1>2. \A j \in Nat : j < k => j \notin T
  BY <1>1 DEF OpToRel
<1>3. CASE k = 0
  <2> DEFINE f == [i \in 0..0 |-> <<>>]
  <2>1. Finds(f, ls, query, 0)
    BY DEF Finds
  <2> QED
    BY <1>3, <2>1
<1>4. CASE k > 0
  <2>1. PICK f : Finds(f, ls, query, k - 1)
    BY <1>2, <1>4
  <2> DEFINE g == [i \in 0..k |->
                      IF i < k THEN f[i]
                      ELSE IF Matches(query, ls[k]) THEN Append(f[k - 1], ls[k])
                           ELSE f[k - 1]]
  <2>2. ASSUME NEW i \in 0..k
        PROVE  g[i] = IF i = 0 THEN <<>>
                      ELSE IF Matches(query, ls[i]) THEN Append(g[i - 1], ls[i])
                           ELSE g[i - 1]
    <3>1. CASE i = k
      BY <1>4, <3>1
    <3>2. CASE i < k
      <4>1. i \in 0..(k - 1) /\ g[i] = f[i] /\ (i # 0 => g[i - 1] = f[i - 1])
        BY <1>4, <3>2
      <4> QED
        BY <2>1, <4>1 DEF Finds
    <3> QED
      BY <3>1, <3>2
  <2>3. Finds(g, ls, query, k)
    BY <2>2, Zenon DEF Finds
  <2> QED
    BY <2>3
<1> QED
  BY <1>3, <1>4

\* MatchingLines is the last value of one.
LEMMA MatchingFinds ==
    ASSUME NEW ls, NEW query, Len(ls) \in Nat
    PROVE  \E f : Finds(f, ls, query, Len(ls)) /\ MatchingLines(ls, query) = f[Len(ls)]
<1> DEFINE F == CHOOSE f : Finds(f, ls, query, Len(ls))
<1>1. Finds(F, ls, query, Len(ls))
  BY FindsExists
<1>2. MatchingLines(ls, query) = F[Len(ls)]
  BY DEF MatchingLines, Finds
<1> QED
  BY <1>1, <1>2

\* The values of such an f, one from the other.
Steps(f, ls, query, n) ==
    /\ f[0] = <<>>
    /\ \A i \in 1..n : f[i] = IF Matches(query, ls[i])
                              THEN Append(f[i - 1], ls[i]) ELSE f[i - 1]

\* One line after the other is looked at.
LEMMA FindsStep ==
    ASSUME NEW ls, NEW query, NEW n \in Nat, NEW f, Finds(f, ls, query, n)
    PROVE  Steps(f, ls, query, n)
<1>1. \A i \in 0..n : f[i] = IF i = 0 THEN <<>>
                             ELSE IF Matches(query, ls[i])
                                  THEN Append(f[i - 1], ls[i]) ELSE f[i - 1]
  BY Zenon DEF Finds
<1> QED
  BY <1>1 DEF Steps

\* What is found among the first lines does not depend on the lines after.
LEMMA FindsAgree ==
    ASSUME NEW ls, NEW ms, NEW query, NEW n \in Nat, NEW k \in Nat, n <= k,
           NEW f, Finds(f, ls, query, n), NEW g, Finds(g, ms, query, k),
           \A i \in 1..n : ls[i] = ms[i]
    PROVE  f[n] = g[n]
<1> DEFINE T == {i \in 0..n : f[i] # g[i]}
<1> SUFFICES ASSUME T # {} PROVE FALSE
  OBVIOUS
<1>1. T \subseteq Nat
  OBVIOUS
<1>2. PICK i \in T : \A j \in T : ~(<<j, i>> \in OpToRel(<, Nat))
  BY <1>1, NatLessThanWellFounded, WFMin
<1>3. \A j \in 0..n : j < i => f[j] = g[j]
  BY <1>1, <1>2 DEF OpToRel
<1>f. Steps(f, ls, query, n)
  BY FindsStep
<1>g. Steps(g, ms, query, k)
  BY FindsStep
<1>4. CASE i = 0
  BY <1>4, <1>f, <1>g DEF Steps
<1>5. CASE i > 0
  <2>1. i \in 1..n /\ i \in 1..k /\ i - 1 \in 0..n /\ ls[i] = ms[i]
    BY <1>5
  <2>2. f[i - 1] = g[i - 1]
    BY <2>1, <1>3
  <2>3. f[i] = IF Matches(query, ls[i]) THEN Append(f[i - 1], ls[i]) ELSE f[i - 1]
    BY <2>1, <1>f DEF Steps
  <2>4. g[i] = IF Matches(query, ms[i]) THEN Append(g[i - 1], ms[i]) ELSE g[i - 1]
    BY <2>1, <1>g DEF Steps
  <2>5. f[i] = g[i]
    BY <2>1, <2>2, <2>3, <2>4
  <2> QED
    BY <2>5
<1> QED
  BY <1>4, <1>5

\* A line that is added to the tab is added to what matches, or is not.
LEMMA MatchingAppend ==
    ASSUME NEW S, NEW ls \in Seq(S), NEW l \in S, NEW query
    PROVE  MatchingLines(Append(ls, l), query) =
               IF Matches(query, l) THEN Append(MatchingLines(ls, query), l)
               ELSE MatchingLines(ls, query)
<1>1. PICK n \in Nat : n = Len(ls)
  BY LenProperties
<1>2. PICK ms \in Seq(S) : ms = Append(ls, l)
  BY AppendProperties
<1>3. Len(ms) = n + 1 /\ ms[n + 1] = l /\ \A i \in 1..n : ls[i] = ms[i]
  BY <1>1, <1>2, AppendProperties, LenProperties
<1>4. PICK f : Finds(f, ls, query, n) /\ MatchingLines(ls, query) = f[n]
  BY <1>1, MatchingFinds
<1>5. PICK g : Finds(g, ms, query, n + 1) /\ MatchingLines(ms, query) = g[n + 1]
  BY <1>3, MatchingFinds
<1>6. f[n] = g[n]
  BY <1>3, <1>4, <1>5, FindsAgree
<1>7. g[n + 1] = IF Matches(query, ms[n + 1]) THEN Append(g[n], ms[n + 1]) ELSE g[n]
  <2>1. n + 1 \in 1..(n + 1) /\ (n + 1) - 1 = n /\ n + 1 \in Nat
    OBVIOUS
  <2>2. Steps(g, ms, query, n + 1)
    BY <1>5, <2>1, FindsStep
  <2> QED
    BY <2>1, <2>2 DEF Steps
<1> QED
  BY <1>2, <1>3, <1>4, <1>5, <1>6, <1>7

-----------------------------------------------------------------------------
(* Lines in the order they were read *)

\* A log line as tabs, channels and messages hold it.
Line == [no : Nat, node : Nat \ {0}, error : BOOLEAN]

\* A line has a number.
LEMMA LinesNumbered ==
    ASSUME NEW ls \in Seq(Line)
    PROVE  \A i \in 1..Len(ls) : ls[i] \in Line /\ ls[i].no \in Nat
<1>1. \A i \in 1..Len(ls) : ls[i] \in Line
  BY ElementOfSeq
<1> QED
  BY <1>1 DEF Line

\* The lines come in the order they were read.
Rising(ls) == \A k, m \in 1..Len(ls) : k < m => ls[k].no < ls[m].no

\* All were read before the line numbered b.
Below(ls, b) == \A k \in 1..Len(ls) : ls[k].no < b

\* Nothing is in order.
LEMMA EmptyRises == <<>> \in Seq(Line) /\ Rising(<<>>) /\ \A b : Below(<<>>, b)
<1>1. <<>> \in Seq(Line) /\ Len(<<>>) = 0
  BY EmptySeq
<1> QED
  BY <1>1 DEF Rising, Below

\* A line read later may follow.
LEMMA AppendRises ==
    ASSUME NEW ls \in Seq(Line), NEW l \in Line, NEW b \in Nat,
           Rising(ls), Below(ls, l.no), l.no < b
    PROVE  Append(ls, l) \in Seq(Line) /\ Rising(Append(ls, l)) /\ Below(Append(ls, l), b)
<1>1. PICK n \in Nat : n = Len(ls) /\ \A i \in 1..n : ls[i] \in Line /\ ls[i].no \in Nat
  BY LenProperties, LinesNumbered
<1>2. PICK ms \in Seq(Line) : ms = Append(ls, l)
  BY AppendProperties
<1>3. Len(ms) = n + 1 /\ ms[n + 1] = l /\ \A i \in 1..n : ms[i] = ls[i]
  BY <1>1, <1>2, AppendProperties, LenProperties
<1>4. l.no \in Nat
  BY DEF Line
<1>5. \A i \in 1..n : ms[i].no \in Nat /\ ms[i].no < l.no
  BY <1>1, <1>3 DEF Below
<1>6. Below(ms, b)
  BY <1>3, <1>4, <1>5 DEF Below
<1>7. Rising(ms)
  <2> SUFFICES ASSUME NEW k \in 1..(n + 1), NEW m \in 1..(n + 1), k < m
               PROVE  ms[k].no < ms[m].no
    BY <1>3 DEF Rising
  <2>1. CASE m = n + 1
    BY <1>3, <1>5, <2>1
  <2>2. CASE m # n + 1
    BY SMTT(30), <1>1, <1>3, <2>2 DEF Rising
  <2> QED
    BY <2>1, <2>2
<1> QED
  BY <1>2, <1>6, <1>7

\* Lines below one are below a later one.
LEMMA BelowMore ==
    ASSUME NEW ls \in Seq(Line), NEW b \in Nat, NEW c \in Nat, b <= c, Below(ls, b)
    PROVE  Below(ls, c)
<1>1. \A i \in 1..Len(ls) : ls[i].no \in Nat
  BY LinesNumbered
<1> QED
  BY <1>1 DEF Below

\* The lines a search tab starts with are lines of the tab, in its order.
LEMMA MatchingRises ==
    ASSUME NEW ls \in Seq(Line), NEW query, NEW b \in Nat, Rising(ls), Below(ls, b)
    PROVE  /\ MatchingLines(ls, query) \in Seq(Line)
           /\ Rising(MatchingLines(ls, query))
           /\ Below(MatchingLines(ls, query), b)
<1>1. PICK n \in Nat : n = Len(ls) /\ \A i \in 1..n : ls[i] \in Line /\ ls[i].no \in Nat
  BY LenProperties, LinesNumbered
<1>2. PICK f : Finds(f, ls, query, n) /\ MatchingLines(ls, query) = f[n]
  BY <1>1, MatchingFinds
<1>f. Steps(f, ls, query, n)
  BY <1>2, FindsStep
<1> DEFINE Bound(i) == IF i = n THEN b ELSE ls[i + 1].no
           Good(i) == f[i] \in Seq(Line) /\ Rising(f[i]) /\ Below(f[i], Bound(i))
           T == {i \in 0..n : ~Good(i)}
<1>3. \A i \in 0..n : Bound(i) \in Nat
  BY <1>1
<1>4. ASSUME NEW i \in 1..n PROVE Bound(i - 1) = ls[i].no /\ ls[i].no < Bound(i)
  <2>1. Bound(i - 1) = ls[i].no
    OBVIOUS
  <2>2. CASE i = n
    BY <1>1, <2>2 DEF Below
  <2>3. CASE i # n
    BY <1>1, <2>3 DEF Rising
  <2> QED
    BY <2>1, <2>2, <2>3
<1>5. T = {}
  <2> SUFFICES ASSUME T # {} PROVE FALSE
    OBVIOUS
  <2>1. T \subseteq Nat
    OBVIOUS
  <2>2. PICK i \in T : \A j \in T : ~(<<j, i>> \in OpToRel(<, Nat))
    BY <2>1, NatLessThanWellFounded, WFMin
  <2>3. \A j \in 0..n : j < i => Good(j)
    BY <2>1, <2>2 DEF OpToRel
  <2>4. CASE i = 0
    <3> QED
      BY <2>4, <1>f, EmptyRises DEF Steps
  <2>5. CASE i > 0
    <3>1. i \in 1..n /\ i - 1 \in 0..n
      BY <2>5
    <3>2. Good(i - 1)
      BY <2>3, <3>1
    <3>3. f[i] = IF Matches(query, ls[i]) THEN Append(f[i - 1], ls[i]) ELSE f[i - 1]
      BY <3>1, <1>f DEF Steps
    <3>4. ls[i] \in Line /\ Bound(i) \in Nat /\ ls[i].no \in Nat
      BY <1>1, <1>3, <3>1
    <3>5. Below(f[i - 1], ls[i].no) /\ ls[i].no < Bound(i)
      BY <1>4, <3>1, <3>2
    <3>6. CASE Matches(query, ls[i])
      BY <3>2, <3>3, <3>4, <3>5, <3>6, AppendRises
    <3>7. CASE ~Matches(query, ls[i])
      BY SMTT(30), <3>2, <3>3, <3>4, <3>5, <3>7, BelowMore
    <3> QED
      BY <3>6, <3>7
  <2> QED
    BY <2>4, <2>5
<1> HIDE DEF Good
<1>6. Good(n)
  BY <1>5
<1> QED
  BY <1>2, <1>6 DEF Good

-----------------------------------------------------------------------------
(* The parts of the invariant *)

\* A tab.
Tab == [id : Int, node : Nat, isSearch : BOOLEAN, sourceTab : Nat, origin : Int,
        query : {"", "e", "error"}, lines : Seq(Line)]

\* The types of what keys and log lines use.
TypesFit ==
    /\ activeTab \in Nat
    /\ mode \in {"normal", "searchInput", "killSelect"}
    /\ channel \in [Context -> Seq(Line)] /\ waiters \in [Context -> Nat]
    /\ lineMsgs \subseteq Line
    /\ searches \in Nat /\ lines \in Nat

\* A search is on the console only after a stop, and no cluster is starting.
FocusFits ==
    mode = "searchInput" /\ activeTab = 0 =>
        logCtx = 0 /\ \A c \in commands : c.kind # "start"

\* The identities of tabs: Console comes first, a base tab has the id of its
\* node, a search tab one that no tab had.
IdsFit(ts, n, k) ==
    /\ Len(ts) >= 1
    /\ ~ts[1].isSearch /\ ts[1].node = 0
    /\ \A i \in 1..Len(ts) :
          /\ ts[i].isSearch => ts[i].node = 0 /\ ts[i].id \in (-k)..(-1)
          /\ ~ts[i].isSearch => ts[i].id \in 1..(n + 2)
          /\ ts[i].origin \in (-k)..(n + 2)
    /\ \A i, j \in 1..Len(ts) : ts[i].id = ts[j].id => i = j

\* A search tab's sourceTab is where the tab is that it was opened on.
SourcesFit(ts) ==
    \A i, j \in 1..Len(ts) :
        ts[i].isSearch /\ ts[i].origin = ts[j].id => ts[i].sourceTab + 1 = j

\* A search tab on a base tab has its matching lines.
TailsFit(ts) ==
    \A i, j \in 1..Len(ts) :
        ts[i].isSearch /\ ~ts[j].isSearch /\ ts[i].origin = ts[j].id =>
            ts[i].lines = MatchingLines(ts[j].lines, ts[i].query)

\* Every tab shows lines in order, of those before b.
LinesFit(ts, b) == \A i \in 1..Len(ts) : Rising(ts[i].lines) /\ Below(ts[i].lines, b)

\* The parts about tabs, of n nodes, k search tabs and the lines before b.
AllFits(ts, n, k, b) ==
    /\ ts \in Seq(Tab)
    /\ IdsFit(ts, n, k) /\ SourcesFit(ts) /\ TailsFit(ts) /\ LinesFit(ts, b)

\* Errors/Warnings comes second.
ErrorsFit(ts) == Len(ts) >= 2 /\ ~ts[2].isSearch /\ ts[2].node = 0

\* The tabs of the model fit its nodes, its searches and the lines logged.
TabsFit ==
    /\ AllFits(tabs, Len(nodePorts), searches, lines)
    /\ logCtx # 0 => ErrorsFit(tabs)

\* One line is under way at a time, and comes after those shown and before
\* those in the channel of the context; other channels are empty and unread.
ReadersFit ==
    /\ \A c \in Context : c = 0 \/ c # logCtx => waiters[c] = 0 /\ channel[c] = <<>>
    /\ \A l, m \in lineMsgs : l = m
    /\ waiters[logCtx] > 0 => waiters[logCtx] = 1 /\ lineMsgs = {}
    /\ Rising(channel[logCtx]) /\ Below(channel[logCtx], lines)
    /\ \A l \in lineMsgs : l.no < lines
    /\ logCtx # 0 =>
          /\ \A l \in lineMsgs :
                /\ LinesFit(tabs, l.no)
                /\ \A k \in 1..Len(channel[logCtx]) : l.no < channel[logCtx][k].no
          /\ \A k \in 1..Len(channel[logCtx]) : LinesFit(tabs, channel[logCtx][k].no)
    /\ \A c \in commands : c.kind = "start" /\ c.stage = "done" => lineMsgs = {}

\* What is about tabs, and with it the inductive invariant.
TabInv == TypesFit /\ FocusFits /\ TabsFit /\ ReadersFit
IInv == CInv /\ TabInv

-----------------------------------------------------------------------------
(* What the operations on tabs keep *)

\* The tab of a node.
LEMMA BaseTabFields ==
    ASSUME NEW id \in Int, NEW node \in Nat
    PROVE  LET t == BaseTab(id, node)
           IN  /\ t \in Tab /\ t.id = id /\ t.node = node /\ ~t.isSearch
               /\ t.origin = 0 /\ t.lines = <<>>
  BY EmptyRises DEF BaseTab, Tab

\* The tabs of a new cluster.
LEMMA FreshFits ==
    ASSUME NEW n \in Nat, NEW k \in Nat, NEW b \in Nat
    PROVE  /\ AllFits(FreshTabs(n), n, k, b) /\ ErrorsFit(FreshTabs(n))
           /\ Len(FreshTabs(n)) = n + 2
<1> DEFINE ts == FreshTabs(n)
<1>1. ASSUME NEW i \in 1..(n + 2)
      PROVE  /\ ts[i] \in Tab
             /\ ts[i].id = i /\ ~ts[i].isSearch /\ ts[i].origin = 0 /\ ts[i].lines = <<>>
             /\ i <= 2 => ts[i].node = 0
  <2>1. PICK node \in Nat : node = IF i <= 2 THEN 0 ELSE i - 2
    OBVIOUS
  <2>2. ts[i] = BaseTab(i, node)
    BY <2>1 DEF FreshTabs
  <2> QED
    BY <2>1, <2>2, BaseTabFields
<1>2. \A i \in 1..(n + 2) :
         /\ ts[i].id = i /\ ~ts[i].isSearch /\ ts[i].origin = 0 /\ ts[i].lines = <<>>
         /\ i <= 2 => ts[i].node = 0
  BY <1>1
<1>3. \A i \in 1..(n + 2) : ts[i] \in Tab
  BY <1>1
<1>4. ts \in Seq(Tab) /\ Len(ts) = n + 2
  <2>1. ts \in [1..(n + 2) -> Tab] /\ n + 2 \in Nat
    BY <1>3 DEF FreshTabs
  <2> QED
    BY <2>1, SeqDef, LenProperties
<1> HIDE DEF ts
<1>5. IdsFit(ts, n, k)
  BY <1>2, <1>4 DEF IdsFit
<1>6. SourcesFit(ts) /\ TailsFit(ts)
  BY <1>2, <1>4 DEF SourcesFit, TailsFit
<1>7. LinesFit(ts, b)
  BY <1>2, <1>4, EmptyRises DEF LinesFit
<1>8. ErrorsFit(ts)
  BY <1>2, <1>4 DEF ErrorsFit
<1> QED
  BY <1>4, <1>5, <1>6, <1>7, <1>8 DEF AllFits, ts

\* The tab of a node that was added.
LEMMA AddedFits ==
    ASSUME NEW n \in Nat, NEW k \in Nat, NEW b \in Nat, NEW ts, AllFits(ts, n, k, b)
    PROVE  /\ AllFits(Append(ts, BaseTab(n + 3, n + 1)), n + 1, k, b)
           /\ ErrorsFit(ts) => ErrorsFit(Append(ts, BaseTab(n + 3, n + 1)))
           /\ Len(Append(ts, BaseTab(n + 3, n + 1))) = Len(ts) + 1
<1>1. PICK new : new = BaseTab(n + 3, n + 1)
  OBVIOUS
<1>2. /\ new.id = n + 3 /\ ~new.isSearch /\ new.origin = 0 /\ new.lines = <<>>
      /\ new \in Tab
  BY <1>1, BaseTabFields
<1>3. PICK us : us = Append(ts, new)
  OBVIOUS
<1>4. PICK m \in Nat : m = Len(ts)
  BY LenProperties DEF AllFits
<1>5. /\ us \in Seq(Tab) /\ Len(us) = m + 1 /\ us[m + 1] = new
      /\ \A i \in 1..m : us[i] = ts[i]
  BY <1>2, <1>3, <1>4, AppendProperties DEF AllFits
<1>6. m >= 1
  BY <1>4 DEF AllFits, IdsFit
<1>7. \A i \in 1..m : ts[i] \in Tab /\ ts[i].id \in (-k)..(n + 2) /\ ts[i].origin \in (-k)..(n + 2)
  BY <1>4, ElementOfSeq DEF AllFits, IdsFit
<1>8. IdsFit(us, n + 1, k)
  <2>1. ~us[1].isSearch /\ us[1].node = 0
    BY <1>4, <1>5, <1>6 DEF AllFits, IdsFit
  <2>2. ASSUME NEW i \in 1..(m + 1)
        PROVE  /\ us[i].isSearch => us[i].node = 0 /\ us[i].id \in (-k)..(-1)
               /\ ~us[i].isSearch => us[i].id \in 1..(n + 3)
               /\ us[i].origin \in (-k)..(n + 3)
    <3>1. CASE i = m + 1
      BY <1>2, <1>5, <3>1
    <3>2. CASE i # m + 1
      BY SMTT(30), <1>4, <1>5, <3>2 DEF AllFits, IdsFit
    <3> QED
      BY <3>1, <3>2
  <2>3. ASSUME NEW i \in 1..(m + 1), NEW j \in 1..(m + 1), us[i].id = us[j].id
        PROVE  i = j
    <3>1. CASE i \in 1..m /\ j \in 1..m
      BY <1>4, <1>5, <2>3, <3>1 DEF AllFits, IdsFit
    <3>2. CASE i = m + 1 \/ j = m + 1
      BY <1>2, <1>5, <1>7, <2>3, <3>2
    <3> QED
      BY <3>1, <3>2
  <2> QED
    BY <1>5, <1>6, <2>1, <2>2, <2>3 DEF IdsFit
<1>9. SourcesFit(us) /\ TailsFit(us)
  <2> SUFFICES ASSUME NEW i \in 1..(m + 1), NEW j \in 1..(m + 1),
                      us[i].isSearch, us[i].origin = us[j].id
               PROVE  /\ us[i].sourceTab + 1 = j
                      /\ ~us[j].isSearch =>
                            us[i].lines = MatchingLines(us[j].lines, us[i].query)
    BY <1>5 DEF SourcesFit, TailsFit
  <2>1. i \in 1..m
    BY <1>2, <1>5
  <2>2. j \in 1..m
    BY SMTT(30), <1>2, <1>5, <1>7, <2>1
  <2>3. us[i] = ts[i] /\ us[j] = ts[j] /\ i \in 1..Len(ts) /\ j \in 1..Len(ts)
    BY <1>4, <1>5, <2>1, <2>2
  <2>4. SourcesFit(ts) /\ TailsFit(ts)
    BY DEF AllFits
  <2> QED
    BY <2>3, <2>4 DEF SourcesFit, TailsFit
<1>10. LinesFit(us, b)
  <2> SUFFICES ASSUME NEW i \in 1..(m + 1)
               PROVE  Rising(us[i].lines) /\ Below(us[i].lines, b)
    BY <1>5 DEF LinesFit
  <2>1. CASE i = m + 1
    BY <1>2, <1>5, <2>1, EmptyRises
  <2>2. CASE i # m + 1
    BY <1>4, <1>5, <2>2 DEF AllFits, LinesFit
  <2> QED
    BY <2>1, <2>2
<1>11. AllFits(us, n + 1, k, b) /\ Len(us) = Len(ts) + 1
  BY <1>4, <1>5, <1>8, <1>9, <1>10 DEF AllFits
<1>12. ErrorsFit(ts) => ErrorsFit(us)
  BY <1>4, <1>5 DEF ErrorsFit
<1> QED
  BY <1>1, <1>3, <1>11, <1>12

\* The same tab, its source apart.
SameTab(u, t) ==
    /\ u.id = t.id /\ u.node = t.node /\ u.isSearch = t.isSearch
    /\ u.origin = t.origin /\ u.query = t.query /\ u.lines = t.lines

\* Moving sources moves nothing else.
LEMMA ShiftedSame ==
    ASSUME NEW ts \in Seq(Tab), NEW from \in Nat, NEW by \in Int,
           by = 1 \/ (by = -1 /\ from > 0)
    PROVE  /\ Shifted(ts, from, by) \in Seq(Tab)
           /\ Len(Shifted(ts, from, by)) = Len(ts)
           /\ \A i \in 1..Len(ts) :
                 /\ SameTab(Shifted(ts, from, by)[i], ts[i])
                 /\ Shifted(ts, from, by)[i].sourceTab =
                       IF ts[i].isSearch /\ ts[i].sourceTab >= from
                       THEN ts[i].sourceTab + by ELSE ts[i].sourceTab
<1>1. PICK m \in Nat : m = Len(ts) /\ DOMAIN ts = 1..m
  BY LenProperties
<1> DEFINE us == Shifted(ts, from, by)
<1>2. \A i \in 1..m : us[i] = IF ts[i].isSearch /\ ts[i].sourceTab >= from
                              THEN [ts[i] EXCEPT !.sourceTab = @ + by] ELSE ts[i]
  BY <1>1 DEF Shifted
<1>3. ASSUME NEW i \in 1..m
      PROVE  /\ us[i] \in Tab /\ SameTab(us[i], ts[i])
             /\ us[i].sourceTab = IF ts[i].isSearch /\ ts[i].sourceTab >= from
                                  THEN ts[i].sourceTab + by ELSE ts[i].sourceTab
  <2>1. PICK t \in Tab : t = ts[i]
    BY <1>1, ElementOfSeq
  <2>2. t.sourceTab \in Nat
    BY DEF Tab
  <2>3. CASE t.isSearch /\ t.sourceTab >= from
    <3>1. us[i] = [t EXCEPT !.sourceTab = t.sourceTab + by]
      BY <1>2, <2>1, <2>3
    <3>2. t.sourceTab + by \in Nat
      BY <2>2, <2>3
    <3>3. us[i] \in Tab /\ us[i].sourceTab = t.sourceTab + by
      BY <3>1, <3>2 DEF Tab
    <3>4. SameTab(us[i], t)
      BY <3>1 DEF SameTab, Tab
    <3> QED
      BY <2>1, <2>3, <3>3, <3>4
  <2>4. CASE ~(t.isSearch /\ t.sourceTab >= from)
    BY <1>2, <2>1, <2>4 DEF SameTab
  <2> QED
    BY <2>3, <2>4
<1>4. us \in [1..m -> Tab]
  BY <1>1, <1>3 DEF Shifted
<1>5. us \in Seq(Tab) /\ Len(us) = m
  BY <1>4, SeqDef, LenProperties
<1> QED
  BY <1>1, <1>3, <1>5

\* A part of the tabs.
LEMMA PartOfTabs ==
    ASSUME NEW ts \in Seq(Tab), NEW i \in Nat \ {0}, NEW j \in 0..Len(ts), i <= j + 1
    PROVE  /\ SubSeq(ts, i, j) \in Seq(Tab)
           /\ Len(SubSeq(ts, i, j)) = j - i + 1
           /\ \A k \in 1..(j - i + 1) : SubSeq(ts, i, j)[k] = ts[i + k - 1]
<1>1. \A k \in i..j : ts[k] \in Tab
  BY LenProperties, ElementOfSeq
<1>2. i \in Int /\ j \in Int
  BY LenProperties
<1>3. /\ SubSeq(ts, i, j) \in Seq(Tab)
      /\ Len(SubSeq(ts, i, j)) = IF i <= j THEN j - i + 1 ELSE 0
      /\ \A k \in 1..(j - i + 1) : SubSeq(ts, i, j)[k] = ts[i + k - 1]
  BY <1>1, <1>2, SubSeqProperties
<1> QED
  BY <1>2, <1>3

\* One part of the tabs behind another.
LEMMA PartsJoined ==
    ASSUME NEW a \in Seq(Tab), NEW c \in Seq(Tab)
    PROVE  /\ a \o c \in Seq(Tab) /\ Len(a \o c) = Len(a) + Len(c)
           /\ \A i \in 1..Len(a) : (a \o c)[i] = a[i]
           /\ \A i \in 1..Len(c) : (a \o c)[Len(a) + i] = c[i]
<1>1. Len(a) \in Nat /\ Len(c) \in Nat
  BY LenProperties
<1>2. /\ a \o c \in Seq(Tab)
      /\ Len(a \o c) = Len(a) + Len(c)
      /\ \A i \in 1..(Len(a) + Len(c)) :
            (a \o c)[i] = IF i <= Len(a) THEN a[i] ELSE c[i - Len(a)]
  BY ConcatProperties
<1> QED
  BY <1>1, <1>2

\* A tab taken out.
LEMMA WithoutTab ==
    ASSUME NEW ts \in Seq(Tab), NEW p \in 1..Len(ts)
    PROVE  /\ Without(ts, p) \in Seq(Tab) /\ Len(Without(ts, p)) = Len(ts) - 1
           /\ \A i \in 1..(Len(ts) - 1) :
                 Without(ts, p)[i] = ts[IF i < p THEN i ELSE i + 1]
<1>1. PICK m \in Nat : m = Len(ts)
  BY LenProperties
<1>a. /\ 1 \in Nat \ {0} /\ p - 1 \in 0..Len(ts) /\ 1 <= p - 1 + 1
      /\ p + 1 \in Nat \ {0} /\ m \in 0..Len(ts) /\ p + 1 <= m + 1
  BY <1>1
<1>2. PICK a \in Seq(Tab) : a = SubSeq(ts, 1, p - 1)
  BY <1>a, PartOfTabs
<1>3. PICK c \in Seq(Tab) : c = SubSeq(ts, p + 1, m)
  BY <1>a, PartOfTabs
<1>4. Len(a) = p - 1 /\ \A i \in 1..(p - 1) : a[i] = ts[i]
  <2>1. /\ Len(a) = (p - 1) - 1 + 1
        /\ \A i \in 1..((p - 1) - 1 + 1) : a[i] = ts[1 + i - 1]
    BY <1>a, <1>2, PartOfTabs
  <2> QED
    BY <1>1, <2>1
<1>5. Len(c) = m - p /\ \A i \in 1..(m - p) : c[i] = ts[p + i]
  <2>1. /\ Len(c) = m - (p + 1) + 1
        /\ \A i \in 1..(m - (p + 1) + 1) : c[i] = ts[(p + 1) + i - 1]
    BY <1>a, <1>3, PartOfTabs
  <2> QED
    BY <1>1, <2>1
<1>6. PICK us \in Seq(Tab) : us = a \o c
  BY PartsJoined
<1>7. /\ Len(us) = m - 1
      /\ \A i \in 1..(p - 1) : us[i] = a[i]
      /\ \A i \in 1..(m - p) : us[p - 1 + i] = c[i]
  <2>1. /\ Len(us) = Len(a) + Len(c)
        /\ \A i \in 1..Len(a) : us[i] = a[i]
        /\ \A i \in 1..Len(c) : us[Len(a) + i] = c[i]
    BY <1>6, PartsJoined
  <2> QED
    BY <1>1, <1>4, <1>5, <2>1
<1>8. ASSUME NEW i \in 1..(m - 1)
      PROVE  us[i] = ts[IF i < p THEN i ELSE i + 1]
  <2>1. CASE i < p
    BY <1>1, <1>4, <1>7, <2>1
  <2>2. CASE i >= p
    <3>1. PICK j \in 1..(m - p) : i = p - 1 + j /\ p + j = i + 1
      <4>1. i - (p - 1) \in 1..(m - p)
        BY <1>1, <2>2
      <4> QED
        BY <1>1, <4>1
    <3>2. us[i] = c[j] /\ c[j] = ts[i + 1]
      BY <1>5, <1>7, <3>1
    <3> QED
      BY <2>2, <3>2
  <2> QED
    BY <2>1, <2>2
<1> QED
  BY <1>1, <1>2, <1>3, <1>6, <1>7, <1>8 DEF Without

\* us are some of the tabs ts: f tells which.
SomeOf(us, ts, f) ==
    /\ us \in Seq(Tab) /\ Len(us) >= 1
    /\ f \in [1..Len(us) -> 1..Len(ts)] /\ f[1] = 1
    /\ \A i, j \in 1..Len(us) : f[i] = f[j] => i = j
    /\ \A i \in 1..Len(us) : SameTab(us[i], ts[f[i]])

\* Tabs, some of which are taken out, fit as they did.
LEMMA SameFits ==
    ASSUME NEW n \in Nat, NEW k \in Nat, NEW b \in Nat, NEW ts, AllFits(ts, n, k, b),
           NEW us, NEW f, SomeOf(us, ts, f)
    PROVE  IdsFit(us, n, k) /\ TailsFit(us) /\ LinesFit(us, b)
<1> USE DEF SomeOf
<1>1. IdsFit(us, n, k)
  <2>1. PICK m \in Nat : m = Len(us) /\ m >= 1
    BY LenProperties
  <2>2. \A i \in 1..m : f[i] \in 1..Len(ts)
    BY <2>1
  <2>3. ~us[1].isSearch /\ us[1].node = 0
    <3>1. 1 \in 1..m /\ f[1] = 1
      BY <2>1
    <3>2. SameTab(us[1], ts[1])
      BY <2>1, <3>1
    <3> QED
      BY <3>2 DEF AllFits, IdsFit, SameTab
  <2>4. ASSUME NEW i \in 1..m
        PROVE  /\ us[i].isSearch => us[i].node = 0 /\ us[i].id \in (-k)..(-1)
               /\ ~us[i].isSearch => us[i].id \in 1..(n + 2)
               /\ us[i].origin \in (-k)..(n + 2)
    <3>1. f[i] \in 1..Len(ts) /\ SameTab(us[i], ts[f[i]])
      BY <2>1, <2>2
    <3> QED
      BY <3>1 DEF AllFits, IdsFit, SameTab
  <2>5. ASSUME NEW i \in 1..m, NEW j \in 1..m, us[i].id = us[j].id
        PROVE  i = j
    <3>1. f[i] \in 1..Len(ts) /\ f[j] \in 1..Len(ts)
      BY <2>2
    <3>2. ts[f[i]].id = ts[f[j]].id
      BY <2>1, <2>5 DEF SameTab
    <3>3. f[i] = f[j]
      BY <3>1, <3>2 DEF AllFits, IdsFit
    <3> QED
      BY <2>1, <3>3
  <2> QED
    BY <2>1, <2>3, <2>4, <2>5 DEF IdsFit
<1>2. TailsFit(us)
  <2> SUFFICES ASSUME NEW i \in 1..Len(us), NEW j \in 1..Len(us),
                      us[i].isSearch, ~us[j].isSearch, us[i].origin = us[j].id
               PROVE  us[i].lines = MatchingLines(us[j].lines, us[i].query)
    BY DEF TailsFit
  <2>1. f[i] \in 1..Len(ts) /\ f[j] \in 1..Len(ts)
    OBVIOUS
  <2>2. SameTab(us[i], ts[f[i]]) /\ SameTab(us[j], ts[f[j]])
    OBVIOUS
  <2>3. ts[f[i]].isSearch /\ ~ts[f[j]].isSearch /\ ts[f[i]].origin = ts[f[j]].id
    BY <2>2 DEF SameTab
  <2>4. ts[f[i]].lines = MatchingLines(ts[f[j]].lines, ts[f[i]].query)
    BY <2>1, <2>3 DEF AllFits, TailsFit
  <2> QED
    BY <2>2, <2>4 DEF SameTab
<1>3. LinesFit(us, b)
  BY DEF AllFits, LinesFit, SameTab
<1> QED
  BY <1>1, <1>2, <1>3

\* A search tab closed.
LEMMA ClosedFits ==
    ASSUME NEW n \in Nat, NEW k \in Nat, NEW b \in Nat, NEW ts, AllFits(ts, n, k, b),
           NEW p \in 1..Len(ts), ts[p].isSearch
    PROVE  /\ AllFits(Shifted(Without(ts, p), p, -1), n, k, b)
           /\ ErrorsFit(ts) => ErrorsFit(Shifted(Without(ts, p), p, -1))
           /\ Len(Shifted(Without(ts, p), p, -1)) = Len(ts) - 1
<1>1. PICK m \in Nat : m = Len(ts)
  BY LenProperties DEF AllFits
<1>2. p > 1 /\ m > 1
  <2>1. p # 1 /\ p \in 1..m
    BY <1>1 DEF AllFits, IdsFit
  <2> QED
    BY <1>1, <2>1
<1>3. PICK ws \in Seq(Tab) : ws = Without(ts, p)
  BY WithoutTab DEF AllFits
<1>4. Len(ws) = m - 1 /\ \A i \in 1..(m - 1) : ws[i] = ts[IF i < p THEN i ELSE i + 1]
  BY <1>1, <1>3, WithoutTab DEF AllFits
<1>5. PICK us \in Seq(Tab) : us = Shifted(ws, p, -1)
  <2>1. -1 \in Int /\ p \in Nat /\ (-1 = 1 \/ (-1 = -1 /\ p > 0))
    BY <1>2
  <2>2. Shifted(ws, p, -1) \in Seq(Tab)
    BY <2>1, ShiftedSame
  <2> QED
    BY <2>2
<1>6. /\ Len(us) = m - 1
      /\ \A i \in 1..(m - 1) :
            /\ SameTab(us[i], ws[i])
            /\ us[i].sourceTab = IF ws[i].isSearch /\ ws[i].sourceTab >= p
                                 THEN ws[i].sourceTab + (-1) ELSE ws[i].sourceTab
  <2>1. -1 \in Int /\ p \in Nat /\ (-1 = 1 \/ (-1 = -1 /\ p > 0))
    BY <1>2
  <2>2. /\ Len(us) = Len(ws)
        /\ \A i \in 1..Len(ws) :
              /\ SameTab(us[i], ws[i])
              /\ us[i].sourceTab = IF ws[i].isSearch /\ ws[i].sourceTab >= p
                                   THEN ws[i].sourceTab + (-1) ELSE ws[i].sourceTab
    BY <1>5, <2>1, ShiftedSame
  <2> QED
    BY <1>4, <2>2
<1> DEFINE f == [i \in 1..(m - 1) |-> IF i < p THEN i ELSE i + 1]
<1>7. /\ f \in [1..(m - 1) -> 1..m] /\ f[1] = 1
      /\ \A i, j \in 1..(m - 1) : f[i] = f[j] => i = j
      /\ \A i \in 1..(m - 1) : f[i] # p /\ (f[i] < p => i = f[i]) /\ (f[i] > p => i = f[i] - 1)
      /\ \A i \in 1..(m - 1) : ws[i] = ts[f[i]]
  BY <1>1, <1>2, <1>4
<1> HIDE DEF f
<1>8. \A i \in 1..(m - 1) : SameTab(us[i], ts[f[i]])
  BY <1>6, <1>7
<1>9. IdsFit(us, n, k) /\ TailsFit(us) /\ LinesFit(us, b)
  <2>1. Len(us) >= 1
    BY <1>2, <1>6
  <2>2. /\ f \in [1..Len(us) -> 1..Len(ts)]
        /\ \A i, j \in 1..Len(us) : f[i] = f[j] => i = j
        /\ \A i \in 1..Len(us) : SameTab(us[i], ts[f[i]])
    BY <1>1, <1>6, <1>7, <1>8
  <2>3. SomeOf(us, ts, f)
    BY <1>7, <2>1, <2>2 DEF SomeOf
  <2> QED
    BY <2>3, SameFits
<1>10. SourcesFit(us)
  <2> SUFFICES ASSUME NEW i \in 1..(m - 1), NEW j \in 1..(m - 1),
                      us[i].isSearch, us[i].origin = us[j].id
               PROVE  us[i].sourceTab + 1 = j
    BY <1>6 DEF SourcesFit
  <2>1. f[i] \in 1..m /\ f[j] \in 1..m
    BY <1>7
  <2>2. ts[f[i]].isSearch /\ ts[f[i]].origin = ts[f[j]].id
    BY <1>8 DEF SameTab
  <2>3. ts[f[i]].sourceTab + 1 = f[j]
    BY <1>1, <2>1, <2>2 DEF AllFits, SourcesFit
  <2>4. PICK s \in Nat : s = ts[f[i]].sourceTab
    <3>1. ts[f[i]] \in Tab
      BY <1>1, <2>1, ElementOfSeq DEF AllFits
    <3> QED
      BY <3>1 DEF Tab
  <2>5. us[i].sourceTab = IF s >= p THEN s + (-1) ELSE s
    BY <1>6, <1>7, <2>2, <2>4
  <2>6. f[j] = s + 1 /\ f[j] # p /\ (f[j] < p => j = f[j]) /\ (f[j] > p => j = f[j] - 1)
    BY <1>7, <2>3, <2>4
  <2> QED
    BY <2>5, <2>6
<1>11. AllFits(us, n, k, b) /\ Len(us) = Len(ts) - 1
  BY <1>1, <1>6, <1>9, <1>10 DEF AllFits
<1>12. ErrorsFit(ts) => ErrorsFit(us)
  <2> SUFFICES ASSUME ErrorsFit(ts) PROVE ErrorsFit(us)
    OBVIOUS
  <2>1. p # 2 /\ m >= 2
    BY <1>1 DEF ErrorsFit
  <2>2. p > 2 /\ m >= 3
    BY <1>1, <1>2, <2>1
  <2>3. 2 \in 1..(m - 1) /\ ws[2] = ts[2]
    BY <1>1, <1>4, <2>2
  <2>4. SameTab(us[2], ts[2]) /\ Len(us) >= 2
    BY <1>6, <2>2, <2>3
  <2> QED
    BY <2>4 DEF ErrorsFit, SameTab
<1> QED
  BY <1>3, <1>5, <1>11, <1>12

\* The tab a search opens.
SearchTab(ts, at, k, query) ==
    [id |-> SearchId(k), node |-> 0, isSearch |-> TRUE, sourceTab |-> at - 1,
     origin |-> ts[at].id, query |-> query, lines |-> MatchingLines(ts[at].lines, query)]

\* It shows the matching lines of its source.
LEMMA SearchTabFields ==
    ASSUME NEW n \in Nat, NEW k \in Nat, NEW b \in Nat, NEW ts, AllFits(ts, n, k, b),
           NEW at \in 1..Len(ts), NEW query \in {"e", "error"}
    PROVE  LET t == SearchTab(ts, at, k, query)
           IN  /\ t \in Tab /\ t.id = -(k + 1) /\ t.node = 0 /\ t.isSearch
               /\ t.sourceTab = at - 1 /\ t.origin = ts[at].id /\ t.query = query
               /\ t.lines = MatchingLines(ts[at].lines, query)
               /\ Rising(t.lines) /\ Below(t.lines, b)
<1>1. PICK s \in Tab : s = ts[at]
  BY ElementOfSeq DEF AllFits
<1>2. s.lines \in Seq(Line) /\ s.id \in Int
  BY DEF Tab
<1>3. Rising(s.lines) /\ Below(s.lines, b)
  BY <1>1 DEF AllFits, LinesFit
<1>4. PICK ls \in Seq(Line) : /\ ls = MatchingLines(s.lines, query)
                              /\ Rising(ls) /\ Below(ls, b)
  BY <1>2, <1>3, MatchingRises
<1>5. at - 1 \in Nat /\ -(k + 1) \in Int /\ Len(ts) \in Nat
  BY LenProperties DEF AllFits
<1>6. PICK t : t = SearchTab(ts, at, k, query)
  OBVIOUS
<1>7. t = [id |-> -(k + 1), node |-> 0, isSearch |-> TRUE, sourceTab |-> at - 1,
           origin |-> s.id, query |-> query, lines |-> ls]
  BY <1>1, <1>4, <1>6 DEF SearchTab, SearchId
<1>8. t \in Tab
  BY <1>2, <1>4, <1>5, <1>7 DEF Tab
<1>9. /\ t.id = -(k + 1) /\ t.node = 0 /\ t.isSearch = TRUE /\ t.sourceTab = at - 1
      /\ t.origin = s.id /\ t.query = query /\ t.lines = ls
  BY <1>7
<1> QED
  BY <1>1, <1>4, <1>6, <1>8, <1>9

\* The tabs with a search tab opened behind the tab at at.
Opened(ts, at, k, query) ==
    SubSeq(Shifted(ts, at, 1), 1, at) \o <<SearchTab(ts, at, k, query)>>
        \o SubSeq(Shifted(ts, at, 1), at + 1, Len(ts))

\* Opening it keeps what is about tabs.
LEMMA OpenedFits ==
    ASSUME NEW n \in Nat, NEW k \in Nat, NEW b \in Nat, NEW ts, AllFits(ts, n, k, b),
           NEW at \in 1..Len(ts), NEW query \in {"e", "error"}
    PROVE  /\ AllFits(Opened(ts, at, k, query), n, k + 1, b)
           /\ ErrorsFit(ts) /\ at > 1 => ErrorsFit(Opened(ts, at, k, query))
           /\ Len(Opened(ts, at, k, query)) = Len(ts) + 1
<1>1. PICK m \in Nat : m = Len(ts)
  BY LenProperties DEF AllFits
<1>2. PICK new \in Tab :
         /\ new = SearchTab(ts, at, k, query)
         /\ new.id = -(k + 1) /\ new.node = 0 /\ new.isSearch
         /\ new.sourceTab = at - 1 /\ new.origin = ts[at].id /\ new.query = query
         /\ new.lines = MatchingLines(ts[at].lines, query)
         /\ Rising(new.lines) /\ Below(new.lines, b)
  <2>1. at \in 1..Len(ts)
    BY <1>1
  <2>2. PICK t : t = SearchTab(ts, at, k, query)
    OBVIOUS
  <2>3. /\ t \in Tab /\ t.id = -(k + 1) /\ t.node = 0 /\ t.isSearch
        /\ t.sourceTab = at - 1 /\ t.origin = ts[at].id /\ t.query = query
        /\ t.lines = MatchingLines(ts[at].lines, query)
        /\ Rising(t.lines) /\ Below(t.lines, b)
    BY <2>1, <2>2, SearchTabFields
  <2> QED
    BY <2>2, <2>3
<1>b. ts \in Seq(Tab) /\ at \in Nat /\ at \in 1..m /\ 1 \in Int /\ (1 = 1 \/ (1 = -1 /\ at > 0))
  BY <1>1 DEF AllFits
<1>3. PICK old \in Seq(Tab) : old = Shifted(ts, at, 1)
  BY <1>b, ShiftedSame
<1>4. /\ Len(old) = m
      /\ \A i \in 1..m :
            /\ SameTab(old[i], ts[i])
            /\ old[i].sourceTab = IF ts[i].isSearch /\ ts[i].sourceTab >= at
                                  THEN ts[i].sourceTab + 1 ELSE ts[i].sourceTab
  BY <1>1, <1>3, <1>b, ShiftedSame
<1>a. /\ 1 \in Nat \ {0} /\ at \in 0..Len(old) /\ 1 <= at + 1
      /\ at + 1 \in Nat \ {0} /\ m \in 0..Len(old) /\ at + 1 <= m + 1
  BY <1>1, <1>4
<1>5. PICK a \in Seq(Tab) : a = SubSeq(old, 1, at)
  BY <1>a, PartOfTabs
<1>6. PICK c \in Seq(Tab) : c = SubSeq(old, at + 1, m)
  BY <1>a, PartOfTabs
<1>7. Len(a) = at /\ \A i \in 1..at : a[i] = old[i]
  <2>1. Len(a) = at - 1 + 1 /\ \A i \in 1..(at - 1 + 1) : a[i] = old[1 + i - 1]
    BY <1>a, <1>5, PartOfTabs
  <2> QED
    BY <1>1, <2>1
<1>8. Len(c) = m - at /\ \A i \in 1..(m - at) : c[i] = old[at + i]
  <2>1. /\ Len(c) = m - (at + 1) + 1
        /\ \A i \in 1..(m - (at + 1) + 1) : c[i] = old[(at + 1) + i - 1]
    BY <1>a, <1>6, PartOfTabs
  <2> QED
    BY <1>1, <2>1
<1>c. PICK e \in Seq(Tab) : e = <<new>> /\ Len(e) = 1 /\ e[1] = new
  <2>1. <<new>> \in Seq(Tab) /\ Len(<<new>>) = 1 /\ <<new>>[1] = new
    OBVIOUS
  <2> QED
    BY <2>1
<1>9. PICK d \in Seq(Tab) : d = a \o e
  BY PartsJoined
<1>10. /\ Len(d) = at + 1 /\ d[at + 1] = new /\ \A i \in 1..at : d[i] = a[i]
  <2>1. /\ Len(d) = Len(a) + Len(e)
        /\ \A i \in 1..Len(a) : d[i] = a[i]
        /\ \A i \in 1..Len(e) : d[Len(a) + i] = e[i]
    BY <1>9, PartsJoined
  <2>2. 1 \in 1..Len(e)
    BY <1>c
  <2>3. d[Len(a) + 1] = e[1]
    BY <2>1, <2>2
  <2> QED
    BY <1>7, <1>c, <2>1, <2>3
<1>11. PICK us \in Seq(Tab) : us = d \o c
  BY PartsJoined
<1>12. /\ Len(us) = m + 1
       /\ \A i \in 1..(at + 1) : us[i] = d[i]
       /\ \A i \in 1..(m - at) : us[at + 1 + i] = c[i]
  <2>1. /\ Len(us) = Len(d) + Len(c)
        /\ \A i \in 1..Len(d) : us[i] = d[i]
        /\ \A i \in 1..Len(c) : us[Len(d) + i] = c[i]
    BY <1>11, PartsJoined
  <2> QED
    BY <1>1, <1>8, <1>10, <2>1
<1>13. us[at + 1] = new
  BY <1>1, <1>10, <1>12
<1> DEFINE f(i) == IF i <= at THEN i ELSE i - 1
<1>14. ASSUME NEW i \in 1..(m + 1), i # at + 1
       PROVE  f(i) \in 1..m /\ us[i] = old[f(i)]
  <2>1. CASE i <= at
    BY <1>1, <1>7, <1>10, <1>12, <2>1
  <2>2. CASE i > at + 1
    <3>1. PICK j \in 1..(m - at) : i = at + 1 + j /\ at + j = f(i)
      <4>1. i - (at + 1) \in 1..(m - at)
        BY <1>1, <2>2
      <4> QED
        BY <1>1, <2>2, <4>1
    <3>2. us[i] = c[j] /\ c[j] = old[at + j]
      BY <1>8, <1>12, <3>1
    <3>3. at + j \in 1..m
      BY <1>1
    <3> QED
      BY <3>1, <3>2, <3>3
  <2> QED
    BY <1>14, <2>1, <2>2
<1>15. ASSUME NEW i \in 1..(m + 1), i # at + 1
       PROVE  /\ f(i) \in 1..m /\ SameTab(us[i], ts[f(i)])
              /\ us[i].sourceTab = IF ts[f(i)].isSearch /\ ts[f(i)].sourceTab >= at
                                   THEN ts[f(i)].sourceTab + 1 ELSE ts[f(i)].sourceTab
  BY <1>4, <1>14, <1>15
<1>16. ASSUME NEW i \in 1..m
       PROVE  ts[i].id \in (-k)..(n + 2) /\ ts[i].origin \in (-k)..(n + 2)
  <2>1. /\ ts[i].isSearch => ts[i].id \in (-k)..(-1)
        /\ ~ts[i].isSearch => ts[i].id \in 1..(n + 2)
        /\ ts[i].origin \in (-k)..(n + 2)
    BY <1>1 DEF AllFits, IdsFit
  <2>2. (-k)..(-1) \subseteq (-k)..(n + 2) /\ 1..(n + 2) \subseteq (-k)..(n + 2)
    OBVIOUS
  <2> QED
    BY <2>1, <2>2
<1>d. /\ (-k)..(-1) \subseteq (-(k + 1))..(-1) /\ -(k + 1) \in (-(k + 1))..(-1)
      /\ (-k)..(n + 2) \subseteq (-(k + 1))..(n + 2) /\ -(k + 1) \notin (-k)..(n + 2)
  OBVIOUS
<1>17. m >= 1
  BY <1>1
<1>18. \A i, j \in 1..(m + 1) : i # at + 1 /\ j # at + 1 /\ f(i) = f(j) => i = j
  BY SMTT(30), <1>1
<1>19. \A i \in 1..(m + 1) : i # at + 1 => (f(i) <= at => i = f(i)) /\ (f(i) > at => i = f(i) + 1)
  BY <1>1
<1> HIDE DEF f
<1>20. IdsFit(us, n, k + 1)
  <2>1. ~us[1].isSearch /\ us[1].node = 0
    <3>1. 1 \in 1..m /\ 1 \in 1..at /\ 1 \in 1..(at + 1)
      BY <1>1
    <3>2. us[1] = old[1] /\ SameTab(old[1], ts[1])
      BY <1>4, <1>7, <1>10, <1>12, <3>1
    <3> QED
      BY <3>2 DEF AllFits, IdsFit, SameTab
  <2>2. ASSUME NEW i \in 1..(m + 1)
        PROVE  /\ us[i].isSearch => us[i].node = 0 /\ us[i].id \in (-(k + 1))..(-1)
               /\ ~us[i].isSearch => us[i].id \in 1..(n + 2)
               /\ us[i].origin \in (-(k + 1))..(n + 2)
    <3>1. CASE i = at + 1
      <4>1. us[i] = new
        BY <1>13, <3>1
      <4>2. new.isSearch /\ new.node = 0 /\ new.id \in (-(k + 1))..(-1)
        BY <1>2, <1>d
      <4>3. new.origin \in (-(k + 1))..(n + 2)
        BY <1>2, <1>16, <1>b, <1>d
      <4> QED
        BY <4>1, <4>2, <4>3
    <3>2. CASE i # at + 1
      <4>1. f(i) \in 1..m /\ SameTab(us[i], ts[f(i)])
        BY <1>15, <3>2
      <4>2. /\ ts[f(i)].isSearch => ts[f(i)].node = 0 /\ ts[f(i)].id \in (-k)..(-1)
            /\ ~ts[f(i)].isSearch => ts[f(i)].id \in 1..(n + 2)
            /\ ts[f(i)].origin \in (-k)..(n + 2)
        BY <1>1, <4>1 DEF AllFits, IdsFit
      <4> QED
        BY <4>1, <4>2, <1>d DEF SameTab
    <3> QED
      BY <3>1, <3>2
  <2>3. ASSUME NEW i \in 1..(m + 1), NEW j \in 1..(m + 1), us[i].id = us[j].id
        PROVE  i = j
    <3>1. CASE i # at + 1 /\ j # at + 1
      <4>1. f(i) \in 1..m /\ f(j) \in 1..m /\ ts[f(i)].id = ts[f(j)].id
        BY <1>15, <2>3, <3>1 DEF SameTab
      <4>2. f(i) = f(j)
        BY <1>1, <4>1 DEF AllFits, IdsFit
      <4> QED
        BY <1>18, <3>1, <4>2
    <3>2. ASSUME NEW p \in 1..(m + 1), p # at + 1 PROVE us[p].id # -(k + 1)
      <4>1. f(p) \in 1..m /\ us[p].id = ts[f(p)].id
        BY <1>15, <3>2 DEF SameTab
      <4> QED
        BY <1>16, <1>d, <4>1
    <3>3. CASE i = at + 1 \/ j = at + 1
      BY <1>2, <1>13, <2>3, <3>2, <3>3
    <3> QED
      BY <3>1, <3>3
  <2> QED
    BY <1>12, <1>17, <2>1, <2>2, <2>3 DEF IdsFit
<1>21. SourcesFit(us) /\ TailsFit(us)
  <2> SUFFICES ASSUME NEW i \in 1..(m + 1), NEW j \in 1..(m + 1),
                      us[i].isSearch, us[i].origin = us[j].id
               PROVE  /\ us[i].sourceTab + 1 = j
                      /\ ~us[j].isSearch =>
                            us[i].lines = MatchingLines(us[j].lines, us[i].query)
    BY <1>12 DEF SourcesFit, TailsFit
  <2>1. j # at + 1
    <3>1. us[i].origin \in (-k)..(n + 2)
      <4>1. CASE i = at + 1
        BY <1>2, <1>13, <1>16, <1>b, <4>1
      <4>2. CASE i # at + 1
        BY <1>15, <1>16, <4>2 DEF SameTab
      <4> QED
        BY <4>1, <4>2
    <3> QED
      BY SMTT(30), <1>2, <1>13, <1>d, <3>1
  <2>2. /\ f(j) \in 1..m /\ us[j].id = ts[f(j)].id /\ us[j].isSearch = ts[f(j)].isSearch
        /\ us[j].lines = ts[f(j)].lines
    BY <1>15, <2>1 DEF SameTab
  <2>3. CASE i = at + 1
    <3>1. ts[at].id = ts[f(j)].id /\ at \in 1..m
      BY SMTT(30), <1>1, <1>2, <1>13, <2>2, <2>3
    <3>2. f(j) = at
      BY <1>1, <2>2, <3>1 DEF AllFits, IdsFit
    <3>3. j = at
      <4>1. f(j) <= at => j = f(j)
        BY <1>19, <2>1
      <4>2. at <= at
        BY <1>b
      <4> QED
        BY <3>2, <4>1, <4>2
    <3>4. us[i].sourceTab = at - 1 /\ us[i].query = query
      BY <1>2, <1>13, <2>3
    <3>5. us[i].lines = MatchingLines(ts[at].lines, query)
      BY <1>2, <1>13, <2>3
    <3> QED
      BY <1>1, <2>2, <3>2, <3>3, <3>4, <3>5
  <2>4. CASE i # at + 1
    <3>1. f(i) \in 1..m /\ SameTab(us[i], ts[f(i)])
      BY <1>15, <2>4
    <3>2. ts[f(i)].isSearch /\ ts[f(i)].origin = ts[f(j)].id
      BY <2>2, <3>1 DEF SameTab
    <3>3. ts[f(i)].sourceTab + 1 = f(j)
      BY <1>1, <2>2, <3>1, <3>2 DEF AllFits, SourcesFit
    <3>4. PICK s \in Nat : s = ts[f(i)].sourceTab
      <4>1. ts[f(i)] \in Tab
        BY <1>1, <3>1, ElementOfSeq DEF AllFits
      <4> QED
        BY <4>1 DEF Tab
    <3>5. us[i].sourceTab = IF s >= at THEN s + 1 ELSE s
      BY <1>15, <2>4, <3>2, <3>4
    <3>6. f(j) = s + 1 /\ (f(j) <= at => j = f(j)) /\ (f(j) > at => j = f(j) + 1)
      BY <1>19, <2>1, <3>3, <3>4
    <3>7. us[i].sourceTab + 1 = j
      BY <1>1, <3>5, <3>6
    <3>8. ~ts[f(j)].isSearch =>
             ts[f(i)].lines = MatchingLines(ts[f(j)].lines, ts[f(i)].query)
      BY <1>1, <2>2, <3>1, <3>2 DEF AllFits, TailsFit
    <3> QED
      BY <2>2, <3>1, <3>7, <3>8 DEF SameTab
  <2> QED
    BY <2>3, <2>4
<1>22. LinesFit(us, b)
  <2> SUFFICES ASSUME NEW i \in 1..(m + 1)
               PROVE  Rising(us[i].lines) /\ Below(us[i].lines, b)
    BY <1>12 DEF LinesFit
  <2>1. CASE i = at + 1
    BY <1>2, <1>13, <2>1
  <2>2. CASE i # at + 1
    BY <1>1, <1>15, <2>2 DEF AllFits, LinesFit, SameTab
  <2> QED
    BY <2>1, <2>2
<1>23. AllFits(us, n, k + 1, b) /\ Len(us) = Len(ts) + 1
  BY <1>1, <1>12, <1>20, <1>21, <1>22 DEF AllFits
<1>24. us = Opened(ts, at, k, query)
  BY <1>1, <1>2, <1>3, <1>5, <1>6, <1>9, <1>c, <1>11 DEF Opened
<1>25. ErrorsFit(ts) /\ at > 1 => ErrorsFit(us)
  <2> SUFFICES ASSUME ErrorsFit(ts), at > 1 PROVE ErrorsFit(us)
    OBVIOUS
  <2>1. 2 \in 1..m /\ 2 \in 1..at /\ 2 \in 1..(at + 1)
    BY <1>1
  <2>2. us[2] = old[2] /\ SameTab(old[2], ts[2]) /\ Len(us) >= 2
    BY <1>4, <1>7, <1>10, <1>12, <2>1
  <2> QED
    BY <2>2 DEF ErrorsFit, SameTab
<1> QED
  BY <1>23, <1>24, <1>25

\* The tab at i gets the line that goes to the tab at index idx.
Gets(ts, i, idx, l) ==
    \/ i = idx + 1
    \/ ts[i].isSearch /\ ts[i].sourceTab = idx /\ Matches(ts[i].query, l)

\* No tab gets a line twice, and nothing but its lines changes.
LEMMA AppendedTabs ==
    ASSUME NEW ts \in Seq(Tab), NEW idx \in Int, NEW l \in Line,
           idx + 1 \in 1..Len(ts) => ~ts[idx + 1].isSearch
    PROVE  LET us == appendToTab(ts, idx, l)
           IN  /\ us \in Seq(Tab) /\ Len(us) = Len(ts)
               /\ \A i \in 1..Len(ts) :
                     /\ us[i].id = ts[i].id /\ us[i].node = ts[i].node
                     /\ us[i].isSearch = ts[i].isSearch
                     /\ us[i].sourceTab = ts[i].sourceTab
                     /\ us[i].origin = ts[i].origin /\ us[i].query = ts[i].query
                     /\ us[i].lines = IF Gets(ts, i, idx, l)
                                      THEN Append(ts[i].lines, l) ELSE ts[i].lines
<1>1. PICK m \in Nat : m = Len(ts) /\ DOMAIN ts = 1..m
  BY LenProperties
<1>2. PICK us : us = appendToTab(ts, idx, l)
  OBVIOUS
<1>3. ASSUME NEW i \in 1..m
      PROVE  /\ us[i] \in Tab
             /\ us[i].id = ts[i].id /\ us[i].node = ts[i].node
             /\ us[i].isSearch = ts[i].isSearch
             /\ us[i].sourceTab = ts[i].sourceTab
             /\ us[i].origin = ts[i].origin /\ us[i].query = ts[i].query
             /\ us[i].lines = IF Gets(ts, i, idx, l)
                              THEN Append(ts[i].lines, l) ELSE ts[i].lines
  <2>1. PICK t \in Tab : t = ts[i]
    BY <1>1, ElementOfSeq
  <2>2. PICK ls \in Seq(Line) : ls = t.lines
    BY DEF Tab
  <2>a. <<>> \in Seq(Line) /\ <<l>> \in Seq(Line)
    BY EmptyRises
  <2>3. PICK a \in Seq(Line) : a = IF i = idx + 1 THEN <<l>> ELSE <<>>
    BY <2>a, Zenon
  <2>4. PICK c \in Seq(Line) :
           c = IF t.isSearch /\ t.sourceTab = idx /\ Matches(t.query, l)
               THEN <<l>> ELSE <<>>
    BY <2>a, Zenon
  <2>5. us[i] = [t EXCEPT !.lines = (ls \o a) \o c]
    <3>1. us[i] = [ts[i] EXCEPT !.lines =
                      @ \o (IF i = idx + 1 THEN <<l>> ELSE <<>>)
                        \o (IF /\ ts[i].isSearch /\ ts[i].sourceTab = idx
                               /\ Matches(ts[i].query, l)
                            THEN <<l>> ELSE <<>>)]
      BY <1>1, <1>2 DEF appendToTab
    <3> QED
      BY <2>1, <2>2, <2>3, <2>4, <3>1
  <2>6. (ls \o a) \o c = IF Gets(ts, i, idx, l) THEN Append(ls, l) ELSE ls
    <3>1. ls \o <<>> = ls /\ ls \o <<l>> = Append(ls, l)
      BY ConcatEmptySeq, AppendIsConcat
    <3>2. Append(ls, l) \in Seq(Line)
      BY AppendProperties
    <3>3. Append(ls, l) \o <<>> = Append(ls, l)
      BY <3>2, ConcatEmptySeq
    <3>4. CASE i = idx + 1
      <4>1. ~t.isSearch
        BY <1>1, <2>1, <3>4
      <4>2. a = <<l>> /\ c = <<>>
        BY <2>3, <2>4, <3>4, <4>1
      <4>3. Gets(ts, i, idx, l)
        BY <3>4 DEF Gets
      <4> QED
        BY <3>1, <3>3, <4>2, <4>3
    <3>5. CASE i # idx + 1 /\ t.isSearch /\ t.sourceTab = idx /\ Matches(t.query, l)
      <4>1. a = <<>> /\ c = <<l>>
        BY <2>3, <2>4, <3>5
      <4>2. Gets(ts, i, idx, l)
        BY <2>1, <3>5 DEF Gets
      <4> QED
        BY <3>1, <4>1, <4>2
    <3>6. CASE i # idx + 1 /\ ~(t.isSearch /\ t.sourceTab = idx /\ Matches(t.query, l))
      <4>1. a = <<>> /\ c = <<>>
        BY <2>3, <2>4, <3>6
      <4>2. ~Gets(ts, i, idx, l)
        BY <2>1, <3>6 DEF Gets
      <4> QED
        BY <3>1, <4>1, <4>2
    <3> QED
      BY <3>4, <3>5, <3>6
  <2>7. PICK ms \in Seq(Line) : ms = (ls \o a) \o c
    BY ConcatProperties
  <2>8. us[i] = [t EXCEPT !.lines = ms]
    BY <2>5, <2>7
  <2>9. /\ us[i] \in Tab /\ us[i].lines = ms
        /\ us[i].id = t.id /\ us[i].node = t.node /\ us[i].isSearch = t.isSearch
        /\ us[i].sourceTab = t.sourceTab /\ us[i].origin = t.origin
        /\ us[i].query = t.query
    BY <2>8 DEF Tab
  <2> QED
    BY <2>1, <2>2, <2>6, <2>7, <2>9
<1>4. us \in [1..m -> Tab]
  BY <1>1, <1>2, <1>3 DEF appendToTab
<1>5. us \in Seq(Tab) /\ Len(us) = m
  BY <1>4, SeqDef, LenProperties
<1> QED
  BY <1>1, <1>2, <1>3, <1>5

\* A line that comes after those of the tabs that get it.
LEMMA AppendedFits ==
    ASSUME NEW n \in Nat, NEW k \in Nat, NEW b \in Nat, NEW ts, AllFits(ts, n, k, b),
           NEW idx \in Int, NEW l \in Line, l.no < b,
           idx + 1 \in 1..Len(ts) => ~ts[idx + 1].isSearch,
           \A i \in 1..Len(ts) : Gets(ts, i, idx, l) => Below(ts[i].lines, l.no)
    PROVE  AllFits(appendToTab(ts, idx, l), n, k, b)
<1>1. PICK m \in Nat : m = Len(ts)
  BY LenProperties DEF AllFits
<1>2. PICK us \in Seq(Tab) :
         /\ us = appendToTab(ts, idx, l) /\ Len(us) = m
         /\ \A i \in 1..m :
               /\ us[i].id = ts[i].id /\ us[i].node = ts[i].node
               /\ us[i].isSearch = ts[i].isSearch
               /\ us[i].sourceTab = ts[i].sourceTab
               /\ us[i].origin = ts[i].origin /\ us[i].query = ts[i].query
               /\ us[i].lines = IF Gets(ts, i, idx, l)
                                THEN Append(ts[i].lines, l) ELSE ts[i].lines
  <2>1. ts \in Seq(Tab)
    BY DEF AllFits
  <2> QED
    BY <1>1, <2>1, AppendedTabs
<1>3. \A i \in 1..m : ts[i] \in Tab /\ ts[i].lines \in Seq(Line) /\ ts[i].sourceTab \in Nat
  <2>1. \A i \in 1..m : ts[i] \in Tab
    BY <1>1, ElementOfSeq DEF AllFits
  <2> QED
    BY <2>1 DEF Tab
<1>4. IdsFit(us, n, k)
  <2>1. /\ m >= 1 /\ ~ts[1].isSearch /\ ts[1].node = 0
        /\ \A i \in 1..m :
              /\ ts[i].isSearch => ts[i].node = 0 /\ ts[i].id \in (-k)..(-1)
              /\ ~ts[i].isSearch => ts[i].id \in 1..(n + 2)
              /\ ts[i].origin \in (-k)..(n + 2)
        /\ \A i, j \in 1..m : ts[i].id = ts[j].id => i = j
    BY <1>1 DEF AllFits, IdsFit
  <2>2. ~us[1].isSearch /\ us[1].node = 0
    <3>1. 1 \in 1..m
      BY <2>1
    <3>2. us[1].isSearch = ts[1].isSearch /\ us[1].node = ts[1].node
      BY <1>2, <3>1
    <3> QED
      BY <2>1, <3>2
  <2>3. ASSUME NEW i \in 1..m
        PROVE  /\ us[i].isSearch => us[i].node = 0 /\ us[i].id \in (-k)..(-1)
               /\ ~us[i].isSearch => us[i].id \in 1..(n + 2)
               /\ us[i].origin \in (-k)..(n + 2)
    <3>1. /\ us[i].id = ts[i].id /\ us[i].node = ts[i].node
          /\ us[i].isSearch = ts[i].isSearch /\ us[i].origin = ts[i].origin
      BY <1>2
    <3>2. /\ ts[i].isSearch => ts[i].node = 0 /\ ts[i].id \in (-k)..(-1)
          /\ ~ts[i].isSearch => ts[i].id \in 1..(n + 2)
          /\ ts[i].origin \in (-k)..(n + 2)
      BY <2>1
    <3> QED
      BY <3>1, <3>2, Zenon
  <2>4. \A i, j \in 1..m : us[i].id = us[j].id => i = j
    BY <1>2, <2>1
  <2> QED
    BY <1>2, <2>1, <2>2, <2>3, <2>4 DEF IdsFit
<1>5. SourcesFit(us)
  BY <1>1, <1>2 DEF AllFits, SourcesFit
<1>6. TailsFit(us)
  <2> SUFFICES ASSUME NEW i \in 1..m, NEW j \in 1..m,
                      us[i].isSearch, ~us[j].isSearch, us[i].origin = us[j].id
               PROVE  us[i].lines = MatchingLines(us[j].lines, us[i].query)
    BY <1>2 DEF TailsFit
  <2>1. ts[i].isSearch /\ ~ts[j].isSearch /\ ts[i].origin = ts[j].id
    BY <1>2
  <2>2. ts[i].sourceTab + 1 = j
    BY <1>1, <2>1 DEF AllFits, SourcesFit
  <2>3. ts[i].lines = MatchingLines(ts[j].lines, ts[i].query)
    BY <1>1, <2>1 DEF AllFits, TailsFit
  <2>4. Gets(ts, j, idx, l) <=> j = idx + 1
    BY <2>1 DEF Gets
  <2>5. Gets(ts, i, idx, l) <=> j = idx + 1 /\ Matches(ts[i].query, l)
    <3>1. i # idx + 1
      BY <1>1, <2>1
    <3>2. ts[i].sourceTab = idx <=> j = idx + 1
      BY <1>3, <2>2
    <3> QED
      BY <2>1, <3>1, <3>2 DEF Gets
  <2>6. MatchingLines(Append(ts[j].lines, l), ts[i].query) =
           IF Matches(ts[i].query, l) THEN Append(ts[i].lines, l) ELSE ts[i].lines
    <3>1. ts[j].lines \in Seq(Line)
      BY <1>3
    <3>2. MatchingLines(Append(ts[j].lines, l), ts[i].query) =
             IF Matches(ts[i].query, l)
             THEN Append(MatchingLines(ts[j].lines, ts[i].query), l)
             ELSE MatchingLines(ts[j].lines, ts[i].query)
      BY <3>1, MatchingAppend
    <3> QED
      BY <2>3, <3>2
  <2>7. us[i].query = ts[i].query
    BY <1>2
  <2>8. us[j].lines = IF j = idx + 1 THEN Append(ts[j].lines, l) ELSE ts[j].lines
    BY <1>2, <2>4
  <2>9. us[i].lines = IF j = idx + 1 /\ Matches(ts[i].query, l)
                      THEN Append(ts[i].lines, l) ELSE ts[i].lines
    BY <1>2, <2>5
  <2> QED
    BY <2>3, <2>6, <2>7, <2>8, <2>9
<1>7. LinesFit(us, b)
  <2> SUFFICES ASSUME NEW i \in 1..m
               PROVE  Rising(us[i].lines) /\ Below(us[i].lines, b)
    BY <1>2 DEF LinesFit
  <2>1. Rising(ts[i].lines) /\ Below(ts[i].lines, b)
    BY <1>1 DEF AllFits, LinesFit
  <2>2. CASE Gets(ts, i, idx, l)
    <3>1. Below(ts[i].lines, l.no) /\ us[i].lines = Append(ts[i].lines, l)
      BY <1>1, <1>2, <2>2
    <3> QED
      BY <1>3, <2>1, <3>1, AppendRises
  <2>3. CASE ~Gets(ts, i, idx, l)
    BY <1>2, <2>1, <2>3
  <2> QED
    BY <2>2, <2>3
<1> QED
  BY <1>2, <1>4, <1>5, <1>6, <1>7 DEF AllFits

-----------------------------------------------------------------------------
(* Commands and their messages *)

\* What is not touched fits as it did.
LEMMA SameTabs ==
    ASSUME TabInv, UNCHANGED <<tabs, activeTab, nodePorts, logCtx>>,
           UNCHANGED <<channel, waiters, lineMsgs, lines, searches>>,
           mode' \in {"normal", "searchInput", "killSelect"}, FocusFits',
           \A e \in commands' : e.kind = "start" /\ e.stage = "done" => lineMsgs = {}
    PROVE  TabInv'
<1>1. TypesFit'
  BY DEF TabInv, TypesFit
<1>2. TabsFit'
  BY DEF TabInv, TabsFit
<1>3. ReadersFit'
  BY DEF TabInv, ReadersFit
<1> QED
  BY <1>1, <1>2, <1>3 DEF TabInv

\* With fewer commands, or when a command goes on, the focus fits.
LEMMA SameFocus ==
    ASSUME FocusFits, UNCHANGED <<activeTab, logCtx>>, mode' = mode,
           \A e \in commands' : e.kind = "start" => \E c \in commands : c.kind = "start"
    PROVE  FocusFits'
  BY DEF FocusFits

\* A goroutine changes nothing of the tabs; a cluster is started only when no
\* line read from the one before is unhandled.
LEMMA GoroutineTabs ==
    ASSUME Hasty \subseteq {"leave"}, IInv, NEW c \in commands, Goroutine(c)
    PROVE  TabInv'
<1>1. PICK d, stage, ok : GoesOn(c, d, stage, ok)
  BY GoroutineGoesOn DEF IInv, CInv
<1>2. d.kind = c.kind /\ commands' = (commands \ {c}) \cup {d}
  BY <1>1 DEF GoesOn
<1>3. /\ UNCHANGED <<tabs, activeTab, nodePorts, logCtx>> /\ mode' = mode
      /\ UNCHANGED <<channel, waiters, lineMsgs, lines, searches>>
  BY <1>1 DEF GoesOn, modelVars, logVars, countVars
<1>4. c.kind = "start" => lineMsgs = {}
  BY DEF Goroutine, RunStart, RunStop, RunKill, RunAddNode, RunAddServer
<1>5. \A e \in commands' : e.kind = "start" /\ e.stage = "done" => lineMsgs = {}
  BY <1>2, <1>4 DEF IInv, TabInv, ReadersFit
<1>6. FocusFits'
  <2>1. \A e \in commands' : e.kind = "start" => \E b \in commands : b.kind = "start"
    BY <1>2
  <2> QED
    BY <1>3, <2>1, SameFocus DEF IInv, TabInv
<1>7. mode' \in {"normal", "searchInput", "killSelect"}
  BY <1>3 DEF IInv, TabInv, TypesFit
<1> QED
  BY <1>3, <1>5, <1>6, <1>7, SameTabs DEF IInv

\* Neither does the message of a command that failed, nor killNodesLoadedMsg.
LEMMA PlainMessageTabs ==
    ASSUME IInv, NEW c \in commands, MessageFailed(c) \/ killNodesLoadedMsg(c)
    PROVE  TabInv'
<1>1. commands' = commands \ {c}
  BY DEF MessageFailed, killNodesLoadedMsg, Done
<1>2. /\ UNCHANGED <<tabs, activeTab, nodePorts, logCtx>>
      /\ UNCHANGED <<channel, waiters, lineMsgs, lines, searches>>
      /\ mode' = mode \/ mode' = "killSelect"
  BY DEF MessageFailed, killNodesLoadedMsg, MsgVars, modelVars, logVars, countVars
<1>3. \A e \in commands' : e.kind = "start" /\ e.stage = "done" => lineMsgs = {}
  BY <1>1 DEF IInv, TabInv, ReadersFit
<1>4. FocusFits'
  BY <1>1, <1>2 DEF IInv, TabInv, FocusFits
<1>5. mode' \in {"normal", "searchInput", "killSelect"}
  BY <1>2 DEF IInv, TabInv, TypesFit
<1> QED
  BY <1>2, <1>3, <1>4, <1>5, SameTabs DEF IInv

\* A fresh tab shows nothing yet.
LEMMA AddedLines ==
    ASSUME NEW n \in Nat, NEW ts \in Seq(Tab), NEW b, LinesFit(ts, b)
    PROVE  LinesFit(Append(ts, BaseTab(n + 3, n + 1)), b)
<1>1. PICK new \in Tab : new = BaseTab(n + 3, n + 1) /\ new.lines = <<>>
  BY BaseTabFields
<1>2. PICK m \in Nat : m = Len(ts)
  BY LenProperties
<1>3. PICK us : us = Append(ts, new)
  OBVIOUS
<1>4. Len(us) = m + 1 /\ us[m + 1] = new /\ \A i \in 1..m : us[i] = ts[i]
  BY <1>2, <1>3, AppendProperties
<1>5. ASSUME NEW i \in 1..(m + 1) PROVE Rising(us[i].lines) /\ Below(us[i].lines, b)
  <2>1. CASE i = m + 1
    BY <1>1, <1>4, <2>1, EmptyRises
  <2>2. CASE i # m + 1
    BY <1>2, <1>4, <2>2 DEF LinesFit
  <2> QED
    BY <2>1, <2>2
<1>6. LinesFit(us, b)
  BY <1>4, <1>5 DEF LinesFit
<1> QED
  BY <1>1, <1>3, <1>6

\* No other command for the cluster is under way.
LEMMA OnlyKillsLeft ==
    ASSUME CInv, NEW c \in commands, ClusterCommand(c), commands' = commands \ {c}
    PROVE  \A e \in commands' : e.kind = "kill"
<1>1. \A e \in commands : e # c => ~ClusterCommand(e)
  BY DEF CInv, NodesFit
<1> QED
  BY <1>1 DEF ClusterCommand, CInv, ClusterTypeOK, Command

\* nodeAddedMsg puts a tab behind the others.
LEMMA NodeAddedTabs ==
    ASSUME IInv, NEW c \in commands, nodeAddedMsg(c)
    PROVE  TabInv'
<1>1. c.kind = "add" /\ c.n = Len(nodePorts) /\ logCtx # 0
  BY DEF nodeAddedMsg, Done, IInv, CInv, NodesFit
<1>2. nodePorts \in Seq(Nat)
  BY DEF IInv, CInv, ClusterTypeOK
<1>3. PICK n \in Nat : n = Len(nodePorts) /\ c.n = n
  BY <1>1, <1>2, LenProperties
<1>4. /\ commands' = commands \ {c}
      /\ nodePorts' = Append(nodePorts, n + 1)
      /\ tabs' = Append(tabs, BaseTab(n + 3, n + 1))
  <2>1. c.n + 1 + 2 = n + 3 /\ c.n + 1 = n + 1
    BY <1>3
  <2> QED
    BY <2>1 DEF nodeAddedMsg, Done
<1>5. /\ UNCHANGED <<activeTab, mode, logCtx>>
      /\ UNCHANGED <<channel, waiters, lineMsgs, lines, searches>>
  BY DEF nodeAddedMsg, MsgVars, countVars
<1>6. Len(nodePorts') = n + 1
  BY <1>2, <1>3, <1>4, AppendProperties
<1>7. TypesFit'
  BY <1>5 DEF IInv, TabInv, TypesFit
<1>8. FocusFits'
  BY <1>1, <1>5 DEF IInv, TabInv, FocusFits
<1>9. AllFits(tabs', n + 1, searches, lines) /\ ErrorsFit(tabs')
  <2>1. PICK k \in Nat, b \in Nat : k = searches /\ b = lines
    BY DEF IInv, TabInv, TypesFit
  <2>2. PICK ts : ts = tabs
    OBVIOUS
  <2>3. AllFits(ts, n, k, b) /\ ErrorsFit(ts)
    BY <1>1, <1>3, <2>1, <2>2 DEF IInv, TabInv, TabsFit
  <2>4. /\ AllFits(Append(ts, BaseTab(n + 3, n + 1)), n + 1, k, b)
        /\ ErrorsFit(Append(ts, BaseTab(n + 3, n + 1)))
    BY <2>3, AddedFits
  <2> QED
    BY <1>4, <2>1, <2>2, <2>4
<1>10. TabsFit'
  BY <1>5, <1>6, <1>9 DEF TabsFit
<1>11. ReadersFit'
  <2>1. tabs \in Seq(Tab)
    BY DEF IInv, TabInv, TabsFit, AllFits
  <2>2. \A b : LinesFit(tabs, b) => LinesFit(tabs', b)
    BY <1>4, <2>1, AddedLines
  <2>3. \A e \in commands' : e.kind = "kill"
    BY <1>1, <1>4, OnlyKillsLeft DEF IInv, ClusterCommand
  <2> QED
    BY <1>5, <2>2, <2>3 DEF IInv, TabInv, ReadersFit
<1> QED
  BY <1>7, <1>8, <1>10, <1>11 DEF TabInv

\* clusterStartedMsg replaces the tabs: nobody reads the new channel before.
LEMMA ClusterStartedTabs ==
    ASSUME IInv, NEW c \in commands, clusterStartedMsg(c)
    PROVE  TabInv'
<1>1. /\ c.kind = "start" /\ c.stage = "done"
      /\ c.n \in Nat /\ c.id \in 0..(MaxCommands - 1) /\ logCtx = 0
  BY DEF clusterStartedMsg, Done, IInv, CInv, NodesFit, ClusterTypeOK, Command
<1>2. PICK n \in Nat : n = c.n
  BY <1>1
<1>3. PICK ctx \in Context : ctx = c.id + 1 /\ ctx # 0
  <2>1. c.id + 1 \in Context /\ c.id + 1 # 0
    BY <1>1, CliAssumption DEF Context
  <2> QED
    BY <2>1
<1>4. /\ commands' = commands \ {c}
      /\ nodePorts' = [i \in 1..n |-> i]
      /\ tabs' = FreshTabs(n)
      /\ logCtx' = ctx
      /\ waiters' = [waiters EXCEPT ![ctx] = 1]
  BY <1>2, <1>3 DEF clusterStartedMsg, Done
<1>5. /\ UNCHANGED <<activeTab, mode>>
      /\ UNCHANGED <<channel, lineMsgs, lines, searches>>
  BY DEF clusterStartedMsg, MsgVars, countVars
<1>6. Len(nodePorts') = n
  BY <1>4, NodesShown
<1>7. TypesFit'
  <2>1. waiters' \in [Context -> Nat]
    BY <1>4 DEF IInv, TabInv, TypesFit
  <2> QED
    BY <1>5, <2>1 DEF IInv, TabInv, TypesFit
<1>8. FocusFits'
  BY <1>1, <1>5 DEF IInv, TabInv, FocusFits
<1>9. AllFits(tabs', n, searches, lines) /\ ErrorsFit(tabs')
  <2>1. PICK k \in Nat, b \in Nat : k = searches /\ b = lines
    BY DEF IInv, TabInv, TypesFit
  <2> QED
    BY <1>4, <2>1, FreshFits
<1>10. TabsFit'
  BY <1>5, <1>6, <1>9 DEF TabsFit
<1>11. ReadersFit'
  <2>1. lineMsgs = {}
    BY <1>1 DEF IInv, TabInv, ReadersFit
  <2>2. \A e \in Context : waiters[e] = 0 /\ channel[e] = <<>>
    BY <1>1 DEF IInv, TabInv, ReadersFit
  <2>3. waiters' = [e \in Context |-> IF e = ctx THEN 1 ELSE 0]
    BY <1>4, <2>2 DEF IInv, TabInv, TypesFit
  <2>4. channel[ctx] = <<>> /\ Len(channel[ctx]) = 0
    BY <2>2
  <2>5. Rising(channel[ctx]) /\ Below(channel[ctx], lines)
    BY <2>4, EmptyRises
  <2> QED
    BY <1>3, <1>4, <1>5, <2>1, <2>2, <2>3, <2>4, <2>5 DEF ReadersFit
<1> QED
  BY <1>7, <1>8, <1>10, <1>11 DEF TabInv

\* clusterStoppedMsg replaces the tabs, and its context is read no more.
LEMMA ClusterStoppedTabs ==
    ASSUME IInv, NEW c \in commands, clusterStoppedMsg(c)
    PROVE  TabInv'
<1>1. c.kind \in {"stop", "reset"}
  BY DEF clusterStoppedMsg, Done
<1>2. PICK ctx \in Context : ctx = logCtx
  BY DEF IInv, CInv, ClusterTypeOK
<1>3. /\ commands' = commands \ {c}
      /\ nodePorts' = <<>> /\ tabs' = FreshTabs(0) /\ activeTab' = 0
      /\ logCtx' = 0
      /\ waiters' = [waiters EXCEPT ![ctx] = 0]
      /\ channel' = [channel EXCEPT ![ctx] = <<>>]
  BY <1>2 DEF clusterStoppedMsg, Done
<1>4. mode' = mode /\ UNCHANGED <<lineMsgs, lines, searches>>
  BY DEF clusterStoppedMsg, MsgVars, countVars
<1>5. Len(nodePorts') = 0 /\ 0 \in Context
  BY <1>3, CliAssumption DEF Context
<1>6. TypesFit'
  <2>1. waiters' \in [Context -> Nat] /\ channel' \in [Context -> Seq(Line)]
    BY <1>3, EmptyRises DEF IInv, TabInv, TypesFit
  <2> QED
    BY <1>3, <1>4, <2>1 DEF IInv, TabInv, TypesFit
<1>7. \A e \in commands' : e.kind = "kill"
  BY <1>1, <1>3, OnlyKillsLeft DEF IInv, ClusterCommand
<1>8. FocusFits'
  BY <1>3, <1>7 DEF FocusFits
<1>9. AllFits(tabs', 0, searches, lines)
  <2>1. PICK k \in Nat, b \in Nat : k = searches /\ b = lines
    BY DEF IInv, TabInv, TypesFit
  <2>2. 0 \in Nat
    OBVIOUS
  <2> QED
    BY <1>3, <2>1, <2>2, FreshFits
<1>10. TabsFit'
  BY <1>3, <1>4, <1>5, <1>9 DEF TabsFit
<1>11. ReadersFit'
  <2>1. \A e \in Context : waiters'[e] = 0 /\ channel'[e] = <<>>
    BY <1>2, <1>3 DEF IInv, TabInv, ReadersFit, TypesFit
  <2>2. Rising(channel'[0]) /\ Below(channel'[0], lines)
    BY <1>5, <2>1, EmptyRises
  <2>3. (\A l, m \in lineMsgs : l = m) /\ \A l \in lineMsgs : l.no < lines
    BY DEF IInv, TabInv, ReadersFit
  <2> QED
    BY <1>3, <1>4, <1>5, <1>7, <2>1, <2>2, <2>3 DEF ReadersFit
<1> QED
  BY <1>6, <1>8, <1>10, <1>11 DEF TabInv

\* Every message of a command keeps what is about tabs.
LEMMA MessageTabs ==
    ASSUME IInv, NEW c \in commands, Message(c)
    PROVE  TabInv'
  BY PlainMessageTabs, NodeAddedTabs, ClusterStartedTabs, ClusterStoppedTabs DEF Message

-----------------------------------------------------------------------------
(* Keys *)

\* A key changes the mode, the focus and the tabs.
LEMMA KeyTabs ==
    ASSUME IInv, UNCHANGED KeyVars,
           activeTab' \in Nat, mode' \in {"normal", "searchInput", "killSelect"},
           searches' \in Nat, mode' = "searchInput" => activeTab' # 0,
           AllFits(tabs', Len(nodePorts), searches', lines),
           logCtx # 0 => ErrorsFit(tabs'),
           \A b \in Nat : LinesFit(tabs, b) => LinesFit(tabs', b)
    PROVE  TabInv'
<1>1. /\ UNCHANGED <<nodePorts, logCtx, commands>>
      /\ UNCHANGED <<channel, waiters, lineMsgs, lines>>
  BY DEF KeyVars, logVars
<1>2. TypesFit'
  BY <1>1 DEF IInv, TabInv, TypesFit
<1>3. FocusFits'
  BY DEF FocusFits
<1>4. TabsFit'
  BY <1>1 DEF TabsFit
<1>5. ReadersFit'
  <2>1. \A l \in lineMsgs : l.no \in Nat
    BY DEF IInv, TabInv, TypesFit, Line
  <2>2. channel[logCtx] \in Seq(Line)
    BY DEF IInv, CInv, ClusterTypeOK, TabInv, TypesFit
  <2>3. \A k \in 1..Len(channel[logCtx]) : channel[logCtx][k].no \in Nat
    BY <2>2, LinesNumbered
  <2> QED
    BY <1>1, <2>1, <2>3 DEF IInv, TabInv, ReadersFit
<1> QED
  BY <1>2, <1>3, <1>4, <1>5 DEF TabInv

\* Such keys leave the tabs alone: a switch, and the start of a search.
LEMMA FocusKeyTabs ==
    ASSUME IInv, UNCHANGED KeyVars, UNCHANGED <<tabs, searches>>,
           activeTab' \in Nat, mode' \in {"normal", "searchInput", "killSelect"},
           mode' = "searchInput" => activeTab' # 0
    PROVE  TabInv'
<1>1. /\ AllFits(tabs, Len(nodePorts), searches, lines)
      /\ logCtx # 0 => ErrorsFit(tabs)
      /\ searches \in Nat
  BY DEF IInv, TabInv, TabsFit, TypesFit
<1> QED
  BY <1>1, KeyTabs

\* Switching tabs, a search begun and the selection of a node to kill do.
LEMMA FocusKeysTabs ==
    ASSUME IInv, SwitchTab \/ StartSearchInput \/ updateKillSelect
    PROVE  TabInv'
<1>1. activeTab \in Nat /\ Len(tabs) \in Nat /\ Len(tabs) >= 1
  BY LenProperties DEF IInv, TabInv, TypesFit, TabsFit, AllFits, IdsFit
<1>2. CASE SwitchTab
  <2>1. PICK by \in {1, Len(tabs) - 1} : activeTab' = (activeTab + by) % Len(tabs)
    BY <1>2 DEF SwitchTab
  <2>2. activeTab' \in Nat
    BY <1>1, <2>1
  <2> QED
    BY <1>2, <2>2, FocusKeyTabs DEF SwitchTab
<1>3. CASE StartSearchInput
  BY <1>1, <1>3, FocusKeyTabs DEF StartSearchInput
<1>4. CASE updateKillSelect
  <2>1. mode' \in {"killSelect", "normal"}
    BY <1>4 DEF updateKillSelect
  <2> QED
    BY <1>1, <1>4, <2>1, FocusKeyTabs DEF updateKillSelect
<1> QED
  BY <1>2, <1>3, <1>4

\* Closing a search tab keeps the others, moved or not.
LEMMA CloseSearchTabs ==
    ASSUME IInv, InRange, CloseSearch
    PROVE  TabInv'
<1>1. /\ mode = "normal" /\ mode' = mode /\ searches' = searches /\ UNCHANGED KeyVars
  BY DEF CloseSearch
<1>2. /\ activeTab \in Nat /\ activeTab < Len(tabs) /\ tabs \in Seq(Tab)
      /\ searches \in Nat /\ lines \in Nat /\ nodePorts \in Seq(Nat)
  BY <1>1 DEF IInv, CInv, ClusterTypeOK, TabInv, TypesFit, TabsFit, AllFits, InRange, TabInRange
<1>3. PICK p \in 1..Len(tabs) : p = activeTab + 1
  BY <1>2, LenProperties
<1>4. /\ tabs[p].isSearch
      /\ tabs' = Shifted(Without(tabs, p), p, -1)
      /\ \E back \in Nat, left \in Int :
            /\ left = Len(tabs) - 1
            /\ activeTab' = IF back >= left THEN left - 1 ELSE back
  <2>1. tabs[p] \in Tab
    BY <1>2, ElementOfSeq
  <2>2. PICK source \in Nat : source = tabs[p].sourceTab
    BY <2>1 DEF Tab
  <2>3. PICK back \in Nat : back = IF source > activeTab THEN source - 1 ELSE source
    BY <1>2, <2>2
  <2>4. PICK left \in Int : left = Len(tabs) - 1
    BY <1>2, LenProperties
  <2> QED
    BY <1>3, <2>2, <2>3, <2>4 DEF CloseSearch, closeSearchTab
<1>5. ASSUME NEW b \in Nat, LinesFit(tabs, b)
      PROVE  /\ AllFits(tabs', Len(nodePorts), searches, b)
             /\ ErrorsFit(tabs) => ErrorsFit(tabs')
             /\ Len(tabs') = Len(tabs) - 1
  <2>1. PICK n \in Nat, k \in Nat : n = Len(nodePorts) /\ k = searches
    BY <1>2, LenProperties
  <2>2. AllFits(tabs, n, k, b)
    BY <1>5, <2>1 DEF IInv, TabInv, TabsFit, AllFits
  <2>3. PICK ts : ts = tabs
    OBVIOUS
  <2>4. /\ AllFits(Shifted(Without(ts, p), p, -1), n, k, b)
        /\ ErrorsFit(ts) => ErrorsFit(Shifted(Without(ts, p), p, -1))
        /\ Len(Shifted(Without(ts, p), p, -1)) = Len(ts) - 1
    <3>1. AllFits(ts, n, k, b) /\ p \in 1..Len(ts) /\ ts[p].isSearch
      BY <1>3, <1>4, <2>2, <2>3
    <3> QED
      BY <3>1, ClosedFits
  <2> QED
    BY <1>4, <2>1, <2>3, <2>4
<1>6. LinesFit(tabs, lines) /\ (logCtx # 0 => ErrorsFit(tabs))
  BY DEF IInv, TabInv, TabsFit, AllFits
<1>7. /\ AllFits(tabs', Len(nodePorts), searches, lines)
      /\ logCtx # 0 => ErrorsFit(tabs')
      /\ Len(tabs') = Len(tabs) - 1
  BY <1>2, <1>5, <1>6
<1>8. \A b \in Nat : LinesFit(tabs, b) => LinesFit(tabs', b)
  BY <1>5 DEF AllFits
<1>9. activeTab' \in Nat
  <2>1. Len(tabs) \in Nat /\ Len(tabs') >= 1
    BY <1>2, <1>7, LenProperties DEF AllFits, IdsFit
  <2> QED
    BY <1>4, <1>7, <2>1
<1> QED
  BY <1>1, <1>2, <1>7, <1>8, <1>9, KeyTabs

\* A search ends, with a search tab behind its source or without.
LEMMA SearchInputTabs ==
    ASSUME IInv, InRange, updateSearchInput
    PROVE  TabInv'
<1>1. mode = "searchInput" /\ mode' = "normal" /\ UNCHANGED KeyVars
  BY DEF updateSearchInput
<1>2. /\ activeTab \in Nat /\ activeTab < Len(tabs) /\ tabs \in Seq(Tab)
      /\ searches \in Nat /\ lines \in Nat /\ nodePorts \in Seq(Nat)
      /\ logCtx # 0 => activeTab # 0 /\ ErrorsFit(tabs)
  BY <1>1 DEF IInv, CInv, ClusterTypeOK, TabInv, TypesFit, FocusFits, TabsFit, AllFits,
     InRange, TabInRange
<1>3. CASE UNCHANGED <<tabs, activeTab, searches>>
  BY <1>1, <1>2, <1>3, FocusKeyTabs
<1>4. CASE searches' = searches + 1 /\ \E query \in {"e", "error"} : openSearchTab(activeTab, query)
  <2>1. PICK query \in {"e", "error"} : openSearchTab(activeTab, query)
    BY <1>4
  <2>2. PICK at \in 1..Len(tabs) : at = activeTab + 1
    BY <1>2, LenProperties
  <2>3. activeTab' = at /\ tabs' = Opened(tabs, at, searches, query)
    <3>1. at - 1 = activeTab
      BY <1>2, <2>2
    <3> QED
      BY <2>1, <2>2, <3>1 DEF openSearchTab, Opened, SearchTab
  <2>4. ASSUME NEW b \in Nat, LinesFit(tabs, b)
        PROVE  /\ AllFits(tabs', Len(nodePorts), searches + 1, b)
               /\ ErrorsFit(tabs) /\ at > 1 => ErrorsFit(tabs')
    <3>1. PICK n \in Nat, k \in Nat : n = Len(nodePorts) /\ k = searches
      BY <1>2, LenProperties
    <3>2. AllFits(tabs, n, k, b)
      BY <2>4, <3>1 DEF IInv, TabInv, TabsFit, AllFits
    <3>3. PICK ts : ts = tabs
      OBVIOUS
    <3>4. AllFits(ts, n, k, b) /\ at \in 1..Len(ts)
      BY <2>2, <3>2, <3>3
    <3>5. /\ AllFits(Opened(ts, at, k, query), n, k + 1, b)
          /\ ErrorsFit(ts) /\ at > 1 => ErrorsFit(Opened(ts, at, k, query))
      BY <3>4, OpenedFits
    <3> QED
      BY <2>3, <3>1, <3>3, <3>5
  <2>5. LinesFit(tabs, lines)
    BY DEF IInv, TabInv, TabsFit, AllFits
  <2>6. AllFits(tabs', Len(nodePorts), searches', lines)
    BY <1>2, <1>4, <2>4, <2>5
  <2>7. logCtx # 0 => ErrorsFit(tabs')
    <3>1. activeTab # 0 => at > 1
      BY <1>2, <2>2
    <3> QED
      BY <1>2, <2>4, <2>5, <3>1
  <2>8. \A b \in Nat : LinesFit(tabs, b) => LinesFit(tabs', b)
    BY <2>4 DEF AllFits
  <2>9. activeTab' \in Nat /\ searches' \in Nat
    BY <1>2, <1>4, <2>2, <2>3
  <2> QED
    BY <1>1, <2>6, <2>7, <2>8, <2>9, KeyTabs
<1> QED
  BY <1>3, <1>4 DEF updateSearchInput

\* A command is given at the console, while no search is going on.
LEMMA GivenTabs ==
    ASSUME IInv, Given
    PROVE  TabInv'
<1>1. PICK kind \in {"start", "stop", "reset", "kill", "add"}, n \in Nat : Give(kind, n)
  BY GivenAs DEF IInv, CInv
<1>2. /\ UNCHANGED <<tabs, activeTab, nodePorts, logCtx>>
      /\ UNCHANGED <<channel, waiters, lineMsgs, lines, searches>>
      /\ mode = "normal" /\ mode' = mode
  BY <1>1 DEF Give, modelVars, logVars
<1>3. FocusFits'
  BY <1>2 DEF FocusFits
<1>4. PICK d : d.stage = "run" /\ commands' = commands \cup {d}
  BY <1>1, GivenCommand DEF IInv, CInv
<1>5. \A e \in commands' : e.kind = "start" /\ e.stage = "done" => lineMsgs = {}
  BY <1>4 DEF IInv, TabInv, ReadersFit
<1> QED
  BY <1>2, <1>3, <1>5, SameTabs DEF IInv

-----------------------------------------------------------------------------
(* Log lines *)

\* Tabs whose lines are below b are below what comes after b.
LEMMA LinesMore ==
    ASSUME NEW ts \in Seq(Tab), NEW b \in Nat, NEW c \in Nat, b <= c, LinesFit(ts, b)
    PROVE  LinesFit(ts, c)
<1> SUFFICES ASSUME NEW i \in 1..Len(ts)
             PROVE  Rising(ts[i].lines) /\ Below(ts[i].lines, c)
  BY DEF LinesFit
<1>1. ts[i] \in Tab
  BY ElementOfSeq
<1>2. ts[i].lines \in Seq(Line)
  BY <1>1 DEF Tab
<1>3. Rising(ts[i].lines) /\ Below(ts[i].lines, b)
  BY DEF LinesFit
<1> QED
  BY <1>2, <1>3, BelowMore

\* A line a container logs is the last one of the channel.
LEMMA StreamTabs ==
    ASSUME IInv, NEW s \in streams, streamContainerLogs(s)
    PROVE  TabInv'
<1>1. /\ UNCHANGED <<tabs, activeTab, mode, nodePorts, logCtx, commands>>
      /\ UNCHANGED <<waiters, lineMsgs, searches>>
      /\ lines' = lines + 1
  BY DEF streamContainerLogs, modelVars, countVars
<1>2. /\ logCtx \in Context /\ lines \in Nat /\ tabs \in Seq(Tab) /\ nodePorts \in Seq(Nat)
      /\ channel[logCtx] \in Seq(Line) /\ channel \in [Context -> Seq(Line)]
      /\ \A l \in lineMsgs : l \in Line /\ l.no \in Nat
  BY DEF IInv, CInv, ClusterTypeOK, TabInv, TypesFit, TabsFit, AllFits, Line
<1>3. s.ctx = logCtx /\ s.node \in 1..Len(nodePorts)
  BY DEF IInv, CInv, FollowFits
<1>4. logCtx # 0
  <2>1. nodePorts # <<>>
    BY <1>3
  <2> QED
    BY <2>1 DEF IInv, CInv, NodesFit
<1>5. PICK e \in BOOLEAN :
         channel' = [channel EXCEPT ![s.ctx] =
                        Append(@, [no |-> lines, node |-> s.node, error |-> e])]
  BY DEF streamContainerLogs
<1>6. PICK l \in Line : l = [no |-> lines, node |-> s.node, error |-> e] /\ l.no = lines
  <2>1. s.node \in Nat \ {0}
    BY <1>2, <1>3, LenProperties
  <2>2. PICK node \in Nat \ {0} : node = s.node
    BY <2>1
  <2>3. PICK b \in Nat : b = lines
    BY <1>2
  <2>4. [no |-> b, node |-> node, error |-> e] \in Line
    BY DEF Line
  <2> QED
    BY <2>2, <2>3, <2>4
<1>7. PICK ch \in Seq(Line) : ch = channel[logCtx]
  BY <1>2
<1>8. PICK m \in Nat : m = Len(ch)
  BY LenProperties
<1>9. PICK dh : dh = Append(ch, l)
  OBVIOUS
<1>10. /\ Len(dh) = m + 1 /\ dh[m + 1] = l /\ \A k \in 1..m : dh[k] = ch[k]
       /\ dh \in Seq(Line)
  BY <1>8, <1>9, AppendProperties
<1>11. /\ channel' \in [Context -> Seq(Line)] /\ channel'[logCtx] = dh
       /\ \A c \in Context : c # logCtx => channel'[c] = channel[c]
  BY <1>2, <1>3, <1>5, <1>6, <1>7, <1>9, <1>10
<1>12. Rising(dh) /\ Below(dh, lines + 1)
  <2>1. Rising(ch) /\ Below(ch, lines)
    BY <1>7 DEF IInv, TabInv, ReadersFit
  <2>2. l.no < lines + 1 /\ lines + 1 \in Nat
    BY <1>2, <1>6
  <2> QED
    BY <1>6, <1>9, <2>1, <2>2, AppendRises
<1>13. TypesFit'
  BY <1>1, <1>2, <1>11 DEF IInv, TabInv, TypesFit
<1>14. FocusFits'
  BY <1>1 DEF IInv, TabInv, FocusFits
<1>15. LinesFit(tabs, lines)
  BY DEF IInv, TabInv, TabsFit, AllFits
<1>16. TabsFit'
  <2>1. LinesFit(tabs, lines + 1)
    BY <1>2, <1>15, LinesMore
  <2> QED
    BY <1>1, <2>1 DEF IInv, TabInv, TabsFit, AllFits
<1>17. ReadersFit'
  <2>1. \A k \in 1..Len(dh) : LinesFit(tabs, dh[k].no)
    BY SMTT(30), <1>4, <1>6, <1>7, <1>8, <1>10, <1>15 DEF IInv, TabInv, ReadersFit
  <2>2. \A n \in lineMsgs : n.no < lines /\ n.no < lines + 1
    BY <1>2 DEF IInv, TabInv, ReadersFit
  <2>3. \A n \in lineMsgs :
           /\ LinesFit(tabs, n.no)
           /\ \A k \in 1..Len(dh) : n.no < dh[k].no
    BY SMTT(30), <1>4, <1>6, <1>7, <1>8, <1>10, <2>2 DEF IInv, TabInv, ReadersFit
  <2> QED
    BY <1>1, <1>4, <1>11, <1>12, <2>1, <2>2, <2>3 DEF IInv, TabInv, ReadersFit
<1> QED
  BY <1>13, <1>14, <1>16, <1>17 DEF TabInv

\* waitForLog takes the first line of the channel.
LEMMA WaitTabs ==
    ASSUME IInv, NEW c \in Context, waitForLog(c)
    PROVE  TabInv'
<1>1. /\ UNCHANGED <<tabs, activeTab, mode, nodePorts, logCtx, commands>>
      /\ UNCHANGED <<lines, searches>>
  BY DEF waitForLog, modelVars, countVars
<1>2. /\ waiters[c] > 0 /\ channel[c] # <<>>
      /\ waiters' = [waiters EXCEPT ![c] = waiters[c] - 1]
      /\ channel' = [channel EXCEPT ![c] = Tail(channel[c])]
      /\ lineMsgs' = lineMsgs \cup {Head(channel[c])}
  BY DEF waitForLog
<1>3. c = logCtx /\ c # 0 /\ waiters[c] = 1 /\ lineMsgs = {}
  BY <1>2 DEF IInv, TabInv, ReadersFit
<1>4. PICK ch \in Seq(Line) : ch = channel[c] /\ ch # <<>>
  BY <1>2 DEF IInv, TabInv, TypesFit
<1>5. PICK m \in Nat \ {0} : m = Len(ch)
  BY <1>4, LenProperties, EmptySeq
<1>6. PICK l \in Line : l = Head(ch) /\ l = ch[1]
  BY <1>4, <1>5, HeadTailProperties
<1>7. PICK dh \in Seq(Line) : /\ dh = Tail(ch) /\ Len(dh) = m - 1
                              /\ \A k \in 1..(m - 1) : dh[k] = ch[k + 1]
  <2>1. /\ Tail(ch) \in Seq(Line) /\ Len(Tail(ch)) = Len(ch) - 1
        /\ \A k \in 1..Len(Tail(ch)) : Tail(ch)[k] = ch[k + 1]
    BY <1>4, HeadTailProperties
  <2> QED
    BY <1>5, <2>1
<1>8. /\ lineMsgs' = {l}
      /\ channel' \in [Context -> Seq(Line)] /\ channel'[c] = dh
      /\ \A e \in Context : e # c => channel'[e] = channel[e]
      /\ waiters' \in [Context -> Nat] /\ waiters'[c] = 0
      /\ \A e \in Context : e # c => waiters'[e] = waiters[e]
  BY <1>2, <1>3, <1>4, <1>6, <1>7 DEF IInv, TabInv, TypesFit
<1>9. TypesFit'
  BY <1>1, <1>8 DEF IInv, TabInv, TypesFit
<1>10. FocusFits' /\ TabsFit'
  BY <1>1 DEF IInv, TabInv, FocusFits, TabsFit
<1>11. Rising(ch) /\ Below(ch, lines) /\ \A k \in 1..m : LinesFit(tabs, ch[k].no)
  BY <1>3, <1>4, <1>5 DEF IInv, TabInv, ReadersFit
<1>12. ReadersFit'
  <2>1. Rising(dh)
    <3> SUFFICES ASSUME NEW k \in 1..(m - 1), NEW j \in 1..(m - 1), k < j
                 PROVE  dh[k].no < dh[j].no
      BY <1>7 DEF Rising
    <3>1. k + 1 \in 1..m /\ j + 1 \in 1..m /\ k + 1 < j + 1
      BY <1>5
    <3> QED
      BY <1>5, <1>7, <1>11, <3>1 DEF Rising
  <2>2. Below(dh, lines)
    <3> SUFFICES ASSUME NEW k \in 1..(m - 1) PROVE dh[k].no < lines
      BY <1>7 DEF Below
    <3>1. k + 1 \in 1..m
      BY <1>5
    <3> QED
      BY <1>5, <1>7, <1>11, <3>1 DEF Below
  <2>3. l.no < lines /\ LinesFit(tabs, l.no)
    BY <1>5, <1>6, <1>11 DEF Below
  <2>4. \A k \in 1..Len(dh) : l.no < dh[k].no /\ LinesFit(tabs, dh[k].no)
    <3> SUFFICES ASSUME NEW k \in 1..(m - 1)
                 PROVE  l.no < dh[k].no /\ LinesFit(tabs, dh[k].no)
      BY <1>7
    <3>1. 1 \in 1..m /\ k + 1 \in 1..m /\ 1 < k + 1
      BY <1>5
    <3> QED
      BY <1>5, <1>6, <1>7, <1>11, <3>1 DEF Rising
  <2>5. \A e \in commands : ~(e.kind = "start" /\ e.stage = "done")
    BY <1>3 DEF IInv, CInv, NodesFit
  <2>6. \A e \in Context : e = 0 \/ e # logCtx => waiters'[e] = 0 /\ channel'[e] = <<>>
    BY <1>3, <1>8 DEF IInv, TabInv, ReadersFit
  <2>7. /\ \A n, o \in lineMsgs' : n = o
        /\ \A n \in lineMsgs' : n.no < lines
        /\ waiters'[logCtx] = 0 /\ channel'[logCtx] = dh
    BY <1>3, <1>8, <2>3
  <2>8. \A n \in lineMsgs' :
           LinesFit(tabs, n.no) /\ \A k \in 1..Len(dh) : n.no < dh[k].no
    BY <1>8, <2>3, <2>4
  <2> QED
    BY <1>1, <2>1, <2>2, <2>4, <2>5, <2>6, <2>7, <2>8 DEF ReadersFit
<1> QED
  BY <1>9, <1>10, <1>12 DEF TabInv

\* The tab of a node is a base tab behind the console, and Errors/Warnings.
LEMMA NodeTabBehind ==
    ASSUME NEW n \in Nat, NEW k \in Nat, NEW ts \in Seq(Tab), IdsFit(ts, n, k),
           NEW node \in Nat \ {0}
    PROVE  /\ nodeTabIndex(ts, node) \in Int
           /\ nodeTabIndex(ts, node) + 1 \in 1..Len(ts) =>
                 /\ nodeTabIndex(ts, node) + 1 > 1
                 /\ ErrorsFit(ts) => nodeTabIndex(ts, node) + 1 > 2
                 /\ ~ts[nodeTabIndex(ts, node) + 1].isSearch
<1>1. PICK m \in Nat : m = Len(ts) /\ DOMAIN ts = 1..m
  BY LenProperties
<1> DEFINE S == {i \in DOMAIN ts : ts[i].node = node}
<1>2. CASE S = {}
  <2>1. nodeTabIndex(ts, node) = -1
    BY <1>2 DEF nodeTabIndex
  <2> QED
    BY <1>1, <2>1
<1>3. CASE S # {}
  <2>1. S \subseteq Nat
    BY <1>1
  <2>2. PICK i \in S : \A j \in S : ~(<<j, i>> \in OpToRel(<, Nat))
    BY <1>3, <2>1, NatLessThanWellFounded, WFMin
  <2>3. \A j \in S : i <= j
    <3> SUFFICES ASSUME NEW j \in S, j < i PROVE FALSE
      BY <2>1
    <3>1. <<j, i>> \in OpToRel(<, Nat)
      BY <2>1 DEF OpToRel
    <3> QED
      BY <2>2, <3>1
  <2>4. PICK p : p = CHOOSE q \in S : \A j \in S : q <= j
    OBVIOUS
  <2>5. p \in S
    BY <2>3, <2>4
  <2>6. nodeTabIndex(ts, node) = p - 1
    BY <1>3, <2>4 DEF nodeTabIndex
  <2>7. p \in 1..m /\ ts[p].node = node
    BY <1>1, <2>5
  <2>8. ~ts[p].isSearch
    BY <1>1, <2>7 DEF IdsFit
  <2>9. p > 1 /\ (ErrorsFit(ts) => p > 2)
    <3>1. p # 1
      BY <2>7 DEF IdsFit
    <3>2. ErrorsFit(ts) => p # 2
      BY <2>7 DEF ErrorsFit
    <3> QED
      BY <2>7, <3>1, <3>2
  <2>10. p - 1 \in Int /\ (p - 1) + 1 = p
    BY <2>7
  <2> QED
    BY <2>6, <2>8, <2>9, <2>10
<1> QED
  BY <1>2, <1>3

\* A line is shown on the tab of its node, and if it is an error on
\* Errors/Warnings, and on the search tabs on them: on none twice.
LEMMA ShownFits ==
    ASSUME NEW n \in Nat, NEW k \in Nat, NEW ts, NEW l \in Line, NEW b \in Nat, l.no < b,
           AllFits(ts, n, k, l.no), AllFits(ts, n, k, b), ErrorsFit(ts)
    PROVE  LET shown == appendToTab(ts, nodeTabIndex(ts, l.node), l)
               both == appendToTab(shown, errorsTabIndex, l)
           IN  /\ AllFits(shown, n, k, b) /\ ErrorsFit(shown)
               /\ AllFits(both, n, k, b) /\ ErrorsFit(both)
<1>1. PICK idx \in Int :
         /\ idx = nodeTabIndex(ts, l.node)
         /\ idx + 1 \in 1..Len(ts) => idx + 1 > 2 /\ ~ts[idx + 1].isSearch
  <2>1. l.node \in Nat \ {0}
    BY DEF Line
  <2> QED
    BY <2>1, NodeTabBehind DEF AllFits
<1>2. PICK m \in Nat : m = Len(ts) /\ m >= 2
  BY LenProperties DEF AllFits, ErrorsFit
<1>3. \A i \in 1..m : Below(ts[i].lines, l.no)
  BY <1>2 DEF AllFits, LinesFit
<1>4. PICK us : us = appendToTab(ts, idx, l)
  OBVIOUS
<1>5. AllFits(us, n, k, b)
  BY <1>1, <1>2, <1>3, <1>4, AppendedFits
<1>6. /\ us \in Seq(Tab) /\ Len(us) = m
      /\ \A i \in 1..m :
            /\ us[i].isSearch = ts[i].isSearch /\ us[i].node = ts[i].node
            /\ us[i].sourceTab = ts[i].sourceTab
            /\ us[i].query = ts[i].query
            /\ us[i].lines = IF Gets(ts, i, idx, l)
                             THEN Append(ts[i].lines, l) ELSE ts[i].lines
  <2>1. ts \in Seq(Tab)
    BY DEF AllFits
  <2> QED
    BY <1>1, <1>2, <1>4, <2>1, AppendedTabs
<1>7. 1 \in Int /\ 2 \in 1..m /\ 1 + 1 = 2
  BY <1>2
<1>8. ~us[2].isSearch /\ ~ts[2].isSearch
  BY <1>6, <1>7 DEF ErrorsFit
<1>9. ASSUME NEW i \in 1..m, Gets(us, i, 1, l)
      PROVE  Below(us[i].lines, l.no)
  <2>1. ~Gets(ts, i, idx, l)
    <3>1. CASE i = 2
      <4>1. i # idx + 1
        BY <1>1, <1>2, <3>1
      <4> QED
        BY <1>8, <3>1, <4>1 DEF Gets
    <3>2. CASE i # 2
      <4>1. us[i].isSearch /\ us[i].sourceTab = 1
        BY <1>9, <3>2 DEF Gets
      <4>2. ts[i].isSearch /\ ts[i].sourceTab = 1
        BY <1>6, <4>1
      <4>3. i # idx + 1
        BY <1>1, <1>2, <4>2
      <4>4. idx # 1
        BY <1>1, <1>2
      <4> QED
        BY <4>2, <4>3, <4>4 DEF Gets
    <3> QED
      BY <3>1, <3>2
  <2>2. us[i].lines = ts[i].lines
    BY <1>6, <2>1
  <2> QED
    BY <1>3, <2>2
<1>10. AllFits(appendToTab(us, 1, l), n, k, b)
  <2>1. 1 + 1 \in 1..Len(us) => ~us[1 + 1].isSearch
    BY <1>7, <1>8
  <2>2. \A i \in 1..Len(us) : Gets(us, i, 1, l) => Below(us[i].lines, l.no)
    BY <1>6, <1>9
  <2> QED
    BY <1>5, <1>7, <2>1, <2>2, AppendedFits
<1>11. ErrorsFit(us)
  BY <1>2, <1>6, <1>7 DEF ErrorsFit
<1>12. ErrorsFit(appendToTab(us, 1, l))
  <2>1. 1 + 1 \in 1..Len(us) => ~us[1 + 1].isSearch
    BY <1>7, <1>8
  <2>2. PICK vs : vs = appendToTab(us, 1, l)
    OBVIOUS
  <2>3. /\ Len(vs) = m
        /\ \A i \in 1..m : vs[i].isSearch = us[i].isSearch /\ vs[i].node = us[i].node
    BY <1>6, <1>7, <2>1, <2>2, AppendedTabs
  <2>4. ErrorsFit(vs)
    BY <1>2, <1>6, <1>7, <1>11, <2>3 DEF ErrorsFit
  <2> QED
    BY <2>2, <2>4
<1> QED
  BY <1>1, <1>4, <1>5, <1>10, <1>11, <1>12 DEF errorsTabIndex

\* The tabs after a line was shown.
AfterLine(ts, l) ==
    LET shown == appendToTab(ts, nodeTabIndex(ts, l.node), l)
    IN  IF l.error THEN appendToTab(shown, errorsTabIndex, l) ELSE shown

\* A line shown keeps what is about tabs, when it comes before b and after
\* the lines shown.
LEMMA AfterLineFits ==
    ASSUME NEW n \in Nat, NEW k \in Nat, NEW ts, NEW l \in Line, NEW b \in Nat, l.no < b,
           AllFits(ts, n, k, b), LinesFit(ts, l.no), ErrorsFit(ts)
    PROVE  AllFits(AfterLine(ts, l), n, k, b) /\ ErrorsFit(AfterLine(ts, l))
<1>1. AllFits(ts, n, k, l.no)
  BY DEF AllFits
<1>2. PICK us : us = appendToTab(ts, nodeTabIndex(ts, l.node), l)
  OBVIOUS
<1>3. PICK vs : vs = appendToTab(us, errorsTabIndex, l)
  OBVIOUS
<1>4. /\ AllFits(us, n, k, b) /\ ErrorsFit(us)
      /\ AllFits(vs, n, k, b) /\ ErrorsFit(vs)
  BY <1>1, <1>2, <1>3, ShownFits
<1>5. AfterLine(ts, l) = IF l.error THEN vs ELSE us
  BY <1>2, <1>3 DEF AfterLine
<1>6. CASE l.error
  BY <1>4, <1>5, <1>6
<1>7. CASE ~l.error
  BY <1>4, <1>5, <1>7
<1> QED
  BY <1>6, <1>7

\* The line under way is shown, and the next one may be read.
LEMMA LineTabs ==
    ASSUME IInv, NEW l \in lineMsgs, logLineMsg(l)
    PROVE  TabInv'
<1>1. /\ UNCHANGED <<activeTab, mode, nodePorts, logCtx, commands>>
      /\ UNCHANGED <<channel, lines, searches>>
      /\ lineMsgs' = lineMsgs \ {l}
  BY DEF logLineMsg, countVars
<1>2. /\ logCtx \in Context /\ lines \in Nat /\ searches \in Nat /\ tabs \in Seq(Tab)
      /\ l \in Line /\ l.no \in Nat /\ Len(nodePorts) \in Nat
      /\ channel \in [Context -> Seq(Line)] /\ channel[logCtx] \in Seq(Line)
      /\ waiters \in [Context -> Nat] /\ waiters[logCtx] \in Nat
  BY LenProperties DEF IInv, CInv, ClusterTypeOK, TabInv, TypesFit, TabsFit, AllFits, Line
<1>3. lineMsgs' = {}
  BY <1>1 DEF IInv, TabInv, ReadersFit
<1>4. CASE logCtx = 0
  <2>1. tabs' = tabs /\ waiters' = waiters
    BY <1>4 DEF logLineMsg
  <2>2. TypesFit' /\ FocusFits' /\ TabsFit'
    BY <1>1, <1>3, <2>1 DEF IInv, TabInv, TypesFit, FocusFits, TabsFit
  <2>3. ReadersFit'
    BY <1>1, <1>3, <1>4, <2>1 DEF IInv, TabInv, ReadersFit
  <2> QED
    BY <2>2, <2>3 DEF TabInv
<1>5. CASE logCtx # 0
  <2>1. /\ tabs' = AfterLine(tabs, l)
        /\ waiters' = [waiters EXCEPT ![logCtx] = waiters[logCtx] + 1]
    BY <1>5 DEF logLineMsg, AfterLine
  <2>2. waiters[logCtx] = 0
    BY <1>2 DEF IInv, TabInv, ReadersFit
  <2>3. /\ waiters' \in [Context -> Nat] /\ waiters'[logCtx] = 1
        /\ \A c \in Context : c # logCtx => waiters'[c] = waiters[c]
    BY <1>2, <2>1, <2>2
  <2>4. PICK ch \in Seq(Line) : ch = channel[logCtx]
    BY <1>2
  <2>5. PICK us : us = AfterLine(tabs, l)
    OBVIOUS
  <2>6. /\ LinesFit(tabs, l.no) /\ l.no < lines
        /\ \A k \in 1..Len(ch) : l.no < ch[k].no /\ LinesFit(tabs, ch[k].no)
    BY <1>5, <2>4 DEF IInv, TabInv, ReadersFit
  <2>7. PICK n \in Nat : n = Len(nodePorts)
    BY <1>2
  <2>8. AllFits(tabs, n, searches, lines) /\ ErrorsFit(tabs)
    BY <1>5, <2>7 DEF IInv, TabInv, TabsFit
  <2>9. AllFits(us, n, searches, lines) /\ ErrorsFit(us)
    BY <1>2, <2>5, <2>6, <2>8, AfterLineFits
  <2>10. ASSUME NEW k \in 1..Len(ch) PROVE LinesFit(us, ch[k].no)
    <3>1. ch[k] \in Line
      BY ElementOfSeq
    <3>2. ch[k].no \in Nat
      BY <3>1 DEF Line
    <3>3. AllFits(tabs, n, searches, ch[k].no)
      BY <2>6, <2>8 DEF AllFits
    <3>4. AllFits(us, n, searches, ch[k].no)
      BY <1>2, <2>5, <2>6, <2>8, <3>2, <3>3, AfterLineFits
    <3> QED
      BY <3>4 DEF AllFits
  <2>11. TypesFit'
    BY <1>1, <1>3, <2>3 DEF IInv, TabInv, TypesFit
  <2>12. FocusFits'
    BY <1>1 DEF IInv, TabInv, FocusFits
  <2>13. TabsFit'
    BY <1>1, <2>1, <2>5, <2>7, <2>9 DEF TabsFit
  <2>14. ReadersFit'
    <3>1. \A c \in Context : c = 0 \/ c # logCtx => waiters'[c] = 0 /\ channel[c] = <<>>
      BY <1>5, <2>3 DEF IInv, TabInv, ReadersFit
    <3>2. Rising(ch) /\ Below(ch, lines)
      BY <2>4 DEF IInv, TabInv, ReadersFit
    <3> QED
      BY <1>1, <1>3, <2>1, <2>3, <2>4, <2>5, <2>10, <3>1, <3>2 DEF ReadersFit
  <2> QED
    BY <2>11, <2>12, <2>13, <2>14 DEF TabInv
<1> QED
  BY <1>4, <1>5

-----------------------------------------------------------------------------
(* The invariant *)

\* navi-cli starts with the console and Errors/Warnings, and nothing else.
LEMMA InitFits == Init => IInv
<1> SUFFICES ASSUME Init PROVE IInv
  OBVIOUS
<1>1. /\ tabs = FreshTabs(0) /\ activeTab = 0 /\ mode = "normal"
      /\ nodePorts = <<>> /\ logCtx = 0 /\ commands = {}
      /\ channel = [c \in Context |-> <<>>]
      /\ waiters = [c \in Context |-> 0] /\ lineMsgs = {}
      /\ searches = 0 /\ lines = 0
  BY DEF Init
<1>2. 0 \in Context
  BY CliAssumption DEF Context
<1>3. Len(nodePorts) = 0
  BY <1>1
<1>4. AllFits(FreshTabs(0), 0, 0, 0)
  BY FreshFits
<1>5. <<>> \in Seq(Line) /\ Rising(<<>>) /\ Below(<<>>, 0) /\ Len(<<>>) = 0
  BY EmptyRises, EmptySeq
<1>6. TypesFit
  BY <1>1, <1>5 DEF TypesFit
<1>7. FocusFits
  BY <1>1 DEF FocusFits
<1>8. TabsFit
  BY <1>1, <1>3, <1>4 DEF TabsFit
<1>9. ReadersFit
  <2>1. \A c \in Context : waiters[c] = 0 /\ channel[c] = <<>>
    BY <1>1
  <2>2. waiters[logCtx] = 0 /\ channel[logCtx] = <<>>
    BY <1>1, <1>2, <2>1
  <2> QED
    BY <1>1, <1>5, <2>1, <2>2 DEF ReadersFit
<1> QED
  BY <1>6, <1>7, <1>8, <1>9, ClusterInit DEF IInv, TabInv

\* A step of docker's alone, and one in which nothing happens, keep the tabs.
LEMMA StillTabs ==
    ASSUME IInv, UNCHANGED <<tabs, activeTab, nodePorts, logCtx, commands>>,
           UNCHANGED <<mode, channel, waiters, lineMsgs, lines, searches>>
    PROVE  TabInv'
<1>1. FocusFits'
  BY DEF IInv, TabInv, FocusFits
<1>2. /\ mode' \in {"normal", "searchInput", "killSelect"}
      /\ \A e \in commands' : e.kind = "start" /\ e.stage = "done" => lineMsgs = {}
  BY DEF IInv, TabInv, TypesFit, ReadersFit
<1>3. TabInv
  BY DEF IInv
<1>4. /\ UNCHANGED <<tabs, activeTab, nodePorts, logCtx>>
      /\ UNCHANGED <<channel, waiters, lineMsgs, lines, searches>>
  OBVIOUS
<1> QED
  BY <1>1, <1>2, <1>3, <1>4, SameTabs

\* Keys keep the tabs, cluster commands typed included.
LEMMA AllKeysTabs ==
    ASSUME IInv, InRange, Key
    PROVE  TabInv'
<1>1. CASE SwitchTab \/ StartSearchInput \/ updateKillSelect
  BY <1>1, FocusKeysTabs
<1>2. CASE CloseSearch
  BY <1>2, CloseSearchTabs
<1>3. CASE updateSearchInput
  BY <1>3, SearchInputTabs
<1>4. CASE Given
  BY <1>4, GivenTabs
<1> QED
  BY <1>1, <1>2, <1>3, <1>4 DEF Key, Given

\* Every step keeps the invariant, when users wait for cluster commands and no
\* line outlives its cluster.
LEMMA NextFits ==
    ASSUME Hasty \subseteq {"leave"}
    PROVE  IInv /\ [Next]_vars => IInv'
<1> SUFFICES ASSUME IInv, [Next]_vars PROVE IInv'
  OBVIOUS
<1>1. CInv'
  BY ClusterStep DEF IInv
<1>2. ASSUME UNCHANGED vars PROVE TabInv'
  <2>1. /\ UNCHANGED <<tabs, activeTab, nodePorts, logCtx, commands>>
        /\ UNCHANGED <<mode, channel, waiters, lineMsgs, lines, searches>>
    BY <1>2 DEF vars, modelVars, logVars, countVars
  <2> QED
    BY <2>1, StillTabs
<1>3. ASSUME NEW s \in streams, StreamEnds(s) PROVE TabInv'
  <2>1. /\ UNCHANGED <<tabs, activeTab, nodePorts, logCtx, commands>>
        /\ UNCHANGED <<mode, channel, waiters, lineMsgs, lines, searches>>
    BY <1>3 DEF StreamEnds, modelVars, countVars
  <2> QED
    BY <2>1, StillTabs
<1>4. ASSUME InRange, Key PROVE TabInv'
  BY <1>4, AllKeysTabs
<1>5. ASSUME NEW c \in commands, Goroutine(c) \/ Message(c) PROVE TabInv'
  <2>1. CASE Goroutine(c)
    BY <2>1, GoroutineTabs
  <2>2. CASE Message(c)
    BY <2>2, MessageTabs
  <2> QED
    BY <1>5, <2>1, <2>2
<1>6. ASSUME NEW s \in streams, streamContainerLogs(s) PROVE TabInv'
  BY <1>6, StreamTabs
<1>7. ASSUME NEW c \in Context, waitForLog(c) PROVE TabInv'
  BY <1>7, WaitTabs
<1>8. ASSUME NEW l \in lineMsgs, logLineMsg(l) PROVE TabInv'
  BY <1>8, LineTabs
<1>9. TabInv'
  BY <1>2, <1>3, <1>4, <1>5, <1>6, <1>7, <1>8 DEF Next
<1> QED
  BY <1>1, <1>9 DEF IInv

-----------------------------------------------------------------------------
(* The theorems *)

\* openSearchTab and closeSearchTab renumber sourceTab as they move the tabs:
\* a search tab keeps naming the tab it was opened on.
THEOREM SourceStaysCorrect ==
    ASSUME Hasty \subseteq {"leave"}
    PROVE  Spec => []SourceStays
<1>1. IInv => SourceStays
  <2> SUFFICES ASSUME IInv, NEW i \in SearchTabs, tabs[i].origin \in Ids
               PROVE  tabs[tabs[i].sourceTab + 1].id = tabs[i].origin
    BY DEF SourceStays
  <2>1. SourcesFit(tabs) /\ tabs \in Seq(Tab)
    BY DEF IInv, TabInv, TabsFit, AllFits
  <2>2. DOMAIN tabs = 1..Len(tabs)
    BY <2>1, LenProperties
  <2>3. PICK j \in DOMAIN tabs : tabs[i].origin = tabs[j].id
    BY DEF Ids
  <2>4. tabs[i].sourceTab + 1 = j
    BY <2>1, <2>2, <2>3 DEF SourcesFit, SearchTabs
  <2> QED
    BY <2>3, <2>4
<1> QED
  BY <1>1, InitFits, NextFits, PTL DEF Spec

\* propagateToSearchTabs and openSearchTab together: a search tab on a base
\* tab has that tab's matching lines, whenever it was opened.
THEOREM SearchTabsTailCorrect ==
    ASSUME Hasty \subseteq {"leave"}
    PROVE  Spec => []SearchTabsTail
<1>1. IInv => SearchTabsTail
  <2> SUFFICES ASSUME IInv PROVE SearchTabsTail
    OBVIOUS
  <2>1. TailsFit(tabs) /\ tabs \in Seq(Tab)
    BY DEF IInv, TabInv, TabsFit, AllFits
  <2>2. DOMAIN tabs = 1..Len(tabs)
    BY <2>1, LenProperties
  <2> QED
    BY <2>1, <2>2 DEF SearchTabsTail, SearchTabs, TailsFit
<1> QED
  BY <1>1, InitFits, NextFits, PTL DEF Spec

\* waitForLog is given again only when its line was handled: every tab shows
\* lines in the order in which they were read.
THEOREM LinesInOrderCorrect ==
    ASSUME Hasty \subseteq {"leave"}
    PROVE  Spec => []LinesInOrder
<1>1. IInv => LinesInOrder
  <2> SUFFICES ASSUME IInv, NEW i \in DOMAIN tabs,
                      NEW k \in DOMAIN tabs[i].lines, NEW m \in DOMAIN tabs[i].lines, k < m
               PROVE  tabs[i].lines[k].no < tabs[i].lines[m].no
    BY DEF LinesInOrder
  <2>1. LinesFit(tabs, lines) /\ tabs \in Seq(Tab)
    BY DEF IInv, TabInv, TabsFit, AllFits
  <2>2. i \in 1..Len(tabs) /\ tabs[i] \in Tab
    BY <2>1, LenProperties, ElementOfSeq
  <2>3. tabs[i].lines \in Seq(Line) /\ Rising(tabs[i].lines)
    BY <2>1, <2>2 DEF LinesFit, Tab
  <2>4. DOMAIN tabs[i].lines = 1..Len(tabs[i].lines)
    BY <2>3, LenProperties
  <2> QED
    BY <2>3, <2>4 DEF Rising
<1> QED
  BY <1>1, InitFits, NextFits, PTL DEF Spec

-----------------------------------------------------------------------------
(* Focus *)

\* Every tab of ts is among us, wherever.
Kept(ts, us) == \A i \in 1..Len(ts) : \E j \in 1..Len(us) : us[j].id = ts[i].id

\* Opening a search tab closes none.
LEMMA OpenedKeeps ==
    ASSUME NEW ts \in Seq(Tab), NEW at \in 1..Len(ts), NEW k \in Nat,
           NEW query \in {"e", "error"}, SearchTab(ts, at, k, query) \in Tab
    PROVE  Kept(ts, Opened(ts, at, k, query))
<1>1. PICK m \in Nat : m = Len(ts)
  BY LenProperties
<1>2. at \in Nat /\ at \in 1..m /\ 1 \in Int /\ (1 = 1 \/ (1 = -1 /\ at > 0))
  BY <1>1
<1>3. PICK old \in Seq(Tab) : old = Shifted(ts, at, 1)
  BY <1>2, ShiftedSame
<1>4. Len(old) = m /\ \A i \in 1..m : SameTab(old[i], ts[i])
  BY <1>1, <1>2, <1>3, ShiftedSame
<1>5. /\ 1 \in Nat \ {0} /\ at \in 0..Len(old) /\ 1 <= at + 1
      /\ at + 1 \in Nat \ {0} /\ m \in 0..Len(old) /\ at + 1 <= m + 1
  BY <1>1, <1>4
<1>6. PICK a \in Seq(Tab) : a = SubSeq(old, 1, at)
  BY <1>5, PartOfTabs
<1>7. PICK c \in Seq(Tab) : c = SubSeq(old, at + 1, m)
  BY <1>5, PartOfTabs
<1>8. Len(a) = at /\ \A i \in 1..at : a[i] = old[i]
  <2>1. Len(a) = at - 1 + 1 /\ \A i \in 1..(at - 1 + 1) : a[i] = old[1 + i - 1]
    BY <1>5, <1>6, PartOfTabs
  <2> QED
    BY <1>1, <2>1
<1>9. Len(c) = m - at /\ \A i \in 1..(m - at) : c[i] = old[at + i]
  <2>1. /\ Len(c) = m - (at + 1) + 1
        /\ \A i \in 1..(m - (at + 1) + 1) : c[i] = old[(at + 1) + i - 1]
    BY <1>5, <1>7, PartOfTabs
  <2> QED
    BY <1>1, <2>1
<1>10. PICK e \in Seq(Tab) : e = <<SearchTab(ts, at, k, query)>> /\ Len(e) = 1
  <2>1. PICK t \in Tab : t = SearchTab(ts, at, k, query)
    OBVIOUS
  <2>2. <<t>> \in Seq(Tab) /\ Len(<<t>>) = 1
    OBVIOUS
  <2> QED
    BY <2>1, <2>2
<1>11. PICK d \in Seq(Tab) : d = a \o e
  BY PartsJoined
<1>12. Len(d) = at + 1 /\ \A i \in 1..at : d[i] = a[i]
  <2>1. Len(d) = Len(a) + Len(e) /\ \A i \in 1..Len(a) : d[i] = a[i]
    BY <1>11, PartsJoined
  <2> QED
    BY <1>8, <1>10, <2>1
<1>13. PICK us \in Seq(Tab) : us = d \o c
  BY PartsJoined
<1>14. /\ Len(us) = m + 1
       /\ \A i \in 1..(at + 1) : us[i] = d[i]
       /\ \A i \in 1..(m - at) : us[at + 1 + i] = c[i]
  <2>1. /\ Len(us) = Len(d) + Len(c)
        /\ \A i \in 1..Len(d) : us[i] = d[i]
        /\ \A i \in 1..Len(c) : us[Len(d) + i] = c[i]
    BY <1>13, PartsJoined
  <2> QED
    BY <1>1, <1>9, <1>12, <2>1
<1>15. ASSUME NEW i \in 1..m PROVE \E j \in 1..(m + 1) : us[j].id = ts[i].id
  <2>1. old[i].id = ts[i].id
    BY <1>4 DEF SameTab
  <2>2. CASE i <= at
    <3>1. us[i] = old[i] /\ i \in 1..(m + 1)
      BY <1>1, <1>8, <1>12, <1>14, <2>2
    <3> QED
      BY <2>1, <3>1
  <2>3. CASE i > at
    <3>1. PICK j \in 1..(m - at) : i = at + j
      <4>1. i - at \in 1..(m - at) /\ i = at + (i - at)
        BY <1>1, <2>3
      <4> QED
        BY <4>1
    <3>2. us[at + 1 + j] = c[j] /\ c[j] = old[at + j]
      BY <1>9, <1>14
    <3>3. us[at + 1 + j] = old[i]
      BY <3>1, <3>2
    <3>4. at + 1 + j \in 1..(m + 1)
      BY <1>1
    <3> QED
      BY <2>1, <3>3, <3>4
  <2> QED
    BY <2>2, <2>3
<1>16. us = Opened(ts, at, k, query)
  BY <1>1, <1>3, <1>6, <1>7, <1>10, <1>11, <1>13 DEF Opened
<1> QED
  BY <1>1, <1>14, <1>15, <1>16 DEF Kept

\* A line shown closes no tab.
LEMMA LineKeeps ==
    ASSUME NEW n \in Nat, NEW k \in Nat, NEW b \in Nat, NEW ts, AllFits(ts, n, k, b),
           NEW l \in Line, ErrorsFit(ts)
    PROVE  Kept(ts, AfterLine(ts, l))
<1>1. ts \in Seq(Tab) /\ DOMAIN ts = 1..Len(ts)
  BY LenProperties DEF AllFits
<1>2. PICK m \in Nat : m = Len(ts) /\ DOMAIN ts = 1..m
  BY <1>1, LenProperties
<1>3. \A i \in 1..m : ts[i] \in Tab
  BY <1>1, <1>2, ElementOfSeq
<1>4. PICK us : us = appendToTab(ts, nodeTabIndex(ts, l.node), l)
  OBVIOUS
<1>5. PICK vs : vs = appendToTab(us, errorsTabIndex, l)
  OBVIOUS
<1>6. PICK idx \in Int :
         /\ idx = nodeTabIndex(ts, l.node)
         /\ idx + 1 \in 1..Len(ts) => ~ts[idx + 1].isSearch
  <2>1. l.node \in Nat \ {0}
    BY DEF Line
  <2> QED
    BY <2>1, NodeTabBehind DEF AllFits
<1>7. us \in Seq(Tab) /\ Len(us) = m /\ \A i \in 1..m : us[i].id = ts[i].id /\ us[i].isSearch = ts[i].isSearch
  BY <1>1, <1>2, <1>4, <1>6, AppendedTabs
<1>8. 1 \in Int /\ (1 + 1 \in 1..Len(us) => ~us[1 + 1].isSearch)
  <2>1. 2 \in 1..m /\ 1 + 1 = 2
    BY <1>2 DEF ErrorsFit
  <2> QED
    BY <1>7, <2>1 DEF ErrorsFit
<1>9. Len(vs) = m /\ \A i \in 1..m : vs[i].id = us[i].id
  <2>1. vs = appendToTab(us, 1, l)
    BY <1>5 DEF errorsTabIndex
  <2> QED
    BY <1>7, <1>8, <2>1, AppendedTabs
<1>10. AfterLine(ts, l) = IF l.error THEN vs ELSE us
  BY <1>4, <1>5 DEF AfterLine
<1>11. CASE l.error
  <2>1. \A i \in 1..m : vs[i].id = ts[i].id
    BY <1>7, <1>9
  <2> QED
    BY <1>2, <1>9, <1>10, <1>11, <2>1 DEF Kept
<1>12. CASE ~l.error
  BY <1>2, <1>7, <1>10, <1>12 DEF Kept
<1> QED
  BY <1>11, <1>12

\* Where focus goes when the tab at p is closed.
BackTo(ts, p) ==
    LET source == ts[p].sourceTab
        back == IF source > p - 1 THEN source - 1 ELSE source
        left == Len(ts) - 1
    IN  IF back >= left THEN left - 1 ELSE back

\* us are the tabs but the one at p, and focus is on the tab it was opened on.
Refocused(ts, p, us) ==
    /\ \A i \in 1..Len(ts) : i # p => \E j \in 1..Len(us) : us[j].id = ts[i].id
    /\ (\E j \in 1..Len(us) : us[j].id = ts[p].origin) =>
           us[BackTo(ts, p) + 1].id = ts[p].origin

\* A search tab closed: no other tab is, and focus goes to the tab it was
\* opened on, if that is open.
LEMMA ClosedReturns ==
    ASSUME NEW n \in Nat, NEW k \in Nat, NEW b \in Nat, NEW ts, AllFits(ts, n, k, b),
           NEW p \in 1..Len(ts), ts[p].isSearch,
           NEW us, us = Shifted(Without(ts, p), p, -1)
    PROVE  Refocused(ts, p, us)
<1>1. PICK m \in Nat : m = Len(ts)
  BY LenProperties DEF AllFits
<1>2. p > 1 /\ m > 1 /\ p \in Nat
  <2>1. p # 1 /\ p \in 1..m
    BY <1>1 DEF AllFits, IdsFit
  <2> QED
    BY <1>1, <2>1
<1>3. PICK ws \in Seq(Tab) : ws = Without(ts, p)
  BY WithoutTab DEF AllFits
<1>4. Len(ws) = m - 1 /\ \A i \in 1..(m - 1) : ws[i] = ts[IF i < p THEN i ELSE i + 1]
  BY <1>1, <1>3, WithoutTab DEF AllFits
<1>5. Len(us) = m - 1 /\ \A i \in 1..(m - 1) : SameTab(us[i], ws[i])
  <2>1. -1 \in Int /\ (-1 = 1 \/ (-1 = -1 /\ p > 0))
    BY <1>2
  <2>2. PICK xs : xs = Shifted(ws, p, -1)
    OBVIOUS
  <2>3. Len(xs) = Len(ws) /\ \A i \in 1..Len(ws) : SameTab(xs[i], ws[i])
    BY <1>2, <2>1, <2>2, ShiftedSame
  <2>4. xs = us
    BY <1>3, <2>2
  <2> QED
    BY <1>4, <2>3, <2>4
<1>6. \A i \in 1..(m - 1) : us[i].id = ws[i].id
  BY <1>5 DEF SameTab
<1>7. \A i \in 1..(m - 1) : /\ i < p => us[i].id = ts[i].id
                            /\ i >= p => us[i].id = ts[i + 1].id
  <2> SUFFICES ASSUME NEW i \in 1..(m - 1)
               PROVE  /\ i < p => us[i].id = ts[i].id
                      /\ i >= p => us[i].id = ts[i + 1].id
    OBVIOUS
  <2>1. us[i].id = ws[i].id /\ ws[i] = ts[IF i < p THEN i ELSE i + 1]
    BY <1>4, <1>6
  <2>2. CASE i < p
    BY <2>1, <2>2
  <2>3. CASE ~(i < p)
    BY <1>2, <2>1, <2>3
  <2> QED
    BY <1>2, <2>2, <2>3
<1>8. ASSUME NEW i \in 1..m, i # p PROVE \E j \in 1..(m - 1) : us[j].id = ts[i].id
  <2>1. CASE i < p
    BY <1>1, <1>2, <1>7, <2>1
  <2>2. CASE i > p
    <3>1. i - 1 \in 1..(m - 1) /\ i - 1 >= p /\ (i - 1) + 1 = i
      BY <1>1, <1>2, <2>2
    <3> QED
      BY <1>7, <3>1
  <2> QED
    BY <1>2, <1>8, <2>1, <2>2
<1>9. ASSUME NEW j \in 1..(m - 1), us[j].id = ts[p].origin
      PROVE  us[BackTo(ts, p) + 1].id = ts[p].origin
  <2>1. PICK s \in Nat : s = ts[p].sourceTab
    <3>1. ts[p] \in Tab
      BY ElementOfSeq DEF AllFits
    <3> QED
      BY <3>1 DEF Tab
  <2>2. CASE j < p
    <3>1. ts[j].id = ts[p].origin /\ j \in 1..m
      BY <1>1, <1>7, <1>9, <2>2
    <3>2. s + 1 = j
      BY <1>1, <2>1, <3>1 DEF AllFits, SourcesFit
    <3>3. BackTo(ts, p) = s
      BY SMTT(30), <1>1, <1>2, <2>1, <2>2, <3>2 DEF BackTo
    <3> QED
      BY <1>9, <3>2, <3>3
  <2>3. CASE j >= p
    <3>1. ts[j + 1].id = ts[p].origin /\ j + 1 \in 1..m
      BY <1>1, <1>7, <1>9, <2>3
    <3>2. s + 1 = j + 1
      BY <1>1, <2>1, <3>1 DEF AllFits, SourcesFit
    <3>3. BackTo(ts, p) = s - 1
      BY SMTT(30), <1>1, <1>2, <2>1, <2>3, <3>2 DEF BackTo
    <3>4. s = j
      BY <2>1, <3>2
    <3> QED
      BY <1>9, <3>3, <3>4
  <2> QED
    BY <1>2, <2>2, <2>3
<1> QED
  BY <1>1, <1>5, <1>8, <1>9 DEF Refocused


\* Every other step closes no tab, unless it handles a command's message.
LEMMA OthersKeep ==
    ASSUME IInv, Next, ~CloseSearch, commands' = commands
    PROVE  Kept(tabs, tabs')
<1>1. /\ activeTab \in Nat /\ tabs \in Seq(Tab)
      /\ searches \in Nat /\ lines \in Nat /\ lineMsgs \subseteq Line
      /\ Len(nodePorts) \in Nat
  BY LenProperties DEF IInv, CInv, ClusterTypeOK, TabInv, TypesFit, TabsFit, AllFits
<1>2. CASE tabs' = tabs
  BY <1>2 DEF Kept
<1>3. CASE updateSearchInput
  <2>1. activeTab < Len(tabs)
    BY <1>3 DEF updateSearchInput, Next, InRange, TabInRange
  <2>2. CASE \E query \in {"e", "error"} : openSearchTab(activeTab, query)
    <3>1. PICK query \in {"e", "error"} : openSearchTab(activeTab, query)
      BY <2>2
    <3>2. PICK at \in 1..Len(tabs) : at = activeTab + 1
      BY <1>1, <2>1, LenProperties
    <3>3. tabs' = Opened(tabs, at, searches, query)
      <4>1. at - 1 = activeTab
        BY <1>1, <3>2
      <4> QED
        BY <3>1, <3>2, <4>1 DEF openSearchTab, Opened, SearchTab
    <3>4. PICK ts \in Seq(Tab), n \in Nat, k \in Nat, b \in Nat :
            ts = tabs /\ n = Len(nodePorts) /\ k = searches /\ b = lines
      BY <1>1
    <3>5. AllFits(ts, n, k, b) /\ at \in 1..Len(ts)
      BY <3>2, <3>4 DEF IInv, TabInv, TabsFit
    <3>6. SearchTab(ts, at, k, query) \in Tab
      BY <3>5, SearchTabFields
    <3>7. Kept(ts, Opened(ts, at, k, query))
      BY <3>5, <3>6, OpenedKeeps
    <3> QED
      BY <3>3, <3>4, <3>7
  <2> QED
    BY <1>2, <1>3, <2>2 DEF updateSearchInput
<1>4. ASSUME NEW l \in lineMsgs, logLineMsg(l) PROVE Kept(tabs, tabs')
  <2>1. tabs' = tabs \/ (logCtx # 0 /\ tabs' = AfterLine(tabs, l))
    <3>1. CASE logCtx = 0
      BY <1>4, <3>1 DEF logLineMsg
    <3>2. CASE logCtx # 0
      BY <1>4, <3>2 DEF logLineMsg, AfterLine
    <3> QED
      BY <3>1, <3>2
  <2>2. PICK ts \in Seq(Tab), n \in Nat, k \in Nat, b \in Nat :
          ts = tabs /\ n = Len(nodePorts) /\ k = searches /\ b = lines
    BY <1>1
  <2>3. AllFits(ts, n, k, b) /\ l \in Line /\ (logCtx # 0 => ErrorsFit(ts))
    BY <1>1, <2>2 DEF IInv, TabInv, TabsFit
  <2>4. logCtx # 0 => Kept(ts, AfterLine(ts, l))
    BY <2>3, LineKeeps
  <2> QED
    BY <1>2, <2>1, <2>2, <2>4
<1>5. CASE Key
  <2>1. CASE SwitchTab \/ StartSearchInput \/ updateKillSelect
    BY <1>2, <2>1 DEF SwitchTab, StartSearchInput, updateKillSelect
  <2>2. ASSUME NEW kind, NEW n, Give(kind, n) PROVE tabs' = tabs
    BY <2>2 DEF Give, modelVars
  <2>3. CASE \/ startNaviCommand \/ stopNaviCommand \/ resetNaviCommand
             \/ killNodeCommand \/ addNodeCommand
    BY <1>2, <2>2, <2>3 DEF startNaviCommand, stopNaviCommand, resetNaviCommand,
       killNodeCommand, addNodeCommand
  <2> QED
    BY <1>3, <1>5, <2>1, <2>3 DEF Key
<1>6. ASSUME NEW c \in commands, Goroutine(c) PROVE Kept(tabs, tabs')
  BY <1>2, <1>6 DEF Goroutine, RunStart, RunStop, RunKill, RunAddNode, RunAddServer, modelVars
<1>7. ASSUME NEW c \in commands, Message(c) PROVE FALSE
  <2>1. commands' = commands \ {c}
    BY <1>7 DEF Message, MessageFailed, killNodesLoadedMsg, nodeAddedMsg,
       clusterStartedMsg, clusterStoppedMsg, Done
  <2> QED
    BY <2>1
<1>8. ASSUME NEW s \in streams, streamContainerLogs(s) \/ StreamEnds(s)
      PROVE  Kept(tabs, tabs')
  BY <1>2, <1>8 DEF streamContainerLogs, StreamEnds, modelVars
<1>9. ASSUME NEW c \in Context, waitForLog(c) PROVE Kept(tabs, tabs')
  BY <1>2, <1>9 DEF waitForLog, modelVars
<1> QED
  BY <1>4, <1>5, <1>6, <1>7, <1>8, <1>9 DEF Next

\* closeSearchTab returns focus to the tab the closed one was opened on,
\* wherever that has moved to, and no other step closes a search tab by itself.
THEOREM FocusReturnsCorrect ==
    ASSUME Hasty \subseteq {"leave"}
    PROVE  Spec => FocusReturns
<1> DEFINE Returns ==
             \A i \in SearchTabs :
                 /\ tabs[i].id \notin {tabs'[j].id : j \in DOMAIN tabs'}
                 /\ tabs[i].origin \in {tabs'[j].id : j \in DOMAIN tabs'}
                 /\ commands' = commands
                 => tabs'[activeTab' + 1].id = tabs[i].origin
<1>1. ASSUME IInv, Next PROVE Returns
  <2> SUFFICES ASSUME NEW i \in SearchTabs,
                      tabs[i].id \notin {tabs'[j].id : j \in DOMAIN tabs'},
                      tabs[i].origin \in {tabs'[j].id : j \in DOMAIN tabs'},
                      commands' = commands
               PROVE  tabs'[activeTab' + 1].id = tabs[i].origin
    OBVIOUS
  <2>1. /\ activeTab \in Nat /\ tabs \in Seq(Tab)
        /\ searches \in Nat /\ lines \in Nat /\ Len(nodePorts) \in Nat
        /\ DOMAIN tabs = 1..Len(tabs) /\ Len(tabs) \in Nat
    BY <1>1, LenProperties DEF IInv, CInv, ClusterTypeOK, TabInv, TypesFit, TabsFit, AllFits
  <2>2. IInv'
    BY <1>1, NextFits
  <2>3. DOMAIN tabs' = 1..Len(tabs')
    BY <2>2, LenProperties DEF IInv, TabInv, TabsFit, AllFits
  <2>4. i \in 1..Len(tabs) /\ tabs[i].isSearch
    BY <2>1 DEF SearchTabs
  <2>5. CloseSearch
    <3> SUFFICES ASSUME ~CloseSearch PROVE FALSE
      OBVIOUS
    <3>1. Kept(tabs, tabs')
      BY <1>1, OthersKeep
    <3> QED
      BY <2>3, <2>4, <3>1 DEF Kept
  <2>6. PICK ts \in Seq(Tab), n \in Nat, k \in Nat, b \in Nat :
          ts = tabs /\ n = Len(nodePorts) /\ k = searches /\ b = lines
    BY <2>1
  <2>7. AllFits(ts, n, k, b)
    BY <1>1, <2>6 DEF IInv, TabInv, TabsFit
  <2>8. PICK p \in 1..Len(ts) : p = activeTab + 1 /\ p - 1 = activeTab
    <3>1. activeTab < Len(tabs)
      BY <1>1, <2>5 DEF CloseSearch, Next, InRange, TabInRange
    <3> QED
      BY <2>1, <2>6, <3>1
  <2>9. PICK us : us = Shifted(Without(ts, p), p, -1)
    OBVIOUS
  <2>10. ts[p].isSearch /\ tabs' = us /\ activeTab' = BackTo(ts, p)
    <3>1. p = activeTab + 1 /\ activeTab = p - 1
      BY <2>8
    <3>2. tabs[p].isSearch /\ closeSearchTab(p - 1)
      BY <2>5, <3>1 DEF CloseSearch
    <3>3. (p - 1) + 1 = p
      BY <2>8
    <3> QED
      BY <2>6, <2>9, <3>2, <3>3 DEF closeSearchTab, BackTo
  <2>11. Refocused(ts, p, us)
    <3>1. ts[p].isSearch
      BY <2>10
    <3> QED
      BY <2>7, <2>9, <3>1, ClosedReturns
  <2>12. i = p
    <3> SUFFICES ASSUME i # p PROVE FALSE
      OBVIOUS
    <3>1. PICK j \in 1..Len(us) : us[j].id = ts[i].id
      BY <2>4, <2>6, <2>11 DEF Refocused
    <3> QED
      BY <2>3, <2>6, <2>10, <3>1
  <2>13. \E j \in 1..Len(us) : us[j].id = ts[p].origin
    BY <2>3, <2>6, <2>10, <2>12
  <2> QED
    BY <2>6, <2>10, <2>11, <2>12, <2>13 DEF Refocused
<1>2. IInv /\ [Next]_vars => [Returns]_vars
  BY <1>1
<1> QED
  BY <1>2, InitFits, NextFits, PTL DEF Spec, FocusReturns

=============================================================================
