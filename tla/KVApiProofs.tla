---------------------------- MODULE KVApiProofs ----------------------------
(***************************************************************************)
(* What holds of kv-api with any number of nodes, clients and faults: its    *)
(* maps follow the log, its waiters are not passed by, and its clients see   *)
(* one map.                                                                *)
(***************************************************************************)
EXTENDS KVApi, TLAPS, SequenceTheorems, WellFoundedInduction

Answer == Val \cup {"ok", "error", "none", "lost", "bad"}

-----------------------------------------------------------------------------
(* Types *)

\* What a get finds can be told a client.
LEMMA FoundType ==
    ASSUME NEW v \in Val \cup {Missing}
    PROVE  Found(v) \in Answer
  BY DEF Found, Answer

\* A handler starts with a request's operation and address recorded.
LEMMA AsksType ==
    ASSUME TypeOK, NEW r \in Request, NEW n \in Node, NEW o \in Op, Asks(r, n, o)
    PROVE  /\ op' \in [Request -> Op \cup {NotAsked}]
           /\ at' \in [Request -> Node \cup {NotAsked}]
  BY DEF TypeOK, Asks

\* An answer is recorded once.
LEMMA TellType ==
    ASSUME TypeOK, NEW r \in Request, NEW a \in Answer, Tell(r, a)
    PROVE  reply' \in [Request -> Answer]
  BY DEF TypeOK, Tell, Answer

\* statemachine.Apply keeps the map a map.
LEMMA StoredType ==
    ASSUME NEW m \in [Key -> Val \cup {Missing}], NEW o \in Op
    PROVE  /\ Stored(m, o) \in [Key -> Val \cup {Missing}]
           /\ o.kind # "relaxed" => Result(m, o) \in Answer
<1>1. CASE o.kind = "set"
  BY <1>1 DEF Stored, Result, Op, Answer
<1>2. CASE o.kind # "set"
  <2>1. o.key \in Key
    BY DEF Op
  <2> QED
    BY <1>2, <2>1, FoundType DEF Stored, Result
<1> QED
  BY <1>1, <1>2

\* Only what was asked for reaches a log, and no relaxed get does.
Asked ==
    \A r \in Request :
        r \in open \/ (\E i \in 1..Len(decided) : decided[i] = r)
        => op[r] \in Op /\ op[r].kind # "relaxed"

\* given[n] is a prefix of decided.
GivenIsPrefix ==
    \A n \in Node :
        /\ Len(given[n]) <= Len(decided)
        /\ \A i \in 1..Len(given[n]) : given[n][i] = decided[i]

\* A command is decided once.
DecidedOnce ==
    /\ \A i, j \in 1..Len(decided) : decided[i] = decided[j] => i = j
    /\ \A i \in 1..Len(decided) : decided[i] \notin open

\* Nobody was told the result of a command that is not decided.
OpenUnanswered ==
    /\ \A r \in Request : op[r] = NotAsked => reply[r] = "none"
    /\ \A r \in open : reply[r] \in {"none", "lost"}

\* The invariant that the steps below preserve.
KVInv ==
    /\ TypeOK
    /\ Asked
    /\ GivenIsPrefix
    /\ DecidedOnce
    /\ OpenUnanswered
    /\ MapsFollowLog
    /\ WaitersCanBeAnswered

\* The command a node applies next is one that was asked for.
LEMMA NextDecidedType ==
    ASSUME TypeOK, Asked, NEW n \in Node, Len(given[n]) < Len(decided)
    PROVE  /\ Len(given[n]) \in Nat /\ Len(given[n]) + 1 \in 1..Len(decided)
           /\ NextDecided(n) \in Request
           /\ op[NextDecided(n)] \in Op
           /\ op[NextDecided(n)].kind # "relaxed"
<1>1. Len(given[n]) \in Nat /\ Len(decided) \in Nat
  BY LenProperties DEF TypeOK
<1>2. Len(given[n]) + 1 \in 1..Len(decided)
  BY <1>1
<1>3. NextDecided(n) \in Request
  BY <1>2, ElementOfSeq DEF TypeOK, NextDecided
<1> QED
  BY <1>1, <1>2, <1>3 DEF Asked, NextDecided

\* The types of the initial state.
LEMMA InitType == Init => TypeOK
<1> SUFFICES ASSUME Init PROVE TypeOK
  OBVIOUS
<1>1. <<>> \in Seq(Request)
  BY EmptySeq
<1>2. EmptyMap \in [Key -> Val \cup {Missing}]
  BY DEF EmptyMap
<1> QED
  BY <1>1, <1>2, KVAssumption DEF Init, TypeOK

\* Every step keeps the types.
LEMMA NextType == TypeOK /\ Asked /\ [Next]_vars => TypeOK'
<1> SUFFICES ASSUME TypeOK, Asked, [Next]_vars PROVE TypeOK'
  OBVIOUS
<1> USE DEF Answer
<1>1. CASE UNCHANGED vars
  BY <1>1 DEF TypeOK, vars, raftVars, httpVars
<1>2. ASSUME NEW r \in Request, NEW n \in Node, NEW o \in Op, RelaxedGet(r, n, o)
      PROVE  TypeOK'
  <2>1. Found(db[n][o.key]) \in Answer
    BY FoundType DEF TypeOK, Op
  <2>2. reply' \in [Request -> Answer]
    BY <1>2, <2>1, TellType DEF RelaxedGet
  <2> QED
    BY <1>2, <2>2, AsksType DEF RelaxedGet, TypeOK, raftVars
<1>3. ASSUME NEW r \in Request, NEW n \in Node, NEW o \in Op, Refuse(r, n, o)
      PROVE  TypeOK'
  <2>1. reply' \in [Request -> Answer]
    BY <1>3, TellType DEF Refuse
  <2> QED
    BY <1>3, <2>1, AsksType DEF Refuse, TypeOK, raftVars
<1>4. ASSUME NEW r \in Request, NEW n \in Node, NEW o \in Op, Propose(r, n, o)
      PROVE  TypeOK'
  BY <1>4, AsksType DEF Propose, TypeOK
<1>5. ASSUME NEW r \in Request, NEW n \in Node, NEW o \in Op, ProposeTooLarge(r, n, o)
      PROVE  TypeOK'
  <2>1. reply' \in [Request -> Answer]
    BY <1>5, TellType DEF ProposeTooLarge
  <2> QED
    BY <1>5, <2>1, AsksType DEF ProposeTooLarge, TypeOK
<1>6. ASSUME NEW r \in Request, NEW n \in Node, NEW o \in Op, Hang(r, n, o)
      PROVE  TypeOK'
  BY <1>6, AsksType DEF Hang, TypeOK, raftVars
<1>7. ASSUME NEW r \in Request, Timeout(r) PROVE TypeOK'
  <2>1. reply' \in [Request -> Answer]
    BY <1>7, TellType DEF Timeout
  <2> QED
    BY <1>7, <2>1 DEF Timeout, TypeOK, raftVars
<1>8. ASSUME NEW r \in Request, Commit(r) PROVE TypeOK'
  <2>1. decided' \in Seq(Request)
    BY <1>8, AppendProperties DEF Commit, TypeOK
  <2> QED
    BY <1>8, <2>1 DEF Commit, TypeOK, httpVars
<1>9. ASSUME NEW n \in Node, ChangeRole(n) PROVE TypeOK'
  BY <1>9 DEF ChangeRole, TypeOK, httpVars
<1>10. ASSUME NEW n \in Node, NEW r \in Request, Truncate(n, r) PROVE TypeOK'
  BY <1>10 DEF Truncate, TypeOK, httpVars
<1>11. ASSUME NEW n \in Node, ApplyNext(n) PROVE TypeOK'
  <2> DEFINE r == NextDecided(n)
  <2>1. r \in Request /\ op[r] \in Op /\ op[r].kind # "relaxed"
    BY <1>11, NextDecidedType DEF ApplyNext
  <2>2. given' \in [Node -> Seq(Request)]
    BY <1>11, <2>1, AppendProperties DEF ApplyNext, TypeOK
  <2>3. db' \in [Node -> [Key -> Val \cup {Missing}]]
    BY <1>11, <2>1, StoredType DEF ApplyNext, TypeOK
  <2>4. /\ waiting' \in [Node -> SUBSET Request]
        /\ reply' \in [Request -> Answer]
    <3>1. CASE Answers(n, r)
      <4>1. Tell(r, Result(db[n], op[r]))
        BY <1>11, <3>1, Zenon DEF ApplyNext
      <4>2. waiting' = [waiting EXCEPT ![n] = @ \ {r}]
        BY <1>11, <3>1, Zenon DEF ApplyNext
      <4>3. db[n] \in [Key -> Val \cup {Missing}]
        BY DEF TypeOK
      <4>4. Result(db[n], op[r]) \in Answer
        BY <2>1, <4>3, StoredType
      <4>5. reply' \in [Request -> Answer]
        BY <2>1, <4>1, <4>4, TellType
      <4> QED
        BY <4>2, <4>5 DEF TypeOK
    <3>2. CASE ~Answers(n, r)
      BY <1>11, <3>2 DEF ApplyNext, TypeOK
    <3> QED
      BY <3>1, <3>2
  <2> QED
    BY <1>11, <2>2, <2>3, <2>4 DEF ApplyNext, TypeOK
<1>12. ASSUME NEW n \in Node, Kill(n) PROVE TypeOK'
  BY <1>12 DEF Kill, TypeOK, httpVars
<1>13. ASSUME NEW n \in Node, Crash(n) PROVE TypeOK'
  <2>1. given' \in [Node -> Seq(Request)]
    BY <1>13, EmptySeq DEF Crash, TypeOK
  <2>2. db' \in [Node -> [Key -> Val \cup {Missing}]]
    BY <1>13 DEF Crash, TypeOK, EmptyMap
  <2> QED
    BY <1>13, <2>1, <2>2 DEF Crash, TypeOK
<1> QED
  BY <1>1, <1>2, <1>3, <1>4, <1>5, <1>6, <1>7, <1>8, <1>9, <1>10, <1>11, <1>12, <1>13
  DEF Next

-----------------------------------------------------------------------------
(* The value of a key after a sequence of commands *)

\* Where there is a set of k, there is a last one.
LEMMA LastSet ==
    ASSUME NEW ops, NEW s \in Seq(Request), NEW k, SetsOf(ops, s, k) # {}
    PROVE  \E i \in SetsOf(ops, s, k) : \A j \in SetsOf(ops, s, k) : j <= i
<1> DEFINE S == SetsOf(ops, s, k)
           T == {Len(s) - i : i \in S}
<1>1. Len(s) \in Nat /\ S \subseteq 1..Len(s)
  BY LenProperties DEF SetsOf
<1>2. T \subseteq Nat /\ T # {}
  BY <1>1
<1>3. PICK d \in T : \A e \in T : ~(<<e, d>> \in OpToRel(<, Nat))
  BY <1>2, NatLessThanWellFounded, WFMin
<1>4. PICK i \in S : d = Len(s) - i
  OBVIOUS
<1>5. ASSUME NEW j \in S, j > i PROVE FALSE
  <2>1. Len(s) - j \in T /\ Len(s) - j < d
    BY <1>1, <1>4, <1>5
  <2>2. <<Len(s) - j, d>> \in OpToRel(<, Nat)
    BY <2>1, <1>2 DEF OpToRel
  <2> QED
    BY <2>1, <2>2, <1>3
<1> QED
  BY <1>1, <1>5

\* Latest is the value of the last set, whichever way it is found.
LEMMA LatestOfLast ==
    ASSUME NEW ops, NEW s \in Seq(Request), NEW k, NEW i \in SetsOf(ops, s, k),
           \A j \in SetsOf(ops, s, k) : j <= i
    PROVE  Latest(ops, s, k) = ops[s[i]].val
<1> DEFINE S == SetsOf(ops, s, k)
           c == CHOOSE l \in S : \A j \in S : j <= l
<1>1. S \subseteq Int
  BY DEF SetsOf
<1>2. c \in S /\ \A j \in S : j <= c
  OBVIOUS
<1>3. c = i
  BY <1>1, <1>2
<1> QED
  BY <1>3 DEF Latest

\* A key that is never set is missing.
LEMMA LatestOfNone ==
    ASSUME NEW ops, NEW s, NEW k, SetsOf(ops, s, k) = {}
    PROVE  Latest(ops, s, k) = Missing
  BY DEF Latest

\* One more command adds at most its own index.
LEMMA SetsOfAppend ==
    ASSUME NEW ops, NEW s \in Seq(Request), NEW r \in Request, NEW k
    PROVE  SetsOf(ops, Append(s, r), k) =
              SetsOf(ops, s, k) \cup
              (IF ops[r].kind = "set" /\ ops[r].key = k THEN {Len(s) + 1} ELSE {})
<1> DEFINE t == Append(s, r)
<1>1. /\ Len(s) \in Nat /\ Len(t) = Len(s) + 1
      /\ \A i \in 1..Len(s) : t[i] = s[i]
      /\ t[Len(s) + 1] = r
  BY AppendProperties, LenProperties
<1> HIDE DEF t
<1>2. 1..Len(t) = (1..Len(s)) \cup {Len(s) + 1}
  BY <1>1
<1>3. SetsOf(ops, t, k) =
         SetsOf(ops, s, k) \cup
         (IF ops[r].kind = "set" /\ ops[r].key = k THEN {Len(s) + 1} ELSE {})
  BY <1>1, <1>2 DEF SetsOf
<1> QED
  BY <1>3 DEF t

\* One more command changes the key it sets, and no other.
LEMMA LatestOfAppend ==
    ASSUME NEW ops, NEW s \in Seq(Request), NEW r \in Request, NEW k
    PROVE  Latest(ops, Append(s, r), k) =
              IF ops[r].kind = "set" /\ ops[r].key = k THEN ops[r].val
              ELSE Latest(ops, s, k)
<1> DEFINE t == Append(s, r)
           Sets == ops[r].kind = "set" /\ ops[r].key = k
<1>1. /\ t \in Seq(Request) /\ Len(s) \in Nat /\ Len(t) = Len(s) + 1
      /\ \A i \in 1..Len(s) : t[i] = s[i]
      /\ t[Len(s) + 1] = r
  BY AppendProperties, LenProperties
<1> HIDE DEF t
<1>2. SetsOf(ops, t, k) =
         SetsOf(ops, s, k) \cup (IF Sets THEN {Len(s) + 1} ELSE {})
  BY SetsOfAppend DEF t
<1>3. SetsOf(ops, s, k) \subseteq 1..Len(s)
  BY DEF SetsOf
<1>4. CASE Sets
  <2>1. Len(s) + 1 \in SetsOf(ops, t, k)
    BY <1>2, <1>4
  <2>2. \A j \in SetsOf(ops, t, k) : j <= Len(s) + 1
    BY <1>1, <1>2, <1>3, <1>4
  <2>0. t \in Seq(Request)
    BY <1>1
  <2>3. Latest(ops, t, k) = ops[t[Len(s) + 1]].val
    BY <2>0, <2>1, <2>2, LatestOfLast
  <2> QED
    BY <1>1, <1>4, <2>3 DEF t
<1>5. CASE ~Sets /\ SetsOf(ops, s, k) = {}
  <2>1. SetsOf(ops, t, k) = {}
    BY <1>2, <1>5
  <2> QED
    BY <1>5, <2>1, LatestOfNone DEF t
<1>6. CASE ~Sets /\ SetsOf(ops, s, k) # {}
  <2>1. PICK i \in SetsOf(ops, s, k) : \A j \in SetsOf(ops, s, k) : j <= i
    BY <1>6, LastSet
  <2>2. SetsOf(ops, t, k) = SetsOf(ops, s, k)
    BY <1>2, <1>6
  <2>0. t \in Seq(Request) /\ i \in SetsOf(ops, t, k)
    BY <1>1, <2>1, <2>2
  <2>3. Latest(ops, t, k) = ops[t[i]].val
    BY <2>0, <2>1, <2>2, LatestOfLast
  <2>4. Latest(ops, s, k) = ops[s[i]].val
    BY <2>1, LatestOfLast
  <2>5. t[i] = s[i]
    BY <1>1, <1>3, <2>1
  <2> QED
    BY <1>6, <2>3, <2>4, <2>5 DEF t
<1> QED
  BY <1>4, <1>5, <1>6

\* What other requests ask for does not matter.
LEMMA SetsOfSame ==
    ASSUME NEW ops1, NEW ops2, NEW s \in Seq(Request), NEW k,
           \A i \in 1..Len(s) : ops1[s[i]] = ops2[s[i]]
    PROVE  /\ SetsOf(ops1, s, k) = SetsOf(ops2, s, k)
           /\ Latest(ops1, s, k) = Latest(ops2, s, k)
<1>1. SetsOf(ops1, s, k) = SetsOf(ops2, s, k)
  BY DEF SetsOf
<1>2. CASE SetsOf(ops1, s, k) = {}
  BY <1>1, <1>2, LatestOfNone
<1>3. CASE SetsOf(ops1, s, k) # {}
  <2>1. PICK i \in SetsOf(ops1, s, k) : \A j \in SetsOf(ops1, s, k) : j <= i
    BY <1>3, LastSet
  <2>2. i \in 1..Len(s)
    BY <2>1 DEF SetsOf
  <2>3. Latest(ops1, s, k) = ops1[s[i]].val /\ Latest(ops2, s, k) = ops2[s[i]].val
    BY <1>1, <2>1, LatestOfLast
  <2> QED
    BY <1>1, <2>2, <2>3
<1> QED
  BY <1>1, <1>2, <1>3

\* The latest value is one of the past values, also of a longer sequence.
LEMMA LatestIsPast ==
    ASSUME NEW ops, NEW s \in Seq(Request), NEW t \in Seq(Request), NEW k,
           Len(s) <= Len(t), \A i \in 1..Len(s) : s[i] = t[i]
    PROVE  Latest(ops, s, k) \in Past(ops, t, k)
<1>1. CASE SetsOf(ops, s, k) = {}
  BY <1>1, LatestOfNone DEF Past
<1>2. CASE SetsOf(ops, s, k) # {}
  <2>1. PICK i \in SetsOf(ops, s, k) : \A j \in SetsOf(ops, s, k) : j <= i
    BY <1>2, LastSet
  <2>2. i \in 1..Len(s) /\ i \in 1..Len(t)
    BY <2>1, LenProperties DEF SetsOf
  <2>3. i \in SetsOf(ops, t, k) /\ s[i] = t[i]
    BY <2>1, <2>2 DEF SetsOf
  <2>4. Latest(ops, s, k) = ops[t[i]].val
    BY <2>1, <2>3, LatestOfLast
  <2> QED
    BY <2>3, <2>4 DEF Past
<1> QED
  BY <1>1, <1>2

\* One more command adds at most the value it sets.
LEMMA PastOfAppend ==
    ASSUME NEW ops, NEW s \in Seq(Request), NEW r \in Request, NEW k
    PROVE  Past(ops, Append(s, r), k) =
              IF ops[r].kind = "set" /\ ops[r].key = k
              THEN Past(ops, s, k) \cup {ops[r].val}
              ELSE Past(ops, s, k)
<1> DEFINE t == Append(s, r)
           Sets == ops[r].kind = "set" /\ ops[r].key = k
<1>1. /\ Len(s) \in Nat /\ t[Len(s) + 1] = r
      /\ \A i \in 1..Len(s) : t[i] = s[i]
  BY AppendProperties, LenProperties
<1>2. SetsOf(ops, t, k) =
         SetsOf(ops, s, k) \cup (IF Sets THEN {Len(s) + 1} ELSE {})
  BY SetsOfAppend
<1> HIDE DEF t
<1>3. \A i \in SetsOf(ops, s, k) : ops[t[i]].val = ops[s[i]].val
  BY <1>1 DEF SetsOf
<1>4. {ops[t[i]].val : i \in SetsOf(ops, s, k)} =
      {ops[s[i]].val : i \in SetsOf(ops, s, k)}
  BY <1>3
<1>5. CASE Sets
  <2>1. {ops[t[i]].val : i \in SetsOf(ops, t, k)} =
        {ops[t[i]].val : i \in SetsOf(ops, s, k)} \cup {ops[t[Len(s) + 1]].val}
    BY <1>2, <1>5
  <2>2. Past(ops, t, k) = Past(ops, s, k) \cup {ops[r].val}
    BY <1>1, <1>4, <2>1 DEF Past
  <2> QED
    BY <1>5, <2>2 DEF t
<1>6. CASE ~Sets
  <2>1. SetsOf(ops, t, k) = SetsOf(ops, s, k)
    BY <1>2, <1>6
  <2>2. Past(ops, t, k) = Past(ops, s, k)
    BY <1>4, <2>1 DEF Past
  <2> QED
    BY <1>6, <2>2 DEF t
<1> QED
  BY <1>5, <1>6

-----------------------------------------------------------------------------
(* The kinds of steps *)

\* A handler starts: the maps and the log stay, and only Propose leaves
\* something to be committed.
Handler(r, n, o) ==
    /\ Asks(r, n, o)
    /\ UNCHANGED <<decided, given, db>>
    /\ \/ /\ UNCHANGED <<open, waiting>>
          /\ reply' = reply \/ \E a \in Answer : Tell(r, a)
       \/ /\ o.kind # "relaxed"
          /\ open' = open \cup {r}
          /\ waiting' = [waiting EXCEPT ![n] = @ \cup {r}]
          /\ UNCHANGED reply

\* Nothing happens but that answers and waiters get lost.
Idle ==
    /\ UNCHANGED <<decided, given, db, open, op>>
    /\ \A n \in Node : waiting'[n] \subseteq waiting[n]
    /\ \A q \in Request :
          \/ reply'[q] = reply[q]
          \/ op[q] # NotAsked /\ reply[q] = "none" /\ reply'[q] = "lost"

\* Every handler is of that kind.
LEMMA HandlerStep ==
    ASSUME TypeOK, NEW r \in Request, NEW n \in Node, NEW o \in Op,
           \/ RelaxedGet(r, n, o) \/ Refuse(r, n, o) \/ Propose(r, n, o)
           \/ ProposeTooLarge(r, n, o) \/ Hang(r, n, o)
    PROVE  Handler(r, n, o)
<1>1. CASE RelaxedGet(r, n, o)
  <2>1. Found(db[n][o.key]) \in Answer
    BY FoundType DEF TypeOK, Op
  <2> QED
    BY <1>1, <2>1 DEF RelaxedGet, Handler, raftVars
<1>2. CASE Refuse(r, n, o)
  BY <1>2 DEF Refuse, Handler, raftVars, Answer
<1>3. CASE Propose(r, n, o)
  BY <1>3 DEF Propose, Handler, ReadsMap
<1>4. CASE ProposeTooLarge(r, n, o)
  BY <1>4 DEF ProposeTooLarge, Handler, Answer
<1>5. CASE Hang(r, n, o)
  BY <1>5 DEF Hang, Handler, raftVars
<1> QED
  BY <1>1, <1>2, <1>3, <1>4, <1>5

\* Every other step but Commit, ApplyNext and Crash is idle.
LEMMA IdleStep ==
    ASSUME TypeOK,
           \/ UNCHANGED vars
           \/ \E r \in Request : Timeout(r)
           \/ \E n \in Node :
                 \/ ChangeRole(n) \/ Kill(n)
                 \/ \E r \in Request : Truncate(n, r)
    PROVE  Idle
<1>1. CASE UNCHANGED vars
  BY <1>1 DEF Idle, vars, raftVars, httpVars
<1>2. CASE \E r \in Request : Timeout(r)
  <2>1. PICK r \in Request : Timeout(r)
    BY <1>2
  <2>2. \A q \in Request :
          \/ reply'[q] = reply[q]
          \/ op[q] # NotAsked /\ reply[q] = "none" /\ reply'[q] = "lost"
    BY <2>1 DEF Timeout, Tell, TypeOK
  <2> QED
    BY <2>1, <2>2 DEF Timeout, Idle, raftVars
<1>3. CASE \E n \in Node : ChangeRole(n) \/ Kill(n)
  BY <1>3 DEF ChangeRole, Kill, Idle, httpVars
<1>4. CASE \E n \in Node, r \in Request : Truncate(n, r)
  BY <1>4 DEF Truncate, Idle, httpVars, TypeOK
<1> QED
  BY <1>1, <1>2, <1>3, <1>4

\* So there are five kinds of steps.
LEMMA StepKinds ==
    ASSUME TypeOK, [Next]_vars
    PROVE  \/ \E r \in Request, n \in Node, o \in Op :
                 \/ RelaxedGet(r, n, o) \/ Refuse(r, n, o) \/ Propose(r, n, o)
                 \/ ProposeTooLarge(r, n, o) \/ Hang(r, n, o)
           \/ \E r \in Request : Commit(r)
           \/ \E n \in Node : ApplyNext(n)
           \/ \E n \in Node : Crash(n)
           \/ Idle
  BY IdleStep DEF Next

\* A handler's request is new: no log has its command yet.
LEMMA NewRequest ==
    ASSUME TypeOK, Asked, NEW r \in Request, NEW n \in Node, NEW o \in Op,
           Asks(r, n, o)
    PROVE  /\ op[r] = NotAsked /\ op'[r] = o /\ o # NotAsked
           /\ \A q \in Request : q # r => op'[q] = op[q]
           /\ r \notin open
           /\ \A i \in 1..Len(decided) : decided[i] \in Request /\ decided[i] # r
           /\ \A i \in 1..Len(decided) : op'[decided[i]] = op[decided[i]]
<1>1. /\ op[r] = NotAsked /\ op'[r] = o
      /\ \A q \in Request : q # r => op'[q] = op[q]
  BY DEF Asks, TypeOK
<1>2. NotAsked \notin Op
  BY NotAskedAssumption
<1>3. \A i \in 1..Len(decided) : decided[i] \in Request
  BY ElementOfSeq DEF TypeOK
<1> QED
  BY <1>1, <1>2, <1>3 DEF Asked

\* Committing adds an open command at the end.
LEMMA CommitAdds ==
    ASSUME TypeOK, NEW r \in Request, Commit(r)
    PROVE  /\ r \in open /\ open' = open \ {r}
           /\ Len(decided) \in Nat /\ Len(decided') = Len(decided) + 1
           /\ \A i \in 1..Len(decided) : decided'[i] = decided[i]
           /\ decided'[Len(decided) + 1] = r
           /\ UNCHANGED <<given, db, waiting, op, reply>>
  BY AppendProperties, LenProperties DEF Commit, TypeOK, httpVars

\* Applying gives one node the next decided command.
LEMMA ApplyAdds ==
    ASSUME TypeOK, Asked, NEW n \in Node, ApplyNext(n)
    PROVE  LET r == NextDecided(n) IN
           /\ UNCHANGED <<decided, open, op>>
           /\ r \in Request /\ op[r] \in Op /\ op[r].kind # "relaxed"
           /\ Len(given[n]) \in Nat /\ Len(given[n]) + 1 \in 1..Len(decided)
           /\ given'[n] = Append(given[n], r)
           /\ Len(given'[n]) = Len(given[n]) + 1
           /\ \A i \in 1..Len(given[n]) : given'[n][i] = given[n][i]
           /\ given'[n][Len(given[n]) + 1] = r
           /\ db'[n] = Stored(db[n], op[r])
           /\ waiting'[n] = waiting[n] \ {r}
           /\ \A m \in Node : m # n => /\ given'[m] = given[m]
                                       /\ db'[m] = db[m]
                                       /\ waiting'[m] = waiting[m]
           /\ \/ UNCHANGED reply
              \/ r \in waiting[n] /\ Tell(r, Result(db[n], op[r]))
<1> DEFINE r == NextDecided(n)
<1>1. /\ r \in Request /\ op[r] \in Op /\ op[r].kind # "relaxed"
      /\ Len(given[n]) \in Nat /\ Len(given[n]) + 1 \in 1..Len(decided)
  BY NextDecidedType DEF ApplyNext
<1>2. /\ given'[n] = Append(given[n], r)
      /\ db'[n] = Stored(db[n], op[r])
      /\ \A m \in Node : m # n => given'[m] = given[m] /\ db'[m] = db[m]
      /\ UNCHANGED <<decided, open, op>>
  BY DEF ApplyNext, TypeOK
<1>3. given[n] \in Seq(Request)
  BY DEF TypeOK
<1>4. /\ Len(given'[n]) = Len(given[n]) + 1
      /\ \A i \in 1..Len(given[n]) : given'[n][i] = given[n][i]
      /\ given'[n][Len(given[n]) + 1] = r
  BY <1>1, <1>2, <1>3, AppendProperties
<1>5. /\ waiting'[n] = waiting[n] \ {r}
      /\ \A m \in Node : m # n => waiting'[m] = waiting[m]
      /\ UNCHANGED reply \/ (r \in waiting[n] /\ Tell(r, Result(db[n], op[r])))
  BY DEF ApplyNext, TypeOK, Answers
<1> QED
  BY <1>1, <1>2, <1>4, <1>5

\* A crash empties one node; whoever waits for it hears nothing.
LEMMA CrashClears ==
    ASSUME TypeOK, NEW n \in Node, Crash(n)
    PROVE  /\ UNCHANGED <<decided, open, op>>
           /\ given'[n] = <<>> /\ db'[n] = EmptyMap /\ waiting'[n] = {}
           /\ \A m \in Node : m # n => /\ given'[m] = given[m]
                                       /\ db'[m] = db[m]
                                       /\ waiting'[m] = waiting[m]
           /\ \A q \in Request :
                 \/ reply'[q] = reply[q]
                 \/ op[q] # NotAsked /\ reply[q] = "none" /\ reply'[q] = "lost"
  BY DEF Crash, TypeOK

-----------------------------------------------------------------------------
(* The log *)

\* What is in a log was asked for.
LEMMA AskedNext == TypeOK /\ Asked /\ [Next]_vars => Asked'
<1> SUFFICES ASSUME TypeOK, Asked, [Next]_vars PROVE Asked'
  OBVIOUS
<1>1. ASSUME NEW r \in Request, NEW n \in Node, NEW o \in Op, Handler(r, n, o)
      PROVE  Asked'
  <2>1. Asks(r, n, o) /\ decided' = decided
    BY <1>1 DEF Handler
  <2>2. open' \subseteq open \/ (open' = open \cup {r} /\ o.kind # "relaxed")
    BY <1>1 DEF Handler
  <2> QED
    BY <2>1, <2>2, NewRequest DEF Asked
<1>2. ASSUME NEW r \in Request, Commit(r) PROVE Asked'
  BY <1>2, CommitAdds DEF Asked
<1>3. ASSUME NEW n \in Node, ApplyNext(n) PROVE Asked'
  BY <1>3, ApplyAdds DEF Asked
<1>4. ASSUME NEW n \in Node, Crash(n) PROVE Asked'
  BY <1>4, CrashClears DEF Asked
<1>5. CASE Idle
  BY <1>5 DEF Idle, Asked
<1> QED
  BY <1>1, <1>2, <1>3, <1>4, <1>5, StepKinds, HandlerStep

\* No node gets ahead of the log or is given anything else.
LEMMA GivenNext == KVInv /\ [Next]_vars => GivenIsPrefix'
<1> SUFFICES ASSUME KVInv, [Next]_vars PROVE GivenIsPrefix'
  OBVIOUS
<1> USE DEF KVInv
<1>1. ASSUME NEW r \in Request, NEW n \in Node, NEW o \in Op, Handler(r, n, o)
      PROVE  GivenIsPrefix'
  BY <1>1 DEF Handler, GivenIsPrefix
<1>2. ASSUME NEW r \in Request, Commit(r) PROVE GivenIsPrefix'
  <2>1. /\ Len(decided) \in Nat /\ Len(decided') = Len(decided) + 1
        /\ \A i \in 1..Len(decided) : decided'[i] = decided[i]
        /\ given' = given
    BY <1>2, CommitAdds
  <2>2. \A m \in Node : Len(given[m]) \in Nat
    BY LenProperties DEF TypeOK
  <2> QED
    BY <2>1, <2>2 DEF GivenIsPrefix
<1>3. ASSUME NEW n \in Node, ApplyNext(n) PROVE GivenIsPrefix'
  <2>1. SUFFICES ASSUME NEW m \in Node
                 PROVE  /\ Len(given'[m]) <= Len(decided)
                        /\ \A i \in 1..Len(given'[m]) : given'[m][i] = decided[i]
    BY <1>3, ApplyAdds DEF GivenIsPrefix
  <2>2. CASE m # n
    BY <1>3, <2>2, ApplyAdds DEF GivenIsPrefix
  <2>3. CASE m = n
    <3>1. /\ Len(given[n]) \in Nat /\ Len(given[n]) + 1 \in 1..Len(decided)
          /\ Len(given'[n]) = Len(given[n]) + 1
          /\ \A i \in 1..Len(given[n]) : given'[n][i] = given[n][i]
          /\ given'[n][Len(given[n]) + 1] = decided[Len(given[n]) + 1]
      BY <1>3, ApplyAdds DEF NextDecided
    <3>2. \A i \in 1..Len(given[n]) : given[n][i] = decided[i]
      BY DEF GivenIsPrefix
    <3> QED
      BY <2>3, <3>1, <3>2
  <2> QED
    BY <2>2, <2>3
<1>4. ASSUME NEW n \in Node, Crash(n) PROVE GivenIsPrefix'
  <2>1. Len(<<>>) = 0 /\ Len(decided) \in Nat
    BY EmptySeq, LenProperties DEF TypeOK
  <2> QED
    BY <1>4, <2>1, CrashClears DEF GivenIsPrefix
<1>5. CASE Idle
  BY <1>5 DEF Idle, GivenIsPrefix
<1> QED
  BY <1>1, <1>2, <1>3, <1>4, <1>5, StepKinds, HandlerStep

\* No command is decided twice.
LEMMA DecidedNext == KVInv /\ [Next]_vars => DecidedOnce'
<1> SUFFICES ASSUME KVInv, [Next]_vars PROVE DecidedOnce'
  OBVIOUS
<1> USE DEF KVInv
<1>1. ASSUME NEW r \in Request, NEW n \in Node, NEW o \in Op, Handler(r, n, o)
      PROVE  DecidedOnce'
  <2>1. Asks(r, n, o) /\ decided' = decided /\ open' \subseteq open \cup {r}
    BY <1>1 DEF Handler
  <2> QED
    BY <2>1, NewRequest DEF DecidedOnce
<1>2. ASSUME NEW r \in Request, Commit(r) PROVE DecidedOnce'
  <2>1. /\ r \in open /\ open' = open \ {r}
        /\ Len(decided) \in Nat /\ Len(decided') = Len(decided) + 1
        /\ \A i \in 1..Len(decided) : decided'[i] = decided[i]
        /\ decided'[Len(decided) + 1] = r
    BY <1>2, CommitAdds
  <2>2. 1..Len(decided') = (1..Len(decided)) \cup {Len(decided) + 1}
    BY <2>1
  <2>3. \A i \in 1..Len(decided) : decided[i] # r /\ decided[i] \notin open
    BY <2>1 DEF DecidedOnce
  <2> QED
    BY <2>1, <2>2, <2>3 DEF DecidedOnce
<1>3. ASSUME NEW n \in Node, ApplyNext(n) PROVE DecidedOnce'
  BY <1>3, ApplyAdds DEF DecidedOnce
<1>4. ASSUME NEW n \in Node, Crash(n) PROVE DecidedOnce'
  BY <1>4, CrashClears DEF DecidedOnce
<1>5. CASE Idle
  BY <1>5 DEF Idle, DecidedOnce
<1> QED
  BY <1>1, <1>2, <1>3, <1>4, <1>5, StepKinds, HandlerStep

\* No request is answered "ok" or with a value before its command is decided.
LEMMA UnansweredNext == KVInv /\ [Next]_vars => OpenUnanswered'
<1> SUFFICES ASSUME KVInv, [Next]_vars PROVE OpenUnanswered'
  OBVIOUS
<1> USE DEF KVInv
<1>1. ASSUME NEW r \in Request, NEW n \in Node, NEW o \in Op, Handler(r, n, o)
      PROVE  OpenUnanswered'
  <2>1. Asks(r, n, o)
    BY <1>1 DEF Handler
  <2>2. /\ op[r] = NotAsked /\ op'[r] # NotAsked /\ r \notin open
        /\ \A q \in Request : q # r => op'[q] = op[q]
    BY <2>1, NewRequest
  <2>3. \A q \in Request : q # r => reply'[q] = reply[q]
    BY <1>1 DEF Handler, Tell, TypeOK
  <2>4. \/ open' = open
        \/ open' = open \cup {r} /\ reply' = reply
    BY <1>1 DEF Handler
  <2>5. open \subseteq Request
    BY DEF TypeOK
  <2> QED
    BY <2>2, <2>3, <2>4, <2>5 DEF OpenUnanswered
<1>2. ASSUME NEW r \in Request, Commit(r) PROVE OpenUnanswered'
  BY <1>2, CommitAdds DEF OpenUnanswered
<1>3. ASSUME NEW n \in Node, ApplyNext(n) PROVE OpenUnanswered'
  <2> DEFINE r == NextDecided(n)
  <2>1. /\ UNCHANGED <<open, op>> /\ r \in Request /\ op[r] \in Op
        /\ Len(given[n]) + 1 \in 1..Len(decided)
        /\ \/ UNCHANGED reply
           \/ Tell(r, Result(db[n], op[r]))
    BY <1>3, ApplyAdds
  <2>2. op[r] # NotAsked /\ r \notin open
    BY <2>1, NotAskedAssumption DEF DecidedOnce, NextDecided
  <2>3. \A q \in Request : q # r => reply'[q] = reply[q]
    BY <2>1 DEF Tell, TypeOK
  <2>4. open \subseteq Request
    BY DEF TypeOK
  <2> QED
    BY <2>1, <2>2, <2>3, <2>4 DEF OpenUnanswered
<1>4. ASSUME NEW n \in Node, Crash(n) PROVE OpenUnanswered'
  BY <1>4, CrashClears DEF OpenUnanswered, TypeOK
<1>5. CASE Idle
  BY <1>5 DEF Idle, OpenUnanswered, TypeOK
<1> QED
  BY <1>1, <1>2, <1>3, <1>4, <1>5, StepKinds, HandlerStep

-----------------------------------------------------------------------------
(* The maps and the waiters *)

\* Maps and logs change together.
LEMMA MapsNext == KVInv /\ [Next]_vars => MapsFollowLog'
<1> SUFFICES ASSUME KVInv, [Next]_vars,
                    NEW m \in Node, NEW k \in Key
             PROVE  db'[m][k] = Latest(op', given'[m], k)
  BY DEF MapsFollowLog
<1> USE DEF KVInv
<1>0. given[m] \in Seq(Request) /\ db[m][k] = Latest(op, given[m], k)
  BY DEF TypeOK, MapsFollowLog
<1>1. ASSUME NEW r \in Request, NEW n \in Node, NEW o \in Op, Handler(r, n, o)
      PROVE  db'[m][k] = Latest(op', given'[m], k)
  <2>1. Asks(r, n, o) /\ given' = given /\ db' = db
    BY <1>1 DEF Handler
  <2>2. \A i \in 1..Len(given[m]) : i \in 1..Len(decided) /\ given[m][i] = decided[i]
    BY <1>0, LenProperties DEF GivenIsPrefix, TypeOK
  <2>3. \A i \in 1..Len(given[m]) : op[given[m][i]] = op'[given[m][i]]
    BY <2>1, <2>2, NewRequest
  <2>4. \A s \in Seq(Request) :
            (\A i \in 1..Len(s) : op[s[i]] = op'[s[i]])
            => Latest(op, s, k) = Latest(op', s, k)
    BY ZenonT(30), SetsOfSame
  <2>5. Latest(op, given[m], k) = Latest(op', given[m], k)
    BY <1>0, <2>3, <2>4
  <2>6. db'[m][k] = Latest(op', given[m], k)
    BY <1>0, <2>1, <2>5
  <2> QED
    BY <2>1, <2>6
<1>2. ASSUME NEW r \in Request, Commit(r)
      PROVE  db'[m][k] = Latest(op', given'[m], k)
  BY <1>0, <1>2, CommitAdds
<1>3. ASSUME NEW n \in Node, ApplyNext(n)
      PROVE  db'[m][k] = Latest(op', given'[m], k)
  <2>1. CASE m # n
    BY <1>0, <1>3, <2>1, ApplyAdds
  <2>2. CASE m = n
    <3> DEFINE r == NextDecided(n)
    <3>1. /\ op' = op /\ r \in Request /\ op[r] \in Op
          /\ given'[n] = Append(given[n], r) /\ db'[n] = Stored(db[n], op[r])
      BY <1>3, ApplyAdds
    <3>2. Latest(op, Append(given[n], r), k) =
             IF op[r].kind = "set" /\ op[r].key = k THEN op[r].val
             ELSE Latest(op, given[n], k)
      BY <1>0, <2>2, <3>1, LatestOfAppend
    <3>3. Stored(db[n], op[r])[k] =
             IF op[r].kind = "set" /\ op[r].key = k THEN op[r].val ELSE db[n][k]
      BY DEF Stored, TypeOK
    <3> QED
      BY <1>0, <2>2, <3>1, <3>2, <3>3
  <2> QED
    BY <2>1, <2>2
<1>4. ASSUME NEW n \in Node, Crash(n)
      PROVE  db'[m][k] = Latest(op', given'[m], k)
  <2>1. CASE m # n
    BY <1>0, <1>4, <2>1, CrashClears
  <2>2. CASE m = n
    <3>1. SetsOf(op, <<>>, k) = {}
      BY EmptySeq DEF SetsOf
    <3>2. Latest(op, <<>>, k) = Missing
      BY <3>1, LatestOfNone
    <3> QED
      BY <1>4, <2>2, <3>2, CrashClears DEF EmptyMap
  <2> QED
    BY <2>1, <2>2
<1>5. CASE Idle
  BY <1>0, <1>5 DEF Idle
<1> QED
  BY <1>1, <1>2, <1>3, <1>4, <1>5, StepKinds, HandlerStep

\* No waiter is passed by.
LEMMA WaitersNext == KVInv /\ [Next]_vars => WaitersCanBeAnswered'
<1> SUFFICES ASSUME KVInv, [Next]_vars,
                    NEW m \in Node, NEW q \in waiting'[m]
             PROVE  \/ q \in open'
                    \/ \E i \in (Len(given'[m]) + 1)..Len(decided') : decided'[i] = q
  BY DEF WaitersCanBeAnswered
<1> USE DEF KVInv
<1> DEFINE Ahead == \E i \in (Len(given[m]) + 1)..Len(decided) : decided[i] = q
<1>0. q \in waiting[m] => q \in open \/ Ahead
  BY DEF WaitersCanBeAnswered
<1>a. Len(given[m]) \in Nat /\ Len(decided) \in Nat /\ Len(given[m]) <= Len(decided)
  BY LenProperties DEF TypeOK, GivenIsPrefix
<1>1. ASSUME NEW r \in Request, NEW n \in Node, NEW o \in Op, Handler(r, n, o)
      PROVE  q \in open' \/ Ahead'
  <2>1. decided' = decided /\ given' = given /\ open \subseteq open'
    BY <1>1 DEF Handler
  <2>2. q \in waiting[m] \/ q \in open'
    BY <1>1 DEF Handler, TypeOK
  <2> QED
    BY <1>0, <2>1, <2>2
<1>2. ASSUME NEW r \in Request, Commit(r) PROVE q \in open' \/ Ahead'
  <2>1. /\ open' = open \ {r} /\ given' = given /\ waiting' = waiting
        /\ Len(decided') = Len(decided) + 1
        /\ \A i \in 1..Len(decided) : decided'[i] = decided[i]
        /\ decided'[Len(decided) + 1] = r
    BY <1>2, CommitAdds
  <2>2. CASE q = r
    <3>1. Len(decided) + 1 \in (Len(given'[m]) + 1)..Len(decided')
      BY <1>a, <2>1
    <3> QED
      BY <2>1, <2>2, <3>1
  <2>3. CASE q # r /\ Ahead
    <3>1. PICK i \in (Len(given[m]) + 1)..Len(decided) : decided[i] = q
      BY <2>3
    <3>2. i \in (Len(given'[m]) + 1)..Len(decided') /\ decided'[i] = q
      BY <1>a, <2>1, <3>1
    <3> QED
      BY <3>2
  <2> QED
    BY <1>0, <2>1, <2>2, <2>3
<1>3. ASSUME NEW n \in Node, ApplyNext(n) PROVE q \in open' \/ Ahead'
  <2>1. CASE m # n
    BY <1>0, <1>3, <2>1, ApplyAdds
  <2>2. CASE m = n
    <3> DEFINE r == NextDecided(n)
    <3>1. /\ UNCHANGED <<decided, open>> /\ waiting'[n] = waiting[n] \ {r}
          /\ Len(given'[n]) = Len(given[n]) + 1
      BY <1>3, ApplyAdds
    <3>2. q \in waiting[n] /\ q # decided[Len(given[n]) + 1]
      BY <2>2, <3>1 DEF NextDecided
    <3>3. CASE Ahead
      <4>1. PICK i \in (Len(given[m]) + 1)..Len(decided) : decided[i] = q
        BY <3>3
      <4>2. i \in (Len(given'[m]) + 1)..Len(decided')
        BY <1>a, <2>2, <3>1, <3>2, <4>1
      <4> QED
        BY <3>1, <4>1, <4>2
    <3> QED
      BY <1>0, <2>2, <3>1, <3>2, <3>3
  <2> QED
    BY <2>1, <2>2
<1>4. ASSUME NEW n \in Node, Crash(n) PROVE q \in open' \/ Ahead'
  BY <1>0, <1>4, CrashClears
<1>5. CASE Idle
  BY <1>0, <1>5 DEF Idle
<1> QED
  BY <1>1, <1>2, <1>3, <1>4, <1>5, StepKinds, HandlerStep

\* KVInv holds at the start.
LEMMA InitInv == Init => KVInv
<1> SUFFICES ASSUME Init PROVE KVInv
  OBVIOUS
<1>1. TypeOK
  BY InitType
<1>2. Len(<<>>) = 0
  BY EmptySeq
<1>3. Asked /\ GivenIsPrefix /\ DecidedOnce /\ OpenUnanswered
  BY <1>2 DEF Init, Asked, GivenIsPrefix, DecidedOnce, OpenUnanswered
<1>4. WaitersCanBeAnswered
  BY DEF Init, WaitersCanBeAnswered
<1>5. MapsFollowLog
  <2>1. \A k \in Key : SetsOf(op, <<>>, k) = {}
    BY <1>2 DEF SetsOf
  <2> QED
    BY <2>1, LatestOfNone DEF Init, MapsFollowLog, EmptyMap
<1> QED
  BY <1>1, <1>3, <1>4, <1>5 DEF KVInv

\* Every step preserves KVInv.
LEMMA NextInv == KVInv /\ [Next]_vars => KVInv'
  BY NextType, AskedNext, GivenNext, DecidedNext, UnansweredNext, MapsNext,
     WaitersNext DEF KVInv

\* KVInv always holds.
LEMMA KVInvCorrect == Spec => []KVInv
  BY InitInv, NextInv, PTL DEF Spec

\* statemachine.Apply and restarts keep every map at the last sets of the
\* commands its node was given.
THEOREM MapsFollowLogCorrect == Spec => []MapsFollowLog
<1>1. KVInv => MapsFollowLog
  BY DEF KVInv
<1> QED
  BY <1>1, KVInvCorrect, PTL

\* No handler that waits on a result channel is passed by: its command can
\* still be committed or is still to be applied where it waits.
THEOREM WaitersCorrect == Spec => []WaitersCanBeAnswered
<1>1. KVInv => WaitersCanBeAnswered
  BY DEF KVInv
<1> QED
  BY <1>1, KVInvCorrect, PTL

-----------------------------------------------------------------------------
(* kv-api's nodes are driven by a replicated log *)

\* Appending keeps what was there.
LEMMA AppendKeepsPrefix ==
    ASSUME NEW s \in Seq(Request), NEW r \in Request
    PROVE  /\ Len(s) <= Len(Append(s, r))
           /\ SubSeq(Append(s, r), 1, Len(s)) = s
<1> DEFINE t == Append(s, r)
           u == SubSeq(t, 1, Len(s))
<1>1. /\ t \in Seq(Request) /\ Len(s) \in Nat /\ Len(t) = Len(s) + 1
      /\ \A i \in 1..Len(s) : t[i] = s[i]
  BY AppendProperties, LenProperties
<1> HIDE DEF t
<1>2. \A i \in 1..Len(s) : t[i] \in Request
  BY <1>1, ElementOfSeq
<1>3. /\ u \in Seq(Request)
      /\ Len(u) = Len(s)
      /\ \A i \in 1..Len(s) : u[i] = t[i]
  BY <1>1, <1>2, SubSeqProperties
<1> HIDE DEF u
<1>4. u = s
  BY <1>1, <1>3, SeqEqual
<1> QED
  BY <1>1, <1>4 DEF u, t

\* The initial state is one of the replicated log.
LEMMA LogInit == Init => Log!Init
  BY DEF Init, Log!Init

\* Every step is one of the replicated log, or changes nothing there.
LEMMA LogNext == KVInv /\ [Next]_vars => [Log!Next]_(Log!rlVars)
<1> SUFFICES ASSUME KVInv, [Next]_vars PROVE [Log!Next]_(Log!rlVars)
  OBVIOUS
<1> USE DEF KVInv
<1>0. decided \in Seq(Request) /\ Len(decided) \in Nat
  BY LenProperties DEF TypeOK
<1>1. ASSUME NEW r \in Request, NEW n \in Node, NEW o \in Op, Handler(r, n, o)
      PROVE  UNCHANGED Log!rlVars
  BY <1>1 DEF Handler, Log!rlVars
<1>2. ASSUME NEW r \in Request, Commit(r) PROVE Log!Next
  <2>1. PICK n : n \in Node
    BY KVAssumption
  <2>2. decided' = Append(decided, r) /\ given' = given
    BY <1>2 DEF Commit
  <2>3. decided' \in Seq(Request)
    BY <1>0, <2>2, AppendProperties
  <2>4. Len(decided) <= Len(decided') /\ SubSeq(decided', 1, Len(decided)) = decided
    BY <1>0, <2>2, AppendKeepsPrefix
  <2>5. Log!Advance(n)
    BY <2>2, <2>3, <2>4 DEF Log!Advance
  <2> QED
    BY <2>1, <2>5 DEF Log!Next
<1>3. ASSUME NEW n \in Node, ApplyNext(n) PROVE Log!Next
  <2>1. SubSeq(decided, 1, Len(decided)) = decided
    BY <1>0, SubSeqFull
  <2>2. Log!Advance(n)
    BY <1>0, <1>3, <2>1 DEF ApplyNext, NextDecided, Log!Advance
  <2> QED
    BY <2>2 DEF Log!Next
<1>4. ASSUME NEW n \in Node, Crash(n) PROVE Log!Next
  <2>1. Log!Restart(n)
    BY <1>4 DEF Crash, Log!Restart
  <2> QED
    BY <2>1 DEF Log!Next
<1>5. CASE Idle
  BY <1>5 DEF Idle, Log!rlVars
<1> QED
  BY <1>1, <1>2, <1>3, <1>4, <1>5, StepKinds, HandlerStep

\* The state machines of kv-api are given what a replicated log gives them,
\* through crashes and restarts.
THEOREM FollowsLogCorrect == Spec => FollowsLog
  BY KVInvCorrect, LogInit, LogNext, PTL DEF Spec, FollowsLog, Log!Spec

-----------------------------------------------------------------------------
(* The clients see one map *)

\* Before the i-th command come the i - 1 first ones.
LEMMA PrefixOf ==
    ASSUME NEW s \in Seq(Request), NEW i \in Nat, i <= Len(s)
    PROVE  /\ SubSeq(s, 1, i) \in Seq(Request)
           /\ Len(SubSeq(s, 1, i)) = i
           /\ \A j \in 1..i : SubSeq(s, 1, i)[j] = s[j]
<1>1. Len(s) \in Nat
  BY LenProperties
<1>2. \A j \in 1..i : s[j] \in Request
  BY <1>1, ElementOfSeq
<1> QED
  BY <1>2, SubSeqProperties

\* Sequences that agree on their first i commands have the same prefix.
LEMMA PrefixSame ==
    ASSUME NEW s \in Seq(Request), NEW t \in Seq(Request), NEW i \in Nat,
           i <= Len(s), i <= Len(t), \A j \in 1..i : s[j] = t[j]
    PROVE  SubSeq(s, 1, i) = SubSeq(t, 1, i)
<1>1. /\ SubSeq(s, 1, i) \in Seq(Request) /\ SubSeq(t, 1, i) \in Seq(Request)
      /\ Len(SubSeq(s, 1, i)) = i /\ Len(SubSeq(t, 1, i)) = i
      /\ \A j \in 1..i : SubSeq(s, 1, i)[j] = s[j] /\ SubSeq(t, 1, i)[j] = t[j]
  BY PrefixOf
<1> DEFINE u == SubSeq(s, 1, i)
           v == SubSeq(t, 1, i)
<1>2. \A j \in 1..Len(u) : u[j] = v[j]
  BY <1>1
<1>3. u \in Seq(Request) /\ v \in Seq(Request) /\ Len(u) = Len(v)
  BY <1>1
<1> HIDE DEF u, v
<1>4. u = v
  BY <1>2, <1>3, SeqEqual
<1> QED
  BY <1>4 DEF u, v

\* No command is in s twice.
OnceIn(s) == \A i, j \in 1..Len(s) : s[i] = s[j] => i = j

\* The effect of a command that is decided once.
LEMMA EffectOfDecided ==
    ASSUME NEW ops, NEW s \in Seq(Request), NEW i \in 1..Len(s), OnceIn(s)
    PROVE  Effect(ops, s, s[i]) =
              IF ops[s[i]].kind = "set" THEN "ok"
              ELSE Found(Latest(ops, SubSeq(s, 1, i - 1), ops[s[i]].key))
<1> DEFINE c == CHOOSE j \in 1..Len(s) : s[j] = s[i]
<1>1. c \in 1..Len(s) /\ s[c] = s[i]
  OBVIOUS
<1>2. c = i
  BY <1>1 DEF OnceIn
<1>3. Before(s, s[i]) = i - 1
  BY <1>2 DEF Before
<1> QED
  BY <1>3 DEF Effect

\* A command that is not decided has none.
LEMMA EffectOfOther ==
    ASSUME NEW ops, NEW s, NEW r, \A i \in 1..Len(s) : s[i] # r
    PROVE  Effect(ops, s, r) = "none"
  BY DEF Effect

\* The map of the clients depends on the decided requests only.
LEMMA ContentsSame ==
    ASSUME KVInv, decided' = decided,
           \A i \in 1..Len(decided) : op'[decided[i]] = op[decided[i]]
    PROVE  UNCHANGED <<ContentNow, PastNow, EffectNow>>
<1>1. /\ decided \in Seq(Request) /\ Len(decided) \in Nat
      /\ OnceIn(decided)
  BY LenProperties DEF KVInv, TypeOK, DecidedOnce, OnceIn
<1>2. ASSUME NEW s \in Seq(Request), NEW k, Len(s) <= Len(decided),
             \A i \in 1..Len(s) : s[i] = decided[i]
      PROVE  /\ SetsOf(op, s, k) = SetsOf(op', s, k)
             /\ Latest(op, s, k) = Latest(op', s, k)
  <2>1. \A i \in 1..Len(s) : i \in 1..Len(decided)
    BY <1>1, <1>2, LenProperties
  <2>2. \A i \in 1..Len(s) : op[s[i]] = op'[s[i]]
    BY <1>2, <2>1
  <2>3. \A ops1, ops2 :
           (\A i \in 1..Len(s) : ops1[s[i]] = ops2[s[i]])
           => /\ SetsOf(ops1, s, k) = SetsOf(ops2, s, k)
              /\ Latest(ops1, s, k) = Latest(ops2, s, k)
    BY SetsOfSame
  <2> QED
    BY <2>2, <2>3
<1>3. \A k \in Key : /\ SetsOf(op, decided, k) = SetsOf(op', decided, k)
                     /\ Latest(op, decided, k) = Latest(op', decided, k)
  BY <1>1, <1>2
<1>4. ContentNow' = ContentNow
  BY <1>3 DEF ContentNow
<1>5. ASSUME NEW k \in Key
      PROVE  Past(op', decided, k) = Past(op, decided, k)
  <2>1. \A i \in SetsOf(op, decided, k) : op'[decided[i]] = op[decided[i]]
    BY DEF SetsOf
  <2> QED
    BY <1>3, <2>1 DEF Past
<1>6. PastNow' = PastNow
  BY <1>5 DEF PastNow
<1>7. ASSUME NEW r \in Request
      PROVE  Effect(op', decided, r) = Effect(op, decided, r)
  <2>1. CASE \A i \in 1..Len(decided) : decided[i] # r
    BY <2>1 DEF Effect
  <2>2. ASSUME NEW i \in 1..Len(decided), decided[i] = r
        PROVE  Effect(op', decided, r) = Effect(op, decided, r)
    <3> DEFINE s == SubSeq(decided, 1, i - 1)
               k == op[r].key
    <3>1. op'[r] = op[r]
      BY <2>2
    <3>2. i - 1 \in Nat /\ i - 1 <= Len(decided)
      BY <1>1
    <3>3. /\ s \in Seq(Request) /\ Len(s) = i - 1
          /\ \A j \in 1..Len(s) : s[j] = decided[j]
      BY <1>1, <3>2, PrefixOf
    <3> HIDE DEF s
    <3>4. Latest(op, s, k) = Latest(op', s, k)
      BY <1>2, <3>2, <3>3
    <3>5. \A ops : Effect(ops, decided, decided[i]) =
                     IF ops[decided[i]].kind = "set" THEN "ok"
                     ELSE Found(Latest(ops, SubSeq(decided, 1, i - 1),
                                       ops[decided[i]].key))
      BY <1>1, EffectOfDecided
    <3>6. /\ Effect(op, decided, r) =
                IF op[r].kind = "set" THEN "ok" ELSE Found(Latest(op, s, op[r].key))
          /\ Effect(op', decided, r) =
                IF op'[r].kind = "set" THEN "ok"
                ELSE Found(Latest(op', s, op'[r].key))
      BY <2>2, <3>5 DEF s
    <3> QED
      BY <3>1, <3>4, <3>6
  <2> QED
    BY <2>1, <2>2
<1>8. EffectNow' = EffectNow
  BY <1>7 DEF EffectNow
<1> QED
  BY <1>4, <1>6, <1>8

\* A handler that answers at once, or not yet, is a request to the map.
LEMMA HandlerAsks ==
    ASSUME KVInv, NEW r \in Request, NEW n \in Node, NEW o \in Op, NEW a,
           Asks(r, n, o), decided' = decided,
           reply' = [reply EXCEPT ![r] = a],
           Contents!AnsweredAtOnce(o, a)
    PROVE  Contents!Ask(r)
<1>1. /\ op[r] = NotAsked /\ op' = [op EXCEPT ![r] = o] /\ op'[r] = o
      /\ \A i \in 1..Len(decided) : op'[decided[i]] = op[decided[i]]
  BY NewRequest DEF KVInv, Asks, TypeOK
<1>2. UNCHANGED <<ContentNow, PastNow, EffectNow>>
  BY <1>1, ContentsSame
<1>3. reply'[r] = a
  BY DEF KVInv, TypeOK
<1>4. op'[r] \in Contents!Op
  BY <1>1 DEF Op, Contents!Op
<1> QED
  BY <1>1, <1>2, <1>3, <1>4 DEF Contents!Ask

\* Each handler does that.
LEMMA HandlersServe ==
    ASSUME KVInv, NEW r \in Request, NEW n \in Node, NEW o \in Op,
           \/ RelaxedGet(r, n, o) \/ Refuse(r, n, o) \/ Propose(r, n, o)
           \/ ProposeTooLarge(r, n, o) \/ Hang(r, n, o)
    PROVE  Contents!Ask(r)
<1>1. Asks(r, n, o) /\ decided' = decided
  BY DEF RelaxedGet, Refuse, Propose, ProposeTooLarge, Hang, raftVars
<1>2. reply[r] = "none" /\ reply \in [Request -> Answer]
  BY <1>1 DEF KVInv, OpenUnanswered, Asks, TypeOK, Answer
<1>3. \A a : Tell(r, a) => reply' = [reply EXCEPT ![r] = a]
  BY <1>2 DEF Tell
<1>4. CASE RelaxedGet(r, n, o)
  <2> DEFINE a == Found(db[n][o.key])
  <2>1. o.kind = "relaxed" /\ o.key \in Key /\ Tell(r, a)
    BY <1>4 DEF RelaxedGet, ReadsMap, Op
  <2>2. /\ given[n] \in Seq(Request) /\ decided \in Seq(Request)
        /\ Len(given[n]) <= Len(decided)
        /\ \A i \in 1..Len(given[n]) : given[n][i] = decided[i]
    BY DEF KVInv, TypeOK, GivenIsPrefix
  <2>3. db[n][o.key] = Latest(op, given[n], o.key)
    BY <2>1 DEF KVInv, MapsFollowLog
  <2>4. Latest(op, given[n], o.key) \in Past(op, decided, o.key)
    BY <2>2, LatestIsPast
  <2>5. db[n][o.key] \in PastNow[o.key]
    BY <2>1, <2>3, <2>4 DEF PastNow
  <2>6. Contents!AnsweredAtOnce(o, a)
    BY <2>1, <2>5 DEF Contents!AnsweredAtOnce, Found, Contents!Found
  <2> QED
    BY <1>1, <1>3, <2>1, <2>6, HandlerAsks
<1>5. CASE Refuse(r, n, o)
  <2> DEFINE a == IF o.kind = "set" THEN "bad" ELSE "error"
  <2>1. o.kind # "relaxed" /\ Tell(r, a)
    BY <1>5 DEF Refuse, ReadsMap
  <2>2. Contents!AnsweredAtOnce(o, a)
    BY <2>1 DEF Contents!AnsweredAtOnce, Contents!Refusal
  <2> QED
    BY <1>1, <1>3, <2>1, <2>2, HandlerAsks
<1>6. CASE Propose(r, n, o) \/ Hang(r, n, o)
  <2>1. reply' = [reply EXCEPT ![r] = "none"]
    BY <1>2, <1>6 DEF Propose, Hang
  <2>2. Contents!AnsweredAtOnce(o, "none")
    BY DEF Contents!AnsweredAtOnce
  <2> QED
    BY <1>1, <2>1, <2>2, HandlerAsks
<1>7. CASE ProposeTooLarge(r, n, o)
  <2>1. Tell(r, "lost")
    BY <1>7 DEF ProposeTooLarge
  <2>2. Contents!AnsweredAtOnce(o, "lost")
    BY DEF Contents!AnsweredAtOnce
  <2> QED
    BY <1>1, <1>3, <2>1, <2>2, HandlerAsks
<1> QED
  BY <1>4, <1>5, <1>6, <1>7

\* A command takes effect, on the map it finds, when it is committed.
LEMMA CommitTakesEffect ==
    ASSUME KVInv, KVInv', NEW r \in Request, Commit(r)
    PROVE  Contents!TakeEffect(r)
<1>1. /\ decided \in Seq(Request) /\ decided' \in Seq(Request)
      /\ decided' = Append(decided, r)
      /\ r \in open /\ Len(decided) \in Nat /\ Len(decided') = Len(decided) + 1
      /\ \A i \in 1..Len(decided) : decided'[i] = decided[i]
      /\ decided'[Len(decided) + 1] = r
      /\ UNCHANGED <<op, reply>>
  BY CommitAdds DEF KVInv, TypeOK, Commit
<1>2. op[r] \in Op /\ op[r].kind # "relaxed" /\ op[r] # NotAsked
  BY <1>1, NotAskedAssumption DEF KVInv, Asked
<1>3. op[r].key \in Key
  BY <1>2 DEF Op
<1>4. reply[r] \in {"none", "lost"}
  BY <1>1 DEF KVInv, OpenUnanswered
<1>5. \A i \in 1..Len(decided) : decided[i] # r
  BY <1>1 DEF KVInv, DecidedOnce
<1>6. EffectNow[r] = "none"
  BY <1>5, EffectOfOther DEF EffectNow
<1>7. OnceIn(decided) /\ OnceIn(decided')
  BY DEF KVInv, DecidedOnce, OnceIn
<1>8. \A k : Latest(op, decided', k) =
               IF op[r].kind = "set" /\ op[r].key = k THEN op[r].val
               ELSE Latest(op, decided, k)
  BY <1>1, LatestOfAppend
<1>9. \A k : Past(op, decided', k) =
               IF op[r].kind = "set" /\ op[r].key = k
               THEN Past(op, decided, k) \cup {op[r].val}
               ELSE Past(op, decided, k)
  BY <1>1, PastOfAppend
<1>e. \A s \in Seq(Request) : OnceIn(s) =>
          \A i \in 1..Len(s) :
              Effect(op, s, s[i]) =
                 IF op[s[i]].kind = "set" THEN "ok"
                 ELSE Found(Latest(op, SubSeq(s, 1, i - 1), op[s[i]].key))
  BY EffectOfDecided
<1>10. ASSUME NEW q \in Request, q # r
       PROVE  Effect(op, decided', q) = Effect(op, decided, q)
  <2>1. CASE \A i \in 1..Len(decided) : decided[i] # q
    <3>1. \A i \in 1..Len(decided') : decided'[i] # q
      BY <1>1, <1>10, <2>1
    <3> QED
      BY <2>1, <3>1, EffectOfOther
  <2>2. ASSUME NEW i \in 1..Len(decided), decided[i] = q
        PROVE  Effect(op, decided', q) = Effect(op, decided, q)
    <3>1. i \in 1..Len(decided') /\ decided'[i] = q /\ i - 1 \in Nat
          /\ i - 1 <= Len(decided) /\ i - 1 <= Len(decided')
          /\ \A j \in 1..(i - 1) : decided[j] = decided'[j]
      BY <1>1, <2>2
    <3>2. SubSeq(decided, 1, i - 1) = SubSeq(decided', 1, i - 1)
      BY <1>1, <3>1, PrefixSame
    <3> DEFINE u == SubSeq(decided, 1, i - 1)
    <3>3. Effect(op, decided, q) =
             IF op[q].kind = "set" THEN "ok" ELSE Found(Latest(op, u, op[q].key))
      BY <1>1, <1>7, <1>e, <2>2
    <3>4. Effect(op, decided', q) =
             IF op[q].kind = "set" THEN "ok" ELSE Found(Latest(op, u, op[q].key))
      BY <1>1, <1>7, <1>e, <3>1, <3>2
    <3> QED
      BY <3>3, <3>4
  <2> QED
    BY <2>1, <2>2
<1>11. Effect(op, decided', r) =
          IF op[r].kind = "set" THEN "ok" ELSE Found(Latest(op, decided, op[r].key))
  <2> DEFINE i == Len(decided) + 1
  <2>1. i \in 1..Len(decided') /\ decided'[i] = r /\ i - 1 = Len(decided)
    BY <1>1
  <2>2. SubSeq(decided', 1, i - 1) = decided
    BY <1>1, <2>1, AppendKeepsPrefix
  <2> QED
    BY <1>1, <1>7, <1>e, <2>1, <2>2
<1>12. EffectNow' = [EffectNow EXCEPT ![r] =
          IF op[r].kind = "set" THEN "ok" ELSE Found(ContentNow[op[r].key])]
  BY <1>1, <1>3, <1>10, <1>11 DEF EffectNow, ContentNow
<1>13. CASE op[r].kind = "set"
  <2>1. ContentNow' = [ContentNow EXCEPT ![op[r].key] = op[r].val]
    BY <1>1, <1>8, <1>13 DEF ContentNow
  <2>2. PastNow' = [PastNow EXCEPT ![op[r].key] = @ \cup {op[r].val}]
    BY <1>1, <1>9, <1>13 DEF PastNow
  <2>3. Contents!Set(r)
    BY <1>12, <1>13, <2>1, <2>2 DEF Contents!Set
  <2> QED
    BY <1>1, <1>2, <1>4, <1>6, <2>3 DEF Contents!TakeEffect
<1>14. CASE op[r].kind # "set"
  <2>1. ContentNow' = ContentNow
    BY <1>1, <1>8, <1>14 DEF ContentNow
  <2>2. PastNow' = PastNow
    BY <1>1, <1>9, <1>14 DEF PastNow
  <2>3. op[r].kind = "get"
    BY <1>2, <1>14 DEF Op
  <2>4. Contents!Get(r)
    BY <1>12, <1>14, <2>1, <2>2, <2>3 DEF Contents!Get, Found, Contents!Found
  <2> QED
    BY <1>1, <1>2, <1>4, <1>6, <2>4 DEF Contents!TakeEffect
<1> QED
  BY <1>13, <1>14

\* The node where a handler waits answers with the effect its command had
\* when it was decided, whatever was decided since.
LEMMA ApplyAnswers ==
    ASSUME KVInv, NEW n \in Node, ApplyNext(n)
    PROVE  (\E r \in Request : Contents!Answer(r)) \/ UNCHANGED Contents!storeVars
<1> DEFINE r == NextDecided(n)
           i == Len(given[n]) + 1
<1>1. /\ UNCHANGED <<decided, op>>
      /\ r \in Request /\ op[r] \in Op /\ op[r].kind # "relaxed"
      /\ i \in 1..Len(decided) /\ Len(given[n]) \in Nat /\ decided[i] = r
      /\ UNCHANGED reply \/ Tell(r, Result(db[n], op[r]))
  BY ApplyAdds DEF KVInv, NextDecided
<1>2. UNCHANGED <<ContentNow, PastNow, EffectNow>>
  BY <1>1 DEF ContentNow, PastNow, EffectNow
<1>3. CASE UNCHANGED reply
  BY <1>1, <1>2, <1>3 DEF Contents!storeVars
<1>4. CASE Tell(r, Result(db[n], op[r])) /\ reply[r] # "none"
  <2>1. reply' = reply
    BY <1>1, <1>4 DEF Tell, KVInv, TypeOK
  <2> QED
    BY <1>1, <1>2, <2>1 DEF Contents!storeVars
<1>5. CASE Tell(r, Result(db[n], op[r])) /\ reply[r] = "none"
  <2>1. /\ decided \in Seq(Request) /\ given[n] \in Seq(Request)
        /\ OnceIn(decided)
        /\ Len(given[n]) <= Len(decided)
        /\ \A j \in 1..Len(given[n]) : given[n][j] = decided[j]
    BY DEF KVInv, TypeOK, GivenIsPrefix, DecidedOnce, OnceIn
  <2>2. SubSeq(decided, 1, i - 1) = given[n]
    <3> DEFINE l == Len(given[n])
    <3>0. l \in Nat /\ l <= Len(given[n]) /\ l <= Len(decided)
      BY <1>1, <2>1
    <3>1. SubSeq(given[n], 1, l) = SubSeq(decided, 1, l)
      BY <2>1, <3>0, PrefixSame
    <3>2. SubSeq(given[n], 1, Len(given[n])) = given[n]
      BY <2>1, SubSeqFull
    <3>3. i - 1 = Len(given[n])
      BY <1>1
    <3> QED
      BY <3>1, <3>2, <3>3
  <2>3. op[r].key \in Key /\ db[n][op[r].key] \in Val \cup {Missing}
    BY <1>1 DEF Op, KVInv, TypeOK
  <2>4. db[n][op[r].key] = Latest(op, given[n], op[r].key)
    BY <2>3 DEF KVInv, MapsFollowLog
  <2>5. Effect(op, decided, decided[i]) =
           IF op[decided[i]].kind = "set" THEN "ok"
           ELSE Found(Latest(op, SubSeq(decided, 1, i - 1), op[decided[i]].key))
    BY <1>1, <2>1, EffectOfDecided
  <2>6. EffectNow[r] = Result(db[n], op[r])
    BY <1>1, <2>2, <2>4, <2>5 DEF EffectNow, Result
  <2>7. EffectNow[r] # "none"
    BY <2>3, <2>6, KVAssumption DEF Result, Found
  <2>8. reply' = [reply EXCEPT ![r] = EffectNow[r]] /\ reply'[r] = EffectNow[r]
    BY <1>1, <1>5, <2>6 DEF Tell, KVInv, TypeOK
  <2>9. Contents!Answer(r)
    BY <1>1, <1>2, <1>5, <2>7, <2>8 DEF Contents!Answer
  <2> QED
    BY <1>1, <2>9
<1> QED
  BY <1>1, <1>3, <1>4, <1>5

\* Timeouts and crashes lose answers, and nothing else.
LEMMA OthersLose ==
    ASSUME UNCHANGED <<decided, op>>,
           \A q \in Request :
              \/ reply'[q] = reply[q]
              \/ op[q] # NotAsked /\ reply[q] = "none" /\ reply'[q] = "lost"
    PROVE  Contents!Lose
<1>1. UNCHANGED <<ContentNow, PastNow, EffectNow>>
  BY DEF ContentNow, PastNow, EffectNow
<1> QED
  BY <1>1 DEF Contents!Lose

\* At the start nothing was asked and no key was set.
LEMMA ContentsInit == Init => Contents!Init
<1> SUFFICES ASSUME Init PROVE Contents!Init
  OBVIOUS
<1>1. Len(<<>>) = 0 /\ decided = <<>>
  BY EmptySeq DEF Init
<1>2. \A k : SetsOf(op, decided, k) = {}
  BY <1>1 DEF SetsOf
<1>3. ContentNow = [k \in Key |-> Missing]
  BY <1>2, LatestOfNone DEF ContentNow
<1>4. PastNow = [k \in Key |-> {Missing}]
  BY <1>2 DEF PastNow, Past
<1>5. \A r : Effect(op, decided, r) = "none"
  BY <1>1, EffectOfOther
<1>6. EffectNow = [r \in Request |-> "none"]
  BY <1>5 DEF EffectNow
<1> QED
  BY <1>3, <1>4, <1>6 DEF Init, Contents!Init

\* Every step is one of the clients' map, or changes nothing they see.
LEMMA ContentsNext ==
    KVInv /\ KVInv' /\ [Next]_vars => [Contents!Next]_(Contents!storeVars)
<1> SUFFICES ASSUME KVInv, KVInv', [Next]_vars
             PROVE  Contents!Next \/ UNCHANGED Contents!storeVars
  OBVIOUS
<1>1. TypeOK
  BY DEF KVInv
<1>2. ASSUME NEW r \in Request, NEW n \in Node, NEW o \in Op,
             \/ RelaxedGet(r, n, o) \/ Refuse(r, n, o) \/ Propose(r, n, o)
             \/ ProposeTooLarge(r, n, o) \/ Hang(r, n, o)
      PROVE  Contents!Next
  BY <1>2, HandlersServe DEF Contents!Next
<1>3. ASSUME NEW r \in Request, Commit(r) PROVE Contents!Next
  BY <1>3, CommitTakesEffect DEF Contents!Next
<1>4. ASSUME NEW n \in Node, ApplyNext(n)
      PROVE  Contents!Next \/ UNCHANGED Contents!storeVars
  BY <1>4, ApplyAnswers DEF Contents!Next
<1>5. ASSUME NEW n \in Node, Crash(n) PROVE Contents!Next
  BY <1>1, <1>5, CrashClears, OthersLose DEF Contents!Next
<1>6. CASE Idle
  BY <1>6, OthersLose DEF Idle, Contents!Next
<1> QED
  BY <1>1, <1>2, <1>3, <1>4, <1>5, <1>6, StepKinds

\* The clients of all nodes see one map, through changes of leader, crashes,
\* kills and timeouts: setHandler, getHandler and statemachine.Apply implement
\* Store.
THEOREM LinearizableCorrect == Spec => Linearizable
<1>1. Spec => []KVInv /\ [][Next]_vars /\ Init
  BY KVInvCorrect, PTL DEF Spec
<1> QED
  BY <1>1, ContentsInit, ContentsNext, PTL DEF Linearizable, Contents!Spec
=============================================================================
