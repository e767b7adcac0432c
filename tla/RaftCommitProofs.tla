-------------------------- MODULE RaftCommitProofs --------------------------
(***************************************************************************)
(* What is committed stays committed, at every server, and the state        *)
(* machines agree: under the hypotheses of RaftElectionProofs.              *)
(*                                                                         *)
(* Next to the ballots, the argument is about holdings: every log a server  *)
(* ever had.  advanceCommitIndex counts replicas of any entry, whatever its *)
(* term; it is sound because a request that fits the whole log also carries *)
(* the leader's blank entry, so a majority holds logs that end in its term. *)
(*                                                                         *)
(* With it Raft implements ReplicatedLog: what is decided is what the       *)
(* server that knows most to be committed holds committed.                  *)
(***************************************************************************)
EXTENDS RaftElectionProofs, RaftLog, FunctionTheorems

-----------------------------------------------------------------------------
(* Holdings *)

Holding == [node : Server, log : Seq(Entry)]

\* s has had the log lg.
Held(A, s, lg) == [node |-> s, log |-> lg] \in A

\* Two logs agree on their first n entries.
Agree(K, L, n) == n <= Len(K) /\ n <= Len(L) /\ \A j \in 1..n : K[j] = L[j]

\* Two logs with an entry of the same term at the same index agree up to it.
LogsMatch(A) ==
    \A h, k \in A : \A n \in 1..Len(h.log) :
        n <= Len(k.log) /\ h.log[n].term = k.log[n].term => Agree(h.log, k.log, n)

\* Of two logs that end in the same term one continues the other.
SameEnd(A) ==
    \A h, k \in A :
        LastTerm(h.log) = LastTerm(k.log) /\ Len(h.log) <= Len(k.log)
            => Agree(h.log, k.log, Len(h.log))

\* A server's log is not older than one it had.
HoldingFits(h) ==
    TermsOrdered(h.log, currentTerm[h.node]) /\ UpToDate(log[h.node], h.log)

\* An entry goes back to a server elected in its term, with the log before it.
Stems(A, B, lg, i) ==
    \E l \in Server, K \in Seq(Entry) :
        /\ Elected(B, l, lg[i].term, K)
        /\ lg[i].term <= currentTerm[l]
        /\ lg[i].term = currentTerm[l] => state[l] # "candidate"
        /\ Held(A, l, K) /\ LastTerm(K) < lg[i].term
        /\ Len(K) < i /\ Agree(K, lg, Len(K))

\* A leader has every entry of its term.
LeaderHas(A, s) ==
    state[s] = "leader" =>
        \A h \in A : \A i \in 1..Len(h.log) :
            h.log[i].term = currentTerm[s] => Agree(h.log, log[s], i)

\* The entries of a request are the rest of the log W, a leader's of its term.
Carries(r, W) ==
    /\ MatchOf(r) = Len(W) /\ Len(W) > 0 /\ LastTerm(W) = r.term
    /\ r.prevLogTerm = TermAt(W, r.prevLogIndex)
    /\ \A i \in 1..Len(r.entries) : r.entries[i] = W[r.prevLogIndex + i]

\* A voter's candidate is as up-to-date as the logs of earlier terms the
\* voter has had.
BallotCovers(v, h) ==
    h.node = v.voter /\ LastTerm(h.log) < v.term => UpToDate(v.log, h.log)

LogsFit(A, B) ==
    /\ A \subseteq Holding
    /\ \A s \in Server : Held(A, s, log[s])
    /\ LogsMatch(A) /\ SameEnd(A)
    /\ \A h \in A : HoldingFits(h)
    /\ \A h \in A : \A i \in 1..Len(h.log) : Stems(A, B, h.log, i)
    /\ \A s \in Server : LeaderHas(A, s)
    /\ \A v \in B, h \in A : BallotCovers(v, h)

-----------------------------------------------------------------------------
(* Commitment *)

\* A majority has had logs that end in term t and agree with lg up to c.
Chosen(A, lg, c, t) ==
    \E Q \in SUBSET Server :
        /\ Majority(Q)
        /\ \A m \in Q : \E h \in A :
              h.node = m /\ LastTerm(h.log) = t /\ Agree(h.log, lg, c)

\* The first c entries of lg are committed, in a term lg has reached.
Committed(A, lg, c) ==
    c = 0 \/ \E t \in Nat : t <= LastTerm(lg) /\ Chosen(A, lg, c, t)

\* m has had a log that ends in term t and has n entries.
Acked(A, m, t, n) ==
    \E h \in A : h.node = m /\ LastTerm(h.log) = t /\ n <= Len(h.log)

\* A request carries a log its sender had, committed as far as it says.
RequestHeld(A, r) ==
    r.kind = "append" =>
        \E W \in Seq(Entry) : /\ Held(A, r.from, W) /\ Carries(r, W)
                              /\ Committed(A, W, r.leaderCommit)

ReplyHeld(A, p) ==
    p.kind = "append" /\ p.success => Acked(A, p.to, p.term, p.match)

\* What a leader counts as replicated is.
PeersFit(A, s) ==
    state[s] = "leader" =>
        \A m \in Server :
            /\ \/ matchIndex[s][m] = 0
               \/ Acked(A, m, currentTerm[s], matchIndex[s][m])
            /\ nextIndex[s][m] >= 1 /\ nextIndex[s][m] <= Len(log[s]) + 1

\* The state machine has been given the commands of the first n entries.
Gives(f, cmds, lg, n) ==
    /\ f \in [1..Len(cmds) -> 1..n]
    /\ \A j \in 1..Len(cmds) : lg[f[j]].cmd = cmds[j]
    /\ \A i, j \in 1..Len(cmds) : i < j => f[i] < f[j]
    /\ \A i \in 1..n : lg[i].cmd \in Value => \E j \in 1..Len(cmds) : f[j] = i

AppliedFits(s) ==
    /\ lastApplied[s] <= commitIndex[s] + 1
    /\ \E f : Gives(f, applied[s], log[s], lastApplied[s] - 1)

CommitsFit(A) ==
    /\ \A s \in Server : Committed(A, log[s], commitIndex[s])
    /\ \A r \in requests : RequestHeld(A, r)
    /\ \A p \in replies : ReplyHeld(A, p)
    /\ \A s \in Server : PeersFit(A, s) /\ AppliedFits(s)
    /\ \A s \in Server : proc[s] # "panicked"

-----------------------------------------------------------------------------
(* Lemmas about logs that agree *)

\* A log's entries are entries, its last term that of its last entry.
LEMMA LogFacts ==
    ASSUME NEW lg \in Seq(Entry)
    PROVE  /\ Len(lg) \in Nat /\ LastTerm(lg) \in Nat
           /\ \A i \in 1..Len(lg) : lg[i] \in Entry /\ lg[i].term \in Nat
           /\ Len(lg) > 0 => LastTerm(lg) = lg[Len(lg)].term
           /\ Len(lg) = 0 => LastTerm(lg) = 0
<1>1. Len(lg) \in Nat
  BY LenProperties
<1>2. LastTerm(lg) \in Nat
  BY <1>1, TermAtType DEF LastTerm
<1>3. \A i \in 1..Len(lg) : lg[i] \in Entry /\ lg[i].term \in Nat
  <2>1. \A i \in 1..Len(lg) : lg[i] \in Entry
    BY ElementOfSeq
  <2> QED
    BY <2>1 DEF Entry
<1> QED
  BY <1>1, <1>2, <1>3 DEF LastTerm, TermAt

\* No entry is of a later term than the last one.
LEMMA LastIsLatest ==
    ASSUME NEW lg \in Seq(Entry), NEW t, TermsOrdered(lg, t), NEW i \in 1..Len(lg)
    PROVE  lg[i].term <= LastTerm(lg)
  BY LogFacts DEF TermsOrdered

\* An entry appended leaves the others where they are.
LEMMA AppendFacts ==
    ASSUME NEW lg \in Seq(Entry), NEW e \in Entry
    PROVE  /\ Append(lg, e) \in Seq(Entry)
           /\ Len(Append(lg, e)) = Len(lg) + 1
           /\ Append(lg, e)[Len(lg) + 1] = e
           /\ \A i \in 1..Len(lg) : Append(lg, e)[i] = lg[i]
           /\ Agree(lg, Append(lg, e), Len(lg))
           /\ LastTerm(Append(lg, e)) = e.term
<1>1. /\ Append(lg, e) \in Seq(Entry)
      /\ Len(Append(lg, e)) = Len(lg) + 1
      /\ Append(lg, e)[Len(lg) + 1] = e
      /\ \A i \in 1..Len(lg) : Append(lg, e)[i] = lg[i]
      /\ Len(lg) \in Nat
  BY AppendProperties, LenProperties
<1> QED
  BY <1>1, LastOfAppend DEF Agree

\* Agreement up to an index is agreement up to any before it.
LEMMA AgreeLess ==
    ASSUME NEW K \in Seq(Entry), NEW L \in Seq(Entry), NEW n \in Nat, NEW c \in Nat,
           Agree(K, L, n), c <= n
    PROVE  Agree(K, L, c)
<1>1. Len(K) \in Nat /\ Len(L) \in Nat
  BY LogFacts
<1> QED
  BY <1>1 DEF Agree

\* Agreement holds either way round.
LEMMA AgreeSym ==
    ASSUME NEW K, NEW L, NEW n, Agree(K, L, n)
    PROVE  Agree(L, K, n)
  BY DEF Agree

\* Agreement goes from log to log.
LEMMA AgreeTrans ==
    ASSUME NEW K, NEW L, NEW M, NEW n, Agree(K, L, n), Agree(L, M, n)
    PROVE  Agree(K, M, n)
  BY DEF Agree

\* A log agrees with itself.
LEMMA AgreeSelf ==
    ASSUME NEW K \in Seq(Entry), NEW n \in Nat, n <= Len(K)
    PROVE  Agree(K, K, n)
  BY DEF Agree

\* Being up-to-date is transitive.
LEMMA UpToDateTrans ==
    ASSUME NEW K \in Seq(Entry), NEW L \in Seq(Entry), NEW M \in Seq(Entry),
           UpToDate(K, L), UpToDate(L, M)
    PROVE  UpToDate(K, M)
<1>1. /\ Len(K) \in Nat /\ Len(L) \in Nat /\ Len(M) \in Nat
      /\ LastTerm(K) \in Nat /\ LastTerm(L) \in Nat /\ LastTerm(M) \in Nat
  BY LogFacts
<1> QED
  BY <1>1 DEF UpToDate

\* Every log is up-to-date with itself.
LEMMA UpToDateSelf ==
    ASSUME NEW K \in Seq(Entry)
    PROVE  UpToDate(K, K)
  BY LogFacts DEF UpToDate

\* A holding is a server's, of a log.
LEMMA HoldingType ==
    ASSUME NEW A, A \subseteq Holding, NEW h \in A
    PROVE  /\ h.node \in Server /\ h.log \in Seq(Entry)
           /\ Held(A, h.node, h.log)
           /\ Len(h.log) \in Nat /\ LastTerm(h.log) \in Nat
<1>1. h \in Holding
  OBVIOUS
<1>2. h.node \in Server /\ h.log \in Seq(Entry)
  BY <1>1 DEF Holding
<1>3. h = [node |-> h.node, log |-> h.log]
  BY <1>1 DEF Holding
<1> QED
  BY <1>2, <1>3, LogFacts DEF Held

-----------------------------------------------------------------------------
(* Lemmas about what a majority holds *)

\* What is chosen is chosen for every log that agrees, whatever else is held.
LEMMA ChosenStays ==
    ASSUME NEW A, NEW D, A \subseteq D, NEW lg, NEW kg, NEW c, NEW t,
           Chosen(A, lg, c, t), Agree(lg, kg, c)
    PROVE  Chosen(D, kg, c, t)
<1>1. PICK Q \in SUBSET Server :
         /\ Majority(Q)
         /\ \A m \in Q : \E h \in A :
              h.node = m /\ LastTerm(h.log) = t /\ Agree(h.log, lg, c)
  BY DEF Chosen
<1>2. \A m \in Q : \E h \in D :
         h.node = m /\ LastTerm(h.log) = t /\ Agree(h.log, kg, c)
  BY <1>1, AgreeTrans
<1> QED
  BY <1>1, <1>2 DEF Chosen

\* What is chosen is in the log, and some server holds it.
LEMMA ChosenHeld ==
    ASSUME NEW A, NEW lg, NEW c, NEW t, Chosen(A, lg, c, t)
    PROVE  /\ c <= Len(lg)
           /\ \E h \in A : LastTerm(h.log) = t /\ Agree(h.log, lg, c)
<1>1. PICK Q \in SUBSET Server :
         /\ Majority(Q)
         /\ \A m \in Q : \E h \in A :
              h.node = m /\ LastTerm(h.log) = t /\ Agree(h.log, lg, c)
  BY DEF Chosen
<1>2. PICK m \in Server : m \in Q
  BY <1>1, MajoritiesMeet
<1>3. PICK h \in A : LastTerm(h.log) = t /\ Agree(h.log, lg, c)
  BY <1>1, <1>2
<1> QED
  BY <1>3 DEF Agree

\* A log that was ever held and ends in a later term has all that was chosen.
LEMMA ChosenSurvives ==
    ASSUME NEW A, NEW B, LogsFit(A, B), BallotsFit(B),
           NEW P \in Seq(Entry), NEW c \in Nat, NEW t \in Nat,
           Chosen(A, P, c, t), NEW k \in A, LastTerm(k.log) > t
    PROVE  Agree(k.log, P, c)
<1> DEFINE Lacks(h) == LastTerm(h.log) > t /\ ~Agree(h.log, P, c)
           Terms == {n \in Nat : \E h \in A : Lacks(h) /\ LastTerm(h.log) = n}
<1>0. A \subseteq Holding
  BY DEF LogsFit
<1> SUFFICES ASSUME Lacks(k) PROVE FALSE
  OBVIOUS
<1>1. Terms \subseteq Nat /\ Terms # {}
  BY <1>0, HoldingType
<1>2. PICK n \in Terms : \A j \in Terms : ~(<<j, n>> \in OpToRel(<, Nat))
  BY <1>1, NatLessThanWellFounded, WFMin
<1>3. \A j \in Terms : ~(j < n)
  BY <1>1, <1>2 DEF OpToRel
<1>4. PICK h \in A : Lacks(h) /\ LastTerm(h.log) = n
  OBVIOUS
<1>5. /\ h.log \in Seq(Entry) /\ Len(h.log) \in Nat /\ n \in Nat /\ n > t
  BY <1>0, <1>1, <1>4, HoldingType
<1>6. Len(h.log) > 0 /\ h.log[Len(h.log)].term = n
  BY <1>4, <1>5, LogFacts
<1>7. Stems(A, B, h.log, Len(h.log))
  BY <1>5, <1>6 DEF LogsFit
<1>8. PICK l \in Server, K \in Seq(Entry) :
         /\ Elected(B, l, n, K) /\ Held(A, l, K) /\ LastTerm(K) < n
         /\ Agree(K, h.log, Len(K))
  BY <1>6, <1>7 DEF Stems
<1>9. PICK Q \in SUBSET Server :
         /\ Majority(Q)
         /\ \A m \in Q : \E g \in A :
              g.node = m /\ LastTerm(g.log) = t /\ Agree(g.log, P, c)
  BY DEF Chosen
<1>10. PICK R \in SUBSET Server :
          Majority(R) /\ \A m \in R : Cast(B, m, n, l, K)
  BY <1>8 DEF Elected
<1>11. PICK m \in Server : m \in Q /\ m \in R
  BY <1>9, <1>10, MajoritiesMeet
<1>12. PICK g \in A : g.node = m /\ LastTerm(g.log) = t /\ Agree(g.log, P, c)
  BY <1>9, <1>11
<1>13. UpToDate(K, g.log)
  <2>1. PICK v \in B : v = [voter |-> m, term |-> n, cand |-> l, log |-> K]
    BY <1>10, <1>11 DEF Cast
  <2>2. BallotCovers(v, g)
    BY <2>1 DEF LogsFit
  <2> QED
    BY <1>5, <1>12, <2>1, <2>2 DEF BallotCovers
<1>14. /\ g.log \in Seq(Entry) /\ Len(g.log) \in Nat /\ Len(K) \in Nat
       /\ LastTerm(K) \in Nat
  BY <1>0, LogFacts, HoldingType
<1>15. PICK q \in A : q.log = K
  BY <1>8 DEF Held
<1>16. Agree(K, P, c)
  <2>1. CASE LastTerm(K) > t
    <3>1. LastTerm(K) \notin Terms
      BY <1>3, <1>8
    <3> QED
      BY <1>14, <1>15, <2>1, <3>1
  <2>2. CASE ~(LastTerm(K) > t)
    <3>1. LastTerm(K) = LastTerm(g.log) /\ Len(g.log) <= Len(K)
      BY <1>12, <1>13, <1>14, <2>2 DEF UpToDate
    <3>2. Agree(g.log, K, Len(g.log))
      BY <1>15, <3>1 DEF LogsFit, SameEnd
    <3>3. c <= Len(g.log)
      BY <1>12 DEF Agree
    <3>4. Agree(K, g.log, c)
      BY <1>14, <3>2, <3>3, AgreeLess, AgreeSym
    <3> QED
      BY <1>12, <3>4, AgreeTrans
  <2> QED
    BY <2>1, <2>2
<1>17. Agree(h.log, K, c)
  <2>1. c <= Len(K)
    BY <1>16 DEF Agree
  <2> QED
    BY <1>5, <1>8, <1>14, <2>1, AgreeLess, AgreeSym
<1>18. Agree(h.log, P, c)
  BY <1>16, <1>17, AgreeTrans
<1> QED
  BY <1>4, <1>18

-----------------------------------------------------------------------------
(* Holdings grow *)

\* Leaders were leaders, of the same term.
LeadersStay ==
    \A s \in Server :
        state'[s] = "leader" =>
            state[s] = "leader" /\ currentTerm'[s] = currentTerm[s]

\* Where an entry comes from does not change.
LEMMA StemsStay ==
    ASSUME LocalInv, TypeOK', StandsInNewTerms, NEW A, NEW D, A \subseteq D,
           NEW B, NEW C, B \subseteq C, NEW lg \in Seq(Entry), NEW i \in 1..Len(lg),
           Stems(A, B, lg, i)
    PROVE  Stems(D, C, lg, i)'
<1>1. PICK l \in Server, K \in Seq(Entry) :
        /\ Elected(B, l, lg[i].term, K)
        /\ lg[i].term <= currentTerm[l]
        /\ lg[i].term = currentTerm[l] => state[l] # "candidate"
        /\ Held(A, l, K) /\ LastTerm(K) < lg[i].term
        /\ Len(K) < i /\ Agree(K, lg, Len(K))
  BY DEF Stems
<1>2. /\ lg[i].term \in Nat /\ currentTerm[l] \in Nat /\ currentTerm'[l] \in Nat
  BY <1>1, LogFacts, ServerTypes DEF TypeOK, NodeTypeOK
<1>3. /\ lg[i].term <= currentTerm'[l]
      /\ lg[i].term = currentTerm'[l] => state'[l] # "candidate"
  BY <1>1, <1>2 DEF StandsInNewTerms
<1>4. Elected(C, l, lg[i].term, K) /\ Held(D, l, K)
  BY <1>1, ElectedStays DEF Held
<1> QED
  BY <1>1, <1>3, <1>4 DEF Stems, Elected, Held, Majority, Cast, LastTerm, TermAt,
                          Agree

\* A ballot that is cast covers what its voter has had, and keeps doing so.
LEMMA BallotStillCovers ==
    ASSUME LocalInv, NEW A, NEW B, NEW C, LogsFit(A, B), BallotsBecome(B, C),
           NEW v \in C, NEW h \in A
    PROVE  BallotCovers(v, h)
<1>1. CASE v \in B
  BY <1>1 DEF LogsFit
<1>2. CASE v \notin B
  <2> SUFFICES ASSUME h.node = v.voter PROVE UpToDate(v.log, h.log)
    BY DEF BallotCovers
  <2>1. v.log \in Seq(Entry) /\ v.voter \in Server
    BY DEF BallotsBecome, BallotsFit, Ballot
  <2>2. h.log \in Seq(Entry) /\ log[v.voter] \in Seq(Entry)
    BY <2>1, HoldingType, ServerTypes DEF LogsFit
  <2>3. UpToDate(v.log, log[v.voter])
    BY <1>2 DEF BallotsBecome, NewBallot
  <2>4. UpToDate(log[v.voter], h.log)
    BY DEF LogsFit, HoldingFits
  <2> QED
    BY <2>1, <2>2, <2>3, <2>4, UpToDateTrans
<1> QED
  BY <1>1, <1>2

\* The terms of a log a server had stay those of its past.
LEMMA TermsStayOrdered ==
    ASSUME NEW lg \in Seq(Entry), NEW t \in Nat, NEW u \in Nat, t <= u,
           TermsOrdered(lg, t)
    PROVE  TermsOrdered(lg, u)
  BY LogFacts DEF TermsOrdered

\* A step that changes no log.
LEMMA LogsQuiet ==
    ASSUME LocalInv, LocalInv', StandsInNewTerms, LeadersStay, UNCHANGED log,
           NEW A, NEW B, NEW C, LogsFit(A, B), BallotsBecome(B, C)
    PROVE  LogsFit(A, C)'
<1>0. TypeOK' /\ A \subseteq Holding
  BY DEF LocalInv, OrderInv, LogsFit
<1>1. \A s \in Server : Held(A, s, log'[s])
  BY DEF LogsFit
<1>2. LogsMatch(A)' /\ SameEnd(A)'
  BY DEF LogsFit, LogsMatch, SameEnd, Agree, LastTerm, TermAt
<1>3. ASSUME NEW h \in A PROVE HoldingFits(h)'
  <2>1. HoldingFits(h) /\ h.node \in Server /\ h.log \in Seq(Entry)
    BY <1>0, HoldingType DEF LogsFit
  <2>2. /\ currentTerm[h.node] \in Nat /\ currentTerm'[h.node] \in Nat
        /\ currentTerm[h.node] <= currentTerm'[h.node]
    BY <1>0, <2>1, ServerTypes DEF StandsInNewTerms, TypeOK, NodeTypeOK
  <2>3. TermsOrdered(h.log, currentTerm'[h.node])
    BY <2>1, <2>2, TermsStayOrdered DEF HoldingFits
  <2> QED
    BY <2>1, <2>3 DEF HoldingFits, UpToDate, LastTerm, TermAt, TermsOrdered
<1>4. ASSUME NEW h \in A, NEW i \in 1..Len(h.log) PROVE Stems(A, C, h.log, i)'
  <2>1. Stems(A, B, h.log, i) /\ h.log \in Seq(Entry) /\ B \subseteq C
    BY <1>0, HoldingType DEF LogsFit, BallotsBecome
  <2> QED
    BY <1>0, <2>1, StemsStay
<1>5. \A s \in Server : LeaderHas(A, s)'
  BY DEF LogsFit, LeaderHas, LeadersStay, Agree
<1>6. \A v \in C, h \in A : BallotCovers(v, h)'
  BY BallotStillCovers DEF BallotCovers, UpToDate, LastTerm, TermAt
<1> QED
  BY <1>0, <1>1, <1>2, <1>3, <1>4, <1>5, <1>6 DEF LogsFit, Held, Holding

\* A server's log becomes one that ends in its term and is not older.
LEMMA LogsGrow ==
    ASSUME LocalInv, LocalInv', StandsInNewTerms,
           NEW A, NEW B, NEW C, LogsFit(A, B), BallotsBecome(B, C),
           NEW s \in Server, NEW lg \in Seq(Entry), NEW D,
           log' = [log EXCEPT ![s] = lg],
           D = A \cup {[node |-> s, log |-> lg]},
           LastTerm(lg) = currentTerm'[s], UpToDate(lg, log[s]),
           LogsMatch(D), SameEnd(D),
           \A i \in 1..Len(lg) : Stems(D, C, lg, i)',
           \A n \in Server : LeaderHas(D, n)'
    PROVE  LogsFit(D, C)'
<1> DEFINE new == [node |-> s, log |-> lg]
<1>0. /\ TypeOK' /\ TypeOK /\ A \subseteq Holding /\ A \subseteq D /\ new \in D
      /\ \A h \in D : h \in A \/ h = new
  BY DEF LocalInv, OrderInv, LogsFit
<1>1. /\ new \in Holding /\ D \subseteq Holding /\ new.node = s /\ new.log = lg
  BY <1>0 DEF Holding
<1>2. /\ log'[s] = lg /\ \A n \in Server : n # s => log'[n] = log[n]
  BY <1>0 DEF TypeOK, LogTypeOK
<1>3. \A n \in Server : Held(D, n, log'[n])
  BY <1>0, <1>2 DEF LogsFit, Held
<1>4. LogsMatch(D)' /\ SameEnd(D)'
  BY DEF LogsMatch, SameEnd, Agree, LastTerm, TermAt
<1> HIDE DEF new
<1>5. ASSUME NEW h \in D PROVE HoldingFits(h)'
  <2>1. CASE h \in A
    <3>1. HoldingFits(h) /\ h.node \in Server /\ h.log \in Seq(Entry)
      BY <1>0, <2>1, HoldingType DEF LogsFit
    <3>2. /\ currentTerm[h.node] \in Nat /\ currentTerm'[h.node] \in Nat
          /\ currentTerm[h.node] <= currentTerm'[h.node]
      BY <1>0, <3>1, ServerTypes DEF StandsInNewTerms, TypeOK, NodeTypeOK
    <3>3. TermsOrdered(h.log, currentTerm'[h.node])
      BY <3>1, <3>2, TermsStayOrdered DEF HoldingFits
    <3>4. UpToDate(log'[h.node], h.log)
      <4>1. CASE h.node # s
        BY <1>2, <3>1, <4>1 DEF HoldingFits
      <4>2. CASE h.node = s
        <5>1. log[s] \in Seq(Entry) /\ UpToDate(log[s], h.log)
          BY <3>1, <4>2, ServerTypes DEF HoldingFits
        <5> QED
          BY <1>2, <3>1, <4>2, <5>1, UpToDateTrans
      <4> QED
        BY <4>1, <4>2
    <3> QED
      BY <3>3, <3>4 DEF HoldingFits, UpToDate, LastTerm, TermAt, TermsOrdered
  <2>2. CASE h = new
    <3>1. TermsOrdered(log'[s], currentTerm'[s])
      BY DEF LocalInv, OrderInv, LogTermsOrdered
    <3>2. UpToDate(log'[s], lg)
      BY <1>2, UpToDateSelf
    <3> QED
      BY <1>1, <1>2, <2>2, <3>1, <3>2
         DEF HoldingFits, UpToDate, LastTerm, TermAt, TermsOrdered
  <2> QED
    BY <1>0, <2>1, <2>2
<1>6. ASSUME NEW h \in D, NEW i \in 1..Len(h.log) PROVE Stems(D, C, h.log, i)'
  <2>1. CASE h \in A
    <3>1. /\ Stems(A, B, h.log, i) /\ h.log \in Seq(Entry) /\ B \subseteq C
      BY <1>0, <2>1, HoldingType DEF LogsFit, BallotsBecome
    <3> QED
      BY <1>0, <3>1, StemsStay
  <2>2. CASE h = new
    BY <1>1, <2>2
  <2> QED
    BY <1>0, <2>1, <2>2
<1>7. ASSUME NEW v \in C, NEW h \in D PROVE BallotCovers(v, h)
  <2>1. CASE h \in A
    BY <2>1, BallotStillCovers
  <2>2. CASE h = new
    <3>1. BallotKept(v)' /\ v.term \in Nat /\ currentTerm'[s] \in Nat
      BY <1>0 DEF BallotsBecome, BallotsFit, Ballot, TypeOK, NodeTypeOK
    <3>2. v.voter = s => ~(LastTerm(lg) < v.term)
      BY <3>1 DEF BallotKept
    <3> QED
      BY <1>1, <2>2, <3>2 DEF BallotCovers
  <2> QED
    BY <1>0, <2>1, <2>2
<1>8. \A v \in C, h \in D : BallotCovers(v, h)'
  BY <1>7 DEF BallotCovers, UpToDate, LastTerm, TermAt
<1> QED
  BY <1>1, <1>3, <1>4, <1>5, <1>6, <1>8 DEF LogsFit, Held, Holding

\* A leader's entry goes where the log's last entry goes, once that is of the
\* leader's term.
LEMMA StemsAppend ==
    ASSUME NEW A, NEW B, NEW lg \in Seq(Entry), NEW e \in Entry,
           \A i \in 1..Len(lg) : Stems(A, B, lg, i), NEW i \in 1..(Len(lg) + 1),
           \/ i <= Len(lg)
           \/ Len(lg) > 0 /\ lg[Len(lg)].term = e.term
    PROVE  Stems(A, B, Append(lg, e), i)
<1> DEFINE new == Append(lg, e)
<1>1. /\ new \in Seq(Entry) /\ Len(new) = Len(lg) + 1 /\ new[Len(lg) + 1] = e
      /\ \A j \in 1..Len(lg) : new[j] = lg[j]
      /\ Agree(lg, new, Len(lg)) /\ Len(lg) \in Nat
  BY AppendFacts, LogFacts
<1> HIDE DEF new
<1>2. PICK j \in 1..Len(lg) : j <= i /\ lg[j].term = new[i].term
  <2>1. CASE i <= Len(lg)
    BY <1>1, <2>1
  <2>2. CASE ~(i <= Len(lg))
    <3>1. i = Len(lg) + 1 /\ Len(lg) \in 1..Len(lg)
      BY <1>1, <2>2
    <3> QED
      BY <1>1, <2>2, <3>1
  <2> QED
    BY <2>1, <2>2
<1>3. PICK l \in Server, K \in Seq(Entry) :
        /\ Elected(B, l, lg[j].term, K)
        /\ lg[j].term <= currentTerm[l]
        /\ lg[j].term = currentTerm[l] => state[l] # "candidate"
        /\ Held(A, l, K) /\ LastTerm(K) < lg[j].term
        /\ Len(K) < j /\ Agree(K, lg, Len(K))
  BY DEF Stems
<1>4. Len(K) \in Nat /\ Len(K) <= Len(lg)
  BY <1>3, LogFacts DEF Agree
<1>5. Agree(K, new, Len(K))
  <2>1. Agree(lg, new, Len(K))
    BY <1>1, <1>4, AgreeLess
  <2> QED
    BY <1>3, <2>1, AgreeTrans
<1>6. Len(K) < i
  BY <1>2, <1>3, <1>4, <1>1
<1>7. Stems(A, B, new, i)
  BY <1>2, <1>3, <1>5, <1>6 DEF Stems
<1> QED
  BY <1>7 DEF new

\* lg is old with one more entry, of term t.
Adds(old, lg, t) ==
    /\ Agree(old, lg, Len(old)) /\ Len(lg) = Len(old) + 1
    /\ lg[Len(old) + 1].term = t

\* The holdings after a leader appended an entry of its term, when every
\* entry of the term was in its log.
LEMMA LogsAppend ==
    ASSUME LocalInv, LocalInv', StandsInNewTerms,
           NEW A, NEW B, NEW C, LogsFit(A, B), BallotsBecome(B, C),
           NEW s \in Server, NEW lg \in Seq(Entry),
           Adds(log[s], lg, currentTerm[s]),
           log' = [log EXCEPT ![s] = lg], state'[s] = "leader",
           UNCHANGED currentTerm,
           \A n \in Server : n # s /\ state'[n] = "leader" => state[n] = "leader",
           \A h \in A : \A i \in 1..Len(h.log) :
               h.log[i].term = currentTerm[s] => Agree(h.log, log[s], i),
           \A i \in 1..Len(lg) : Stems(A, C, lg, i)'
    PROVE  \E D : A \subseteq D /\ LogsFit(D, C)'
<1>2. PICK old \in Seq(Entry) : old = log[s]
  BY ServerTypes
<1>3. PICK t \in Nat : t = currentTerm[s]
  BY ServerTypes
<1> DEFINE new == [node |-> s, log |-> lg]
           was == [node |-> s, log |-> old]
           D == A \cup {new}
<1>4. /\ Len(lg) = Len(old) + 1 /\ lg[Len(old) + 1].term = t
      /\ \A i \in 1..Len(old) : lg[i] = old[i]
      /\ Agree(old, lg, Len(old)) /\ LastTerm(lg) = t
      /\ Len(old) \in Nat /\ Len(lg) \in Nat
  <2>1. /\ Len(lg) = Len(old) + 1 /\ lg[Len(old) + 1].term = t
        /\ Agree(old, lg, Len(old))
    BY <1>2, <1>3 DEF Adds
  <2>2. Len(old) \in Nat /\ Len(lg) \in Nat
    BY LogFacts
  <2> QED
    BY <2>1, <2>2, LogFacts DEF Agree
<1>5. /\ A \subseteq Holding /\ was \in A /\ LogsMatch(A) /\ SameEnd(A)
  BY <1>2 DEF LogsFit, Held
<1>6. \A h \in A : \A i \in 1..Len(h.log) :
         h.log[i].term = t => i <= Len(old) /\ Agree(h.log, old, i)
  BY <1>2, <1>3 DEF Agree
<1>7. t > 0
  BY <1>3 DEF LocalInv, RolesFit, RoleFits
<1>8. /\ was.log = old /\ new.log = lg /\ new.node = s
  OBVIOUS
<1>9. \A h \in A : h.log \in Seq(Entry) /\ Len(h.log) \in Nat
  BY <1>5, HoldingType
<1>10. \A i \in 1..Len(old) : \A h \in A :
          Agree(h.log, old, i) => Agree(h.log, lg, i)
  BY <1>4 DEF Agree
<1> HIDE DEF new, was
<1>11. ASSUME NEW h \in A, NEW n \in 1..Len(h.log), n <= Len(lg),
              h.log[n].term = lg[n].term
       PROVE  Agree(h.log, lg, n)
  <2>1. CASE n <= Len(old)
    <3>1. h.log[n].term = old[n].term /\ n \in 1..Len(old)
      BY <1>4, <1>9, <1>11, <2>1
    <3>2. Agree(h.log, old, n)
      BY <1>5, <1>8, <2>1, <3>1 DEF LogsMatch
    <3> QED
      BY <1>10, <3>1, <3>2
  <2>2. CASE ~(n <= Len(old))
    <3>1. n = Len(old) + 1
      BY <1>4, <1>9, <1>11, <2>2
    <3>2. h.log[n].term = t
      BY <1>4, <1>11, <3>1
    <3> QED
      BY <1>6, <2>2, <3>2
  <2> QED
    BY <2>1, <2>2
<1>12. \A h \in A : Len(h.log) > 0 /\ LastTerm(h.log) = t =>
          /\ Len(h.log) <= Len(old) /\ Agree(h.log, lg, Len(h.log))
  <2> SUFFICES ASSUME NEW h \in A, Len(h.log) > 0, LastTerm(h.log) = t
               PROVE  Len(h.log) <= Len(old) /\ Agree(h.log, lg, Len(h.log))
    OBVIOUS
  <2>1. Len(h.log) \in 1..Len(h.log) /\ h.log[Len(h.log)].term = t
    BY <1>9, LogFacts
  <2>2. Len(h.log) <= Len(old) /\ Agree(h.log, old, Len(h.log))
    BY <1>6, <2>1
  <2>3. Len(h.log) \in 1..Len(old)
    BY <1>9, <2>1, <2>2
  <2> QED
    BY <1>10, <2>2, <2>3
<1>13. LogsMatch(D)
  <2> SUFFICES ASSUME NEW h \in D, NEW k \in D, NEW n \in 1..Len(h.log),
                      n <= Len(k.log), h.log[n].term = k.log[n].term
               PROVE  Agree(h.log, k.log, n)
    BY DEF LogsMatch
  <2>1. CASE h \in A /\ k \in A
    BY <1>5, <2>1 DEF LogsMatch
  <2>2. CASE h \in A /\ k = new
    BY <1>8, <1>11, <2>2
  <2>3. CASE h = new /\ k \in A
    <3>1. n \in 1..Len(k.log) /\ n <= Len(lg)
      BY <1>4, <1>8, <1>9, <2>3
    <3> QED
      BY <1>8, <1>11, <2>3, <3>1, AgreeSym
  <2>4. CASE h = new /\ k = new
    BY <1>4, <1>8, <2>4, AgreeSelf
  <2> QED
    BY <2>1, <2>2, <2>3, <2>4
<1>14. SameEnd(D)
  <2> SUFFICES ASSUME NEW h \in D, NEW k \in D,
                      LastTerm(h.log) = LastTerm(k.log), Len(h.log) <= Len(k.log)
               PROVE  Agree(h.log, k.log, Len(h.log))
    BY DEF SameEnd
  <2>1. CASE h \in A /\ k \in A
    BY <1>5, <2>1 DEF SameEnd
  <2>2. CASE h \in A /\ k = new
    <3>1. LastTerm(h.log) = t /\ h.log \in Seq(Entry)
      BY <1>4, <1>8, <1>9, <2>2
    <3>2. Len(h.log) > 0
      BY <1>7, <3>1, LogFacts
    <3> QED
      BY <1>8, <1>12, <2>2, <3>1, <3>2
  <2>3. CASE h = new /\ k \in A
    <3>1. LastTerm(k.log) = t /\ Len(k.log) > 0 /\ Len(k.log) > Len(old)
      BY <1>4, <1>8, <1>9, <2>3
    <3> QED
      BY <1>4, <1>9, <1>12, <2>3, <3>1
  <2>4. CASE h = new /\ k = new
    BY <1>4, <1>8, <2>4, AgreeSelf
  <2> QED
    BY <2>1, <2>2, <2>3, <2>4
<1>15. log'[s] = lg /\ \A n \in Server : n # s => log'[n] = log[n]
  BY DEF LocalInv, OrderInv, TypeOK, LogTypeOK
<1>16. ASSUME NEW n \in Server, state'[n] = "leader", NEW h \in D,
              NEW i \in 1..Len(h.log), h.log[i].term = currentTerm[n]
       PROVE  Agree(h.log, log'[n], i)
  <2>1. CASE h \in A /\ n = s
    <3>1. i <= Len(old) /\ Agree(h.log, old, i) /\ i \in 1..Len(old)
      BY <1>3, <1>4, <1>6, <1>9, <1>16, <2>1
    <3> QED
      BY <1>10, <1>15, <2>1, <3>1
  <2>2. CASE h \in A /\ n # s
    BY <1>15, <1>16, <2>2 DEF LogsFit, LeaderHas
  <2>3. CASE h = new /\ n = s
    <3>1. i \in Nat /\ i <= Len(lg)
      BY <1>4, <1>8, <2>3
    <3> QED
      BY <1>8, <1>15, <2>3, <3>1, AgreeSelf
  <2>4. CASE h = new /\ n # s
    <3>1. state[n] = "leader" /\ log'[n] = log[n]
      BY <1>15, <1>16, <2>4
    <3>2. CASE i <= Len(old)
      <4>1. i \in 1..Len(old) /\ old[i].term = currentTerm[n]
        BY <1>4, <1>8, <1>16, <2>4, <3>2
      <4>2. Agree(old, log[n], i)
        BY <1>5, <1>8, <3>1, <4>1 DEF LogsFit, LeaderHas
      <4>3. Agree(lg, old, i)
        BY <1>4, <4>1, AgreeLess, AgreeSym
      <4> QED
        BY <1>8, <2>4, <3>1, <4>2, <4>3, AgreeTrans
    <3>3. CASE ~(i <= Len(old))
      <4>1. i = Len(old) + 1 /\ currentTerm[n] = t
        BY <1>4, <1>8, <1>16, <2>4, <3>3
      <4>2. LeaderCast(C, n)' /\ LeaderCast(C, s)' /\ OneVotePerTerm(C)'
        BY DEF BallotsBecome, BallotsFit
      <4>3. PICK ng, sg : /\ Elected(C, n, currentTerm'[n], ng)
                          /\ Elected(C, s, currentTerm'[s], sg)
        BY <1>16, <4>2 DEF LeaderCast, Elected, Cast, Majority
      <4>4. OneVotePerTerm(C)
        BY <4>2 DEF OneVotePerTerm
      <4> QED
        BY <1>3, <2>4, <4>1, <4>3, <4>4, OneElected
    <3> QED
      BY <3>2, <3>3
  <2> QED
    BY <2>1, <2>2, <2>3, <2>4
<1>17. \A n \in Server : LeaderHas(D, n)'
  BY <1>16 DEF LeaderHas, Agree
<1>18. ASSUME NEW i \in 1..Len(lg) PROVE Stems(D, C, lg, i)'
  <2>1. Stems(A, C, lg, i)'
    OBVIOUS
  <2> QED
    BY <2>1 DEF Stems, Held
<1>19. UpToDate(lg, log[s])
  <2>1. LastTerm(log[s]) <= t
    BY <1>3, ServerTypes
  <2> QED
    BY <1>2, <1>3, <1>4, <2>1, ServerTypes DEF UpToDate
<1>20. /\ LastTerm(lg) = currentTerm'[s] /\ log' = [log EXCEPT ![s] = lg]
       /\ D = A \cup {[node |-> s, log |-> lg]}
  BY <1>3, <1>4 DEF new
<1> HIDE DEF D
<1>21. LogsFit(D, C)'
  BY <1>13, <1>14, <1>17, <1>18, <1>19, <1>20, LogsGrow
<1> QED
  BY <1>20, <1>21

\* Steady servers become no leaders.
LEMMA SteadyLeadersStay ==
    ASSUME Steady
    PROVE  LeadersStay /\ StandsInNewTerms
  BY SteadyStands DEF Steady, Steadily, LeadersStay

\* A leader that appends a command.
LEMMA LogsApply ==
    ASSUME LocalInv, LocalInv', NEW s \in Server, NEW x \in Value, Apply(s, x),
           NEW A, NEW B, NEW C, LogsFit(A, B), BallotsBecome(B, C)
    PROVE  \E D : A \subseteq D /\ LogsFit(D, C)'
<1>1. /\ state[s] = "leader" /\ UNCHANGED <<state, currentTerm>>
      /\ log' = [log EXCEPT ![s] = Append(@, Command(currentTerm[s], x))]
  BY DEF Apply, appendLocked, nodeVars
<1>2. LeadersStay /\ StandsInNewTerms
  BY SteadyApply, SteadyLeadersStay
<1>3. PICK old \in Seq(Entry) : old = log[s]
  BY ServerTypes
<1>4. PICK e \in Entry : e = Command(currentTerm[s], x) /\ e.term = currentTerm[s]
  <2>1. Command(currentTerm[s], x) \in Entry
    BY ServerTypes DEF Command, Entry
  <2> QED
    BY <2>1 DEF Command
<1>5. PICK lg \in Seq(Entry) : lg = Append(old, e)
  BY AppendFacts
<1>6. Adds(log[s], lg, currentTerm[s])
  BY <1>3, <1>4, <1>5, AppendFacts DEF Adds
<1>7. log' = [log EXCEPT ![s] = lg]
  BY <1>1, <1>3, <1>4, <1>5
<1>8. \A h \in A : \A i \in 1..Len(h.log) :
         h.log[i].term = currentTerm[s] => Agree(h.log, log[s], i)
  BY <1>1 DEF LogsFit, LeaderHas
<1>9. [node |-> s, log |-> old] \in A
  BY <1>3 DEF LogsFit, Held
<1>10. \A i \in 1..Len(old) : Stems(A, B, old, i)
  BY <1>9 DEF LogsFit
<1>11. Len(old) > 0 /\ old[Len(old)].term = e.term
  BY <1>1, <1>3, <1>4, LogFacts DEF LocalInv, RolesFit, RoleFits
<1>12. \A i \in 1..(Len(old) + 1) : Stems(A, B, lg, i)
  BY <1>5, <1>10, <1>11, StemsAppend
<1>13. Len(lg) = Len(old) + 1 /\ B \subseteq C /\ TypeOK'
  BY <1>5, AppendFacts DEF BallotsBecome, LocalInv, OrderInv
<1>14. \A i \in 1..Len(lg) : Stems(A, C, lg, i)'
  BY <1>2, <1>12, <1>13, StemsStay
<1> QED
  BY <1>1, <1>2, <1>6, <1>7, <1>8, <1>14, LogsAppend

\* A new leader is the first to append in its term.
LEMMA NoEntryBefore ==
    ASSUME Prompt, LocalInv, NEW s \in Server, becomeLeader(s),
           NEW A, NEW B, LogsFit(A, B), BallotsFit(B),
           NEW h \in A, NEW i \in 1..Len(h.log), h.log[i].term = currentTerm[s]
    PROVE  FALSE
<1>1. Stems(A, B, h.log, i)
  BY DEF LogsFit
<1>2. PICK l \in Server, K \in Seq(Entry) :
         /\ Elected(B, l, currentTerm[s], K)
         /\ currentTerm[s] = currentTerm[l] => state[l] # "candidate"
  BY <1>1 DEF Stems
<1>3. Elected(B, s, currentTerm[s], log[s]) /\ state[s] = "candidate"
  BY ElectedByQuorum, LeaderWasCandidate
<1>4. l = s
  BY <1>2, <1>3, OneElected DEF BallotsFit
<1> QED
  BY <1>2, <1>3, <1>4

\* A new leader appends its blank entry.
LEMMA LogsElect ==
    ASSUME Prompt, LocalInv, LocalInv', NEW s \in Server, becomeLeader(s),
           NEW A, NEW B, NEW C, LogsFit(A, B), BallotsFit(B), BallotsBecome(B, C)
    PROVE  \E D : A \subseteq D /\ LogsFit(D, C)'
<1>0. TypeOK /\ TypeOK' /\ B \subseteq C
  BY DEF LocalInv, OrderInv, BallotsBecome
<1>1. /\ state' = [state EXCEPT ![s] = "leader"] /\ UNCHANGED currentTerm
      /\ log' = [log EXCEPT ![s] = Append(@, Noop(currentTerm[s]))]
      /\ Noop(currentTerm[s]) \in Entry
  BY BecomeLeaderEffect
<1>2. /\ state'[s] = "leader" /\ state[s] = "candidate"
      /\ \A n \in Server : n # s => state'[n] = state[n] /\ log'[n] = log[n]
  BY <1>0, <1>1, LeaderWasCandidate DEF TypeOK, NodeTypeOK, LogTypeOK
<1>3. StandsInNewTerms
  <2>1. \A n \in Server : currentTerm'[n] >= currentTerm[n]
    BY <1>1, ServerTypes
  <2> QED
    BY <1>1, <1>2, <2>1 DEF StandsInNewTerms
<1>4. PICK old \in Seq(Entry) : old = log[s]
  BY ServerTypes
<1>5. PICK e \in Entry : e = Noop(currentTerm[s]) /\ e.term = currentTerm[s]
  BY <1>1 DEF Noop
<1>6. PICK lg \in Seq(Entry) : lg = Append(old, e)
  BY AppendFacts
<1>7. Adds(log[s], lg, currentTerm[s])
  BY <1>4, <1>5, <1>6, AppendFacts DEF Adds
<1>8. log' = [log EXCEPT ![s] = lg]
  BY <1>1, <1>4, <1>5, <1>6
<1>9. \A h \in A : \A i \in 1..Len(h.log) : h.log[i].term # currentTerm[s]
  BY NoEntryBefore
<1>10. Held(A, s, old)
  BY <1>4 DEF LogsFit
<1>11. \A i \in 1..Len(old) : Stems(A, B, old, i)
  BY <1>10 DEF LogsFit, Held
<1>12. \A i \in 1..Len(old) : Stems(A, B, lg, i)
  BY <1>6, <1>11, StemsAppend, LogFacts
<1>13. Len(lg) = Len(old) + 1 /\ Len(old) \in Nat /\ lg[Len(old) + 1].term = currentTerm[s]
       /\ Agree(old, lg, Len(old))
  BY <1>5, <1>6, AppendFacts, LogFacts
<1>14. ASSUME NEW i \in 1..Len(lg) PROVE Stems(A, C, lg, i)'
  <2>1. CASE i <= Len(old)
    <3>1. Stems(A, B, lg, i)
      BY <1>12, <1>13, <2>1
    <3> QED
      BY <1>0, <1>3, <3>1, StemsStay
  <2>2. CASE ~(i <= Len(old))
    <3>1. i = Len(old) + 1 /\ Len(old) < i
      BY <1>13, <2>2
    <3>2. Elected(C, s, currentTerm[s], old)
      BY <1>0, <1>4, ElectedByQuorum, ElectedStays
    <3>3. LastTerm(old) < currentTerm[s]
      BY <1>2, <1>4 DEF LocalInv, RolesFit, RoleFits
    <3>4. /\ Elected(C, s, lg[i].term, old) /\ lg[i].term <= currentTerm'[s]
          /\ state'[s] # "candidate" /\ LastTerm(old) < lg[i].term
      BY <1>1, <1>2, <1>13, <3>1, <3>2, <3>3, ServerTypes
    <3> QED
      BY <1>10, <1>13, <3>1, <3>4
         DEF Stems, Elected, Held, Majority, Cast, LastTerm, TermAt, Agree
  <2> QED
    BY <2>1, <2>2
<1>15. \A h \in A : \A i \in 1..Len(h.log) :
          h.log[i].term = currentTerm[s] => Agree(h.log, log[s], i)
  BY <1>9
<1>16. \A n \in Server : n # s /\ state'[n] = "leader" => state[n] = "leader"
  BY <1>2
<1> QED
  BY <1>1, <1>2, <1>3, <1>7, <1>8, <1>14, <1>15, <1>16, LogsAppend

\* What a request carries is what its receiver has, or what it gets.
LEMMA AcceptedLog ==
    ASSUME Prompt, LocalInv, NEW r \in requests, AcceptAppendEntries(r),
           NEW A, NEW B, LogsFit(A, B), NEW q, NEW W \in Seq(Entry),
           Held(A, q, W), Carries(r, W)
    PROVE  /\ Len(W) > 0
           /\ \A n \in Server : n # r.to => log'[n] = log[n]
           /\ \/ UNCHANGED log /\ Agree(W, log[r.to], Len(W))
              \/ /\ log' = [log EXCEPT ![r.to] = W] /\ UpToDate(W, log[r.to])
                 /\ LastTerm(log[r.to]) = r.term =>
                       Agree(log[r.to], W, Len(log[r.to]))
<1> DEFINE s == r.to
           lg == log[s]
           es == r.entries
           prev == r.prevLogIndex
<1>0. TypeOK /\ r.kind = "append"
  BY DEF LocalInv, OrderInv, AcceptAppendEntries
<1>1. /\ s \in Server /\ r.term >= currentTerm[s] /\ r.term \in Nat
      /\ currentTerm[s] \in Nat /\ LastTerm(lg) <= currentTerm[s]
      /\ lg \in Seq(Entry) /\ Len(lg) \in Nat /\ LastTerm(lg) \in Nat
      /\ es \in Seq(Entry) /\ Len(es) \in Nat /\ prev \in Nat
  BY <1>0, AcceptEffect, RequestFields, ServerTypes, LogFacts
<1>2. PICK keep \in prev..Len(lg) :
         Keeps(s, r, keep) /\ log' = [log EXCEPT ![s] = NewLog(s, r, keep)]
  BY AcceptEffect
<1>3. PICK new \in Seq(Entry) : new = NewLog(s, r, keep)
  BY <1>0, <1>1, NewLogShape
<1>4. /\ Len(new) = IF keep < Len(W) THEN Len(W) ELSE keep
      /\ prev + Len(es) = Len(W) /\ Len(W) \in Nat
      /\ \A i \in 1..keep : new[i] = lg[i]
      /\ \A i \in (keep + 1)..Len(new) :
            i - prev \in 1..Len(es) /\ new[i] = es[i - prev]
  <2>1. MatchOf(r) = Len(W) /\ MatchOf(r) = prev + Len(es)
    BY DEF Carries, MatchOf
  <2>2. Len(new) = IF keep < MatchOf(r) THEN MatchOf(r) ELSE keep
    BY <1>0, <1>1, <1>3, NewLogLength
  <2> QED
    BY <1>0, <1>1, <1>3, <2>1, <2>2, NewLogShape, LogFacts
<1>5. \A i \in (prev + 1)..Len(W) : es[i - prev] = W[i]
  <2>1. \A i \in 1..Len(es) : es[i] = W[prev + i]
    BY DEF Carries
  <2> SUFFICES ASSUME NEW i \in (prev + 1)..Len(W) PROVE es[i - prev] = W[i]
    OBVIOUS
  <2>2. i - prev \in 1..Len(es) /\ prev + (i - prev) = i
    BY SMTT(30), <1>1, <1>4
  <2> QED
    BY <2>1, <2>2
<1>6. \A i \in (prev + 1)..keep : i <= Len(W) => lg[i].term = W[i].term
  <2> SUFFICES ASSUME NEW i \in (prev + 1)..keep, i <= Len(W)
               PROVE  lg[i].term = W[i].term
    OBVIOUS
  <2>1. ~Conflict(s, r, i) /\ i <= Len(lg) /\ i <= MatchOf(r)
    BY <1>1, <1>2 DEF Keeps, Carries
  <2>2. lg[i].term = es[i - prev].term
    BY <2>1 DEF Conflict
  <2> QED
    BY <1>1, <1>4, <1>5, <2>2
<1>7. keep = Len(lg) \/ (keep + 1 <= Len(W) /\ lg[keep + 1].term # W[keep + 1].term)
  <2> SUFFICES ASSUME keep # Len(lg)
               PROVE  keep + 1 <= Len(W) /\ lg[keep + 1].term # W[keep + 1].term
    OBVIOUS
  <2>1. Conflict(s, r, keep + 1)
    BY <1>2 DEF Keeps
  <2>2. keep + 1 <= Len(W) /\ lg[keep + 1].term # es[(keep + 1) - prev].term
    BY <2>1 DEF Conflict, Carries
  <2>3. keep + 1 \in (prev + 1)..Len(W)
    BY <1>1, <1>4, <2>2
  <2>4. es[(keep + 1) - prev] = W[keep + 1]
    BY <1>5, <2>3
  <2> QED
    BY <2>2, <2>4
<1>8. /\ LogsMatch(A) /\ SameEnd(A)
      /\ \E h \in A : h.log = lg
      /\ \E h \in A : h.log = W
  <2>1. [node |-> s, log |-> lg] \in A /\ [node |-> q, log |-> W] \in A
    BY <1>1 DEF LogsFit, Held
  <2> QED
    BY <2>1 DEF LogsFit
<1>9. \A n \in 1..Len(lg) : n <= Len(W) /\ lg[n].term = W[n].term => Agree(lg, W, n)
  BY <1>8 DEF LogsMatch
<1>10. prev > 0 => prev <= Len(lg) /\ lg[prev].term = W[prev].term
  <2>1. validPreviousLog(s, r) /\ r.prevLogTerm = TermAt(W, prev)
    BY DEF AcceptAppendEntries, Carries
  <2> QED
    BY <1>1, <2>1 DEF validPreviousLog, TermAt
<1>11. Len(W) > 0 /\ LastTerm(W) = r.term
  BY LogFacts DEF Carries
<1> HIDE DEF lg, es, prev
<1>12. /\ keep \in Nat /\ prev <= keep /\ keep <= Len(lg) /\ prev <= Len(W)
  BY <1>1, <1>2, <1>4
<1>13. \A n \in Nat : n <= keep /\ n <= Len(W) => Agree(lg, W, n)
  <2> SUFFICES ASSUME NEW n \in Nat, n <= keep, n <= Len(W) PROVE Agree(lg, W, n)
    OBVIOUS
  <2>1. PICK k \in Nat : n <= k /\ k <= keep /\ k <= Len(W) /\ k >= prev /\
                         (k = prev \/ k = n)
    <3>1. CASE n >= prev
      BY <3>1
    <3>2. CASE ~(n >= prev)
      BY <1>1, <1>12, <3>2
    <3> QED
      BY <3>1, <3>2
  <2>2. Agree(lg, W, k)
    <3>1. CASE k = 0
      BY <1>1, <1>4, <3>1 DEF Agree
    <3>2. CASE k > 0
      <4>1. lg[k].term = W[k].term
        <5>1. CASE k = prev
          BY <1>10, <3>2, <5>1
        <5>2. CASE k # prev
          <6>1. k \in (prev + 1)..keep
            BY <1>1, <1>12, <2>1, <5>2
          <6> QED
            BY <1>6, <2>1, <6>1
        <5> QED
          BY <5>1, <5>2
      <4>2. k \in 1..Len(lg)
        BY <1>1, <1>12, <2>1, <3>2
      <4> QED
        BY <1>9, <2>1, <4>1, <4>2
    <3> QED
      BY <3>1, <3>2
  <2> QED
    BY <1>1, <2>1, <2>2, AgreeLess
<1>14. \A n \in Server : n # s => log'[n] = log[n]
  BY <1>0, <1>2 DEF TypeOK, LogTypeOK
<1>15. CASE keep < Len(W)
  <2>1. new = W
    <3>1. Len(new) = Len(W)
      BY <1>4, <1>15
    <3>2. ASSUME NEW i \in 1..Len(W) PROVE new[i] = W[i]
      <4>1. CASE i <= keep
        <5>1. i \in 1..keep /\ Agree(lg, W, keep)
          BY <1>12, <1>13, <1>15, <4>1
        <5> QED
          BY <1>4, <5>1 DEF Agree
      <4>2. CASE ~(i <= keep)
        <5>1. i \in (keep + 1)..Len(new) /\ i \in (prev + 1)..Len(W)
          BY <1>1, <1>12, <3>1, <4>2
        <5> QED
          BY <1>4, <1>5, <5>1
      <4> QED
        BY <4>1, <4>2
    <3> QED
      BY <3>1, <3>2, SeqEqual
  <2>2. LastTerm(lg) = r.term => Len(lg) <= Len(W)
    <3> SUFFICES ASSUME LastTerm(lg) = r.term, Len(W) < Len(lg) PROVE FALSE
      BY <1>1, <1>4
    <3>1. Agree(W, lg, Len(W))
      BY <1>1, <1>4, <1>8, <1>11 DEF SameEnd
    <3>2. keep + 1 \in 1..Len(W)
      BY <1>4, <1>12, <1>15
    <3>3. lg[keep + 1] = W[keep + 1] /\ keep # Len(lg)
      BY <1>12, <1>15, <3>1, <3>2 DEF Agree
    <3> QED
      BY <1>7, <3>3
  <2>3. LastTerm(lg) = r.term => Agree(lg, W, Len(lg))
    BY <1>8, <1>11, <2>2 DEF SameEnd
  <2>4. UpToDate(W, lg)
    BY <1>1, <1>4, <1>11, <2>2 DEF UpToDate
  <2>5. log' = [log EXCEPT ![s] = W]
    BY <1>2, <1>3, <2>1
  <2> QED
    BY <1>11, <1>14, <2>3, <2>4, <2>5 DEF lg
<1>16. CASE ~(keep < Len(W))
  <2>1. keep = Len(lg)
    BY <1>4, <1>7, <1>12, <1>16
  <2>2. new = lg
    BY <1>1, <1>4, <1>16, <2>1, SeqEqual
  <2>3. UNCHANGED log
    BY <1>0, <1>1, <1>2, <1>3, <2>2 DEF TypeOK, LogTypeOK, lg
  <2>4. Agree(W, lg, Len(W))
    BY <1>4, <1>12, <1>13, <1>16, AgreeSym
  <2> QED
    BY <1>11, <1>14, <2>3, <2>4 DEF lg
<1> QED
  BY <1>15, <1>16

\* The holdings after a follower took what a leader sent: somebody had it.
LEMMA LogsAccept ==
    ASSUME Prompt, LocalInv, LocalInv', NEW r \in requests,
           AcceptAppendEntries(r), NEW A, NEW B, NEW C, LogsFit(A, B),
           BallotsBecome(B, C), NEW q, NEW W \in Seq(Entry), Held(A, q, W),
           Carries(r, W)
    PROVE  \E D : /\ A \subseteq D /\ LogsFit(D, C)'
                  /\ Held(D, r.to, log'[r.to])
<1> DEFINE s == r.to
           D == A \cup {[node |-> s, log |-> W]}
<1>0. TypeOK' /\ A \subseteq Holding /\ B \subseteq C /\ s \in Server
  BY AcceptEffect DEF LocalInv, OrderInv, LogsFit, BallotsBecome
<1>1. LeadersStay /\ StandsInNewTerms
  BY SteadyAcceptAppendEntries, SteadyLeadersStay
<1>2. CASE UNCHANGED log
  <2>1. LogsFit(A, C)'
    BY <1>1, <1>2, LogsQuiet
  <2>2. Held(A, s, log'[s])
    BY <1>0, <1>2 DEF LogsFit
  <2> QED
    BY <2>1, <2>2
<1>3. CASE log' = [log EXCEPT ![s] = W] /\ UpToDate(W, log[s])
  <2>1. \A h \in D : \E g \in A : g.log = h.log
    BY DEF Held
  <2>2. LogsMatch(D)
    <3> SUFFICES ASSUME NEW h \in D, NEW k \in D, NEW n \in 1..Len(h.log),
                        n <= Len(k.log), h.log[n].term = k.log[n].term
                 PROVE  Agree(h.log, k.log, n)
      BY DEF LogsMatch
    <3>1. PICK g \in A, j \in A : g.log = h.log /\ j.log = k.log
      BY <2>1
    <3> QED
      BY <3>1 DEF LogsFit, LogsMatch
  <2>3. SameEnd(D)
    <3> SUFFICES ASSUME NEW h \in D, NEW k \in D,
                        LastTerm(h.log) = LastTerm(k.log), Len(h.log) <= Len(k.log)
                 PROVE  Agree(h.log, k.log, Len(h.log))
      BY DEF SameEnd
    <3>1. PICK g \in A, j \in A : g.log = h.log /\ j.log = k.log
      BY <2>1
    <3> QED
      BY <3>1 DEF LogsFit, SameEnd
  <2>4. ASSUME NEW i \in 1..Len(W) PROVE Stems(D, C, W, i)'
    <3>1. PICK g \in A : g.log = W
      BY DEF Held
    <3>2. Stems(A, B, W, i)
      BY <3>1 DEF LogsFit
    <3> QED
      BY <1>0, <1>1, <3>2, StemsStay
  <2>5. /\ log'[s] = W /\ state'[s] = "follower"
        /\ \A n \in Server : n # s => log'[n] = log[n]
    BY <1>0, <1>3, AcceptEffect DEF LocalInv, OrderInv, TypeOK, LogTypeOK, NodeTypeOK
  <2>6. ASSUME NEW n \in Server PROVE LeaderHas(D, n)'
    <3> SUFFICES ASSUME state'[n] = "leader", NEW h \in D, NEW i \in 1..Len(h.log),
                        h.log[i].term = currentTerm'[n]
                 PROVE  Agree(h.log, log'[n], i)
      BY DEF LeaderHas, Agree
    <3>1. state[n] = "leader" /\ currentTerm'[n] = currentTerm[n] /\ log'[n] = log[n]
      BY <1>1, <2>5 DEF LeadersStay
    <3>2. PICK g \in A : g.log = h.log
      BY <2>1
    <3> QED
      BY <3>1, <3>2 DEF LogsFit, LeaderHas
  <2>7. LastTerm(W) = currentTerm'[s]
    <3>1. currentTerm'[s] = r.term
      BY <1>0, AcceptEffect DEF LocalInv, OrderInv, TypeOK, NodeTypeOK
    <3> QED
      BY <3>1 DEF Carries
  <2>8. D = A \cup {[node |-> s, log |-> W]}
    OBVIOUS
  <2>9. Held(D, s, log'[s])
    BY <2>5 DEF Held
  <2> HIDE DEF D
  <2>10. LogsFit(D, C)'
    BY <1>0, <1>1, <1>3, <2>2, <2>3, <2>4, <2>6, <2>7, <2>8, LogsGrow
  <2> QED
    BY <2>8, <2>9, <2>10
<1> QED
  BY <1>2, <1>3, AcceptedLog

-----------------------------------------------------------------------------
(* Commitment is kept *)

\* What is committed in a log is committed in one that agrees and is not
\* older.
LEMMA CommittedStays ==
    ASSUME NEW A, NEW D, A \subseteq D, NEW lg \in Seq(Entry),
           NEW kg \in Seq(Entry), NEW c, Committed(A, lg, c), Agree(lg, kg, c),
           LastTerm(lg) <= LastTerm(kg)
    PROVE  Committed(D, kg, c)
<1> SUFFICES ASSUME c # 0 PROVE Committed(D, kg, c)
  BY DEF Committed
<1>1. PICK t \in Nat : t <= LastTerm(lg) /\ Chosen(A, lg, c, t)
  BY DEF Committed
<1>2. t <= LastTerm(kg)
  BY <1>1, LogFacts
<1> QED
  BY <1>1, <1>2, ChosenStays DEF Committed

\* What is committed is in the log.
LEMMA CommittedFits ==
    ASSUME NEW A, NEW lg \in Seq(Entry), NEW c \in Nat, Committed(A, lg, c)
    PROVE  c <= Len(lg)
  BY ChosenHeld, LogFacts DEF Committed

\* The committed entries of a server and its commit index stay.
KeepsCommitted(s) ==
    /\ commitIndex'[s] = commitIndex[s]
    /\ Agree(log[s], log'[s], commitIndex[s])
    /\ LastTerm(log[s]) <= LastTerm(log'[s])

\* A leader keeps its term and its view of its peers.
KeepsPeers(s) ==
    state'[s] = "leader" =>
        /\ state[s] = "leader" /\ currentTerm'[s] = currentTerm[s]
        /\ matchIndex'[s] = matchIndex[s] /\ nextIndex'[s] = nextIndex[s]
        /\ Len(log[s]) <= Len(log'[s])

\* Nothing is applied, and what was applied is still in the log.
KeepsApplied(s) ==
    /\ lastApplied'[s] = lastApplied[s] /\ applied'[s] = applied[s]
    /\ commitIndex[s] <= commitIndex'[s]
    /\ Agree(log[s], log'[s], lastApplied[s] - 1)

\* A pending request still carries what its sender had.
LEMMA RequestHeldStays ==
    ASSUME LocalInv, NEW A, NEW D, A \subseteq D, NEW q \in requests,
           RequestHeld(A, q), NEW r, r = q \/ r = [q EXCEPT !.orphan = TRUE]
    PROVE  RequestHeld(D, r)
<1> SUFFICES ASSUME r.kind = "append" PROVE RequestHeld(D, r)
  BY DEF RequestHeld
<1>1. /\ q.kind = "append" /\ r.from = q.from /\ r.term = q.term
      /\ r.prevLogIndex = q.prevLogIndex /\ r.prevLogTerm = q.prevLogTerm
      /\ r.entries = q.entries /\ r.leaderCommit = q.leaderCommit
  BY OrphanFields
<1>2. PICK W \in Seq(Entry) : /\ Held(A, q.from, W) /\ Carries(q, W)
                              /\ Committed(A, W, q.leaderCommit)
  BY <1>1 DEF RequestHeld
<1>3. Carries(r, W) /\ Held(D, r.from, W)
  BY <1>1, <1>2 DEF Carries, MatchOf, Held
<1>4. q.leaderCommit \in Nat
  BY <1>1, RequestFields DEF LocalInv, OrderInv
<1>5. q.leaderCommit <= Len(W)
  BY <1>2, <1>4, CommittedFits
<1>6. Committed(D, W, r.leaderCommit)
  BY <1>1, <1>2, <1>4, <1>5, AgreeSelf, CommittedStays, LogFacts
<1> QED
  BY <1>3, <1>6 DEF RequestHeld

\* What a server was given stays what its log says.
LEMMA AppliedStays ==
    ASSUME LocalInv, TypeOK', NEW s \in Server, AppliedFits(s), KeepsApplied(s)
    PROVE  AppliedFits(s)'
<1>1. /\ lastApplied[s] \in Nat \ {0} /\ commitIndex[s] \in Nat
      /\ commitIndex'[s] \in Nat /\ lastApplied'[s] = lastApplied[s]
  BY DEF LocalInv, OrderInv, TypeOK, LogTypeOK, KeepsApplied
<1>2. lastApplied'[s] <= commitIndex'[s] + 1
  BY <1>1 DEF AppliedFits, KeepsApplied
<1>3. PICK f : Gives(f, applied[s], log[s], lastApplied[s] - 1)
  BY DEF AppliedFits
<1>4. \A i \in 1..(lastApplied[s] - 1) : log'[s][i] = log[s][i]
  BY DEF KeepsApplied, Agree
<1>5. Gives(f, applied'[s], log'[s], lastApplied'[s] - 1)
  BY <1>1, <1>3, <1>4 DEF Gives, KeepsApplied
<1> QED
  BY <1>2, <1>5 DEF AppliedFits, Gives

\* A step that keeps, server by server, what it does not establish anew.
LEMMA CommitsGrow ==
    ASSUME LocalInv, LocalInv', NEW A, NEW D, A \subseteq D, CommitsFit(A),
           \A s \in Server : \/ KeepsCommitted(s)
                             \/ Committed(D, log'[s], commitIndex'[s]),
           \A r \in requests' : \/ RequestHeld(D, r)
                                \/ \E q \in requests :
                                     r = q \/ r = [q EXCEPT !.orphan = TRUE],
           \A p \in replies' : p \in replies \/ ReplyHeld(D, p),
           \A s \in Server : KeepsPeers(s) \/ PeersFit(D, s)',
           \A s \in Server : KeepsApplied(s) \/ AppliedFits(s)',
           \A s \in Server : proc'[s] # "panicked"
    PROVE  CommitsFit(D)'
<1>0. TypeOK /\ TypeOK'
  BY DEF LocalInv, OrderInv
<1>1. ASSUME NEW s \in Server PROVE Committed(D, log'[s], commitIndex'[s])
  <2>1. CASE KeepsCommitted(s)
    <3>1. log[s] \in Seq(Entry) /\ log'[s] \in Seq(Entry)
      BY <1>0 DEF TypeOK, LogTypeOK
    <3>2. Committed(A, log[s], commitIndex[s])
      BY DEF CommitsFit
    <3> QED
      BY <2>1, <3>1, <3>2, CommittedStays DEF KeepsCommitted
  <2> QED
    BY <2>1
<1>2. \A r \in requests' : RequestHeld(D, r)
  BY RequestHeldStays DEF CommitsFit
<1>3. \A p \in replies' : ReplyHeld(D, p)
  BY DEF CommitsFit, ReplyHeld, Acked
<1>4. ASSUME NEW s \in Server PROVE PeersFit(D, s)'
  <2> SUFFICES ASSUME KeepsPeers(s) PROVE PeersFit(D, s)'
    OBVIOUS
  <2> SUFFICES ASSUME state'[s] = "leader", NEW m \in Server
               PROVE  /\ \/ matchIndex'[s][m] = 0
                         \/ Acked(D, m, currentTerm'[s], matchIndex'[s][m])
                      /\ nextIndex'[s][m] >= 1
                      /\ nextIndex'[s][m] <= Len(log'[s]) + 1
    BY DEF PeersFit, Acked, LastTerm, TermAt
  <2>1. /\ PeersFit(A, s) /\ state[s] = "leader"
        /\ currentTerm'[s] = currentTerm[s]
        /\ matchIndex'[s] = matchIndex[s] /\ nextIndex'[s] = nextIndex[s]
        /\ Len(log[s]) <= Len(log'[s])
    BY DEF KeepsPeers, CommitsFit
  <2>2. /\ nextIndex[s][m] \in Nat /\ Len(log[s]) \in Nat /\ Len(log'[s]) \in Nat
    BY <1>0, LogFacts DEF TypeOK, LogTypeOK, PeerTypeOK
  <2> QED
    BY <2>1, <2>2 DEF PeersFit, Acked
<1>5. \A s \in Server : AppliedFits(s)'
  BY <1>0, AppliedStays DEF CommitsFit
<1> QED
  BY <1>1, <1>2, <1>3, <1>4, <1>5
     DEF CommitsFit, Committed, Chosen, Majority, Agree, RequestHeld, Held,
         Carries, MatchOf, ReplyHeld, Acked, LastTerm, TermAt

\* What is not touched is kept.
LEMMA KeepsAll ==
    ASSUME LocalInv, NEW A, CommitsFit(A), NEW s \in Server,
           log'[s] = log[s], commitIndex'[s] = commitIndex[s],
           lastApplied'[s] = lastApplied[s], applied'[s] = applied[s]
    PROVE  KeepsCommitted(s) /\ KeepsApplied(s)
<1>0. TypeOK
  BY DEF LocalInv, OrderInv
<1>1. /\ log[s] \in Seq(Entry) /\ commitIndex[s] \in Nat
      /\ lastApplied[s] \in Nat \ {0} /\ LastTerm(log[s]) \in Nat
  BY <1>0, ServerTypes DEF TypeOK, LogTypeOK
<1>2. Committed(A, log[s], commitIndex[s]) /\ AppliedFits(s)
  BY DEF CommitsFit
<1>3. commitIndex[s] <= Len(log[s]) /\ Len(log[s]) \in Nat
  BY <1>1, <1>2, CommittedFits, LogFacts
<1>4. lastApplied[s] - 1 \in Nat /\ lastApplied[s] - 1 <= Len(log[s])
  BY <1>1, <1>2, <1>3 DEF AppliedFits
<1>5. /\ Agree(log[s], log'[s], commitIndex[s])
      /\ Agree(log[s], log'[s], lastApplied[s] - 1)
  BY <1>1, <1>3, <1>4 DEF Agree
<1> QED
  BY <1>1, <1>5 DEF KeepsCommitted, KeepsApplied, LastTerm, TermAt

\* A step that changes no log, no index and nothing a leader knows.
LEMMA CommitsQuiet ==
    ASSUME LocalInv, LocalInv', NEW A, CommitsFit(A), LeadersStay,
           UNCHANGED <<log, commitIndex, lastApplied, applied>>,
           RequestsDescend,
           \A p \in replies' : p \in replies \/ p.kind = "vote" \/ ~p.success,
           \A s \in Server : state'[s] = "leader" =>
               matchIndex'[s] = matchIndex[s] /\ nextIndex'[s] = nextIndex[s],
           \A s \in Server : proc'[s] # "panicked"
    PROVE  CommitsFit(A)'
<1>1. \A s \in Server : KeepsCommitted(s) /\ KeepsApplied(s)
  BY KeepsAll
<1>2. \A s \in Server : KeepsPeers(s)
  BY ServerTypes DEF LeadersStay, KeepsPeers
<1>3. \A p \in replies' : p \in replies \/ ReplyHeld(A, p)
  BY DEF ReplyHeld
<1> QED
  BY <1>1, <1>2, <1>3, CommitsGrow DEF RequestsDescend

-----------------------------------------------------------------------------
(* Every step, one lemma per action *)

\* A step leads to holdings that explain the logs and what is committed.
HoldingsBecome(A, C) ==
    \E D : A \subseteq D /\ LogsFit(D, C)' /\ CommitsFit(D)'

\* No process panics by a step.
NoneDies == \A s \in Server : proc'[s] # "panicked"

\* A step that changes no log and no index makes no new holding.
LEMMA HoldingsQuiet ==
    ASSUME LocalInv, LocalInv', NEW A, NEW B, NEW C, LogsFit(A, B), CommitsFit(A),
           BallotsBecome(B, C), LeadersStay, StandsInNewTerms,
           UNCHANGED <<log, commitIndex, lastApplied, applied>>,
           RequestsDescend,
           \A p \in replies' : p \in replies \/ p.kind = "vote" \/ ~p.success,
           \A s \in Server : state'[s] = "leader" =>
               matchIndex'[s] = matchIndex[s] /\ nextIndex'[s] = nextIndex[s],
           NoneDies
    PROVE  HoldingsBecome(A, C)
<1>1. LogsFit(A, C)' /\ CommitsFit(A)'
  BY LogsQuiet, CommitsQuiet DEF NoneDies
<1> QED
  BY <1>1 DEF HoldingsBecome

\* Steps of the loop, of the network and of the operator.
LEMMA HoldingsIdle ==
    ASSUME Prompt, LocalInv, LocalInv', NEW s \in Server,
           \/ Stop(s) \/ Crash(s) \/ heartbeat(s) \/ LoopReadsState(s)
           \/ LeaveBranch(s) \/ RPCError \/ UNCHANGED vars,
           NEW A, NEW B, NEW C, LogsFit(A, B), CommitsFit(A), BallotsBecome(B, C)
    PROVE  HoldingsBecome(A, C)
<1>0. TypeOK /\ NoneDies \in BOOLEAN /\ \A n \in Server : proc[n] # "panicked"
  BY DEF LocalInv, OrderInv, CommitsFit, NoneDies
<1>1. LeadersStay /\ StandsInNewTerms
  BY SteadyIdle, SteadyLeadersStay
<1>2. /\ UNCHANGED <<log, commitIndex, lastApplied, applied, nextIndex, matchIndex>>
      /\ replies' \subseteq replies /\ RequestsDescend
  <2>1. CASE Stop(s) \/ heartbeat(s) \/ LoopReadsState(s) \/ LeaveBranch(s)
             \/ UNCHANGED vars
    BY <2>1 DEF Stop, heartbeat, LoopReadsState, LeaveBranch, vars, logVars,
                peerVars, callVars, RequestsDescend
  <2>2. CASE Crash(s)
    BY <2>2, DieQuiet DEF Crash, Die, logVars, peerVars
  <2>3. CASE RPCError
    BY <2>3 DEF RPCError, logVars, peerVars, RequestsDescend
  <2> QED
    BY <2>1, <2>2, <2>3
<1>3. NoneDies
  <2>1. CASE Stop(s)
    BY <1>0, <2>1 DEF Stop, NoneDies, TypeOK, NodeTypeOK
  <2>2. CASE Crash(s)
    BY <1>0, <2>2 DEF Crash, Die, NoneDies, TypeOK, NodeTypeOK
  <2>3. CASE UNCHANGED proc
    BY <1>0, <2>3 DEF NoneDies
  <2> QED
    BY <2>1, <2>2, <2>3 DEF heartbeat, LoopReadsState, LeaveBranch, RPCError,
                            vars, nodeVars
<1> QED
  BY <1>1, <1>2, <1>3, HoldingsQuiet

\* Building a vote request: every member has its slot.
LEMMA HoldingsBuildVote ==
    ASSUME Prompt, LocalInv, LocalInv', NEW g \in goroutines, BuildRequestVote(g),
           NEW A, NEW B, NEW C, LogsFit(A, B), CommitsFit(A), BallotsBecome(B, C)
    PROVE  HoldingsBecome(A, C)
<1>1. g.from \in Server /\ \A n \in Server : proc[n] # "panicked"
  BY DEF LocalInv, OrderInv, TypeOK, CallTypeOK, Goroutine, CommitsFit
<1>2. ~SlotLost(g)
  <2>1. g.to \in Server
    BY DEF LocalInv, OrderInv, TypeOK, CallTypeOK, Goroutine
  <2> QED
    BY <1>1, <2>1, FixedMembers
<1>3. PICK q : /\ q.kind = "vote" /\ requests' = requests \cup {q}
               /\ UNCHANGED <<nodeVars, logVars, peerVars, replies, faults>>
  BY <1>2 DEF BuildRequestVote
<1>4. LeadersStay /\ StandsInNewTerms
  BY SteadyBuild, SteadyLeadersStay
<1>5. LogsFit(A, C)'
  BY <1>3, <1>4, LogsQuiet DEF logVars
<1>6. \A s \in Server : KeepsCommitted(s) /\ KeepsApplied(s)
  BY <1>3, KeepsAll DEF logVars
<1>7. \A s \in Server : KeepsPeers(s)
  BY <1>3, ServerTypes DEF KeepsPeers, nodeVars, logVars, peerVars
<1>8. \A r \in requests' : \/ RequestHeld(A, r)
                           \/ \E p \in requests :
                                r = p \/ r = [p EXCEPT !.orphan = TRUE]
  BY <1>3 DEF RequestHeld
<1>9. \A s \in Server : proc'[s] # "panicked"
  BY <1>1, <1>3 DEF nodeVars
<1>10. CommitsFit(A)'
  BY <1>3, <1>6, <1>7, <1>8, <1>9, CommitsGrow
<1> QED
  BY <1>5, <1>10 DEF HoldingsBecome


\* Nobody's role changes: leaders stay, nobody stands.
LEMMA RolesStay ==
    ASSUME LocalInv, UNCHANGED <<state, currentTerm, log>>
    PROVE  LeadersStay /\ StandsInNewTerms
<1>1. \A s \in Server : currentTerm[s] \in Nat
  BY ServerTypes
<1> QED
  BY <1>1 DEF LeadersStay, StandsInNewTerms

\* A new candidate has no new log.
LEMMA HoldingsTimeout ==
    ASSUME Prompt, LocalInv, LocalInv', NEW s \in Server, Timeout(s),
           NEW A, NEW B, NEW C, LogsFit(A, B), CommitsFit(A), BallotsBecome(B, C)
    PROVE  HoldingsBecome(A, C)
<1>1. /\ state'[s] = "candidate" /\ currentTerm'[s] = currentTerm[s] + 1
      /\ UNCHANGED <<log, requests, replies>>
      /\ \A n \in Server : n # s =>
            state'[n] = state[n] /\ currentTerm'[n] = currentTerm[n]
  BY TimeoutEffect
<1>2. UNCHANGED <<proc, commitIndex, lastApplied, applied, nextIndex, matchIndex>>
  BY DEF Timeout, logVars
<1>3. \A n \in Server : currentTerm[n] \in Nat
  BY ServerTypes
<1>4. LeadersStay
  BY <1>1 DEF LeadersStay
<1>5. StandsInNewTerms
  BY <1>1, <1>3 DEF StandsInNewTerms
<1>6. RequestsDescend /\ NoneDies
  BY <1>1, <1>2 DEF RequestsDescend, NoneDies, CommitsFit
<1> QED
  BY <1>1, <1>2, <1>4, <1>5, <1>6, HoldingsQuiet

\* A voter's log stays.
LEMMA HoldingsGrant ==
    ASSUME LocalInv, LocalInv', NEW r \in requests, HandleRequestVoteRequest(r),
           NEW A, NEW B, NEW C, LogsFit(A, B), CommitsFit(A), BallotsBecome(B, C)
    PROVE  HoldingsBecome(A, C)
<1>1. PICK p : /\ p.kind = "vote" /\ requests' = requests \ {r}
               /\ replies' \subseteq replies \cup {p}
  BY DEF HandleRequestVoteRequest
<1>2. UNCHANGED <<proc, log, commitIndex, lastApplied, applied, nextIndex, matchIndex>>
  BY DEF HandleRequestVoteRequest, logVars
<1>3. LeadersStay /\ StandsInNewTerms
  BY SteadyHandleRequestVoteRequest, SteadyLeadersStay
<1>4. RequestsDescend /\ NoneDies
  BY <1>1, <1>2 DEF RequestsDescend, NoneDies, CommitsFit
<1> QED
  BY <1>1, <1>2, <1>3, <1>4, HoldingsQuiet

\* A server that steps down keeps its log.
LEMMA HoldingsStepDown ==
    ASSUME LocalInv, LocalInv', NEW r \in replies, StepDown(r),
           NEW A, NEW B, NEW C, LogsFit(A, B), CommitsFit(A), BallotsBecome(B, C)
    PROVE  HoldingsBecome(A, C)
<1>1. /\ UNCHANGED <<proc, log, commitIndex, lastApplied, applied, nextIndex,
                     matchIndex, requests>>
      /\ replies' \subseteq replies
  BY DEF StepDown, logVars
<1>2. LeadersStay /\ StandsInNewTerms
  BY SteadyStepDown, SteadyLeadersStay
<1>3. RequestsDescend /\ NoneDies
  BY <1>1 DEF RequestsDescend, NoneDies, CommitsFit
<1> QED
  BY <1>1, <1>2, <1>3, HoldingsQuiet

\* A vote that is counted changes no log; its member has a slot.
LEMMA HoldingsCounted ==
    ASSUME Prompt, LocalInv, LocalInv', NEW r \in replies,
           HandleRequestVoteResponse(r),
           NEW A, NEW B, NEW C, LogsFit(A, B), CommitsFit(A), BallotsBecome(B, C)
    PROVE  HoldingsBecome(A, C)
<1>1. CASE StepDown(r)
  BY <1>1, HoldingsStepDown
<1>2. CASE ~StepDown(r)
  <2>1. /\ r.from \in Server /\ r.to \in Server
        /\ UNCHANGED <<state, currentTerm, log, requests>>
        /\ replies' \subseteq replies
    BY <1>2, CountEffect
  <2>2. ~SlotLost(r)
    BY <2>1, FixedMembers
  <2>3. UNCHANGED <<proc, commitIndex, lastApplied, applied, nextIndex, matchIndex>>
    BY <1>2, <2>2 DEF HandleRequestVoteResponse, nodeVars, logVars
  <2>4. LeadersStay /\ StandsInNewTerms
    BY <2>1, RolesStay
  <2>5. RequestsDescend /\ NoneDies
    BY <2>1, <2>3 DEF RequestsDescend, NoneDies, CommitsFit
  <2> QED
    BY <2>1, <2>3, <2>4, <2>5, HoldingsQuiet
<1> QED
  BY <1>1, <1>2

\* A refused request leaves the log alone.
LEMMA HoldingsRefuse ==
    ASSUME LocalInv, LocalInv', NEW r \in requests, RefuseAppendEntries(r),
           NEW A, NEW B, NEW C, LogsFit(A, B), CommitsFit(A), BallotsBecome(B, C)
    PROVE  HoldingsBecome(A, C)
<1> DEFINE reply == [call |-> r.call, kind |-> "append", from |-> r.from,
                     to |-> r.to, term |-> r.term,
                     rspTerm |-> TermAfter(r.to, r.term), success |-> FALSE,
                     match |-> MatchOf(r)]
<1>1. PICK p : /\ ~p.success /\ requests' = requests \ {r}
               /\ replies' \subseteq replies \cup {p}
  <2>1. ReceiveAppend(r, FALSE)
    BY DEF RefuseAppendEntries
  <2>2. requests' = requests \ {r} /\ replies' \subseteq replies \cup {reply}
    BY <2>1 DEF ReceiveAppend
  <2>3. ~reply.success
    OBVIOUS
  <2> QED
    BY <2>2, <2>3
<1> HIDE DEF reply
<1>2. UNCHANGED <<proc, log, commitIndex, lastApplied, applied, nextIndex, matchIndex>>
  BY DEF RefuseAppendEntries, ReceiveAppend, logVars
<1>3. LeadersStay /\ StandsInNewTerms
  BY SteadyRefuseAppendEntries, SteadyLeadersStay
<1>4. RequestsDescend /\ NoneDies
  BY <1>1, <1>2 DEF RequestsDescend, NoneDies, CommitsFit
<1> QED
  BY <1>1, <1>2, <1>3, <1>4, HoldingsQuiet

\* A restarted server has its log, and has applied nothing of it yet.
LEMMA HoldingsRestart ==
    ASSUME LocalInv, LocalInv', NEW s \in Server, Restart(s), VotesRemembered,
           NEW A, NEW B, NEW C, LogsFit(A, B), CommitsFit(A), BallotsBecome(B, C)
    PROVE  HoldingsBecome(A, C)
<1>0. TypeOK
  BY DEF LocalInv, OrderInv
<1>1. /\ UNCHANGED <<log, currentTerm, requests, replies>>
      /\ proc' = [proc EXCEPT ![s] = "running"]
      /\ state' = [state EXCEPT ![s] = "follower"]
      /\ commitIndex' = [commitIndex EXCEPT ![s] = 0]
      /\ lastApplied' = [lastApplied EXCEPT ![s] = 1]
      /\ applied' = [applied EXCEPT ![s] = <<>>]
  BY DEF Restart, callVars
<1>2. LeadersStay /\ StandsInNewTerms
  BY SteadyRestart, SteadyLeadersStay
<1>3. LogsFit(A, C)'
  BY <1>1, <1>2, LogsQuiet
<1>4. \A n \in Server : \/ n = s
                        \/ KeepsCommitted(n) /\ KeepsApplied(n)
  BY <1>0, <1>1, KeepsAll DEF TypeOK, LogTypeOK
<1>5. commitIndex'[s] = 0 /\ lastApplied'[s] = 1 /\ applied'[s] = <<>>
  BY <1>0, <1>1 DEF TypeOK, LogTypeOK
<1>6. Committed(A, log'[s], commitIndex'[s])
  BY <1>5 DEF Committed
<1>7. AppliedFits(s)'
  <2>1. PICK f : f = [j \in 1..0 |-> j]
    OBVIOUS
  <2>2. Gives(f, <<>>, log'[s], 0)
    BY <2>1 DEF Gives
  <2>3. Gives(f, applied'[s], log'[s], lastApplied'[s] - 1)
    BY <1>5, <2>2
  <2>4. lastApplied'[s] <= commitIndex'[s] + 1
    BY <1>5
  <2> QED
    BY <2>3, <2>4 DEF AppliedFits, Gives
<1>8. \A n \in Server : KeepsPeers(n)
  <2> SUFFICES ASSUME NEW n \in Server, state'[n] = "leader" PROVE KeepsPeers(n)
    BY DEF KeepsPeers
  <2>1. n # s
    BY <1>0, <1>1 DEF TypeOK, NodeTypeOK
  <2>2. matchIndex'[n] = matchIndex[n] /\ nextIndex'[n] = nextIndex[n]
    BY <1>0, <2>1 DEF Restart, TypeOK, PeerTypeOK
  <2> QED
    BY <1>1, <1>2, <2>2, ServerTypes DEF KeepsPeers, LeadersStay
<1>9. \A n \in Server : proc'[n] # "panicked"
  BY <1>0, <1>1 DEF TypeOK, NodeTypeOK, CommitsFit
<1>10. CommitsFit(A)'
  BY <1>1, <1>4, <1>6, <1>7, <1>8, <1>9, CommitsGrow
<1> QED
  BY <1>3, <1>10 DEF HoldingsBecome


\* What a longer log keeps.
LEMMA KeepsLonger ==
    ASSUME LocalInv, LocalInv', NEW A, CommitsFit(A), NEW s \in Server,
           Agree(log[s], log'[s], Len(log[s])), LastTerm(log[s]) <= LastTerm(log'[s]),
           commitIndex'[s] = commitIndex[s],
           lastApplied'[s] = lastApplied[s], applied'[s] = applied[s]
    PROVE  KeepsCommitted(s) /\ KeepsApplied(s)
<1>0. TypeOK /\ TypeOK'
  BY DEF LocalInv, OrderInv
<1>1. /\ log[s] \in Seq(Entry) /\ log'[s] \in Seq(Entry) /\ commitIndex[s] \in Nat
      /\ lastApplied[s] \in Nat \ {0}
  BY <1>0 DEF TypeOK, LogTypeOK
<1>2. Committed(A, log[s], commitIndex[s]) /\ AppliedFits(s)
  BY DEF CommitsFit
<1>3. commitIndex[s] <= Len(log[s]) /\ Len(log[s]) \in Nat
  BY <1>1, <1>2, CommittedFits, LogFacts
<1>4. lastApplied[s] - 1 \in Nat /\ lastApplied[s] - 1 <= Len(log[s])
  BY <1>1, <1>2, <1>3 DEF AppliedFits
<1>5. /\ Agree(log[s], log'[s], commitIndex[s])
      /\ Agree(log[s], log'[s], lastApplied[s] - 1)
  BY <1>1, <1>3, <1>4, AgreeLess
<1> QED
  BY <1>1, <1>5 DEF KeepsCommitted, KeepsApplied

\* A leader's request carries its whole log, from where its member's ends.
LEMMA BuiltCarries ==
    ASSUME Prompt, LocalInv, NEW s \in Server, state[s] = "leader",
           NEW m \in Server, ~BadNext(s, m),
           NEW q, q.prevLogIndex = nextIndex[s][m] - 1,
           q.prevLogTerm = TermAt(log[s], nextIndex[s][m] - 1),
           q.entries = EntriesFor(s, m), q.term = currentTerm[s]
    PROVE  Carries(q, log[s])
<1>0. /\ log[s] \in Seq(Entry) /\ Len(log[s]) \in Nat
      /\ nextIndex[s][m] \in Nat /\ MaxBatch \in Nat
  BY SMTT(30), ServerTypes, BoundAssumption DEF LocalInv, OrderInv, TypeOK, PeerTypeOK
<1>1. MatchOf(q) = Len(log[s])
  BY RequestReachesEnd DEF MatchOf
<1>2. Len(log[s]) > 0 /\ LastTerm(log[s]) = currentTerm[s]
  BY <1>0, LogFacts DEF LocalInv, RolesFit, RoleFits
<1>3. nextIndex[s][m] >= 1 /\ nextIndex[s][m] <= Len(log[s]) + 1
  BY <1>0 DEF BadNext
<1>4. \A i \in 1..Len(q.entries) : q.entries[i] = log[s][q.prevLogIndex + i]
  <2>1. PICK lo \in Nat, hi \in Nat :
           /\ lo = nextIndex[s][m]
           /\ hi = Least(Len(log[s]), nextIndex[s][m] + MaxBatch - 1)
    <3>1. nextIndex[s][m] + MaxBatch - 1 \in Nat
      BY <1>0, <1>3
    <3>2. Least(Len(log[s]), nextIndex[s][m] + MaxBatch - 1) \in Nat
      BY <1>0, <3>1, Zenon DEF Least
    <3> QED
      BY <1>0, <3>2, Zenon
  <2>2. hi <= Len(log[s]) /\ lo >= 1
    BY <1>0, <1>3, <2>1 DEF Least
  <2>3. q.entries = SubSeq(log[s], lo, hi)
    BY <2>1 DEF EntriesFor
  <2>4. \A i \in 1..Len(q.entries) : q.entries[i] = log[s][lo + i - 1]
    BY <1>0, <2>2, <2>3, SubSeqProperties
  <2>5. q.prevLogIndex = lo - 1
    BY <2>1
  <2> SUFFICES ASSUME NEW i \in 1..Len(q.entries)
               PROVE  q.entries[i] = log[s][q.prevLogIndex + i]
    OBVIOUS
  <2>6. i \in Int /\ q.entries[i] = log[s][lo + i - 1]
    BY <2>4
  <2>7. lo + i - 1 = q.prevLogIndex + i
    BY <2>5, <2>6
  <2> QED
    BY <2>6, <2>7
<1> QED
  BY <1>1, <1>2, <1>4 DEF Carries

\* Building a request: no index is out of range.
LEMMA HoldingsBuildAppend ==
    ASSUME Prompt, LocalInv, LocalInv', NEW g \in goroutines,
           BuildAppendEntries(g),
           NEW A, NEW B, NEW C, LogsFit(A, B), CommitsFit(A), BallotsBecome(B, C)
    PROVE  HoldingsBecome(A, C)
<1> DEFINE s == g.from
           m == g.to
           prev == nextIndex[s][m] - 1
           built == [call |-> g.call, kind |-> "append", from |-> s, to |-> m,
                     term |-> currentTerm[s], prevLogIndex |-> prev,
                     prevLogTerm |-> TermAt(log[s], prev),
                     entries |-> EntriesFor(s, m),
                     leaderCommit |-> commitIndex[s], orphan |-> FALSE]
<1>0. TypeOK /\ s \in Server /\ m \in Server /\ g.kind = "append"
      /\ state[s] = "leader"
  BY DEF LocalInv, OrderInv, TypeOK, CallTypeOK, Goroutine, BuildAppendEntries,
         SendersFit
<1>1. ~SlotLost(g) /\ SlotOf(g) = {m}
  BY <1>0, FixedMembers
<1>2. ~BadNext(s, m)
  <2>1. nextIndex[s][m] >= 1 /\ nextIndex[s][m] <= Len(log[s]) + 1
    BY <1>0 DEF CommitsFit, PeersFit
  <2>2. nextIndex[s][m] \in Nat /\ Len(log[s]) \in Nat
    BY <1>0, ServerTypes DEF TypeOK, PeerTypeOK
  <2> QED
    BY <2>1, <2>2 DEF BadNext
<1>3. /\ requests' = requests \cup {built}
      /\ UNCHANGED <<nodeVars, logVars, peerVars, replies, faults>>
  BY <1>1, <1>2 DEF BuildAppendEntries
<1>4. PICK q : q = built
  OBVIOUS
<1>5. Carries(q, log[s])
  BY <1>0, <1>2, <1>4, BuiltCarries
<1>6. RequestHeld(A, q)
  <2>1. log[s] \in Seq(Entry) /\ Held(A, s, log[s])
    BY <1>0, ServerTypes DEF LogsFit
  <2>2. Committed(A, log[s], commitIndex[s])
    BY <1>0 DEF CommitsFit
  <2>3. q.from = s /\ q.leaderCommit = commitIndex[s]
    BY <1>4
  <2> QED
    BY <1>5, <2>1, <2>2, <2>3 DEF RequestHeld
<1>7. requests' = requests \cup {q}
  BY <1>3, <1>4
<1> HIDE DEF built
<1>8. UNCHANGED <<proc, state, currentTerm, log, commitIndex, lastApplied, applied,
                  nextIndex, matchIndex, replies>>
  BY <1>3 DEF nodeVars, logVars, peerVars
<1>9. LeadersStay /\ StandsInNewTerms
  BY <1>8, RolesStay
<1>10. LogsFit(A, C)'
  BY <1>8, <1>9, LogsQuiet
<1>11. \A n \in Server : KeepsCommitted(n) /\ KeepsApplied(n)
  BY <1>8, KeepsAll
<1>12. \A n \in Server : KeepsPeers(n)
  BY <1>8, ServerTypes DEF KeepsPeers
<1>13. \A r \in requests' : \/ RequestHeld(A, r)
                            \/ \E p \in requests :
                                 r = p \/ r = [p EXCEPT !.orphan = TRUE]
  BY <1>6, <1>7
<1>14. \A n \in Server : proc'[n] # "panicked"
  BY <1>8 DEF CommitsFit
<1>15. CommitsFit(A)'
  BY <1>8, <1>11, <1>12, <1>13, <1>14, CommitsGrow
<1> QED
  BY <1>10, <1>15 DEF HoldingsBecome

\* A command appended is nothing committed.
LEMMA HoldingsApply ==
    ASSUME LocalInv, LocalInv', NEW s \in Server, NEW x \in Value, Apply(s, x),
           NEW A, NEW B, NEW C, LogsFit(A, B), CommitsFit(A), BallotsBecome(B, C)
    PROVE  HoldingsBecome(A, C)
<1>0. TypeOK /\ TypeOK'
  BY DEF LocalInv, OrderInv
<1>1. PICK D : A \subseteq D /\ LogsFit(D, C)'
  BY LogsApply
<1>2. /\ UNCHANGED <<proc, state, currentTerm, commitIndex, lastApplied, applied,
                     nextIndex, matchIndex, requests, replies>>
      /\ log' = [log EXCEPT ![s] = Append(@, Command(currentTerm[s], x))]
      /\ state[s] = "leader"
  BY DEF Apply, appendLocked, nodeVars, peerVars
<1>3. /\ Agree(log[s], log'[s], Len(log[s])) /\ Len(log'[s]) = Len(log[s]) + 1
      /\ LastTerm(log[s]) <= LastTerm(log'[s])
  <2>1. Command(currentTerm[s], x) \in Entry
    BY ServerTypes DEF Command, Entry
  <2>2. PICK e \in Entry : e = Command(currentTerm[s], x) /\ e.term = currentTerm[s]
    BY <2>1 DEF Command
  <2>3. log'[s] = Append(log[s], e) /\ log[s] \in Seq(Entry)
    BY <1>0, <1>2, <2>2 DEF TypeOK, LogTypeOK
  <2>4. LastTerm(log'[s]) = currentTerm[s]
    BY <2>2, <2>3, AppendFacts DEF LastTerm, TermAt
  <2> QED
    BY <2>2, <2>3, <2>4, AppendFacts, ServerTypes DEF Agree
<1>4. \A n \in Server : n # s => log'[n] = log[n]
  BY <1>0, <1>2 DEF TypeOK, LogTypeOK
<1>5. ASSUME NEW n \in Server PROVE KeepsCommitted(n) /\ KeepsApplied(n)
  BY <1>2, <1>3, <1>4, KeepsAll, KeepsLonger
<1>6. \A n \in Server : KeepsPeers(n)
  BY <1>2, <1>3, <1>4, ServerTypes DEF KeepsPeers
<1>7. \A n \in Server : proc'[n] # "panicked"
  BY <1>2 DEF CommitsFit
<1>8. CommitsFit(D)'
  BY <1>1, <1>2, <1>5, <1>6, <1>7, CommitsGrow
<1> QED
  BY <1>1, <1>8 DEF HoldingsBecome

\* A new leader knows nothing of its members, and starts at the end of its log.
LEMMA HoldingsElect ==
    ASSUME Prompt, LocalInv, LocalInv', NEW s \in Server, becomeLeader(s),
           NEW A, NEW B, NEW C, LogsFit(A, B), BallotsFit(B), CommitsFit(A),
           BallotsBecome(B, C)
    PROVE  HoldingsBecome(A, C)
<1>0. TypeOK /\ TypeOK'
  BY DEF LocalInv, OrderInv
<1>1. PICK D : A \subseteq D /\ LogsFit(D, C)'
  BY LogsElect
<1>2. /\ state' = [state EXCEPT ![s] = "leader"]
      /\ log' = [log EXCEPT ![s] = Append(@, Noop(currentTerm[s]))]
      /\ Noop(currentTerm[s]) \in Entry
      /\ log'[s] = Append(log[s], Noop(currentTerm[s]))
      /\ Len(log'[s]) = Len(log[s]) + 1
      /\ LastTerm(log'[s]) = currentTerm[s]
      /\ UNCHANGED <<currentTerm, requests, replies>>
  BY BecomeLeaderEffect
<1>3. /\ UNCHANGED <<proc, commitIndex, lastApplied, applied>>
      /\ nextIndex' = [nextIndex EXCEPT ![s] =
                        [m \in Server |-> IF m \in cluster[s]
                                          THEN Len(log[s]) + 2 ELSE @[m]]]
      /\ matchIndex' = [matchIndex EXCEPT ![s] =
                        [m \in Server |-> IF m \in cluster[s] THEN 0 ELSE @[m]]]
  BY DEF becomeLeader
<1>4. /\ Agree(log[s], log'[s], Len(log[s]))
      /\ LastTerm(log[s]) <= LastTerm(log'[s])
  <2>1. PICK old \in Seq(Entry) : old = log[s]
    BY ServerTypes
  <2>2. PICK e \in Entry : e = Noop(currentTerm[s])
    BY <1>2
  <2>3. log'[s] = Append(old, e) /\ Agree(old, Append(old, e), Len(old))
    BY <1>2, <2>1, <2>2, AppendFacts
  <2> QED
    BY <1>2, <2>1, <2>3, ServerTypes DEF Agree
<1>5. \A n \in Server : n # s =>
         /\ log'[n] = log[n] /\ state'[n] = state[n]
         /\ matchIndex'[n] = matchIndex[n] /\ nextIndex'[n] = nextIndex[n]
  BY <1>0, <1>2, <1>3 DEF TypeOK, NodeTypeOK, LogTypeOK, PeerTypeOK
<1>6. ASSUME NEW n \in Server PROVE KeepsCommitted(n) /\ KeepsApplied(n)
  BY <1>3, <1>4, <1>5, KeepsAll, KeepsLonger
<1>7. \A n \in Server : n # s => KeepsPeers(n)
  BY <1>2, <1>5, ServerTypes DEF KeepsPeers
<1>8. PeersFit(D, s)'
  <2>1. \A m \in Server : matchIndex'[s][m] = 0 /\ nextIndex'[s][m] = Len(log[s]) + 2
    BY <1>0, <1>3, FixedMembers DEF TypeOK, PeerTypeOK
  <2> QED
    BY <1>2, <2>1, ServerTypes DEF PeersFit
<1>9. \A n \in Server : proc'[n] # "panicked"
  BY <1>3 DEF CommitsFit
<1>10. CommitsFit(D)'
  BY <1>1, <1>2, <1>6, <1>7, <1>8, <1>9, CommitsGrow
<1> QED
  BY <1>1, <1>10 DEF HoldingsBecome


\* Indices fit the integers that hold them.
NoWrap == MaxLog < Wrap

\* An acknowledged index of a leader's term is in its log, which agrees with
\* what the member has.
LEMMA AckedFits ==
    ASSUME LocalInv, NEW A, NEW B, LogsFit(A, B), NEW s \in Server,
           state[s] = "leader", NEW m, NEW n \in Nat, n > 0,
           Acked(A, m, currentTerm[s], n)
    PROVE  \E h \in A : /\ h.node = m /\ LastTerm(h.log) = currentTerm[s]
                        /\ Agree(h.log, log[s], n)
<1>1. PICK h \in A : h.node = m /\ LastTerm(h.log) = currentTerm[s] /\ n <= Len(h.log)
  BY DEF Acked
<1>2. h.log \in Seq(Entry) /\ Len(h.log) \in Nat /\ log[s] \in Seq(Entry)
  BY HoldingType, ServerTypes DEF LogsFit
<1>3. Len(h.log) \in 1..Len(h.log) /\ h.log[Len(h.log)].term = currentTerm[s]
  BY <1>1, <1>2, LogFacts
<1>4. Agree(h.log, log[s], Len(h.log))
  BY <1>3 DEF LogsFit, LeaderHas
<1>5. Agree(h.log, log[s], n)
  BY <1>1, <1>2, <1>4, AgreeLess
<1> QED
  BY <1>1, <1>5

\* A leader's nextIndex moves, but stays an index of its log.
LEMMA HoldingsAnswered ==
    ASSUME Prompt, NoWrap, LocalInv, LocalInv', NEW r \in replies,
           HandleAppendEntriesResponse(r),
           NEW A, NEW B, NEW C, LogsFit(A, B), CommitsFit(A), BallotsBecome(B, C)
    PROVE  HoldingsBecome(A, C)
<1> DEFINE s == r.from
           m == r.to
           drop == r.rspTerm # r.term /\ state[s] = "leader"
<1>0. /\ TypeOK /\ TypeOK' /\ r.kind = "append"
      /\ s \in Server /\ m \in Server /\ r.match \in Nat
  BY DEF LocalInv, OrderInv, TypeOK, CallTypeOK, VoteReply, AppendReply,
         HandleAppendEntriesResponse
<1>1. CASE StepDown(r)
  BY <1>1, HoldingsStepDown
<1>2. CASE ~StepDown(r)
  <2>1. ~SlotLost(r) /\ SlotOf(r) = {m}
    BY <1>0, FixedMembers
  <2>2. /\ r.rspTerm <= currentTerm[s]
        /\ UNCHANGED <<proc, state, currentTerm, log, commitIndex, lastApplied,
                       applied, requests>>
        /\ replies' \subseteq replies
    BY <1>2, <2>1 DEF HandleAppendEntriesResponse, nodeVars, logVars
  <2>3. \/ UNCHANGED <<nextIndex, matchIndex>>
        \/ /\ ~drop /\ r.success
           /\ nextIndex' = [nextIndex EXCEPT ![s][m] = r.match + 1]
           /\ matchIndex' = [matchIndex EXCEPT ![s][m] = r.match]
        \/ /\ ~drop /\ ~r.success
           /\ nextIndex' = [nextIndex EXCEPT ![s][m] = BackOff(@)]
           /\ UNCHANGED matchIndex
    BY <1>2, <2>1 DEF HandleAppendEntriesResponse
  <2>4. currentTerm[s] = r.term
    <3>1. Timely(r) /\ "reply" \notin Late
      BY DEF HandleAppendEntriesResponse, Prompt
    <3>2. currentTerm[s] \in Nat /\ r.rspTerm \in Nat
      BY <1>0 DEF TypeOK, NodeTypeOK, CallTypeOK, VoteReply, AppendReply
    <3> QED
      BY <2>2, <3>1, <3>2 DEF Timely
  <2>5. ASSUME NEW n \in Server, state'[n] = "leader", NEW k \in Server
        PROVE  /\ \/ matchIndex'[n][k] = 0
                  \/ Acked(A, k, currentTerm[n], matchIndex'[n][k])
               /\ nextIndex'[n][k] >= 1 /\ nextIndex'[n][k] <= Len(log[n]) + 1
    <3>1. /\ state[n] = "leader"
          /\ \/ matchIndex[n][k] = 0
             \/ Acked(A, k, currentTerm[n], matchIndex[n][k])
          /\ nextIndex[n][k] >= 1 /\ nextIndex[n][k] <= Len(log[n]) + 1
          /\ nextIndex[n][k] \in Nat /\ Len(log[n]) \in Nat /\ Len(log[n]) <= MaxLog
      BY <1>0, <2>2, <2>5, ServerTypes
         DEF CommitsFit, PeersFit, TypeOK, PeerTypeOK, LocalInv, RolesFit, RoleFits
    <3>2. CASE matchIndex'[n][k] = matchIndex[n][k] /\ nextIndex'[n][k] = nextIndex[n][k]
      BY <3>1, <3>2
    <3>3. CASE ~(matchIndex'[n][k] = matchIndex[n][k] /\ nextIndex'[n][k] = nextIndex[n][k])
      <4>1. n = s /\ k = m
        BY <1>0, <2>3, <3>3 DEF TypeOK, PeerTypeOK
      <4>2. CASE r.success
        <5>1. matchIndex'[s][m] = r.match /\ nextIndex'[s][m] = r.match + 1
          BY <1>0, <2>3, <3>3, <4>1, <4>2 DEF TypeOK, PeerTypeOK
        <5>2. Acked(A, m, currentTerm[s], r.match)
          BY <1>0, <2>4, <4>2 DEF CommitsFit, ReplyHeld
        <5>3. r.match <= Len(log[s])
          <6>1. CASE r.match = 0
            BY <3>1, <4>1, <6>1
          <6>2. CASE r.match > 0
            <7>1. \E h \in A : Agree(h.log, log[s], r.match)
              BY <1>0, <3>1, <4>1, <5>2, <6>2, AckedFits
            <7> QED
              BY <7>1 DEF Agree
          <6> QED
            BY <1>0, <6>1, <6>2
        <5> QED
          BY <1>0, <3>1, <4>1, <5>1, <5>2, <5>3
      <4>3. CASE ~r.success
        <5>1. matchIndex' = matchIndex /\ nextIndex'[s][m] = BackOff(nextIndex[s][m])
          BY <1>0, <2>3, <3>3, <4>1, <4>3 DEF TypeOK, PeerTypeOK
        <5>2. BackOff(nextIndex[s][m]) =
                 IF nextIndex[s][m] = 1 THEN 1 ELSE nextIndex[s][m] - 1
          <6>1. nextIndex[s][m] - 1 \in Nat /\ nextIndex[s][m] - 1 < Wrap
                /\ Wrap \in Nat \ {0}
            <7>1. MaxLog \in Nat /\ Wrap \in Nat \ {0}
              BY BoundAssumption
            <7>2. PICK x \in Nat, y \in Nat :
                     x = nextIndex[n][k] /\ y = Len(log[n]) /\ x >= 1 /\ x <= y + 1
                     /\ y <= MaxLog
              BY <3>1
            <7>3. x - 1 \in Nat /\ x - 1 < Wrap
              BY <7>1, <7>2 DEF NoWrap
            <7> QED
              BY <4>1, <7>1, <7>2, <7>3
          <6>2. (nextIndex[s][m] - 1) % Wrap = nextIndex[s][m] - 1
            BY <6>1
          <6> QED
            BY <6>2 DEF BackOff
        <5> QED
          BY <3>1, <4>1, <5>1, <5>2
      <4> QED
        BY <4>2, <4>3
    <3> QED
      BY <3>2, <3>3
  <2>6. \A n \in Server : PeersFit(A, n)'
    BY <2>2, <2>5 DEF PeersFit, Acked, LastTerm, TermAt
  <2>7. LeadersStay /\ StandsInNewTerms
    BY <2>2, RolesStay
  <2>8. LogsFit(A, C)'
    BY <2>2, <2>7, LogsQuiet
  <2>9. \A n \in Server : KeepsCommitted(n) /\ KeepsApplied(n)
    BY <2>2, KeepsAll
  <2>10. \A n \in Server : proc'[n] # "panicked"
    BY <2>2 DEF CommitsFit
  <2>11. CommitsFit(A)'
    BY <2>2, <2>6, <2>9, <2>10, CommitsGrow
  <2> QED
    BY <2>8, <2>11 DEF HoldingsBecome
<1> QED
  BY <1>1, <1>2


\* One more entry given to the state machine, if it is a command.
LEMMA GivesNext ==
    ASSUME NEW f, NEW cmds \in Seq(Value), NEW lg, NEW n \in Nat,
           Gives(f, cmds, lg, n), NEW more,
           more = IF lg[n + 1].cmd \in Value THEN Append(cmds, lg[n + 1].cmd)
                  ELSE cmds
    PROVE  \E g : Gives(g, more, lg, n + 1)
<1>1. Len(cmds) \in Nat
  BY LenProperties
<1>2. /\ f \in [1..Len(cmds) -> 1..n]
      /\ \A j \in 1..Len(cmds) : lg[f[j]].cmd = cmds[j]
      /\ \A i, j \in 1..Len(cmds) : i < j => f[i] < f[j]
      /\ \A i \in 1..n : lg[i].cmd \in Value => \E j \in 1..Len(cmds) : f[j] = i
  BY DEF Gives
<1>3. CASE lg[n + 1].cmd \in Value
  <2>1. PICK k : k = Len(cmds)
    OBVIOUS
  <2>2. /\ Len(more) = k + 1 /\ more[k + 1] = lg[n + 1].cmd
        /\ \A j \in 1..k : more[j] = cmds[j]
    BY <1>3, <2>1, AppendProperties
  <2>3. PICK g : g = [j \in 1..(k + 1) |-> IF j = k + 1 THEN n + 1 ELSE f[j]]
    OBVIOUS
  <2>4. g[k + 1] = n + 1 /\ \A j \in 1..k : g[j] = f[j] /\ g[j] \in 1..n
    <3>1. k \in Nat /\ k + 1 \in 1..(k + 1)
      BY <1>1, <2>1
    <3>2. g[k + 1] = n + 1
      BY <2>3, <3>1
    <3>3. ASSUME NEW j \in 1..k PROVE g[j] = f[j] /\ f[j] \in 1..n
      <4>1. j \in 1..(k + 1) /\ j # k + 1 /\ j \in 1..Len(cmds)
        BY <2>1, <3>1
      <4> QED
        BY <1>2, <2>3, <4>1
    <3> QED
      BY <3>2, <3>3
  <2>5. g \in [1..Len(more) -> 1..(n + 1)]
    BY <1>1, <1>2, <2>1, <2>2, <2>3
  <2>6. \A j \in 1..Len(more) : lg[g[j]].cmd = more[j]
    BY <1>1, <1>2, <2>1, <2>2, <2>4
  <2>7. \A i, j \in 1..Len(more) : i < j => g[i] < g[j]
    BY <1>1, <1>2, <2>1, <2>2, <2>4
  <2>8. \A i \in 1..(n + 1) : lg[i].cmd \in Value => \E j \in 1..Len(more) : g[j] = i
    <3> SUFFICES ASSUME NEW i \in 1..(n + 1), lg[i].cmd \in Value
                 PROVE  \E j \in 1..Len(more) : g[j] = i
      OBVIOUS
    <3>1. CASE i = n + 1
      BY <1>1, <2>1, <2>2, <2>4, <3>1
    <3>2. CASE i # n + 1
      <4>1. PICK j \in 1..k : f[j] = i
        BY <1>2, <2>1, <3>2
      <4> QED
        BY <1>1, <2>1, <2>2, <2>4, <4>1
    <3> QED
      BY <3>1, <3>2
  <2> QED
    BY <2>5, <2>6, <2>7, <2>8 DEF Gives
<1>4. CASE ~(lg[n + 1].cmd \in Value)
  <2>1. more = cmds
    BY <1>4
  <2>2. f \in [1..Len(cmds) -> 1..(n + 1)]
    BY <1>2
  <2>3. \A i \in 1..(n + 1) : lg[i].cmd \in Value => i \in 1..n
    BY <1>4
  <2> QED
    BY <1>2, <2>1, <2>2, <2>3 DEF Gives
<1> QED
  BY <1>3, <1>4

\* What advanceCommitIndex finds replicated is committed: the majority that
\* has it also has the leader's own entry of its term.
LEMMA ReplicatedIsCommitted ==
    ASSUME Prompt, LocalInv, NEW A, NEW B, LogsFit(A, B), CommitsFit(A),
           NEW s \in Server, state[s] = "leader", NEW ci \in 1..Len(log[s]),
           Replicated(s, ci)
    PROVE  Committed(A, log[s], ci)
<1> DEFINE Q == {m \in cluster[s] : m = s \/ matchIndex[s][m] >= ci}
<1>0. /\ TypeOK /\ log[s] \in Seq(Entry) /\ currentTerm[s] \in Nat
      /\ Len(log[s]) \in Nat /\ LastTerm(log[s]) = currentTerm[s]
  BY ServerTypes DEF LocalInv, OrderInv, RolesFit, RoleFits
<1>1. Q \subseteq Server
  BY ServerTypes
<1>2. Majority(Q)
  BY <1>1, QuorumIsMajority DEF Replicated
<1>3. ASSUME NEW m \in Q
      PROVE  \E h \in A : /\ h.node = m /\ LastTerm(h.log) = currentTerm[s]
                          /\ Agree(h.log, log[s], ci)
  <2>1. CASE m = s
    <3>1. PICK h : h = [node |-> s, log |-> log[s]]
      OBVIOUS
    <3>2. h \in A /\ h.node = s /\ h.log = log[s]
      BY <3>1 DEF LogsFit, Held
    <3> QED
      BY <1>0, <2>1, <3>2, AgreeSelf
  <2>2. CASE m # s
    <3>1. /\ m \in Server /\ matchIndex[s][m] \in Nat /\ matchIndex[s][m] >= ci
          /\ matchIndex[s][m] > 0
      BY <1>0, <1>1, <2>2 DEF TypeOK, PeerTypeOK
    <3>2. Acked(A, m, currentTerm[s], matchIndex[s][m])
      BY <3>1 DEF CommitsFit, PeersFit
    <3>3. PICK h \in A : /\ h.node = m /\ LastTerm(h.log) = currentTerm[s]
                         /\ Agree(h.log, log[s], matchIndex[s][m])
      BY <3>1, <3>2, AckedFits
    <3>4. h.log \in Seq(Entry)
      BY HoldingType DEF LogsFit
    <3>5. Agree(h.log, log[s], ci)
      BY <1>0, <3>1, <3>3, <3>4, AgreeLess
    <3> QED
      BY <3>3, <3>5
  <2> QED
    BY <2>1, <2>2
<1>4. Chosen(A, log[s], ci, currentTerm[s])
  BY <1>1, <1>2, <1>3 DEF Chosen
<1> QED
  BY <1>0, <1>4 DEF Committed

\* advanceCommitIndex commits what a majority has, applies the next entry,
\* and finds it in the log.
LEMMA HoldingsCommit ==
    ASSUME Prompt, LocalInv, LocalInv', NEW s \in Server, advanceCommitIndex(s),
           NEW A, NEW B, NEW C, LogsFit(A, B), CommitsFit(A), BallotsBecome(B, C)
    PROVE  HoldingsBecome(A, C)
<1>0. /\ TypeOK /\ log[s] \in Seq(Entry) /\ Len(log[s]) \in Nat
      /\ commitIndex[s] \in Nat /\ lastApplied[s] \in Nat \ {0}
      /\ applied[s] \in Seq(Value)
  BY ServerTypes DEF LocalInv, OrderInv, TypeOK, LogTypeOK
<1>1. /\ Committed(A, log[s], commitIndex[s]) /\ AppliedFits(s)
      /\ commitIndex[s] <= Len(log[s])
  BY <1>0, CommittedFits DEF CommitsFit
<1>2. PICK ci \in 0..Len(log[s]) \cup {commitIndex[s]} :
        /\ NewCommit(s, ci)
        /\ \/ /\ lastApplied[s] <= ci /\ lastApplied[s] > Len(log[s])
              /\ Panic(s)
           \/ /\ lastApplied[s] <= ci => lastApplied[s] <= Len(log[s])
              /\ ApplyNext(s, ci)
              /\ commitIndex' = [commitIndex EXCEPT ![s] = ci]
              /\ UNCHANGED <<nodeVars, log, cluster, votedFor, nextIndex,
                             matchIndex, callVars, faults>>
  BY Zenon DEF advanceCommitIndex
<1>3. ci \in Nat /\ ci <= Len(log[s]) /\ commitIndex[s] <= ci
      /\ Committed(A, log[s], ci)
  <2>1. CASE ci = commitIndex[s]
    BY <1>0, <1>1, <2>1
  <2>2. CASE ci # commitIndex[s]
    <3>1. /\ state[s] = "leader" /\ ci \in (commitIndex[s] + 1)..Len(log[s])
          /\ Replicated(s, ci)
      BY <1>2, <2>2 DEF NewCommit
    <3>2. ci \in 1..Len(log[s]) /\ commitIndex[s] <= ci
      BY <1>0, <3>1
    <3> QED
      BY <3>1, <3>2, ReplicatedIsCommitted
  <2> QED
    BY <2>1, <2>2
<1>4. /\ ApplyNext(s, ci)
      /\ commitIndex' = [commitIndex EXCEPT ![s] = ci]
      /\ UNCHANGED <<nodeVars, log, cluster, votedFor, nextIndex, matchIndex,
                     callVars, faults>>
  <2>1. ~(lastApplied[s] <= ci /\ lastApplied[s] > Len(log[s]))
    BY <1>0, <1>3
  <2> QED
    BY <1>2, <2>1
<1>5. UNCHANGED <<proc, state, currentTerm, log, nextIndex, matchIndex, requests, replies>>
  BY <1>4 DEF nodeVars, callVars
<1>6. LeadersStay /\ StandsInNewTerms
  BY <1>5, RolesStay
<1>7. LogsFit(A, C)'
  BY <1>5, <1>6, LogsQuiet
<1>8. \A n \in Server : n # s =>
         /\ commitIndex'[n] = commitIndex[n] /\ lastApplied'[n] = lastApplied[n]
         /\ applied'[n] = applied[n]
  BY <1>0, <1>4 DEF ApplyNext, TypeOK, LogTypeOK
<1>9. commitIndex'[s] = ci
  BY <1>0, <1>4 DEF TypeOK, LogTypeOK
<1>10. Committed(A, log'[s], commitIndex'[s])
  BY <1>3, <1>5, <1>9
<1>11. KeepsApplied(s) \/ AppliedFits(s)'
  <2>1. CASE lastApplied[s] <= ci
    <3>1. PICK f : Gives(f, applied[s], log[s], lastApplied[s] - 1)
      BY <1>1 DEF AppliedFits
    <3>2. PICK n \in Nat : n = lastApplied[s] - 1 /\ lastApplied[s] = n + 1
      BY <1>0
    <3>3. /\ lastApplied'[s] = n + 2
          /\ applied'[s] = AppliedAfter(s, log[s][n + 1].cmd)
      BY <1>0, <1>4, <2>1, <3>2 DEF ApplyNext, TypeOK, LogTypeOK
    <3>4. \E g : Gives(g, applied'[s], log[s], n + 1)
      BY <1>0, <3>1, <3>2, <3>3, GivesNext DEF AppliedAfter
    <3>5. PICK g : Gives(g, applied'[s], log'[s], n + 1)
      BY <1>5, <3>4
    <3>6. lastApplied'[s] - 1 = n + 1
      BY <3>3
    <3>7. Gives(g, applied'[s], log'[s], lastApplied'[s] - 1)
      BY <3>5, <3>6
    <3>8. lastApplied'[s] <= commitIndex'[s] + 1
      <4>1. n + 1 <= ci /\ ci \in Nat
        BY <1>3, <2>1, <3>2
      <4>2. n + 2 <= ci + 1
        BY <4>1
      <4> QED
        BY <1>9, <3>3, <4>2
    <3> QED
      BY <3>7, <3>8 DEF AppliedFits, Gives
  <2>2. CASE ~(lastApplied[s] <= ci)
    <3>1. UNCHANGED <<lastApplied, applied>>
      BY <1>4, <2>2 DEF ApplyNext
    <3>2. lastApplied[s] - 1 \in Nat /\ lastApplied[s] - 1 <= Len(log[s])
      BY <1>0, <1>1 DEF AppliedFits
    <3>3. Agree(log[s], log'[s], lastApplied[s] - 1)
      BY <1>5, <3>2 DEF Agree
    <3> QED
      BY <1>3, <1>9, <3>1, <3>3 DEF KeepsApplied
  <2> QED
    BY <2>1, <2>2
<1>12. \A n \in Server : n # s => KeepsCommitted(n) /\ KeepsApplied(n)
  BY <1>5, <1>8, KeepsAll
<1>13. \A n \in Server : KeepsPeers(n)
  BY <1>5, ServerTypes DEF KeepsPeers
<1>14. \A n \in Server : proc'[n] # "panicked"
  BY <1>5 DEF CommitsFit
<1>15. CommitsFit(A)'
  BY <1>5, <1>10, <1>11, <1>12, <1>13, <1>14, CommitsGrow
<1> QED
  BY <1>7, <1>15 DEF HoldingsBecome


\* A follower that takes what a leader sent keeps what it has committed: the
\* leader's log has it.
LEMMA AcceptKeeps ==
    ASSUME Prompt, LocalInv, NEW r \in requests, AcceptAppendEntries(r),
           NEW A, NEW B, LogsFit(A, B), BallotsFit(B), CommitsFit(A),
           NEW q, NEW W \in Seq(Entry), Held(A, q, W), Carries(r, W)
    PROVE  /\ Agree(log[r.to], log'[r.to], commitIndex[r.to])
           /\ LastTerm(log[r.to]) <= LastTerm(log'[r.to])
           /\ Agree(W, log'[r.to], Len(W)) /\ LastTerm(log'[r.to]) = r.term
<1> DEFINE s == r.to
<1>0. TypeOK /\ s \in Server /\ LastTerm(W) = r.term /\ Len(W) \in Nat
  BY AcceptEffect, LogFacts DEF LocalInv, OrderInv, Carries
<1>1. PICK lg \in Seq(Entry), c \in Nat :
         /\ lg = log[s] /\ c = commitIndex[s]
         /\ Len(lg) \in Nat /\ LastTerm(lg) \in Nat /\ LastTerm(lg) <= r.term
         /\ r.term \in Nat /\ TermsOrdered(lg, currentTerm[s])
  <2>1. /\ log[s] \in Seq(Entry) /\ commitIndex[s] \in Nat /\ r.term \in Nat
        /\ r.term >= currentTerm[s] /\ currentTerm[s] \in Nat
    BY <1>0, RequestFields, AcceptEffect DEF TypeOK, LogTypeOK, NodeTypeOK
  <2>2. LastTerm(log[s]) <= currentTerm[s] /\ LastTerm(log[s]) \in Nat
    BY <1>0, ServerTypes
  <2>3. TermsOrdered(log[s], currentTerm[s])
    BY <1>0 DEF LocalInv, OrderInv, LogTermsOrdered
  <2> QED
    BY <2>1, <2>2, <2>3, LogFacts
<1>2. Committed(A, lg, c) /\ c <= Len(lg)
  BY <1>0, <1>1, CommittedFits DEF CommitsFit
<1>3. \/ UNCHANGED log /\ Agree(W, lg, Len(W)) /\ Len(W) > 0
      \/ /\ log' = [log EXCEPT ![s] = W] /\ UpToDate(W, lg)
         /\ LastTerm(lg) = r.term => Agree(lg, W, Len(lg))
  BY <1>1, AcceptedLog
<1>4. CASE UNCHANGED log /\ Agree(W, lg, Len(W)) /\ Len(W) > 0
  <2>1. log'[s] = lg
    BY <1>1, <1>4
  <2>2. r.term <= LastTerm(lg)
    <3>1. Len(W) \in 1..Len(lg) /\ W[Len(W)] = lg[Len(W)]
      BY <1>0, <1>1, <1>4 DEF Agree
    <3>2. lg[Len(W)].term = r.term
      BY <1>0, <1>4, <3>1, LogFacts
    <3> QED
      BY <1>1, <3>1, <3>2, LastIsLatest
  <2>3. LastTerm(lg) = r.term
    BY <1>1, <2>2
  <2>4. Agree(lg, lg, c)
    BY <1>2, AgreeSelf
  <2> QED
    BY <1>1, <1>4, <2>1, <2>3, <2>4
<1>5. CASE /\ log' = [log EXCEPT ![s] = W] /\ UpToDate(W, lg)
           /\ LastTerm(lg) = r.term => Agree(lg, W, Len(lg))
  <2>1. log'[s] = W
    BY <1>0, <1>5 DEF TypeOK, LogTypeOK
  <2>2. Agree(lg, W, c)
    <3>1. CASE c = 0
      BY <1>0, <1>1, <3>1 DEF Agree
    <3>2. CASE c # 0
      <4>1. PICK t \in Nat : t <= LastTerm(lg) /\ Chosen(A, lg, c, t)
        BY <1>2, <3>2 DEF Committed
      <4>2. CASE r.term > t
        <5>1. PICK k : k = [node |-> q, log |-> W]
          OBVIOUS
        <5>2. k \in A /\ k.log = W
          BY <5>1 DEF Held
        <5>3. Agree(W, lg, c)
          BY <1>0, <4>1, <4>2, <5>2, ChosenSurvives
        <5> QED
          BY <5>3, AgreeSym
      <4>3. CASE ~(r.term > t)
        <5>1. LastTerm(lg) = r.term
          BY <1>1, <4>1, <4>3
        <5> QED
          BY <1>1, <1>2, <1>5, <5>1, AgreeLess
      <4> QED
        BY <4>2, <4>3
    <3> QED
      BY <3>1, <3>2
  <2>3. Agree(W, W, Len(W))
    BY <1>0, AgreeSelf
  <2> QED
    BY <1>0, <1>1, <2>1, <2>2, <2>3
<1> QED
  BY <1>3, <1>4, <1>5

\* What a follower's step leaves alone, and what it sends.
LEMMA AcceptFrame ==
    ASSUME Prompt, LocalInv, LocalInv', NEW r \in requests, AcceptAppendEntries(r)
    PROVE  /\ r.to \in Server /\ state'[r.to] = "follower"
           /\ UNCHANGED <<proc, lastApplied, applied>>
           /\ requests' = requests \ {r}
           /\ \A p \in replies' : p \in replies \/
                /\ p.to = r.to /\ p.term = r.term /\ p.match = MatchOf(r)
           /\ \A n \in Server : n # r.to =>
                /\ commitIndex'[n] = commitIndex[n] /\ state'[n] = state[n]
                /\ currentTerm'[n] = currentTerm[n] /\ log'[n] = log[n]
                /\ matchIndex'[n] = matchIndex[n] /\ nextIndex'[n] = nextIndex[n]
           /\ commitIndex'[r.to] =
                 IF r.leaderCommit > commitIndex[r.to]
                 THEN Least(r.leaderCommit, Len(log'[r.to])) ELSE commitIndex[r.to]
<1> DEFINE s == r.to
           reply == [call |-> r.call, kind |-> "append", from |-> r.from,
                     to |-> s, term |-> r.term, rspTerm |-> TermAfter(s, r.term),
                     success |-> TRUE, match |-> MatchOf(r)]
<1>0. TypeOK /\ s \in Server
  BY AcceptEffect DEF LocalInv, OrderInv
<1>1. /\ state' = [state EXCEPT ![s] = "follower"]
      /\ currentTerm' = [currentTerm EXCEPT ![s] = r.term]
  BY AcceptEffect
<1>2. ReceiveAppend(r, TRUE) /\ UNCHANGED <<lastApplied, applied>>
  BY DEF AcceptAppendEntries
<1>3. /\ UNCHANGED proc /\ requests' = requests \ {r}
      /\ replies' \subseteq replies \cup {reply}
  BY <1>2 DEF ReceiveAppend
<1>4. \A p \in replies' : p \in replies \/
         /\ p.to = r.to /\ p.term = r.term /\ p.match = MatchOf(r)
  BY <1>3
<1>5. \E new, x, y :
         /\ log' = [log EXCEPT ![s] = new]
         /\ commitIndex' = [commitIndex EXCEPT ![s] = CommitOnAppend(s, r, new)]
         /\ matchIndex' = [matchIndex EXCEPT ![s] = x]
         /\ nextIndex' = [nextIndex EXCEPT ![s] = y]
  <2>1. PICK keep \in r.prevLogIndex..Len(log[s]) :
           /\ log' = [log EXCEPT ![s] = NewLog(s, r, keep)]
           /\ commitIndex' = [commitIndex EXCEPT ![s] =
                                 CommitOnAppend(s, r, NewLog(s, r, keep))]
           /\ matchIndex' = [matchIndex EXCEPT ![s] =
                 [m \in Server |-> IF keep < Len(log[s]) \/ m \in Joins(s, r)
                                   THEN 0 ELSE @[m]]]
           /\ nextIndex' = [nextIndex EXCEPT ![s] =
                 IF keep < Len(log[s]) THEN RebuiltNext(s, NewLog(s, r, keep))
                 ELSE [m \in Server |->
                          IF m \in Joins(s, r)
                          THEN r.prevLogIndex + FirstNaming(r.entries, m) + 1
                          ELSE @[m]]]
    BY Zenon DEF AcceptAppendEntries
  <2>2. \E y : nextIndex' = [nextIndex EXCEPT ![s] = y]
    BY <2>1
  <2>3. \E x : matchIndex' = [matchIndex EXCEPT ![s] = x]
    BY <2>1
  <2> QED
    BY <2>1, <2>2, <2>3
<1>6. PICK new, x, y :
         /\ log' = [log EXCEPT ![s] = new]
         /\ commitIndex' = [commitIndex EXCEPT ![s] = CommitOnAppend(s, r, new)]
         /\ matchIndex' = [matchIndex EXCEPT ![s] = x]
         /\ nextIndex' = [nextIndex EXCEPT ![s] = y]
  BY <1>5
<1>7. /\ log'[s] = new /\ commitIndex'[s] = CommitOnAppend(s, r, new)
      /\ state'[s] = "follower"
  BY <1>0, <1>1, <1>6 DEF TypeOK, LogTypeOK, NodeTypeOK
<1>8. \A n \in Server : n # s =>
         /\ commitIndex'[n] = commitIndex[n] /\ state'[n] = state[n]
         /\ currentTerm'[n] = currentTerm[n] /\ log'[n] = log[n]
         /\ matchIndex'[n] = matchIndex[n] /\ nextIndex'[n] = nextIndex[n]
  BY <1>0, <1>1, <1>6 DEF TypeOK, LogTypeOK, NodeTypeOK, PeerTypeOK
<1> QED
  BY <1>0, <1>2, <1>3, <1>4, <1>7, <1>8 DEF CommitOnAppend

\* A follower's log and commit index after it took what a leader sent.
LEMMA HoldingsAccept ==
    ASSUME Prompt, LocalInv, LocalInv', NEW r \in requests,
           AcceptAppendEntries(r), NEW A, NEW B, NEW C, LogsFit(A, B),
           BallotsFit(B), CommitsFit(A), BallotsBecome(B, C)
    PROVE  HoldingsBecome(A, C)
<1> DEFINE s == r.to
<1>0. /\ TypeOK /\ TypeOK' /\ r.kind = "append" /\ s \in Server
      /\ r.leaderCommit \in Nat
  BY AcceptEffect, RequestFields DEF LocalInv, OrderInv, AcceptAppendEntries
<1>1. PICK W \in Seq(Entry) : /\ Held(A, r.from, W) /\ Carries(r, W)
                              /\ Committed(A, W, r.leaderCommit)
  BY <1>0 DEF CommitsFit, RequestHeld
<1>2. PICK D : A \subseteq D /\ LogsFit(D, C)' /\ Held(D, s, log'[s])
  BY <1>1, LogsAccept
<1>3. /\ Agree(log[s], log'[s], commitIndex[s])
      /\ LastTerm(log[s]) <= LastTerm(log'[s])
      /\ Agree(W, log'[s], Len(W)) /\ LastTerm(log'[s]) = r.term
      /\ LastTerm(W) = r.term
  BY <1>1, AcceptKeeps DEF Carries
<1>4. /\ log[s] \in Seq(Entry) /\ log'[s] \in Seq(Entry)
      /\ Len(log'[s]) \in Nat /\ Len(W) \in Nat
      /\ commitIndex[s] \in Nat /\ lastApplied[s] \in Nat \ {0}
  BY <1>0, LogFacts DEF TypeOK, LogTypeOK
<1>5. r.leaderCommit <= Len(W) /\ Len(W) <= Len(log'[s])
  BY <1>0, <1>1, <1>3, CommittedFits DEF Agree
<1>6. commitIndex'[s] = IF r.leaderCommit > commitIndex[s] THEN r.leaderCommit
                        ELSE commitIndex[s]
  <2>1. commitIndex'[s] =
                 IF r.leaderCommit > commitIndex[s]
                 THEN Least(r.leaderCommit, Len(log'[s])) ELSE commitIndex[s]
    BY AcceptFrame
  <2> QED
    BY <1>0, <1>4, <1>5, <2>1 DEF Least
<1>7. KeepsCommitted(s) \/ Committed(D, log'[s], commitIndex'[s])
  <2>1. CASE r.leaderCommit > commitIndex[s]
    <3>1. Agree(W, log'[s], r.leaderCommit)
      BY <1>0, <1>3, <1>4, <1>5, AgreeLess
    <3>2. LastTerm(W) <= LastTerm(log'[s])
      BY <1>3, LogFacts
    <3>3. Committed(D, log'[s], r.leaderCommit)
      BY <1>1, <1>2, <1>4, <3>1, <3>2, CommittedStays
    <3> QED
      BY <1>6, <2>1, <3>3
  <2>2. CASE ~(r.leaderCommit > commitIndex[s])
    BY <1>3, <1>6, <2>2 DEF KeepsCommitted
  <2> QED
    BY <2>1, <2>2
<1>8. \A n \in Server : n # s => KeepsCommitted(n) /\ KeepsApplied(n)
  BY AcceptFrame, KeepsAll
<1>9. KeepsApplied(s)
  <2>1. lastApplied[s] - 1 <= commitIndex[s] /\ lastApplied[s] - 1 \in Nat
    BY <1>0, <1>4 DEF CommitsFit, AppliedFits
  <2>2. Agree(log[s], log'[s], lastApplied[s] - 1)
    BY <1>3, <1>4, <2>1, AgreeLess
  <2>3. commitIndex[s] <= commitIndex'[s]
    BY <1>0, <1>4, <1>6
  <2> QED
    BY <2>2, <2>3, AcceptFrame DEF KeepsApplied
<1>10. \A n \in Server : KeepsPeers(n)
  BY AcceptFrame, ServerTypes DEF KeepsPeers
<1>11. \A p \in replies' : p \in replies \/ ReplyHeld(D, p)
  <2> SUFFICES ASSUME NEW p \in replies', p \notin replies PROVE ReplyHeld(D, p)
    OBVIOUS
  <2>1. p.to = s /\ p.term = r.term /\ p.match = Len(W)
    BY <1>1, AcceptFrame DEF Carries
  <2>2. PICK h : h = [node |-> s, log |-> log'[s]]
    OBVIOUS
  <2>3. h \in D /\ h.node = s /\ h.log = log'[s]
    BY <1>2, <2>2 DEF Held
  <2>4. Acked(D, s, r.term, Len(W))
    BY <1>3, <1>5, <2>3 DEF Acked
  <2> QED
    BY <2>1, <2>4 DEF ReplyHeld
<1>12. \A p \in requests' : p \in requests
  BY AcceptFrame
<1>13. \A n \in Server : proc'[n] # "panicked"
  BY AcceptFrame DEF CommitsFit
<1>14. CommitsFit(D)'
  BY <1>2, <1>7, <1>8, <1>9, <1>10, <1>11, <1>12, <1>13, CommitsGrow
<1> QED
  BY <1>2, <1>14 DEF HoldingsBecome


\* Every prompt step that forgets no vote has its holdings.
LEMMA HoldingsStep ==
    ASSUME Prompt, NoWrap, LocalInv, LocalInv', [Next]_vars, VotesRemembered,
           NEW A, NEW B, NEW C, LogsFit(A, B), BallotsFit(B), CommitsFit(A),
           BallotsBecome(B, C)
    PROVE  HoldingsBecome(A, C)
<1>1. CASE CallStep
  <2>1. CASE RPCError
    <3>1. \E s \in Server : TRUE
      BY <2>1, RequestFields, ReplyFields DEF RPCError, LocalInv, OrderInv
    <3> QED
      BY <2>1, <3>1, HoldingsIdle
  <2>2. ASSUME NEW g \in goroutines, BuildRequestVote(g) \/ BuildAppendEntries(g)
        PROVE  HoldingsBecome(A, C)
    BY <2>2, HoldingsBuildVote, HoldingsBuildAppend
  <2>3. ASSUME NEW r \in requests,
               \/ HandleRequestVoteRequest(r)
               \/ RefuseAppendEntries(r) \/ AcceptAppendEntries(r)
        PROVE  HoldingsBecome(A, C)
    BY <2>3, HoldingsGrant, HoldingsRefuse, HoldingsAccept
  <2>4. ASSUME NEW r \in replies,
               HandleRequestVoteResponse(r) \/ HandleAppendEntriesResponse(r)
        PROVE  HoldingsBecome(A, C)
    BY <2>4, HoldingsCounted, HoldingsAnswered
  <2> QED
    BY <1>1, <2>1, <2>2, <2>3, <2>4 DEF CallStep
<1>2. ASSUME NEW s \in Server, ServerStep(s) PROVE HoldingsBecome(A, C)
  BY <1>2, HoldingsTimeout, HoldingsIdle, HoldingsElect, HoldingsCommit
     DEF ServerStep
<1>3. ASSUME NEW s \in Server, ClientStep(s) PROVE HoldingsBecome(A, C)
  BY <1>3, HoldingsApply, NobodyToAdd DEF ClientStep
<1>4. ASSUME NEW s \in Server, FaultStep(s) PROVE HoldingsBecome(A, C)
  BY <1>4, HoldingsIdle, HoldingsRestart DEF FaultStep
<1>5. CASE UNCHANGED vars
  <2>1. UNCHANGED <<proc, state, currentTerm, log, commitIndex, lastApplied, applied,
                    nextIndex, matchIndex, requests, replies>>
    BY <1>5 DEF vars, nodeVars, logVars, peerVars, callVars
  <2>2. LeadersStay /\ StandsInNewTerms
    BY <2>1, RolesStay
  <2>3. RequestsDescend /\ NoneDies
    BY <2>1 DEF RequestsDescend, NoneDies, CommitsFit
  <2> QED
    BY <2>1, <2>2, <2>3, HoldingsQuiet
<1> QED
  BY <1>1, <1>2, <1>3, <1>4, <1>5 DEF Next

-----------------------------------------------------------------------------
(* The commit invariant *)

\* Some ballots and holdings explain the state.
CommitInv ==
    LocalInv /\ \E A, B : BallotsFit(B) /\ LogsFit(A, B) /\ CommitsFit(A)

\* Init: nobody has had more than the empty log.
LEMMA CommitInit == Init => CommitInv
<1> SUFFICES ASSUME Init PROVE CommitInv
  OBVIOUS
<1>1. LocalInv /\ BallotsFit({})
  BY LocalInit, BallotsInit
<1>2. PICK A : A = {[node |-> s, log |-> <<>>] : s \in Server}
  OBVIOUS
<1>3. /\ <<>> \in Seq(Entry) /\ Len(<<>>) = 0 /\ LastTerm(<<>>) = 0
  BY DEF LastTerm, TermAt
<1>4. \A h \in A : h.node \in Server /\ h.log = <<>> /\ h \in Holding
  <2> SUFFICES ASSUME NEW h \in A
               PROVE  h.node \in Server /\ h.log = <<>> /\ h \in Holding
    OBVIOUS
  <2>1. PICK s \in Server : h = [node |-> s, log |-> <<>>]
    BY <1>2
  <2>2. h.node = s /\ h.log = <<>>
    BY <2>1
  <2>3. h \in Holding
    BY <1>3, <2>1 DEF Holding
  <2> QED
    BY <2>2, <2>3
<1>5. /\ log = [s \in Server |-> <<>>] /\ currentTerm = [s \in Server |-> 0]
      /\ commitIndex = [s \in Server |-> 0] /\ lastApplied = [s \in Server |-> 1]
      /\ applied = [s \in Server |-> <<>>] /\ state = [s \in Server |-> "follower"]
      /\ requests = {} /\ replies = {} /\ proc = [s \in Server |-> "running"]
  BY DEF Init
<1>6. LogsFit(A, {})
  <2>1. \A s \in Server : Held(A, s, log[s])
    BY <1>2, <1>5 DEF Held
  <2>2. LogsMatch(A)
    BY <1>3, <1>4 DEF LogsMatch
  <2>3. SameEnd(A)
    BY <1>3, <1>4 DEF SameEnd, Agree
  <2>4. \A h \in A : HoldingFits(h)
    BY <1>3, <1>4, <1>5 DEF HoldingFits, TermsOrdered, UpToDate
  <2>5. \A h \in A : \A i \in 1..Len(h.log) : Stems(A, {}, h.log, i)
    BY <1>3, <1>4
  <2>6. \A s \in Server : LeaderHas(A, s)
    BY <1>5 DEF LeaderHas
  <2> QED
    BY <1>4, <2>1, <2>2, <2>3, <2>4, <2>5, <2>6 DEF LogsFit
<1>7. CommitsFit(A)
  <2>1. \A s \in Server : Committed(A, log[s], commitIndex[s])
    BY <1>5 DEF Committed
  <2>2. \A s \in Server : PeersFit(A, s)
    BY <1>5 DEF PeersFit
  <2>3. ASSUME NEW s \in Server PROVE AppliedFits(s)
    <3>1. PICK f : f = [j \in 1..0 |-> j]
      OBVIOUS
    <3>2. Gives(f, <<>>, <<>>, 0)
      BY <3>1 DEF Gives
    <3> QED
      BY <1>5, <3>2 DEF AppliedFits
  <2> QED
    BY <1>5, <2>1, <2>2, <2>3 DEF CommitsFit
<1> QED
  BY <1>1, <1>6, <1>7 DEF CommitInv

\* Every prompt step that forgets no vote keeps the commit invariant.
LEMMA CommitStep ==
    ASSUME Prompt, NoWrap, CommitInv, [Next]_vars, VotesRemembered
    PROVE  CommitInv'
<1>1. LocalInv /\ LocalInv' /\ TypeOK'
  BY LocalStep DEF CommitInv, LocalInv, OrderInv
<1>2. PICK A, B : BallotsFit(B) /\ LogsFit(A, B) /\ CommitsFit(A)
  BY DEF CommitInv
<1>3. PICK C : BallotsBecome(B, C)
  BY <1>1, <1>2, BallotsStep
<1>4. PICK D : LogsFit(D, C)' /\ CommitsFit(D)'
  BY <1>1, <1>2, <1>3, HoldingsStep DEF HoldingsBecome
<1>5. BallotsFit(C)'
  BY <1>3 DEF BallotsBecome
<1>6. \E E, F : (BallotsFit(F) /\ LogsFit(E, F) /\ CommitsFit(E))'
  BY <1>4, <1>5
<1> QED
  BY <1>1, <1>6 DEF CommitInv

\* A step that stutters forgets nothing.
LEMMA StutterRemembers ==
    ASSUME TypeOK, UNCHANGED vars
    PROVE  VotesRemembered
<1> SUFFICES ASSUME NEW s \in Server, Restart(s) PROVE FALSE
  BY DEF VotesRemembered
<1>1. proc'[s] = "running" /\ ~Alive(s)
  BY DEF Restart, TypeOK, NodeTypeOK
<1> QED
  BY <1>1 DEF vars, nodeVars, Alive

\* The commit invariant holds in every state prompt schedules reach.
LEMMA CommitAlways ==
    ASSUME Prompt, NoWrap
    PROVE  Spec /\ [][VotesRemembered]_vars => []CommitInv
<1>1. Init => CommitInv
  BY CommitInit
<1>2. CommitInv /\ [Next]_vars /\ [VotesRemembered]_vars => CommitInv'
  <2> SUFFICES ASSUME CommitInv, [Next]_vars, [VotesRemembered]_vars
               PROVE  CommitInv'
    OBVIOUS
  <2>1. VotesRemembered
    BY StutterRemembers DEF CommitInv, LocalInv, OrderInv
  <2> QED
    BY <2>1, CommitStep
<1> QED
  BY <1>1, <1>2, PTL DEF Spec


-----------------------------------------------------------------------------
(* What the invariant says *)

\* Logs with an entry of the same term at the same index agree up to it.
LEMMA LogsMatching == CommitInv => LogMatching
<1> SUFFICES ASSUME CommitInv, NEW s \in Server, NEW t \in Server,
                    NEW i \in 1..Least(Len(log[s]), Len(log[t])),
                    log[s][i].term = log[t][i].term, NEW j \in 1..i
             PROVE  log[s][j] = log[t][j]
  BY DEF LogMatching
<1>1. PICK A, B : LogsFit(A, B)
  BY DEF CommitInv
<1>2. Len(log[s]) \in Nat /\ Len(log[t]) \in Nat
  BY ServerTypes DEF CommitInv
<1>3. i \in 1..Len(log[s]) /\ i <= Len(log[t])
  BY <1>2 DEF Least
<1>4. PICK h, k : h = [node |-> s, log |-> log[s]] /\ k = [node |-> t, log |-> log[t]]
  OBVIOUS
<1>5. h \in A /\ k \in A /\ h.log = log[s] /\ k.log = log[t]
  BY <1>1, <1>4 DEF LogsFit, Held
<1>6. Agree(log[s], log[t], i)
  BY <1>1, <1>3, <1>5 DEF LogsFit, LogsMatch
<1> QED
  BY <1>6 DEF Agree

\* A leader's log has what a server of its term or an earlier one committed.
LEMMA LeadersComplete == CommitInv => LeaderCompleteness
<1> SUFFICES ASSUME CommitInv, NEW l \in Server, NEW s \in Server,
                    state[l] = "leader", currentTerm[s] <= currentTerm[l],
                    NEW i \in 1..commitIndex[s]
             PROVE  i <= Len(log[l]) /\ log[l][i] = log[s][i]
  BY DEF LeaderCompleteness
<1>1. PICK A, B : LogsFit(A, B) /\ BallotsFit(B) /\ CommitsFit(A)
  BY DEF CommitInv
<1>2. PICK lg \in Seq(Entry), kg \in Seq(Entry), c \in Nat, T \in Nat :
         /\ lg = log[s] /\ kg = log[l] /\ c = commitIndex[s] /\ T = currentTerm[l]
         /\ LastTerm(lg) <= T /\ LastTerm(kg) = T /\ c > 0
  <2>1. /\ log[s] \in Seq(Entry) /\ log[l] \in Seq(Entry) /\ commitIndex[s] \in Nat
        /\ currentTerm[l] \in Nat /\ currentTerm[s] \in Nat
        /\ LastTerm(log[s]) <= currentTerm[s] /\ LastTerm(log[s]) \in Nat
    BY ServerTypes DEF CommitInv, LocalInv, OrderInv, TypeOK, LogTypeOK
  <2>2. LastTerm(log[l]) = currentTerm[l]
    BY DEF CommitInv, LocalInv, RolesFit, RoleFits
  <2>3. commitIndex[s] > 0
    BY <2>1
  <2> QED
    BY <2>1, <2>2, <2>3
<1>3. PICK t \in Nat : t <= LastTerm(lg) /\ Chosen(A, lg, c, t)
  BY <1>1, <1>2 DEF CommitsFit, Committed
<1>4. PICK k : k = [node |-> l, log |-> kg]
  OBVIOUS
<1>5. k \in A /\ k.log = kg
  BY <1>1, <1>2, <1>4 DEF LogsFit, Held
<1>6. t <= T
  BY <1>2, <1>3, LogFacts
<1>7. ASSUME t < T PROVE Agree(kg, lg, c)
  BY <1>1, <1>2, <1>3, <1>5, <1>7, ChosenSurvives
<1>8. ASSUME t = T PROVE Agree(kg, lg, c)
  <2>1. PICK h \in A : LastTerm(h.log) = T /\ Agree(h.log, lg, c)
    BY <1>3, <1>8, ChosenHeld
  <2>2. h.log \in Seq(Entry) /\ Len(h.log) \in Nat
    BY <1>1, HoldingType DEF LogsFit
  <2>3. c \in 1..Len(h.log) /\ Len(h.log) \in 1..Len(h.log)
    BY <1>2, <2>1, <2>2 DEF Agree
  <2>4. h.log[Len(h.log)].term = T
    BY <2>1, <2>2, <2>3, LogFacts
  <2>5. Agree(h.log, kg, Len(h.log))
    BY <1>1, <1>2, <2>3, <2>4 DEF LogsFit, LeaderHas
  <2>6. Agree(h.log, kg, c)
    BY <1>2, <2>2, <2>3, <2>5, AgreeLess
  <2> QED
    BY <1>2, <2>1, <2>6, AgreeSym, AgreeTrans
<1>9. Agree(kg, lg, c)
  BY <1>6, <1>7, <1>8
<1> QED
  BY <1>2, <1>9 DEF Agree

\* What a leader counts as stored is in its member's log, unless the member
\* has left the term.
LEMMA MatchesSound == CommitInv => MatchIndexSound
<1> SUFFICES ASSUME CommitInv, NEW s \in Server, NEW m \in cluster[s],
                    state[s] = "leader", currentTerm[m] = currentTerm[s],
                    NEW i \in 1..matchIndex[s][m]
             PROVE  i <= Len(log[m]) /\ i <= Len(log[s]) /\ log[m][i] = log[s][i]
  BY DEF MatchIndexSound
<1>1. PICK A, B : LogsFit(A, B) /\ CommitsFit(A)
  BY DEF CommitInv
<1>2. /\ m \in Server /\ LocalInv /\ currentTerm[s] \in Nat
      /\ log[m] \in Seq(Entry) /\ log[s] \in Seq(Entry) /\ LastTerm(log[m]) \in Nat
      /\ LastTerm(log[m]) <= currentTerm[s] /\ Len(log[m]) \in Nat
  <2>1. LocalInv /\ m \in Server
    BY ServerTypes DEF CommitInv
  <2> QED
    BY <2>1, ServerTypes
<1>3. PICK n \in Nat : n = matchIndex[s][m] /\ n > 0
  BY <1>2 DEF LocalInv, OrderInv, TypeOK, PeerTypeOK
<1>4. Acked(A, m, currentTerm[s], n)
  BY <1>1, <1>2, <1>3 DEF CommitsFit, PeersFit
<1>5. PICK h \in A : /\ h.node = m /\ LastTerm(h.log) = currentTerm[s]
                     /\ Agree(h.log, log[s], n)
  <2>1. LocalInv /\ LogsFit(A, B) /\ state[s] = "leader" /\ n > 0
    BY <1>1, <1>2, <1>3
  <2> QED
    BY <1>4, <2>1, AckedFits
<1>6. h.log \in Seq(Entry) /\ Len(h.log) \in Nat /\ n <= Len(h.log)
  BY <1>1, <1>5, HoldingType DEF LogsFit, Agree
<1>7. UpToDate(log[m], h.log)
  BY <1>1, <1>5 DEF LogsFit, HoldingFits
<1>8. LastTerm(log[m]) = LastTerm(h.log) /\ Len(h.log) <= Len(log[m])
  BY <1>2, <1>5, <1>6, <1>7 DEF UpToDate
<1>9. PICK k : k = [node |-> m, log |-> log[m]]
  OBVIOUS
<1>10. k \in A /\ k.log = log[m]
  BY <1>1, <1>2, <1>9 DEF LogsFit, Held
<1>11. Agree(h.log, log[m], Len(h.log))
  BY <1>1, <1>8, <1>10 DEF LogsFit, SameEnd
<1>12. Agree(log[m], h.log, n)
  BY <1>2, <1>3, <1>6, <1>11, AgreeLess, AgreeSym
<1>13. Agree(log[m], log[s], n)
  BY <1>5, <1>12, AgreeTrans
<1> QED
  BY <1>3, <1>13 DEF Agree

\* What two servers have committed is the same.
LEMMA CommittedAgree ==
    ASSUME NEW A, NEW B, LogsFit(A, B), BallotsFit(B),
           NEW lg \in Seq(Entry), NEW kg \in Seq(Entry),
           NEW c \in Nat, NEW d \in Nat, Committed(A, lg, c), Committed(A, kg, d),
           NEW n \in Nat, n <= c, n <= d
    PROVE  Agree(lg, kg, n)
<1> SUFFICES ASSUME n # 0 PROVE Agree(lg, kg, n)
  BY LogFacts DEF Agree
<1>1. PICK t \in Nat : Chosen(A, lg, c, t)
  BY DEF Committed
<1>2. PICK u \in Nat : Chosen(A, kg, d, u)
  BY DEF Committed
<1>3. PICK h \in A : LastTerm(h.log) = t /\ Agree(h.log, lg, c)
  BY <1>1, ChosenHeld
<1>4. PICK k \in A : LastTerm(k.log) = u /\ Agree(k.log, kg, d)
  BY <1>2, ChosenHeld
<1>5. /\ h.log \in Seq(Entry) /\ k.log \in Seq(Entry)
      /\ Len(h.log) \in Nat /\ Len(k.log) \in Nat
  BY HoldingType DEF LogsFit
<1>6. Agree(h.log, lg, n) /\ Agree(k.log, kg, n)
  BY <1>3, <1>4, <1>5, AgreeLess
<1>7. n <= Len(h.log) /\ n <= Len(k.log)
  BY <1>6 DEF Agree
<1>8. CASE t < u
  <2>1. Agree(k.log, lg, c)
    BY <1>1, <1>4, <1>8, ChosenSurvives
  <2>2. Agree(lg, k.log, n)
    BY <1>5, <2>1, AgreeLess, AgreeSym
  <2> QED
    BY <1>6, <2>2, AgreeTrans
<1>9. CASE u < t
  <2>1. Agree(h.log, kg, d)
    BY <1>2, <1>3, <1>9, ChosenSurvives
  <2>2. Agree(h.log, kg, n)
    BY <1>5, <2>1, AgreeLess
  <2> QED
    BY <1>6, <2>2, AgreeSym, AgreeTrans
<1>10. CASE t = u
  <2>1. Agree(h.log, k.log, n)
    <3>1. CASE Len(h.log) <= Len(k.log)
      <4>1. Agree(h.log, k.log, Len(h.log))
        BY <1>3, <1>4, <1>10, <3>1 DEF LogsFit, SameEnd
      <4> QED
        BY <1>5, <1>7, <4>1, AgreeLess
    <3>2. CASE ~(Len(h.log) <= Len(k.log))
      <4>1. Agree(k.log, h.log, Len(k.log))
        BY <1>3, <1>4, <1>5, <1>10, <3>2 DEF LogsFit, SameEnd
      <4> QED
        BY <1>5, <1>7, <4>1, AgreeLess, AgreeSym
    <3> QED
      BY <3>1, <3>2
  <2>2. Agree(lg, h.log, n)
    BY <1>6, AgreeSym
  <2> QED
    BY <1>6, <2>1, <2>2, AgreeTrans
<1> QED
  BY <1>8, <1>9, <1>10

\* Of two servers that were given the commands of logs that agree, neither
\* was given another one first.
LEMMA GivesSame ==
    ASSUME NEW f, NEW cmds \in Seq(Value), NEW lg, NEW n \in Nat, Gives(f, cmds, lg, n),
           NEW g, NEW dmds \in Seq(Value), NEW kg, NEW m \in Nat, Gives(g, dmds, kg, m),
           \A i \in 1..n : i <= m => lg[i] = kg[i],
           NEW k \in 1..Len(cmds), k <= Len(dmds),
           \A j \in 1..Len(cmds) : j < k => f[j] = g[j]
    PROVE  ~(f[k] < g[k])
<1> SUFFICES ASSUME f[k] < g[k] PROVE FALSE
  OBVIOUS
<1>1. Len(cmds) \in Nat /\ Len(dmds) \in Nat /\ k \in 1..Len(dmds)
  BY LenProperties
<1>2. PICK x \in 1..n, y \in 1..m : x = f[k] /\ y = g[k] /\ x < y
  BY <1>1 DEF Gives
<1>3. x \in 1..m /\ lg[x] = kg[x]
  BY <1>2
<1>4. lg[x].cmd = cmds[k] /\ cmds[k] \in Value
  <2>1. cmds[k] \in Value
    BY ElementOfSeq
  <2> QED
    BY <1>2, <2>1 DEF Gives
<1>5. PICK j \in 1..Len(dmds) : g[j] = x
  BY <1>3, <1>4 DEF Gives
<1>6. j < k
  <2> SUFFICES ASSUME k <= j PROVE FALSE
    BY <1>1
  <2>1. CASE k = j
    BY <1>2, <1>5, <2>1
  <2>2. CASE k < j
    <3>1. g[k] < g[j]
      BY <1>1, <2>2 DEF Gives
    <3> QED
      BY <1>2, <1>5, <3>1
  <2> QED
    BY <1>1, <2>1, <2>2
<1>7. j \in 1..Len(cmds) /\ f[j] = x
  BY <1>1, <1>5, <1>6
<1>8. f[j] < f[k]
  BY <1>6, <1>7 DEF Gives
<1> QED
  BY <1>2, <1>7, <1>8

\* State machines that were given logs that agree were given the same.
LEMMA GivenSame ==
    ASSUME NEW f, NEW cmds \in Seq(Value), NEW lg, NEW n \in Nat, Gives(f, cmds, lg, n),
           NEW g, NEW dmds \in Seq(Value), NEW kg, NEW m \in Nat, Gives(g, dmds, kg, m),
           \A i \in 1..n : i <= m => lg[i] = kg[i],
           NEW k \in 1..Len(cmds), k <= Len(dmds)
    PROVE  cmds[k] = dmds[k]
<1> DEFINE Differ == {j \in Nat : j \in 1..Len(cmds) /\ j <= Len(dmds) /\ f[j] # g[j]}
<1>0. Len(cmds) \in Nat /\ Len(dmds) \in Nat
  BY LenProperties
<1>1. Differ = {}
  <2> SUFFICES ASSUME Differ # {} PROVE FALSE
    OBVIOUS
  <2>1. PICK d \in Differ : \A j \in Differ : ~(<<j, d>> \in OpToRel(<, Nat))
    BY NatLessThanWellFounded, WFMin
  <2>2. \A j \in Differ : ~(j < d)
    BY <2>1 DEF OpToRel
  <2>3. d \in 1..Len(cmds) /\ d \in 1..Len(dmds) /\ f[d] # g[d]
    BY <1>0
  <2>4. \A j \in Nat : j \in 1..Len(cmds) /\ j < d => f[j] = g[j]
    BY <1>0, <2>2, <2>3
  <2>5. f[d] \in 1..n /\ g[d] \in 1..m
    BY <2>3 DEF Gives
  <2>6. ~(f[d] < g[d])
    BY <2>3, <2>4, GivesSame
  <2>7. ~(g[d] < f[d])
    <3>1. \A i \in 1..m : i <= n => kg[i] = lg[i]
      OBVIOUS
    <3>2. \A j \in 1..Len(dmds) : j < d => g[j] = f[j]
      BY <1>0, <2>3, <2>4
    <3> QED
      BY <2>3, <3>1, <3>2, GivesSame
  <2> QED
    BY <2>3, <2>5, <2>6, <2>7
<1>2. f[k] = g[k] /\ k \in 1..Len(dmds)
  BY <1>0, <1>1
<1>3. f[k] \in 1..n /\ g[k] \in 1..m
  BY <1>2 DEF Gives
<1>4. lg[f[k]] = kg[f[k]]
  BY <1>2, <1>3
<1> QED
  BY <1>2, <1>4 DEF Gives

\* The state machines were given the same commands in the same order.
LEMMA MachinesAgree == CommitInv => StateMachineSafety
<1> SUFFICES ASSUME CommitInv, NEW s \in Server, NEW t \in Server,
                    NEW i \in 1..Least(Len(applied[s]), Len(applied[t]))
             PROVE  applied[s][i] = applied[t][i]
  BY DEF StateMachineSafety
<1>1. PICK A, B : LogsFit(A, B) /\ BallotsFit(B) /\ CommitsFit(A)
  BY DEF CommitInv
<1>2. \A n \in Server :
         /\ log[n] \in Seq(Entry) /\ commitIndex[n] \in Nat
         /\ lastApplied[n] - 1 \in Nat /\ applied[n] \in Seq(Value)
  BY DEF CommitInv, LocalInv, OrderInv, TypeOK, LogTypeOK
<1>3. \A n \in Server :
         /\ Committed(A, log[n], commitIndex[n])
         /\ lastApplied[n] <= commitIndex[n] + 1
         /\ lastApplied[n] \in Nat
  BY <1>1 DEF CommitsFit, AppliedFits, CommitInv, LocalInv, OrderInv, TypeOK, LogTypeOK
<1>4. PICK n \in Nat, m \in Nat : n = lastApplied[s] - 1 /\ m = lastApplied[t] - 1
  BY <1>2
<1>5. n <= commitIndex[s] /\ m <= commitIndex[t]
  BY <1>2, <1>3, <1>4
<1>6. \A j \in 1..n : j <= m => log[s][j] = log[t][j]
  <2> SUFFICES ASSUME NEW j \in 1..n, j <= m PROVE log[s][j] = log[t][j]
    OBVIOUS
  <2>1. j <= commitIndex[s] /\ j <= commitIndex[t] /\ j \in Nat
    BY <1>2, <1>5
  <2>2. Agree(log[s], log[t], j)
    BY <1>1, <1>2, <1>3, <2>1, CommittedAgree
  <2> QED
    BY <2>2 DEF Agree
<1>7. PICK f : Gives(f, applied[s], log[s], n)
  BY <1>1, <1>4 DEF CommitsFit, AppliedFits
<1>8. PICK g : Gives(g, applied[t], log[t], m)
  BY <1>1, <1>4 DEF CommitsFit, AppliedFits
<1>9. i \in 1..Len(applied[s]) /\ i <= Len(applied[t])
  <2>1. Len(applied[s]) \in Nat /\ Len(applied[t]) \in Nat
    BY <1>2, LenProperties
  <2> QED
    BY <2>1 DEF Least
<1>10. PICK cmds \in Seq(Value), dmds \in Seq(Value), lg \in Seq(Entry),
            kg \in Seq(Entry) :
          cmds = applied[s] /\ dmds = applied[t] /\ lg = log[s] /\ kg = log[t]
  BY <1>2
<1>11. Gives(f, cmds, lg, n) /\ Gives(g, dmds, kg, m)
  BY <1>7, <1>8, <1>10
<1>12. \A j \in 1..n : j <= m => lg[j] = kg[j]
  BY <1>6, <1>10
<1>13. i \in 1..Len(cmds) /\ i <= Len(dmds)
  BY <1>9, <1>10
<1>14. cmds[i] = dmds[i]
  BY <1>11, <1>12, <1>13, GivenSame
<1> QED
  BY <1>10, <1>14

\* No index runs out of its slice.
LEMMA NonePanics == CommitInv => NoPanic
  BY DEF CommitInv, CommitsFit, NoPanic

\* A log changes when a leader appends and when a follower takes a request.
LEMMA LogChanges ==
    ASSUME Prompt, LocalInv, [Next]_vars, NEW s \in Server
    PROVE  \/ log'[s] = log[s]
           \/ \E e \in Entry : log'[s] = Append(log[s], e)
           \/ \E r \in requests : r.to = s /\ AcceptAppendEntries(r)
<1>0. TypeOK
  BY DEF LocalInv, OrderInv
<1>1. CASE CallStep
  <2>1. ASSUME NEW r \in requests, AcceptAppendEntries(r), r.to # s
        PROVE  log'[s] = log[s]
    BY <1>0, <2>1, AcceptEffect DEF TypeOK, LogTypeOK
  <2>2. UNCHANGED log \/ \E r \in requests : AcceptAppendEntries(r)
    BY <1>1 DEF CallStep, BuildRequestVote, BuildAppendEntries,
         HandleRequestVoteRequest, RefuseAppendEntries, HandleRequestVoteResponse,
         HandleAppendEntriesResponse, RPCError, StepDown, Panic, Die, logVars
  <2> QED
    BY <2>1, <2>2
<1>2. ASSUME NEW n \in Server, ServerStep(n) \/ ClientStep(n) \/ FaultStep(n)
      PROVE  \/ log'[s] = log[s]
             \/ \E e \in Entry : log'[s] = Append(log[s], e)
  <2>1. CASE becomeLeader(n)
    <3>1. \/ s # n /\ log'[s] = log[s]
          \/ s = n /\ log'[s] = Append(log[s], Noop(currentTerm[s]))
      BY <1>0, <2>1, BecomeLeaderEffect DEF TypeOK, LogTypeOK
    <3> QED
      BY <2>1, <3>1, BecomeLeaderEffect
  <2>2. ASSUME NEW x \in Value, Apply(n, x)
        PROVE  log'[s] = log[s] \/ \E e \in Entry : log'[s] = Append(log[s], e)
    <3>1. log' = [log EXCEPT ![n] = Append(@, Command(currentTerm[n], x))]
      BY <2>2 DEF Apply, appendLocked
    <3>2. Command(currentTerm[n], x) \in Entry
      BY ServerTypes DEF Command, Entry
    <3>3. s = n => log'[s] = Append(log[s], Command(currentTerm[n], x))
      BY <1>0, <3>1 DEF TypeOK, LogTypeOK
    <3>4. s # n => log'[s] = log[s]
      BY <1>0, <3>1 DEF TypeOK, LogTypeOK
    <3> QED
      BY <3>2, <3>3, <3>4
  <2>3. CASE advanceCommitIndex(n)
    <3>1. UNCHANGED log
      BY <2>3, Zenon DEF advanceCommitIndex, Panic, Die, logVars
    <3> QED
      BY <3>1
  <2>4. CASE \/ Timeout(n) \/ LoopReadsState(n) \/ LeaveBranch(n) \/ heartbeat(n)
             \/ FaultStep(n)
    BY <2>4 DEF Timeout, LoopReadsState, LeaveBranch, heartbeat, FaultStep,
         Crash, Stop, Restart, Die, logVars
  <2> QED
    BY <1>2, <2>1, <2>2, <2>3, <2>4, NobodyToAdd DEF ServerStep, ClientStep
<1>3. CASE UNCHANGED vars
  BY <1>3 DEF vars, logVars
<1> QED
  BY <1>1, <1>2, <1>3 DEF Next

\* No step changes or cuts what a server knows to be committed.
LEMMA CommittedKept ==
    ASSUME Prompt, CommitInv, [Next]_vars, NEW s \in Server
    PROVE  Agree(log[s], log'[s], commitIndex[s])
<1>1. PICK A, B : LogsFit(A, B) /\ BallotsFit(B) /\ CommitsFit(A)
  BY DEF CommitInv
<1>2. /\ LocalInv /\ log[s] \in Seq(Entry) /\ commitIndex[s] \in Nat
      /\ Len(log[s]) \in Nat
  BY LogFacts DEF CommitInv, LocalInv, OrderInv, TypeOK, LogTypeOK
<1>3. commitIndex[s] <= Len(log[s])
  BY <1>1, <1>2, CommittedFits DEF CommitsFit
<1>4. CASE log'[s] = log[s]
  BY <1>2, <1>3, <1>4, AgreeSelf
<1>5. CASE \E e \in Entry : log'[s] = Append(log[s], e)
  <2>1. PICK e \in Entry : log'[s] = Append(log[s], e)
    BY <1>5
  <2>2. Agree(log[s], Append(log[s], e), Len(log[s])) /\ Append(log[s], e) \in Seq(Entry)
    BY <1>2, AppendFacts
  <2> QED
    BY <1>2, <1>3, <2>1, <2>2, AgreeLess
<1>6. ASSUME NEW r \in requests, r.to = s, AcceptAppendEntries(r)
      PROVE  Agree(log[s], log'[s], commitIndex[s])
  <2>1. PICK W \in Seq(Entry) : Held(A, r.from, W) /\ Carries(r, W)
    BY <1>1, <1>6 DEF AcceptAppendEntries, CommitsFit, RequestHeld
  <2> QED
    BY <1>1, <1>2, <1>6, <2>1, AcceptKeeps
<1> QED
  BY <1>2, <1>4, <1>5, <1>6, LogChanges

-----------------------------------------------------------------------------
(* Theorems *)

\* Two logs with an entry of the same term at the same index are equal up to
\* it: validPreviousLog and the truncation do what they are for.
THEOREM LogMatchingCorrect ==
    ASSUME Prompt, NoWrap
    PROVE  Spec /\ [][VotesRemembered]_vars => []LogMatching
  BY CommitAlways, LogsMatching, PTL

\* A leader has every entry a server of its term or an earlier one knows to
\* be committed, although advanceCommitIndex commits entries of any term.
THEOREM LeaderCompletenessCorrect ==
    ASSUME Prompt, NoWrap
    PROVE  Spec /\ [][VotesRemembered]_vars => []LeaderCompleteness
  BY CommitAlways, LeadersComplete, PTL

\* What a leader counts as stored by a member of its term is stored there,
\* however late or repeated the answers are.
THEOREM MatchIndexSoundCorrect ==
    ASSUME Prompt, NoWrap
    PROVE  Spec /\ [][VotesRemembered]_vars => []MatchIndexSound
  BY CommitAlways, MatchesSound, PTL

\* The state machines are given the same commands in the same order.
THEOREM StateMachineSafetyCorrect ==
    ASSUME Prompt, NoWrap
    PROVE  Spec /\ [][VotesRemembered]_vars => []StateMachineSafety
  BY CommitAlways, MachinesAgree, PTL

\* No index of appendEntries, of its response or of advanceCommitIndex runs
\* out of its slice.
THEOREM NoPanicCorrect ==
    ASSUME Prompt, NoWrap
    PROVE  Spec /\ [][VotesRemembered]_vars => []NoPanic
  BY CommitAlways, NonePanics, PTL

\* No AppendEntries request makes a server change or cut an entry it knows to
\* be committed.
THEOREM CommittedNeverOverwrittenCorrect ==
    ASSUME Prompt, NoWrap
    PROVE  Spec /\ [][VotesRemembered]_vars => CommittedNeverOverwritten
<1> DEFINE Kept == \A s \in Server : \A i \in 1..commitIndex[s] :
                       i <= Len(log[s]) =>
                           i <= Len(log'[s]) /\ log'[s][i] = log[s][i]
<1>1. CommitInv /\ [Next]_vars => [Kept]_vars
  <2> SUFFICES ASSUME CommitInv, [Next]_vars PROVE Kept
    OBVIOUS
  <2> SUFFICES ASSUME NEW s \in Server, NEW i \in 1..commitIndex[s],
                      i <= Len(log[s])
               PROVE  i <= Len(log'[s]) /\ log'[s][i] = log[s][i]
    OBVIOUS
  <2>1. Agree(log[s], log'[s], commitIndex[s]) /\ commitIndex[s] \in Nat
    BY CommittedKept DEF CommitInv, LocalInv, OrderInv, TypeOK, LogTypeOK
  <2> QED
    BY <2>1 DEF Agree
<1>2. [][Next]_vars /\ []CommitInv => [][Kept]_vars
  BY <1>1, PTL
<1> QED
  BY <1>2, CommitAlways, PTL DEF Spec, CommittedNeverOverwritten

-----------------------------------------------------------------------------
(* The commands of a log, and the replicated log *)

\* The places of a log's commands are finitely many.
LEMMA CommandsAtFinite ==
    ASSUME NEW lg, NEW n \in Nat
    PROVE  /\ IsFiniteSet(CommandsAt(lg, n))
           /\ Cardinality(CommandsAt(lg, n)) \in Nat
<1>1. IsFiniteSet(1..n)
  BY FS_Interval
<1>2. IsFiniteSet(CommandsAt(lg, n))
  BY <1>1, FS_Subset DEF CommandsAt
<1> QED
  BY <1>2, FS_CardinalityType

\* As many numbers are numbered from 1 to j as there are.
LEMMA CountedUp ==
    ASSUME NEW j \in Nat, NEW f, NEW T, f \in [1..j -> T],
           \A a, b \in 1..j : f[a] = f[b] => a = b,
           \A t \in T : \E a \in 1..j : f[a] = t
    PROVE  Cardinality(T) = j
<1>1. f \in Bijection(1..j, T)
  BY Fun_IsBij
<1>2. ExistsBijection(1..j, T)
  BY <1>1, Fun_ExistsBij
<1>3. IsFiniteSet(1..j) /\ Cardinality(1..j) = j
  BY FS_Interval
<1> QED
  BY <1>2, <1>3, FS_Bijection

\* It is given as many commands as there are.
LEMMA CommandsLength ==
    ASSUME NEW lg, NEW n \in Nat
    PROVE  Len(Commands(lg, n)) = Cardinality(CommandsAt(lg, n))
  BY CommandsAtFinite DEF Commands

\* What a state machine was given for the first n entries are the commands of
\* these entries.
LEMMA GivesCommands ==
    ASSUME NEW f, NEW cmds \in Seq(Value), NEW lg, NEW n \in Nat,
           Gives(f, cmds, lg, n)
    PROVE  cmds = Commands(lg, n)
<1> DEFINE At == CommandsAt(lg, n)
           Upto(i) == {k \in At : k <= i}
           Nth(j) == CHOOSE i \in At : Cardinality(Upto(i)) = j
<1>1. PICK l \in Nat : l = Len(cmds) /\ cmds \in [1..l -> Value]
  BY LenProperties
<1>2. /\ f \in [1..l -> 1..n]
      /\ \A j \in 1..l : lg[f[j]].cmd = cmds[j]
      /\ \A i, j \in 1..l : i < j => f[i] < f[j]
      /\ \A i \in 1..n : lg[i].cmd \in Value => \E j \in 1..l : f[j] = i
  BY <1>1 DEF Gives
<1>3. \A j \in 1..l : f[j] \in At /\ f[j] \in Nat
  BY <1>1, <1>2 DEF CommandsAt
<1>4. \A i \in At : \E j \in 1..l : f[j] = i
  BY <1>2 DEF CommandsAt
<1>5. \A i, j \in 1..l : f[i] <= f[j] => i <= j
  <2> SUFFICES ASSUME NEW i \in 1..l, NEW j \in 1..l, f[i] <= f[j], ~(i <= j)
               PROVE  FALSE
    OBVIOUS
  <2>1. f[j] < f[i]
    BY <1>2
  <2> QED
    BY <1>3, <2>1
<1>6. \A i, j \in 1..l : f[i] = f[j] => i = j
  BY <1>3, <1>5
<1>7. Cardinality(At) = l
  <2>1. f \in [1..l -> At]
    BY <1>2, <1>3
  <2> HIDE DEF At
  <2> QED
    BY <1>4, <1>6, <2>1, CountedUp
<1>8. ASSUME NEW j \in 1..l PROVE Cardinality(Upto(f[j])) = j
  <2>1. PICK g : g = [a \in 1..j |-> f[a]]
    OBVIOUS
  <2>2. \A a \in 1..j : a \in 1..l /\ g[a] = f[a]
    BY <2>1
  <2>3. \A a \in 1..j : f[a] <= f[j]
    BY <1>2, <1>3, <2>2
  <2>4. g \in [1..j -> Upto(f[j])]
    BY <1>3, <2>1, <2>2, <2>3
  <2>5. \A t \in Upto(f[j]) : \E a \in 1..j : g[a] = t
    <3> SUFFICES ASSUME NEW t \in Upto(f[j]) PROVE \E a \in 1..j : g[a] = t
      OBVIOUS
    <3>1. PICK a \in 1..l : f[a] = t
      BY <1>4
    <3>2. a <= j
      BY <1>5, <3>1
    <3> QED
      BY <2>2, <3>1, <3>2
  <2>6. \A a, b \in 1..j : g[a] = g[b] => a = b
    BY <1>6, <2>2
  <2>7. j \in Nat
    OBVIOUS
  <2> HIDE DEF Upto
  <2> QED
    BY <2>4, <2>5, <2>6, <2>7, CountedUp
<1>9. ASSUME NEW j \in 1..l PROVE Nth(j) = f[j]
  <2>1. f[j] \in At /\ Cardinality(Upto(f[j])) = j
    BY <1>3, <1>8
  <2>2. Nth(j) \in At /\ Cardinality(Upto(Nth(j))) = j
    BY <2>1
  <2>3. PICK k \in 1..l : f[k] = Nth(j)
    BY <1>4, <2>2
  <2> HIDE DEF Nth, Upto, At
  <2>4. k = j
    BY <1>8, <2>2, <2>3
  <2> QED
    BY <2>3, <2>4
<1>10. Commands(lg, n) = [j \in 1..l |-> lg[Nth(j)].cmd]
  BY <1>7, Zenon DEF Commands
<1> HIDE DEF Nth
<1>11. \A j \in 1..l : lg[Nth(j)].cmd = cmds[j]
  BY <1>2, <1>9
<1>12. Commands(lg, n) = [j \in 1..l |-> cmds[j]]
  BY <1>10, <1>11
<1> QED
  BY <1>1, <1>12

\* The commands of any number of entries are given by some numbering.
LEMMA GivesExists ==
    ASSUME NEW lg, NEW n \in Nat
    PROVE  \E f, cmds : cmds \in Seq(Value) /\ Gives(f, cmds, lg, n)
<1> DEFINE Has(m) == \E f, cmds : cmds \in Seq(Value) /\ Gives(f, cmds, lg, m)
           Bad == {m \in Nat : ~Has(m)}
<1> SUFFICES ASSUME Bad # {} PROVE FALSE
  OBVIOUS
<1>1. PICK m \in Bad : \A k \in Bad : ~(<<k, m>> \in OpToRel(<, Nat))
  BY NatLessThanWellFounded, WFMin
<1>2. \A k \in Bad : ~(k < m)
  BY <1>1 DEF OpToRel
<1>3. CASE m = 0
  <2>1. <<>> \in Seq(Value) /\ Len(<<>>) = 0
    BY EmptySeq
  <2>2. PICK f : f = [j \in 1..0 |-> 1]
    OBVIOUS
  <2>3. Gives(f, <<>>, lg, 0)
    BY <2>1, <2>2 DEF Gives
  <2> QED
    BY <1>3, <2>1, <2>3
<1>4. CASE m # 0
  <2>1. PICK k \in Nat : m = k + 1
    <3>1. m - 1 \in Nat /\ m = (m - 1) + 1
      BY <1>4
    <3> QED
      BY <3>1
  <2>2. Has(k)
    BY <1>2, <2>1
  <2>3. PICK f, cmds : cmds \in Seq(Value) /\ Gives(f, cmds, lg, k)
    BY <2>2
  <2>4. PICK more : more = IF lg[k + 1].cmd \in Value
                           THEN Append(cmds, lg[k + 1].cmd) ELSE cmds
    OBVIOUS
  <2>5. more \in Seq(Value)
    BY <2>3, <2>4, AppendProperties
  <2>6. \E g : Gives(g, more, lg, k + 1)
    BY <2>3, <2>4, GivesNext
  <2>7. Has(m)
    BY <2>1, <2>5, <2>6
  <2> QED
    BY <2>7
<1> QED
  BY <1>3, <1>4

\* The commands of a log that continues another continue the other's.
LEMMA CommandsContinue ==
    ASSUME NEW lg, NEW kg, NEW n \in Nat, NEW m \in Nat, n <= m,
           \A i \in 1..n : lg[i] = kg[i]
    PROVE  /\ Commands(lg, n) \in Seq(Value) /\ Commands(kg, m) \in Seq(Value)
           /\ Len(Commands(lg, n)) <= Len(Commands(kg, m))
           /\ \A k \in 1..Len(Commands(lg, n)) :
                 Commands(lg, n)[k] = Commands(kg, m)[k]
<1>1. PICK f, cmds : cmds \in Seq(Value) /\ Gives(f, cmds, lg, n)
  BY GivesExists
<1>2. PICK g, dmds : dmds \in Seq(Value) /\ Gives(g, dmds, kg, m)
  BY GivesExists
<1>3. cmds = Commands(lg, n) /\ dmds = Commands(kg, m)
  BY <1>1, <1>2, GivesCommands
<1>4. CommandsAt(lg, n) \subseteq CommandsAt(kg, m)
  BY DEF CommandsAt
<1>5. Cardinality(CommandsAt(lg, n)) <= Cardinality(CommandsAt(kg, m))
  BY <1>4, CommandsAtFinite, FS_Subset
<1>6. /\ Len(cmds) = Cardinality(CommandsAt(lg, n))
      /\ Len(dmds) = Cardinality(CommandsAt(kg, m))
  BY <1>1, <1>2, <1>3, CommandsLength
<1>7. Len(cmds) <= Len(dmds) /\ Len(cmds) \in Nat /\ Len(dmds) \in Nat
  BY <1>1, <1>2, <1>5, <1>6, LenProperties
<1>8. \A k \in 1..Len(cmds) : k <= Len(dmds)
  BY <1>7
<1>9. \A i \in 1..n : i <= m => lg[i] = kg[i]
  OBVIOUS
<1>10. \A k \in 1..Len(cmds) : cmds[k] = dmds[k]
  BY <1>1, <1>2, <1>8, <1>9, GivenSame
<1> QED
  BY <1>1, <1>2, <1>3, <1>7, <1>10

-----------------------------------------------------------------------------
(* The server that knows most to be committed *)

\* What every restart has to leave: a server that knows as much to be
\* committed as the one that starts again did.  commitIndex is not persisted.
CommitsRemembered ==
    \A s \in Server : Restart(s) =>
        \E t \in Server : commitIndex'[t] >= commitIndex[s]

\* Of numbers up to a bound there is a highest.
LEMMA SomeHighest ==
    ASSUME NEW ci \in [Server -> Nat], NEW b \in Nat,
           \A t \in Server : ci[t] <= b, Server # {}
    PROVE  \E s \in Server : \A t \in Server : ci[t] <= ci[s]
<1> DEFINE Gaps == {b - ci[t] : t \in Server}
<1>1. Gaps \subseteq Nat /\ Gaps # {}
  OBVIOUS
<1>2. PICK d \in Gaps : \A e \in Gaps : ~(<<e, d>> \in OpToRel(<, Nat))
  <2> HIDE DEF Gaps
  <2> QED
    BY <1>1, NatLessThanWellFounded, WFMin
<1>3. \A e \in Gaps : ~(e < d)
  BY <1>1, <1>2 DEF OpToRel
<1>4. PICK s \in Server : d = b - ci[s]
  OBVIOUS
<1>5. \A t \in Server : ~(b - ci[t] < b - ci[s])
  BY <1>3, <1>4
<1>6. \A t \in Server : ci[t] \in Nat
  OBVIOUS
<1>7. \A t \in Server : ci[t] <= ci[s]
  BY <1>5, <1>6
<1> QED
  BY <1>7

\* No server's commit index is higher than that of MostAdvanced, and its log
\* goes that far.
MostAdvancedFits ==
    /\ MostAdvanced \in Server
    /\ \A t \in Server : commitIndex[t] <= commitIndex[MostAdvanced]
    /\ CommittedBy(MostAdvanced) =
          Commands(log[MostAdvanced], commitIndex[MostAdvanced])

\* The indices are bounded, so there is one.
LEMMA MostAdvancedExists ==
    ASSUME Server # {}
    PROVE  CommitInv => MostAdvancedFits
<1> SUFFICES ASSUME CommitInv PROVE MostAdvancedFits
  OBVIOUS
<1>1. PICK A, B : LogsFit(A, B) /\ BallotsFit(B) /\ CommitsFit(A)
  BY DEF CommitInv
<1>2. /\ commitIndex \in [Server -> Nat] /\ MaxLog \in Nat
      /\ \A t \in Server : log[t] \in Seq(Entry) /\ Len(log[t]) \in Nat
  BY ServerTypes, BoundAssumption DEF CommitInv, LocalInv, OrderInv, TypeOK, LogTypeOK
<1>3. \A t \in Server : commitIndex[t] <= Len(log[t])
  BY <1>1, <1>2, CommittedFits DEF CommitsFit
<1>4. \A t \in Server : Len(log[t]) <= MaxLog
  BY DEF CommitInv, LocalInv, RolesFit, RoleFits
<1>5. \A t \in Server : commitIndex[t] <= MaxLog
  <2> SUFFICES ASSUME NEW t \in Server PROVE commitIndex[t] <= MaxLog
    OBVIOUS
  <2>1. commitIndex[t] \in Nat /\ Len(log[t]) \in Nat
    BY <1>2
  <2> QED
    BY <1>2, <1>3, <1>4, <2>1
<1>6. \E s \in Server : \A t \in Server : commitIndex[t] <= commitIndex[s]
  BY <1>2, <1>5, SomeHighest
<1>7. /\ MostAdvanced \in Server
      /\ \A t \in Server : commitIndex[t] <= commitIndex[MostAdvanced]
  BY <1>6, Zenon DEF MostAdvanced
<1>8. PICK s \in Server : s = MostAdvanced
  BY <1>7
<1>9. Least(commitIndex[s], Len(log[s])) = commitIndex[s]
  <2>1. commitIndex[s] \in Nat /\ Len(log[s]) \in Nat /\ commitIndex[s] <= Len(log[s])
    BY <1>2, <1>3
  <2> QED
    BY <2>1 DEF Least
<1>10. CommittedBy(s) = Commands(log[s], commitIndex[s])
  BY <1>9, Zenon DEF CommittedBy
<1> QED
  BY <1>7, <1>8, <1>10 DEF MostAdvancedFits

\* Only a restart takes a commit index back.
LEMMA CommitIndexGrows ==
    ASSUME Prompt, CommitInv, [Next]_vars, NEW t \in Server, ~Restart(t)
    PROVE  commitIndex'[t] >= commitIndex[t]
<1>0. /\ LocalInv /\ commitIndex \in [Server -> Nat]
      /\ log \in [Server -> Seq(Entry)]
      /\ \A s \in Server : commitIndex[s] \in Nat
  BY DEF CommitInv, LocalInv, OrderInv, TypeOK, LogTypeOK
<1>1. CASE CallStep
  <2>1. ASSUME NEW r \in requests, AcceptAppendEntries(r)
        PROVE  commitIndex'[t] >= commitIndex[t]
    <3>1. PICK keep \in r.prevLogIndex..Len(log[r.to]) :
             /\ log' = [log EXCEPT ![r.to] = NewLog(r.to, r, keep)]
             /\ commitIndex' = [commitIndex EXCEPT ![r.to] =
                                   CommitOnAppend(r.to, r, NewLog(r.to, r, keep))]
      BY <2>1, Zenon DEF AcceptAppendEntries
    <3>2. PICK newLog : newLog = NewLog(r.to, r, keep)
      OBVIOUS
    <3>3. CASE r.to = t
      <4>1. log'[t] = newLog /\ commitIndex'[t] = CommitOnAppend(t, r, newLog)
        BY <1>0, <3>1, <3>2, <3>3
      <4>2. commitIndex[t] <= Len(newLog)
        BY <4>1, CommittedKept DEF Agree
      <4>3. /\ commitIndex[t] \in Nat /\ r.leaderCommit \in Nat
            /\ newLog \in Seq(Entry) /\ Len(newLog) \in Nat
        <5>0. TypeOK /\ r.kind = "append"
          BY <2>1 DEF AcceptAppendEntries, CommitInv, LocalInv, OrderInv
        <5>1. r.leaderCommit \in Nat /\ r.to \in Server
          BY <5>0, RequestFields
        <5>2. newLog \in Seq(Entry) /\ Len(newLog) \in Nat
          BY <3>2, <5>0, <5>1, NewLogShape
        <5> QED
          BY <1>0, <5>1, <5>2
      <4> QED
        BY <4>1, <4>2, <4>3 DEF CommitOnAppend, Least
    <3>4. CASE r.to # t
      BY <1>0, <3>1, <3>4
    <3> QED
      BY <3>3, <3>4
  <2>2. UNCHANGED commitIndex \/ \E r \in requests : AcceptAppendEntries(r)
    BY <1>1 DEF CallStep, BuildRequestVote, BuildAppendEntries,
         HandleRequestVoteRequest, RefuseAppendEntries, HandleRequestVoteResponse,
         HandleAppendEntriesResponse, RPCError, StepDown, Panic, Die, logVars
  <2> QED
    BY <1>0, <2>1, <2>2
<1>2. ASSUME NEW n \in Server, ServerStep(n) \/ ClientStep(n) \/ FaultStep(n)
      PROVE  commitIndex'[t] >= commitIndex[t]
  <2>1. CASE advanceCommitIndex(n)
    <3>1. CASE UNCHANGED commitIndex
      BY <1>0, <3>1
    <3>2. CASE ~UNCHANGED commitIndex
      <4>1. PICK ci \in 0..Len(log[n]) \cup {commitIndex[n]} :
               NewCommit(n, ci) /\ commitIndex' = [commitIndex EXCEPT ![n] = ci]
        BY <2>1, <3>2, Zenon DEF advanceCommitIndex, Panic, Die, logVars
      <4>2. ci = commitIndex[n] \/ ci \in (commitIndex[n] + 1)..Len(log[n])
        BY <4>1 DEF NewCommit
      <4>3. ci >= commitIndex[n]
        BY <1>0, <4>2
      <4> QED
        BY <1>0, <4>1, <4>3
    <3> QED
      BY <3>1, <3>2
  <2>2. CASE Restart(n)
    <3>1. n # t
      BY <2>2
    <3>2. commitIndex' = [commitIndex EXCEPT ![n] = 0]
      BY <2>2 DEF Restart
    <3> QED
      BY <1>0, <3>1, <3>2
  <2>3. CASE \/ Timeout(n) \/ LoopReadsState(n) \/ LeaveBranch(n) \/ heartbeat(n)
             \/ becomeLeader(n) \/ ClientStep(n) \/ Crash(n) \/ Stop(n)
    <3>1. UNCHANGED commitIndex
      BY <2>3 DEF Timeout, LoopReadsState, LeaveBranch, heartbeat, becomeLeader,
           ClientStep, Apply, AddServer, appendLocked, Crash, Stop, Die, logVars
    <3> QED
      BY <1>0, <3>1
  <2> QED
    BY <1>2, <2>1, <2>2, <2>3 DEF ServerStep, FaultStep
<1>3. CASE UNCHANGED vars
  BY <1>0, <1>3 DEF vars, logVars
<1> QED
  BY <1>1, <1>2, <1>3 DEF Next

\* A step gives one state machine its next command, or starts one again.
LEMMA GivenChanges ==
    ASSUME Prompt, CommitInv, [Next]_vars
    PROVE  \/ UNCHANGED applied
           \/ \E s \in Server : Restart(s)
           \/ \E s \in Server, x \in Value :
                 applied' = [applied EXCEPT ![s] = Append(@, x)]
<1>0. LocalInv /\ applied \in [Server -> Seq(Value)]
  BY DEF CommitInv, LocalInv, OrderInv, TypeOK, LogTypeOK
<1>1. CASE CallStep
  <2>1. UNCHANGED applied
    BY <1>1 DEF CallStep, BuildRequestVote, BuildAppendEntries,
         HandleRequestVoteRequest, RefuseAppendEntries, HandleRequestVoteResponse,
         HandleAppendEntriesResponse, AcceptAppendEntries, RPCError, StepDown, Panic,
         Die, logVars
  <2> QED
    BY <2>1
<1>2. ASSUME NEW n \in Server, ServerStep(n) \/ ClientStep(n) \/ FaultStep(n)
      PROVE  \/ UNCHANGED applied
             \/ Restart(n)
             \/ \E x \in Value : applied' = [applied EXCEPT ![n] = Append(@, x)]
  <2>1. CASE advanceCommitIndex(n)
    <3>1. CASE UNCHANGED applied
      BY <3>1
    <3>2. CASE ~UNCHANGED applied
      <4>1. PICK ci : ApplyNext(n, ci)
        BY <2>1, <3>2, Zenon DEF advanceCommitIndex, Panic, Die, logVars
      <4>2. PICK cmd : applied' = [applied EXCEPT ![n] = AppliedAfter(n, cmd)]
        BY <3>2, <4>1, Zenon DEF ApplyNext
      <4>3. CASE cmd \in Value
        <5>1. AppliedAfter(n, cmd) = Append(applied[n], cmd)
          BY <4>3 DEF AppliedAfter
        <5> QED
          BY <4>2, <4>3, <5>1
      <4>4. CASE cmd \notin Value
        <5>1. AppliedAfter(n, cmd) = applied[n]
          BY <4>4 DEF AppliedAfter
        <5> QED
          BY <1>0, <3>2, <4>2, <5>1
      <4> QED
        BY <4>3, <4>4
    <3> QED
      BY <3>1, <3>2
  <2>2. CASE \/ Timeout(n) \/ LoopReadsState(n) \/ LeaveBranch(n) \/ heartbeat(n)
             \/ becomeLeader(n) \/ ClientStep(n) \/ Crash(n) \/ Stop(n)
    <3>1. UNCHANGED applied
      BY <2>2 DEF Timeout, LoopReadsState, LeaveBranch, heartbeat, becomeLeader,
           ClientStep, Apply, AddServer, appendLocked, Crash, Stop, Die, logVars
    <3> QED
      BY <3>1
  <2> QED
    BY <1>2, <2>1, <2>2 DEF ServerStep, FaultStep
<1>3. CASE UNCHANGED vars
  BY <1>3 DEF vars, logVars
<1> QED
  BY <1>1, <1>2, <1>3 DEF Next

\* Two servers agree on what both know to be committed.
CommitsAgree ==
    \A s, t \in Server : \A n \in Nat :
        n <= commitIndex[s] /\ n <= commitIndex[t] => Agree(log[s], log[t], n)

\* Committed entries are in every log that ends in a later term.
LEMMA CommitsAgreeHolds == CommitInv => CommitsAgree
<1> SUFFICES ASSUME CommitInv, NEW s \in Server, NEW t \in Server, NEW n \in Nat,
                    n <= commitIndex[s], n <= commitIndex[t]
             PROVE  Agree(log[s], log[t], n)
  BY DEF CommitsAgree
<1>1. PICK A, B : LogsFit(A, B) /\ BallotsFit(B) /\ CommitsFit(A)
  BY DEF CommitInv
<1>2. \A k \in Server : log[k] \in Seq(Entry) /\ commitIndex[k] \in Nat
  BY DEF CommitInv, LocalInv, OrderInv, TypeOK, LogTypeOK
<1>3. \A k \in Server : Committed(A, log[k], commitIndex[k])
  BY <1>1 DEF CommitsFit
<1> QED
  BY <1>1, <1>2, <1>3, CommittedAgree

\* Every state machine was given a prefix of the committed commands.
GivenCommitted ==
    \A s \in Server :
        /\ applied[s] \in Seq(Value)
        /\ Len(applied[s]) <= Len(CommittedBy(MostAdvanced))
        /\ \A k \in 1..Len(applied[s]) : applied[s][k] = CommittedBy(MostAdvanced)[k]

\* It follows from what the servers agree on: each was given what its own log
\* holds committed.
LEMMA GivenCommittedHolds ==
    ASSUME Server # {}
    PROVE  CommitInv => GivenCommitted
<1> SUFFICES ASSUME CommitInv, NEW s \in Server
             PROVE  /\ applied[s] \in Seq(Value)
                    /\ Len(applied[s]) <= Len(CommittedBy(MostAdvanced))
                    /\ \A k \in 1..Len(applied[s]) :
                          applied[s][k] = CommittedBy(MostAdvanced)[k]
  BY DEF GivenCommitted
<1>1. MostAdvancedFits /\ CommitsAgree
  BY MostAdvancedExists, CommitsAgreeHolds
<1>2. PICK t \in Server : t = MostAdvanced
  BY <1>1 DEF MostAdvancedFits
<1>3. /\ applied[s] \in Seq(Value) /\ lastApplied[s] \in Nat \ {0}
      /\ commitIndex[s] \in Nat /\ commitIndex[t] \in Nat
  BY DEF CommitInv, LocalInv, OrderInv, TypeOK, LogTypeOK
<1>4. /\ lastApplied[s] <= commitIndex[s] + 1
      /\ \E f : Gives(f, applied[s], log[s], lastApplied[s] - 1)
  BY DEF CommitInv, CommitsFit, AppliedFits
<1>5. PICK n \in Nat : n = lastApplied[s] - 1
  BY <1>3
<1>6. PICK f : Gives(f, applied[s], log[s], n)
  BY <1>4, <1>5
<1>7. commitIndex[s] <= commitIndex[t]
  BY <1>1, <1>2 DEF MostAdvancedFits
<1>8. n <= commitIndex[s] /\ n <= commitIndex[t]
  BY <1>3, <1>4, <1>5, <1>7
<1>9. \A i \in 1..n : log[s][i] = log[t][i]
  BY <1>1, <1>8 DEF CommitsAgree, Agree
<1>10. PICK lg, kg, m, cmds : /\ lg = log[s] /\ kg = log[t] /\ m = commitIndex[t]
                              /\ cmds = applied[s]
  OBVIOUS
<1>11. /\ cmds \in Seq(Value) /\ Gives(f, cmds, lg, n) /\ m \in Nat /\ n <= m
       /\ \A i \in 1..n : lg[i] = kg[i]
  BY <1>3, <1>6, <1>8, <1>9, <1>10
<1>12. /\ Len(cmds) <= Len(Commands(kg, m))
       /\ \A k \in 1..Len(cmds) : cmds[k] = Commands(kg, m)[k]
  <2>1. cmds = Commands(lg, n)
    BY <1>11, GivesCommands
  <2>2. /\ Len(Commands(lg, n)) <= Len(Commands(kg, m))
        /\ \A k \in 1..Len(Commands(lg, n)) :
              Commands(lg, n)[k] = Commands(kg, m)[k]
    BY <1>11, CommandsContinue
  <2> QED
    BY <2>1, <2>2
<1>13. CommittedBy(MostAdvanced) = Commands(kg, m)
  BY <1>1, <1>2, <1>10 DEF MostAdvancedFits
<1> QED
  BY <1>3, <1>10, <1>12, <1>13


-----------------------------------------------------------------------------
(* Raft implements the replicated log *)

\* What the invariant says of the server that knows most.
LogInv == CommitInv /\ MostAdvancedFits /\ CommitsAgree /\ GivenCommitted

\* It needs no step of its own.
LEMMA LogInvHolds ==
    ASSUME Server # {}
    PROVE  CommitInv => LogInv
  BY MostAdvancedExists, CommitsAgreeHolds, GivenCommittedHolds DEF LogInv

\* A step leaves what was committed where it was, at the server that then
\* knows most.
LEMMA CommittedGrows ==
    ASSUME Prompt, LogInv, LogInv', [Next]_vars, CommitsRemembered
    PROVE  /\ CommittedBy(MostAdvanced)' \in Seq(Value)
           /\ CommittedBy(MostAdvanced) \in Seq(Value)
           /\ Len(CommittedBy(MostAdvanced)) <= Len(CommittedBy(MostAdvanced)')
           /\ \A k \in 1..Len(CommittedBy(MostAdvanced)) :
                 CommittedBy(MostAdvanced)[k] = (CommittedBy(MostAdvanced)')[k]
           /\ (\E s \in Server : Restart(s)) =>
                 CommittedBy(MostAdvanced)' = CommittedBy(MostAdvanced)
<1>1. CommitInv /\ MostAdvancedFits /\ CommitsAgree
  BY DEF LogInv
<1>2. CommitInv'
  BY DEF LogInv
<1>3. MostAdvancedFits' /\ CommitsAgree'
  BY DEF LogInv
<1>4. PICK p \in Server : p = MostAdvanced
  BY <1>1 DEF MostAdvancedFits
<1>5. PICK q \in Server : q = MostAdvanced'
  BY <1>3 DEF MostAdvancedFits
<1>6. /\ \A s \in Server : commitIndex[s] \in Nat /\ commitIndex'[s] \in Nat
      /\ \A s \in Server : log[s] \in Seq(Entry) /\ log'[s] \in Seq(Entry)
      /\ commitIndex \in [Server -> Nat]
  BY <1>1, <1>2 DEF CommitInv, LocalInv, OrderInv, TypeOK, LogTypeOK
<1>7. PICK c \in Nat, d \in Nat : c = commitIndex[p] /\ d = commitIndex'[q]
  BY <1>6
<1>8. /\ \A s \in Server : commitIndex[s] <= c
      /\ CommittedBy(MostAdvanced) = Commands(log[p], c)
  BY <1>1, <1>4, <1>7 DEF MostAdvancedFits
<1>9. /\ \A s \in Server : commitIndex'[s] <= d
      /\ CommittedBy(MostAdvanced)' = Commands(log'[q], d)
  BY <1>3, <1>5, <1>7 DEF MostAdvancedFits
<1>10. PICK t \in Server : commitIndex[t] = c /\ commitIndex'[t] >= c
  <2>1. CASE ~Restart(p)
    BY <1>1, <1>7, <2>1, CommitIndexGrows
  <2>2. CASE Restart(p)
    <3>1. PICK t \in Server : commitIndex'[t] >= commitIndex[p]
      BY <2>2 DEF CommitsRemembered
    <3>2. commitIndex' = [commitIndex EXCEPT ![p] = 0]
      BY <2>2 DEF Restart
    <3>3. CASE t = p
      <4>1. commitIndex'[t] = 0
        BY <1>6, <3>2, <3>3
      <4>2. commitIndex[t] = c /\ c = 0
        BY <1>6, <1>7, <3>1, <3>3, <4>1
      <4> QED
        BY <4>1, <4>2
    <3>4. CASE t # p
      <4>1. commitIndex'[t] = commitIndex[t]
        BY <1>6, <3>2, <3>4
      <4> QED
        BY <1>6, <1>7, <1>8, <3>1, <4>1
    <3> QED
      BY <3>3, <3>4
  <2> QED
    BY <2>1, <2>2
<1>11. c <= d
  BY <1>6, <1>9, <1>10
<1>12. Agree(log[p], log'[q], c)
  <2>1. Agree(log[p], log[t], c)
    BY <1>1, <1>6, <1>7, <1>10 DEF CommitsAgree
  <2>2. Agree(log[t], log'[t], c)
    BY <1>1, <1>10, CommittedKept
  <2>3. Agree(log'[t], log'[q], c)
    <3>1. \A n \in Nat : n <= commitIndex'[t] /\ n <= commitIndex'[q]
             => Agree(log'[t], log'[q], n)
      BY <1>3 DEF CommitsAgree, Agree
    <3>2. c <= commitIndex'[t] /\ c <= commitIndex'[q]
      BY <1>6, <1>7, <1>10, <1>11
    <3> QED
      BY <3>1, <3>2
  <2> QED
    BY <2>1, <2>2, <2>3, AgreeTrans
<1>13. PICK lg, kg : lg = log[p] /\ kg = log'[q]
  OBVIOUS
<1>14. \A i \in 1..c : lg[i] = kg[i]
  BY <1>12, <1>13 DEF Agree
<1>15. PICK D, E : D = Commands(lg, c) /\ E = Commands(kg, d)
  OBVIOUS
<1>16. D = CommittedBy(MostAdvanced) /\ E = CommittedBy(MostAdvanced)'
  BY <1>8, <1>9, <1>13, <1>15
<1>17. /\ D \in Seq(Value) /\ E \in Seq(Value) /\ Len(D) <= Len(E)
       /\ \A k \in 1..Len(D) : D[k] = E[k]
  <2>1. /\ Commands(lg, c) \in Seq(Value) /\ Commands(kg, d) \in Seq(Value)
        /\ Len(Commands(lg, c)) <= Len(Commands(kg, d))
        /\ \A k \in 1..Len(Commands(lg, c)) : Commands(lg, c)[k] = Commands(kg, d)[k]
    BY <1>11, <1>14, CommandsContinue
  <2> QED
    BY <1>15, <2>1
<1>18. ASSUME NEW s \in Server, Restart(s) PROVE E = D
  <2>1. commitIndex' = [commitIndex EXCEPT ![s] = 0]
    BY <1>18 DEF Restart
  <2>2. d <= c
    <3>1. CASE q = s
      BY <1>6, <1>7, <2>1, <3>1
    <3>2. CASE q # s
      BY <1>6, <1>7, <1>8, <2>1, <3>2
    <3> QED
      BY <3>1, <3>2
  <2>3. d = c /\ \A i \in 1..d : kg[i] = lg[i]
    BY <1>11, <1>14, <2>2
  <2>4. Len(E) <= Len(D)
    <3>1. Len(Commands(kg, d)) <= Len(Commands(lg, c))
      BY <2>2, <2>3, CommandsContinue
    <3> QED
      BY <1>15, <3>1
  <2>5. Len(D) = Len(E)
    BY <1>17, <2>4, LenProperties
  <2> QED
    BY <1>17, <2>5, SeqEqual
<1> QED
  BY <1>16, <1>17, <1>18

\* Every step commits entries or gives a state machine its next command,
\* starts one again, or changes nothing of it.
LEMMA LogStep ==
    ASSUME Prompt, LogInv, LogInv', [Next]_vars, CommitsRemembered, Server # {}
    PROVE  [Abstract!Next]_(Abstract!rlVars)
<1>1. PICK D, E : D = CommittedBy(MostAdvanced) /\ E = CommittedBy(MostAdvanced)'
  OBVIOUS
<1>2. /\ D \in Seq(Value) /\ E \in Seq(Value) /\ Len(D) <= Len(E)
      /\ \A k \in 1..Len(D) : D[k] = E[k]
      /\ (\E s \in Server : Restart(s)) => E = D
  BY <1>1, CommittedGrows
<1>3. SubSeq(E, 1, Len(D)) = D
  <2>1. Len(D) \in Nat /\ Len(E) \in Nat
    BY <1>2, LenProperties
  <2>2. \A k \in 1..Len(D) : E[k] \in Value
    BY <1>2, <2>1, ElementOfSeq
  <2>3. PICK u : u = SubSeq(E, 1, Len(D))
    OBVIOUS
  <2>4. u \in Seq(Value) /\ Len(u) = Len(D) /\ \A k \in 1..Len(D) : u[k] = E[k]
    BY <2>1, <2>2, <2>3, SubSeqProperties
  <2> QED
    BY <1>2, <2>3, <2>4, SeqEqual
<1>4. CommitInv
  BY DEF LogInv
<1>5. GivenCommitted'
  BY DEF LogInv
<1>6. CASE UNCHANGED applied
  <2>1. PICK n : n \in Server
    OBVIOUS
  <2>2. Abstract!Advance(n)
    BY <1>1, <1>2, <1>3, <1>6 DEF Abstract!Advance
  <2> QED
    BY <2>1, <2>2 DEF Abstract!Next
<1>7. ASSUME NEW s \in Server, Restart(s) PROVE Abstract!Next
  <2>1. applied' = [applied EXCEPT ![s] = <<>>]
    BY <1>7 DEF Restart
  <2>2. E = D
    BY <1>2, <1>7
  <2>3. Abstract!Restart(s)
    BY <1>1, <2>1, <2>2 DEF Abstract!Restart
  <2> QED
    BY <2>3 DEF Abstract!Next
<1>8. ASSUME NEW s \in Server, NEW x \in Value,
             applied' = [applied EXCEPT ![s] = Append(@, x)]
      PROVE  Abstract!Next
  <2>1. applied \in [Server -> Seq(Value)] /\ applied[s] \in Seq(Value)
    BY <1>4 DEF CommitInv, LocalInv, OrderInv, TypeOK, LogTypeOK
  <2>2. PICK a \in Seq(Value) : a = applied[s]
    BY <2>1
  <2>3. applied'[s] = Append(a, x)
    BY <1>8, <2>1, <2>2
  <2>4. /\ Len(a) \in Nat /\ Len(Append(a, x)) = Len(a) + 1
        /\ Append(a, x)[Len(a) + 1] = x
    BY AppendProperties, LenProperties
  <2>5. /\ Len(Append(a, x)) <= Len(E)
        /\ \A k \in 1..Len(Append(a, x)) : Append(a, x)[k] = E[k]
    BY <1>1, <1>5, <2>3 DEF GivenCommitted
  <2>6. Len(E) \in Nat
    BY <1>2, LenProperties
  <2>7. Len(a) < Len(E) /\ E[Len(a) + 1] = x
    BY <2>4, <2>5, <2>6
  <2>8. applied' = [applied EXCEPT ![s] = Append(@, E[Len(@) + 1])]
    BY <1>8, <2>1, <2>2, <2>7
  <2>9. Abstract!Advance(s)
    BY <1>1, <1>2, <1>3, <2>2, <2>7, <2>8 DEF Abstract!Advance
  <2> QED
    BY <2>9 DEF Abstract!Next
<1> QED
  BY <1>4, <1>6, <1>7, <1>8, GivenChanges

\* At the start nothing is committed.
LEMMA LogStarts ==
    ASSUME Server # {}
    PROVE  Init => Abstract!Init
<1> SUFFICES ASSUME Init PROVE Abstract!Init
  OBVIOUS
<1>1. MostAdvancedFits
  BY CommitInit, MostAdvancedExists
<1>2. PICK s \in Server : s = MostAdvanced
  BY <1>1 DEF MostAdvancedFits
<1>3. commitIndex[s] = 0 /\ applied = [n \in Server |-> <<>>]
  BY DEF Init
<1>4. CommittedBy(MostAdvanced) = Commands(log[s], 0)
  BY <1>1, <1>2, <1>3 DEF MostAdvancedFits
<1>5. PICK lg : lg = log[s]
  OBVIOUS
<1>6. Gives([j \in 1..0 |-> 1], <<>>, lg, 0) /\ <<>> \in Seq(Value)
  <2>1. <<>> \in Seq(Value) /\ Len(<<>>) = 0
    BY EmptySeq
  <2> QED
    BY <2>1 DEF Gives
<1>7. <<>> = Commands(lg, 0)
  BY <1>6, GivesCommands
<1> QED
  BY <1>3, <1>4, <1>5, <1>7 DEF Abstract!Init

\* A restart is no stutter.
LEMMA StutterCommits ==
    ASSUME TypeOK, UNCHANGED vars
    PROVE  CommitsRemembered
<1> SUFFICES ASSUME NEW s \in Server, Restart(s) PROVE FALSE
  BY DEF CommitsRemembered
<1>1. proc'[s] = "running" /\ ~Alive(s)
  BY DEF Restart, TypeOK, NodeTypeOK
<1> QED
  BY <1>1 DEF vars, nodeVars, Alive

\* navi.Server implements the replicated log kv-api relies on: one sequence of
\* committed commands that only grows, of which every state machine is given
\* one after the other, whichever servers lead, fail and start again.
THEOREM RefinesLogCorrect ==
    ASSUME Prompt, NoWrap, Server # {}
    PROVE  Spec /\ [][VotesRemembered /\ CommitsRemembered]_vars => RefinesLog
<1>1. Spec /\ [][VotesRemembered]_vars => []CommitInv
  BY CommitAlways
<1>2. CommitInv => LogInv
  BY LogInvHolds
<1>3. LogInv /\ LogInv' /\ [Next]_vars /\ [VotesRemembered /\ CommitsRemembered]_vars
         => [Abstract!Next]_(Abstract!rlVars)
  <2> SUFFICES ASSUME LogInv, LogInv', [Next]_vars,
                      [VotesRemembered /\ CommitsRemembered]_vars
               PROVE  [Abstract!Next]_(Abstract!rlVars)
    OBVIOUS
  <2>1. CommitsRemembered
    BY StutterCommits DEF LogInv, CommitInv, LocalInv, OrderInv
  <2> QED
    BY <2>1, LogStep
<1>4. Init => Abstract!Init
  BY LogStarts
<1>5. [][VotesRemembered /\ CommitsRemembered]_vars => [][VotesRemembered]_vars
  <2>1. [VotesRemembered /\ CommitsRemembered]_vars => [VotesRemembered]_vars
    OBVIOUS
  <2> QED
    BY <2>1, PTL
<1> QED
  BY <1>1, <1>2, <1>3, <1>4, <1>5, PTL DEF Spec, RefinesLog, Abstract!Spec

=============================================================================
