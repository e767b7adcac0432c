----------------------------- MODULE DiskProofs -----------------------------
(***************************************************************************)
(* What persist and restore keep, for logs, batches and buffers of any      *)
(* length, and a crash between any two writes.                             *)
(***************************************************************************)
EXTENDS Disk, TLAPS, SequenceTheorems

\* No entry replaces the empty one that ensureLog puts first.
FirstEmpty == log[1] = Empty /\ (Len(slots) > 0 => slots[1] = Empty)

\* Up to where persist has come the file has the log, and the header says
\* that it is there, and no more when that is all of the log.
WrittenSoFar ==
    /\ next >= 2
    /\ \A i \in 1..(next - 1) : i <= Len(slots) => slots[i] = log[i]
    /\ next > 2 => next - 1 <= Len(slots) /\ next - 1 <= header.len
    /\ next > Len(log) => header.len = Len(log) \/ Len(log) = 1

\* Between two calls of persist nothing is left to write.
AllWritten ==
    Idle =>
        /\ next = Len(log) + 1
        /\ header.term = term
        /\ header.len = Len(log) \/ (header.len = 0 /\ Len(log) = 1)

\* The header is written before the entries.
HeaderFirst ==
    /\ step = "entries" =>
          header.len = Len(log) /\ header.term = term /\ next <= Len(log)
    /\ proc = "down" => step = "idle"

\* The invariant that the steps below preserve.
DiskInv ==
    /\ TypeOK
    /\ FirstEmpty
    /\ WrittenSoFar
    /\ AllWritten
    /\ HeaderFirst

-----------------------------------------------------------------------------

\* A function on 1..n is a sequence of length n.
LEMMA FunctionIsSeq ==
    ASSUME NEW n \in Nat, NEW f \in [1..n -> Entry]
    PROVE  f \in Seq(Entry) /\ Len(f) = n
<1>1. f \in Seq(Entry)
  BY SeqDef
<1>2. Len(f) \in Nat /\ 1..Len(f) = 1..n
  BY <1>1, LenProperties
<1> QED
  BY <1>1, <1>2

\* A log cut after keep entries and extended has those entries, and the new
\* ones.
LEMMA CutAndAppend ==
    ASSUME NEW s \in Seq(Entry), NEW keep \in 1..Len(s), NEW es \in Seq(Entry)
    PROVE  LET t == SubSeq(s, 1, keep) \o es IN
           /\ t \in Seq(Entry)
           /\ Len(t) = keep + Len(es)
           /\ \A i \in 1..keep : t[i] = s[i]
<1> DEFINE u == SubSeq(s, 1, keep)
           t == u \o es
<1>1. Len(s) \in Nat /\ Len(es) \in Nat
  BY LenProperties
<1>2. \A i \in 1..keep : s[i] \in Entry
  BY <1>1, ElementOfSeq
<1>3. /\ u \in Seq(Entry) /\ Len(u) = keep
      /\ \A i \in 1..keep : u[i] = s[i]
  BY <1>1, <1>2, SubSeqProperties
<1> HIDE DEF u
<1>4. /\ t \in Seq(Entry) /\ Len(t) = keep + Len(es)
      /\ \A i \in 1..keep : t[i] = u[i]
  BY <1>1, <1>3, ConcatProperties
<1>5. /\ t \in Seq(Entry) /\ Len(t) = keep + Len(es)
      /\ \A i \in 1..keep : t[i] = s[i]
  BY <1>3, <1>4
<1> QED
  BY <1>5 DEF u

\* The entries of one call are a sequence of entries.
LEMMA EntriesType ==
    ASSUME term \in Nat, NEW n \in Nat, NEW size \in {"small", "large"}
    PROVE  Entries(n, size) \in Seq(Entry) /\ Len(Entries(n, size)) = n
<1>1. Entries(n, size) \in [1..n -> Entry]
  BY DEF Entries, Entry
<1> QED
  BY <1>1, FunctionIsSeq

\* persist starts: what stays of the log is on file.
LEMMA AppendStep ==
    ASSUME DiskInv, Idle, NEW keep \in 1..Len(log), NEW es \in Seq(Entry),
           Len(es) > 0, AppendNew(keep, es)
    PROVE  DiskInv'
<1>1. /\ log \in Seq(Entry) /\ Len(log) \in Nat /\ Len(slots) \in Nat
      /\ Len(es) \in Nat
      /\ header.len \in Nat
  BY LenProperties DEF DiskInv, TypeOK
<1>2. /\ log' \in Seq(Entry) /\ Len(log') = keep + Len(es)
      /\ \A i \in 1..keep : log'[i] = log[i]
      /\ term' = term /\ step' = "header" /\ proc' = "up"
      /\ UNCHANGED <<header, slots>>
  <2> DEFINE t == SubSeq(log, 1, keep) \o es
  <2>1. t \in Seq(Entry) /\ Len(t) = keep + Len(es) /\ \A i \in 1..keep : t[i] = log[i]
    BY <1>1, CutAndAppend
  <2>2. log' = t
    BY DEF AppendNew, persist
  <2>3. /\ term' = term /\ step' = "header" /\ proc' = "up"
        /\ UNCHANGED <<header, slots>>
    BY DEF AppendNew, persist, Idle
  <2> HIDE DEF t
  <2> QED
    BY <2>1, <2>2, <2>3
<1>3. next' = keep + 1
  BY <1>1, <1>2 DEF AppendNew, persist
<1>4. TypeOK'
  <2>1. log' # <<>>
    BY <1>1, <1>2, EmptySeq
  <2> QED
    BY <1>1, <1>2, <1>3, <2>1 DEF DiskInv, TypeOK
<1>5. FirstEmpty'
  BY <1>1, <1>2 DEF DiskInv, FirstEmpty
<1>6. WrittenSoFar'
  BY <1>1, <1>2, <1>3 DEF DiskInv, WrittenSoFar, AllWritten
<1>7. AllWritten' /\ HeaderFirst'
  BY <1>2 DEF AllWritten, HeaderFirst, Idle
<1> QED
  BY <1>4, <1>5, <1>6, <1>7 DEF DiskInv

\* A new term touches no entry.
LEMMA NewTermStep == DiskInv /\ NewTerm => DiskInv'
<1> SUFFICES ASSUME DiskInv, NewTerm PROVE DiskInv'
  OBVIOUS
<1>1. PICK t \in (term..MaxTerm) \ {0} : persist(t, log, 0)
  BY DEF NewTerm
<1>2. /\ Idle /\ Len(log) \in Nat /\ Len(log) > 0 /\ term \in Nat
      /\ Len(slots) \in Nat /\ header.len \in Nat
  BY LenProperties, EmptySeq DEF NewTerm, DiskInv, TypeOK
<1>3. /\ term' \in Nat /\ log' = log /\ next' = Len(log) + 1
      /\ step' = "header" /\ proc' = "up"
      /\ UNCHANGED <<header, slots>>
  BY <1>1, <1>2, DiskAssumption DEF persist, Idle
<1>4. TypeOK' /\ FirstEmpty'
  BY <1>2, <1>3 DEF DiskInv, TypeOK, FirstEmpty
<1>5. WrittenSoFar'
  BY <1>2, <1>3 DEF DiskInv, WrittenSoFar, AllWritten
<1>6. AllWritten' /\ HeaderFirst'
  BY <1>3 DEF AllWritten, HeaderFirst, Idle
<1> QED
  BY <1>4, <1>5, <1>6 DEF DiskInv

\* The header page is written.
LEMMA WriteHeaderStep == DiskInv /\ WriteHeader => DiskInv'
<1> SUFFICES ASSUME DiskInv, WriteHeader PROVE DiskInv'
  OBVIOUS
<1>1. /\ Len(log) \in Nat /\ term \in Nat /\ next \in 1..(Len(log) + 1)
  BY LenProperties DEF DiskInv, TypeOK
<1>2. /\ header' = [term |-> term, len |-> Len(log)]
      /\ step' = IF next > Len(log) THEN "idle" ELSE "entries"
      /\ proc' = "up"
      /\ UNCHANGED <<term, log, slots, next>>
  BY DEF WriteHeader
<1>3. TypeOK' /\ FirstEmpty'
  BY <1>1, <1>2 DEF DiskInv, TypeOK, FirstEmpty
<1>4. WrittenSoFar'
  BY <1>1, <1>2 DEF DiskInv, WrittenSoFar
<1>5. AllWritten' /\ HeaderFirst'
  BY <1>1, <1>2 DEF AllWritten, HeaderFirst, Idle
<1> QED
  BY <1>3, <1>4, <1>5 DEF DiskInv

\* Put writes the slots it is told to, and no other one that is read.
LEMMA PutSlots ==
    ASSUME TypeOK, NEW from \in 1..Len(log), NEW to \in from..Len(log)
    PROVE  /\ Put(from, to) \in Seq(Entry)
           /\ Len(Put(from, to)) = (IF to > Len(slots) THEN to ELSE Len(slots))
           /\ \A i \in from..to : Put(from, to)[i] = log[i]
           /\ \A i \in 1..(from - 1) :
                 Put(from, to)[i] = IF i <= Len(slots) THEN slots[i] ELSE Empty
<1> DEFINE len == IF to > Len(slots) THEN to ELSE Len(slots)
<1>1. /\ log \in Seq(Entry) /\ slots \in Seq(Entry)
      /\ Len(log) \in Nat /\ Len(slots) \in Nat
      /\ from \in Nat /\ to \in Nat /\ len \in Nat
  BY LenProperties DEF TypeOK
<1>2. /\ \A i \in 1..Len(log) : log[i] \in Entry
      /\ \A i \in 1..Len(slots) : slots[i] \in Entry
      /\ Empty \in Entry
  BY <1>1, ElementOfSeq DEF Empty, Entry
<1>3. \A i \in 1..len : (IF i \in from..to THEN log[i]
                         ELSE IF i <= Len(slots) THEN slots[i] ELSE Empty) \in Entry
  BY <1>1, <1>2
<1>4. Put(from, to) \in [1..len -> Entry]
  BY <1>3 DEF Put
<1>5. Put(from, to) \in Seq(Entry) /\ Len(Put(from, to)) = len
  BY <1>1, <1>4, FunctionIsSeq
<1>8. \A i \in 1..len : Put(from, to)[i] =
         IF i \in from..to THEN log[i]
         ELSE IF i <= Len(slots) THEN slots[i] ELSE Empty
  BY DEF Put
<1> QED
  BY <1>1, <1>5, <1>8

\* A flush, or a command that is too large for it.
LEMMA WriteEntriesStep == DiskInv /\ WriteEntries => DiskInv'
<1> SUFFICES ASSUME DiskInv, WriteEntries PROVE DiskInv'
  OBVIOUS
<1> DEFINE last == IF next + Chunk - 1 < Len(log) THEN next + Chunk - 1 ELSE Len(log)
<1>1. /\ Len(log) \in Nat /\ Len(slots) \in Nat /\ next \in Nat /\ next >= 2
      /\ next <= Len(log) /\ header.len = Len(log)
  BY LenProperties
  DEF WriteEntries, DiskInv, TypeOK, WrittenSoFar, HeaderFirst
<1>2. next \in 1..Len(log) /\ last \in next..Len(log)
  BY <1>1, DiskAssumption
<1>3. CASE proc' = "wedged" /\ UNCHANGED <<term, log, header, slots, next, step>>
  <2>1. TypeOK' /\ FirstEmpty' /\ WrittenSoFar'
    BY <1>3 DEF DiskInv, TypeOK, FirstEmpty, WrittenSoFar
  <2>2. AllWritten' /\ HeaderFirst'
    BY <1>3 DEF DiskInv, AllWritten, HeaderFirst, Idle
  <2> QED
    BY <2>1, <2>2 DEF DiskInv
<1>4. CASE /\ slots' = Put(next, last) /\ next' = last + 1
           /\ step' = (IF last = Len(log) THEN "idle" ELSE "entries")
           /\ UNCHANGED <<proc, term, log, header>>
  <2> HIDE DEF last
  <2>1. /\ slots' \in Seq(Entry)
        /\ Len(slots') = (IF last > Len(slots) THEN last ELSE Len(slots))
        /\ \A i \in next..last : slots'[i] = log[i]
        /\ \A i \in 1..(next - 1) :
              slots'[i] = IF i <= Len(slots) THEN slots[i] ELSE Empty
    BY <1>2, <1>4, PutSlots DEF DiskInv
  <2>2. TypeOK'
    BY <1>1, <1>2, <1>4, <2>1 DEF DiskInv, TypeOK
  <2>3. FirstEmpty'
    BY <1>1, <1>2, <1>4, <2>1 DEF DiskInv, FirstEmpty
  <2>4. \A i \in 1..(next - 1) : slots'[i] = log[i]
    <3> TAKE i \in 1..(next - 1)
    <3>1. CASE i <= Len(slots)
      BY <2>1, <3>1 DEF DiskInv, WrittenSoFar
    <3>2. CASE i > Len(slots)
      <4>1. i = 1
        BY <1>1, <3>2 DEF DiskInv, WrittenSoFar
      <4> QED
        BY <2>1, <3>2, <4>1, <1>1 DEF DiskInv, FirstEmpty
    <3> QED
      BY <1>1, <3>1, <3>2
  <2>5. \A i \in 1..(next' - 1) : slots'[i] = log'[i]
    BY <1>1, <1>2, <1>4, <2>1, <2>4
  <2>6. WrittenSoFar'
    BY <1>1, <1>2, <1>4, <2>1, <2>5 DEF WrittenSoFar
  <2>7. AllWritten'
    <3>1. proc = "up" /\ step = "entries"
      BY DEF WriteEntries
    <3>2. header.term = term
      BY <3>1 DEF DiskInv, HeaderFirst
    <3> QED
      BY <1>1, <1>2, <1>4, <3>2 DEF AllWritten, Idle
  <2>8. HeaderFirst'
    BY <1>1, <1>2, <1>4 DEF HeaderFirst, DiskInv, WriteEntries
  <2> QED
    BY <2>2, <2>3, <2>6, <2>7, <2>8 DEF DiskInv
<1> QED
  BY <1>3, <1>4 DEF WriteEntries

\* The process dies.
LEMMA CrashStep == DiskInv /\ Crash => DiskInv'
  BY DEF DiskInv, Crash, TypeOK, FirstEmpty, WrittenSoFar, AllWritten,
         HeaderFirst, Idle

\* What restore reads.
LEMMA RestoredFromSlots ==
    ASSUME DiskInv, Restorable
    PROVE  /\ RestoredLog \in Seq(Entry)
           /\ Len(RestoredLog) = (IF header.len = 0 THEN 1 ELSE header.len)
           /\ RestoredLog[1] = Empty
           /\ header.len # 0 =>
                 \A i \in 1..header.len : RestoredLog[i] = slots[i]
<1>1. /\ slots \in Seq(Entry) /\ Len(slots) \in Nat /\ header.len \in Nat
      /\ header.len <= Len(slots)
  BY LenProperties DEF DiskInv, TypeOK, Restorable
<1>2. CASE header.len = 0
  <2>1. RestoredLog = <<Empty>>
    BY <1>2 DEF RestoredLog
  <2>2. Empty \in Entry
    BY DEF Empty, Entry
  <2> QED
    BY <1>2, <2>1, <2>2
<1>3. CASE header.len # 0
  <2>1. RestoredLog = SubSeq(slots, 1, header.len)
    BY <1>3 DEF RestoredLog
  <2>2. \A i \in 1..header.len : slots[i] \in Entry
    BY <1>1, ElementOfSeq
  <2>3. /\ RestoredLog \in Seq(Entry)
        /\ Len(RestoredLog) = header.len
        /\ \A i \in 1..header.len : RestoredLog[i] = slots[i]
    BY <1>1, <1>3, <2>1, <2>2, SubSeqProperties
  <2>4. RestoredLog[1] = Empty
    BY <1>1, <1>3, <2>3 DEF DiskInv, FirstEmpty
  <2> QED
    BY <1>3, <2>3, <2>4
<1> QED
  BY <1>2, <1>3

\* The server starts with what the file has, or panics.
LEMMA RestartStep == DiskInv /\ Restart => DiskInv'
<1> SUFFICES ASSUME DiskInv, Restart PROVE DiskInv'
  OBVIOUS
<1>0. CASE proc' = "panicked" /\ UNCHANGED <<term, log, next, header, slots, step>>
  BY <1>0 DEF DiskInv, TypeOK, FirstEmpty, WrittenSoFar, AllWritten, HeaderFirst, Idle
<1> SUFFICES ASSUME /\ Restorable
                    /\ proc' = "up" /\ term' = header.term
                    /\ log' = RestoredLog /\ next' = Len(RestoredLog) + 1
             PROVE  DiskInv'
  BY <1>0 DEF Restart
<1>1. /\ header.len \in Nat /\ header.term \in Nat /\ Len(slots) \in Nat
      /\ header.len <= Len(slots)
  BY LenProperties DEF DiskInv, TypeOK, Restorable
<1>2. /\ log' \in Seq(Entry)
      /\ Len(log') = (IF header.len = 0 THEN 1 ELSE header.len)
      /\ log'[1] = Empty
      /\ header.len # 0 => \A i \in 1..header.len : log'[i] = slots[i]
  BY RestoredFromSlots
<1>3. /\ proc' = "up" /\ term' = header.term /\ next' = Len(log') + 1
      /\ step = "idle" /\ UNCHANGED <<header, slots, step>>
  BY DEF Restart, DiskInv, HeaderFirst
<1>4. TypeOK'
  <2>1. log' # <<>>
    BY <1>1, <1>2, EmptySeq
  <2> QED
    BY <1>1, <1>2, <1>3, <2>1 DEF DiskInv, TypeOK
<1>5. FirstEmpty'
  BY <1>2, <1>3 DEF DiskInv, FirstEmpty
<1>6. WrittenSoFar'
  BY <1>1, <1>2, <1>3 DEF DiskInv, FirstEmpty, WrittenSoFar
<1>7. AllWritten' /\ HeaderFirst'
  BY <1>1, <1>2, <1>3 DEF AllWritten, HeaderFirst
<1> QED
  BY <1>4, <1>5, <1>6, <1>7 DEF DiskInv

\* Every step preserves DiskInv.
LEMMA NextInv == DiskInv /\ [Next]_vars => DiskInv'
<1> SUFFICES ASSUME DiskInv, [Next]_vars PROVE DiskInv'
  OBVIOUS
<1>1. CASE AppendEntries
  <2>1. PICK keep \in 1..Len(log), n \in 1..MaxBatch :
                AppendNew(keep, Entries(n, "small"))
    BY <1>1 DEF AppendEntries
  <2>2. n \in Nat /\ n > 0 /\ term \in Nat
    BY DiskAssumption DEF DiskInv, TypeOK
  <2> QED
    BY <1>1, <2>1, <2>2, EntriesType, AppendStep DEF AppendEntries
<1>2. CASE ApplyLarge
  <2> DEFINE es == Entries(1, "large")
             keep == Len(log)
  <2>1. keep \in 1..Len(log)
    BY LenProperties, EmptySeq DEF DiskInv, TypeOK
  <2>2. es \in Seq(Entry) /\ Len(es) = 1
    BY EntriesType DEF DiskInv, TypeOK
  <2>3. Idle /\ AppendNew(keep, es)
    BY <1>2 DEF ApplyLarge
  <2> HIDE DEF es, keep
  <2> QED
    BY <2>1, <2>2, <2>3, AppendStep
<1>3. CASE UNCHANGED vars
  BY <1>3 DEF vars, DiskInv, TypeOK, FirstEmpty, WrittenSoFar, AllWritten,
              HeaderFirst, Idle
<1> QED
  BY <1>1, <1>2, <1>3, NewTermStep, WriteHeaderStep, WriteEntriesStep, CrashStep,
     RestartStep DEF Next

\* The first process finds no file.
LEMMA InitInv == Init => DiskInv
<1> SUFFICES ASSUME Init PROVE DiskInv
  OBVIOUS
<1>1. Empty \in Entry
  BY DEF Empty, Entry
<1>2. /\ log \in Seq(Entry) /\ Len(log) = 1 /\ log[1] = Empty
      /\ slots \in Seq(Entry) /\ Len(slots) = 0
  BY <1>1 DEF Init
<1> QED
  BY <1>2 DEF Init, DiskInv, TypeOK, FirstEmpty, WrittenSoFar, AllWritten,
              HeaderFirst, Idle, NoFile

\* DiskInv always holds.
LEMMA DiskInvCorrect == Spec => []DiskInv
  BY InitInv, NextInv, PTL DEF Spec

-----------------------------------------------------------------------------

\* What restore would read between two calls of persist is what is in memory.
THEOREM RestoreCorrect == Spec => []RestoreYieldsMemory
<1>1. DiskInv => RestoreYieldsMemory
  <2> SUFFICES ASSUME DiskInv, Idle, Len(log) > 1
               PROVE  Restorable /\ RestoredLog = log /\ header.term = term
    BY DEF RestoreYieldsMemory
  <2>0. log \in Seq(Entry) /\ Len(log) \in Nat /\ Len(slots) \in Nat
    BY LenProperties DEF DiskInv, TypeOK
  <2>a. /\ next = Len(log) + 1
        /\ header.term = term
        /\ header.len = Len(log) \/ (header.len = 0 /\ Len(log) = 1)
    BY Zenon DEF DiskInv, AllWritten
  <2>1. next = Len(log) + 1 /\ header.term = term /\ header.len = Len(log)
    <3>0. \A l \in Nat : l > 1 => l # 1
      OBVIOUS
    <3>1. Len(log) # 1
      BY <2>0, <3>0, Zenon
    <3> QED
      BY <2>a, <3>1
  <2>2. Restorable /\ \A i \in 1..Len(log) : slots[i] = log[i]
    BY <2>0, <2>1 DEF DiskInv, WrittenSoFar, Restorable
  <2>3. /\ RestoredLog \in Seq(Entry) /\ Len(RestoredLog) = Len(log)
        /\ \A i \in 1..Len(log) : RestoredLog[i] = log[i]
    BY <2>0, <2>1, <2>2, RestoredFromSlots
  <2>4. RestoredLog = log
    BY <2>0, <2>3, SeqEqual
  <2> QED
    BY <2>1, <2>2, <2>4
<1> QED
  BY <1>1, DiskInvCorrect, PTL

\* Whenever the process dies, a later start gives back every entry persisted
\* before the interrupted call, or it panics with all of them on file: only
\* when that call had slots to write, or when there is no entry yet.
THEOREM RestartCorrect == Spec => RestartKeepsAcknowledged
<1> DEFINE GivesBack == proc' = "up" =>
              \A i \in 2..(next - 1) : i <= Len(log') /\ log'[i] = log[i]
           Panics == proc' = "panicked" =>
              /\ next <= Len(log) \/ Len(log) = 1
              /\ \A i \in 2..(next - 1) : i <= Len(slots) /\ slots[i] = log[i]
<1>1. DiskInv /\ [Next]_vars =>
         [proc = "down" =>
             /\ proc' = "up" =>
                   \A i \in 2..(next - 1) : i <= Len(log') /\ log'[i] = log[i]
             /\ proc' = "panicked" =>
                   /\ next <= Len(log) \/ Len(log) = 1
                   /\ \A i \in 2..(next - 1) : i <= Len(slots) /\ slots[i] = log[i]]_vars
  <2> SUFFICES ASSUME DiskInv, Next, proc = "down" PROVE GivesBack /\ Panics
    OBVIOUS
  <2>1. /\ next \in Nat /\ Len(log) \in Nat /\ Len(slots) \in Nat
        /\ header.len \in Nat /\ next <= Len(log) + 1 /\ Len(log) >= 1
    BY LenProperties, EmptySeq DEF DiskInv, TypeOK
  <2>2. \A i \in 2..(next - 1) :
           i <= Len(slots) /\ i <= header.len /\ slots[i] = log[i]
    BY <2>1 DEF DiskInv, WrittenSoFar
  <2>3. GivesBack
    <3> SUFFICES ASSUME proc' = "up", NEW i \in 2..(next - 1)
                 PROVE  i <= Len(log') /\ log'[i] = log[i]
      OBVIOUS
    <3>1. Restorable /\ log' = RestoredLog
      BY DEF Next, NewTerm, AppendEntries, ApplyLarge, WriteHeader, WriteEntries,
             Crash, Idle, Restart
    <3> QED
      BY <2>1, <2>2, <3>1, RestoredFromSlots
  <2>4. Panics
    <3> SUFFICES ASSUME proc' = "panicked"
                 PROVE  next <= Len(log) \/ Len(log) = 1
      BY <2>2
    <3>1. header.len > Len(slots)
      BY <2>1 DEF Next, NewTerm, AppendEntries, ApplyLarge, WriteHeader, WriteEntries,
             Crash, Idle, Restart, Restorable
    <3>2. /\ next > 2 => next - 1 <= Len(slots)
          /\ next > Len(log) => header.len = Len(log) \/ Len(log) = 1
      BY DEF DiskInv, WrittenSoFar
    <3> SUFFICES ASSUME next > Len(log), Len(log) # 1 PROVE FALSE
      BY <2>1
    <3>3. header.len = Len(log)
      BY <3>2
    <3>4. \A l \in Nat : l # 1 /\ l >= 1 => l > 1
      OBVIOUS
    <3>5. Len(log) > 1
      BY <2>1, <3>4
    <3> HIDE DEF GivesBack, Panics
    <3>6. next > 2 /\ next - 1 >= Len(log)
      BY <2>1, <3>5
    <3> QED
      BY <2>1, <3>1, <3>2, <3>3, <3>6
  <2> QED
    BY <2>3, <2>4
<1> QED
  BY <1>1, DiskInvCorrect, PTL DEF Spec, RestartKeepsAcknowledged

\* The memory and the file keep their shapes, and persist never seeks before
\* the first slot or past the end of the log.
THEOREM TypeCorrect == Spec => []TypeOK
<1>1. DiskInv => TypeOK
  BY DEF DiskInv
<1> QED
  BY <1>1, DiskInvCorrect, PTL

=============================================================================
