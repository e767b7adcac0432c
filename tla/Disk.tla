-------------------------------- MODULE Disk --------------------------------
(***************************************************************************)
(* The metadata file of one server: a header page (term, log length) and    *)
(* one slot per log entry.  persist rewrites the header, then the slots of  *)
(* the new entries through a buffer that is flushed whenever it is full;    *)
(* the process may die between two writes.  restore reads it back, or       *)
(* panics when the header promises a slot the file does not have.           *)
(*                                                                         *)
(* log is the code's s.log, its empty first entry included, so entry i is   *)
(* s.log[i-1].  The file is opened with O_SYNC: writes reach it in order.   *)
(* The vote is left out: restore loses it (Raft!Restart).                   *)
(***************************************************************************)
EXTENDS Integers, Sequences

CONSTANTS
    Chunk,       \* entries the buffer holds: 4096 / ENTRY_SIZE
    MaxBatch,    \* bound: entries appended at once
    MaxLen,      \* bound: length of the log
    MaxTerm      \* bound: terms

ASSUME DiskAssumption ==
    /\ Chunk \in Nat \ {0} /\ MaxBatch \in Nat \ {0}
    /\ {MaxLen, MaxTerm} \subseteq Nat

VARIABLES
    proc,        \* "up", "down", "wedged": persist panicked with s.mu held,
                 \* or "panicked": restore panicked, as any later start will
    term,        \* s.currentTerm
    log,         \* s.log
    header,      \* the header page, or NoFile
    slots,       \* the entries in the file; a hole reads as the empty entry
    step,        \* persist: "idle", about to write "header" or "entries"
    next         \* the first slot persist has not written yet

vars == <<proc, term, log, header, slots, step, next>>

\* size is "large" when the command does not fit a slot.
Entry  == [term : Nat, size : {"small", "large"}]
Empty  == [term |-> 0, size |-> "small"]
NoFile == [term |-> 0, len |-> 0]

Init ==
    /\ proc = "up"
    /\ term = 0
    /\ log = <<Empty>>
    /\ header = NoFile
    /\ slots = <<>>
    /\ step = "idle"
    /\ next = 2

Idle == proc = "up" /\ step = "idle"

\* persist(writeLog, n): n entries at the end of newLog are new.
persist(newTerm, newLog, n) ==
    /\ term' = newTerm
    /\ log' = newLog
    /\ step' = "header"
    /\ next' = Len(newLog) - n + 1
    /\ UNCHANGED <<proc, header, slots>>

\* timeout, updateTerm, a granted vote and a heartbeat (the last two without
\* a new term) persist no entry.
NewTerm ==
    /\ Idle
    /\ \E t \in (term..MaxTerm) \ {0} : persist(t, log, 0)

\* Faulty: a truncation is not taken into account when counting entries.
AppendWithoutCut(keep, es) == persist(term, SubSeq(log, 1, keep) \o es,
                                      keep + Len(es) - Len(log))

\* A leader's Apply, AddServer or blank entry (keep is the whole log), or a
\* follower that cut its log before a conflict and appended the rest.
\* HandleAppendEntriesRequest never cuts without appending.
AppendNew(keep, es) == persist(term, SubSeq(log, 1, keep) \o es, Len(es))

Entries(n, size) == [i \in 1..n |-> [term |-> term, size |-> size]]

AppendEntries ==
    /\ Idle
    /\ term > 0
    /\ \E keep \in 1..Len(log), n \in 1..MaxBatch :
        /\ keep + n <= MaxLen
        /\ keep < Len(log) => log[keep + 1].term # term
        /\ AppendNew(keep, Entries(n, "small"))

\* Apply and appendLocked do not look at the size of a command.
ApplyLarge ==
    /\ Idle
    /\ term > 0
    /\ Len(log) < MaxLen
    /\ AppendNew(Len(log), Entries(1, "large"))

WriteHeader ==
    /\ proc = "up"
    /\ step = "header"
    /\ header' = [term |-> term, len |-> Len(log)]
    /\ step' = IF next > Len(log) THEN "idle" ELSE "entries"
    /\ UNCHANGED <<proc, term, log, slots, next>>

\* Faulty: the writer does not seek past the entries already there.
PutWithoutSeek(from, to) ==
    [i \in 1..(IF to > Len(slots) THEN to ELSE Len(slots)) |->
        IF i \in 1..(to - from + 1) THEN log[from + i - 1]
        ELSE IF i <= Len(slots) THEN slots[i] ELSE Empty]

\* The slots between the end of the file and the ones written are a hole.
Put(from, to) ==
    [i \in 1..(IF to > Len(slots) THEN to ELSE Len(slots)) |->
        IF i \in from..to THEN log[i]
        ELSE IF i <= Len(slots) THEN slots[i] ELSE Empty]

\* One flush of the buffer.  A command that does not fit panics before it;
\* net/http recovers the panic of a handler and s.mu stays locked.
WriteEntries ==
    LET last == IF next + Chunk - 1 < Len(log) THEN next + Chunk - 1 ELSE Len(log)
    IN
    /\ proc = "up"
    /\ step = "entries"
    /\ \/ /\ \E i \in next..last : log[i].size = "large"
          /\ proc' = "wedged"
          /\ UNCHANGED <<slots, next, step>>
       \/ /\ \A i \in next..last : log[i].size = "small"
          /\ slots' = Put(next, last)
          /\ next' = last + 1
          /\ step' = IF last = Len(log) THEN "idle" ELSE "entries"
          /\ UNCHANGED proc
    /\ UNCHANGED <<term, log, header>>

Crash ==
    /\ proc \in {"up", "wedged"}
    /\ proc' = "down"
    /\ step' = "idle"
    /\ UNCHANGED <<term, log, header, slots, next>>

\* restore(): reading a slot past the end of the file panics.
Restorable == header.len <= Len(slots)

RestoredLog ==
    IF header.len = 0 THEN <<Empty>> ELSE SubSeq(slots, 1, header.len)

\* NewServer and Start: restore reads the file, or panics and leaves it as it
\* was; term, log and next then still tell what the last process had.
Restart ==
    /\ proc = "down"
    /\ \/ /\ Restorable
          /\ proc' = "up"
          /\ term' = header.term
          /\ log' = RestoredLog
          /\ next' = Len(RestoredLog) + 1
       \/ /\ ~Restorable
          /\ proc' = "panicked"
          /\ UNCHANGED <<term, log, next>>
    /\ UNCHANGED <<header, slots, step>>

Next ==
    \/ NewTerm \/ AppendEntries \/ ApplyLarge
    \/ WriteHeader \/ WriteEntries \/ Crash \/ Restart

Spec == Init /\ [][Next]_vars

-----------------------------------------------------------------------------
(* Properties *)

\* The memory and the file have the shapes persist and restore rely on;
\* persist never seeks before the first slot or beyond the end of the log.
TypeOK ==
    /\ proc \in {"up", "down", "wedged", "panicked"}
    /\ term \in Nat
    /\ log \in Seq(Entry) /\ log # <<>>
    /\ header \in [term : Nat, len : Nat]
    /\ slots \in Seq(Entry)
    /\ step \in {"idle", "header", "entries"}
    /\ next \in 1..(Len(log) + 1)

\* When persist has returned, restore gives back the term and the log, after
\* any sequence of appends, truncations, crashes and restarts: stale slots
\* beyond the end are not read, and nothing before the end is missing.  The
\* first entry must have been persisted (see NeverStuck).
RestoreYieldsMemory ==
    Idle /\ Len(log) > 1 =>
        /\ Restorable
        /\ RestoredLog = log
        /\ header.term = term

\* What a start gives back after a crash between any two writes of persist.
\* Every entry persisted by an earlier call, hence acknowledged, is in its
\* slot, and restore gives it back unless it panics; it panics only when the
\* persist that the crash (or an oversize command) interrupted had entries
\* still to write, or when the server never persisted an entry.  That it does
\* panic then, and gives nothing back, is NeverStuck's run.
RestartKeepsAcknowledged ==
    [][proc = "down" =>
          /\ proc' = "up" =>
                \A i \in 2..(next - 1) : i <= Len(log') /\ log'[i] = log[i]
          /\ proc' = "panicked" =>
                /\ next <= Len(log) \/ Len(log) = 1
                /\ \A i \in 2..(next - 1) : i <= Len(slots) /\ slots[i] = log[i]]_vars

\* A server that has persisted can be started again, whenever it stopped: what
\* the README calls term/vote persistence.
NeverStuck == proc # "panicked"

=============================================================================
