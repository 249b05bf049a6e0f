------------------------------ MODULE EventLog ------------------------------
(***************************************************************************)
(* The event log of one process, which appends records, one line each: the *)
(* service host through a logger that counts injections, writes a summary  *)
(* per window and throttles repeated failures; the control center from any *)
(* of its threads, and once more, without the lock, when the session ends. *)
(* A full file is rotated through a fixed number of backups by removing    *)
(* and renaming them one by one; a reader, in another thread or process    *)
(* and under no lock, reads all of them, oldest first.                     *)
(*                                                                         *)
(* APPEND_LOCK is local to a process: a log that several processes append  *)
(* to, as those of setup do, is SharedLog's subject.  The process may die  *)
(* between any two steps, and within a write; any file operation may fail. *)
(***************************************************************************)
EXTENDS LogFile, FiniteSets

CONSTANTS
    Thread,          \* threads of the control center
    Key,             \* failed injections the host may see: a process and a code
    Arch,            \* architectures whose helper broker may fail
    ThrottleSize,    \* 256 in the code
    SummaryWindow, DedupeWindow,
    MaxRecords,      \* bound: lines ever written, records the control center ever begins
    MaxResults,      \* bound: injections and flushes of the host
    MaxTime,         \* bound: the clock
    MaxFaults        \* bound: crashes and failed operations

VARIABLES
    role,       \* whose log this is
    file,       \* the lines of the log (0) and of its backups
    thread,     \* what each thread is appending
    lock,       \* the thread that holds APPEND_LOCK
    logger,     \* HostEventLoggerState
    ending,     \* the record of the end of the session
    reader,     \* a reader: the file it reads next and the records it has
    clock,
    acked,      \* history: lines whose append succeeded
    adrift,     \* history: lines the session's end wrote to a rotated file
    raced,      \* history: the file grew between its size check and its write
    books,      \* history: results seen, reported, and lost with a write or a crash
    heard,      \* history: when each failure last happened, and was last written or tried
    written, results, faults

host == <<logger, books, heard, results>>
vars == <<role, file, thread, lock, logger, ending, reader, clock, acked, adrift, raced,
          books, heard, written, results, faults>>

ASSUME SizesAssumption == {Backups, MaxBytes, ThrottleSize} \subseteq Nat \ {0} /\ MaxBytes > 2
ASSUME WindowsAssumption == SummaryWindow \in Nat /\ DedupeWindow \in Nat \ {0}
ASSUME BoundsAssumption == {MaxRecords, MaxResults, MaxTime, MaxFaults} \subseteq Nat
ASSUME ThrottlesAssumption == Key \cap Arch = {}

-----------------------------------------------------------------------------
(* Files, lines and what a reader makes of them.                           *)

Nobody == "nobody"
ASSUME ThreadsAssumption == Thread # {} /\ Nobody \notin Thread
Failure == Key \cup Arch
Healths == {"unset", "other", "ready", "degraded", "failed"}
Never == MaxTime + DedupeWindow + 1
Kept == UNION {{file[s][i].n : i \in 1 .. Len(file[s])} : s \in Slots}
Stuck == UNION {{file[s][i].n : i \in {j \in 1 .. Len(file[s]) : ~Readable(file[s], j)}} : s \in Slots}

Rest == [at |-> "idle", todo |-> <<>>, turn |-> 0]
Empty == [count |-> 0, since |-> 0, health |-> "unset", seen |-> [k \in Failure |-> Never]]
Unheard == [failed |-> Never, tried |-> Never]
Tally == [kind |-> "summary", amount |-> 0]
Plain == [kind |-> "plain", amount |-> 0]

\* Every variable has its type; who writes holds the lock.
EventLogTypeOK ==
    /\ role \in {"host", "center"}
    /\ \A s \in Slots, i \in 1 .. MaxRecords : i \in DOMAIN file[s] => file[s][i].n \in 1 .. MaxRecords
    /\ \A t \in Thread : /\ thread[t].at \in {"idle", "ready", "remove", "rename", "write"}
                         /\ thread[t].turn \in 0 .. Backups
                         /\ thread[t].at \in {"remove", "rename", "write"} => lock = t
    /\ lock \in Thread \cup {Nobody}
    /\ logger.health \in Healths
    /\ \A keys \in {Key, Arch} : Cardinality({k \in keys : logger.seen[k] # Never}) <= ThrottleSize
    /\ ending.at \in {"no", "open", "done"} /\ ending.slot \in Slots \cup {Backups + 1}
    /\ reader.at \in 0 .. Backups + 2
    /\ clock \in 0 .. MaxTime /\ written \in 0 .. MaxRecords

Init ==
    /\ role \in {"host", "center"}
    /\ file = [s \in Slots |-> <<>>]
    /\ thread = [t \in Thread |-> Rest]
    /\ lock = Nobody
    /\ logger = Empty
    /\ ending = [at |-> "no", slot |-> 0, bytes |-> 0]
    /\ reader = [at |-> 0, got |-> <<>>]
    /\ clock = 0
    /\ acked = {} /\ adrift = {} /\ raced = FALSE
    /\ books = [seen |-> 0, reported |-> 0, lost |-> 0]
    /\ heard = [k \in Failure |-> Unheard]
    /\ written = 0 /\ results = 0 /\ faults = 0

Fault == faults < MaxFaults /\ faults' = faults + 1

-----------------------------------------------------------------------------
(* The host's logger.  Its mutex is held until the records are written, so *)
(* one thread stands for all that report to it.                            *)

Elapsed(since, window) == clock - since >= window

Fellows(k) == IF k \in Key THEN Key ELSE Arch
Known(keys) == {k \in keys : logger.seen[k] # Never}
Oldest(keys) == CHOOSE k \in Known(keys) : \A j \in Known(keys) : logger.seen[k] <= logger.seen[j]
RoomFor(k) ==
    IF logger.seen[k] = Never /\ Cardinality(Known(Fellows(k))) >= ThrottleSize
    THEN [logger.seen EXCEPT ![Oldest(Fellows(k))] = Never] ELSE logger.seen

\* EventThrottle::allow, of the throttle for failed injections or of the one for
\* helpers: once per window, and the oldest key makes room.
Allow(k) ==
    IF logger.seen[k] # Never /\ ~Elapsed(logger.seen[k], DedupeWindow)
    THEN [ok |-> FALSE, seen |-> logger.seen]
    ELSE [ok |-> TRUE, seen |-> [RoomFor(k) EXCEPT ![k] = clock]]

FlushKeepsCount == [records |-> <<[Tally EXCEPT !.amount = logger.count]>>, count |-> logger.count]

\* flush_summary takes the counts; a window without results writes nothing.
Flush ==
    [records |-> IF logger.count = 0 THEN <<>> ELSE <<[Tally EXCEPT !.amount = logger.count]>>,
     count |-> 0]

FlushElapsed ==
    IF Elapsed(logger.since, SummaryWindow) THEN Flush ELSE [records |-> <<>>, count |-> logger.count]

Since == IF Elapsed(logger.since, SummaryWindow) THEN clock ELSE logger.since

Logs(t, records) ==
    thread' = [thread EXCEPT ![t] = IF records = <<>> THEN Rest ELSE [Rest EXCEPT !.at = "ready", !.todo = records]]

HostMayRecord(t) ==
    /\ role = "host" /\ \A u \in Thread : thread[u].at = "idle"
    /\ t = CHOOSE u \in Thread : TRUE
    /\ results < MaxResults
    /\ results' = results + 1

Hear(k, gate) ==
    heard' = [heard EXCEPT ![k] = [failed |-> clock, tried |-> IF gate.ok THEN clock ELSE @.tried]]

\* An injected or skipped target is counted, a failed one is counted and, when
\* the throttle allows it, written.
InjectionResult(t) ==
    /\ HostMayRecord(t)
    /\ \/ /\ logger' = [logger EXCEPT !.count = FlushElapsed.count + 1, !.since = Since]
          /\ Logs(t, FlushElapsed.records)
          /\ UNCHANGED heard
       \/ \E k \in Key :
            LET gate == Allow(k) IN
            /\ logger' = [logger EXCEPT !.count = FlushElapsed.count + 1, !.since = Since, !.seen = gate.seen]
            /\ Logs(t, FlushElapsed.records \o (IF gate.ok THEN <<Plain>> ELSE <<>>))
            /\ Hear(k, gate)
    /\ books' = [books EXCEPT !.seen = @ + 1]
    /\ UNCHANGED <<role, file, lock, ending, reader, clock, acked, adrift, raced, written, faults>>

FlushInjectionSummary(t) ==
    /\ HostMayRecord(t)
    /\ Elapsed(logger.since, SummaryWindow)
    /\ logger' = [logger EXCEPT !.count = FlushElapsed.count, !.since = Since]
    /\ Logs(t, FlushElapsed.records)
    /\ UNCHANGED <<role, file, lock, ending, reader, clock, acked, adrift, raced, books, heard, written, faults>>

\* The broker of one architecture failed: not counted, and throttled.
HelperBrokerFailed(t) ==
    /\ HostMayRecord(t)
    /\ \E a \in Arch :
         LET gate == Allow(a) IN
         /\ logger' = [logger EXCEPT !.seen = gate.seen]
         /\ Logs(t, IF gate.ok THEN <<Plain>> ELSE <<>>)
         /\ Hear(a, gate)
    /\ UNCHANGED <<role, file, lock, ending, reader, clock, acked, adrift, raced, books, written, faults>>

Worse(h) == h \in {"degraded", "failed"}

\* A health that is new is remembered; it is written when it is worse, or ready
\* after a worse one.
HealthChanged(t) ==
    /\ HostMayRecord(t)
    /\ \E h \in Healths \ {"unset"} :
         /\ logger' = [logger EXCEPT !.health = h]
         /\ Logs(t, IF h # logger.health /\ (Worse(h) \/ (h = "ready" /\ Worse(logger.health)))
                    THEN <<Plain>> ELSE <<>>)
    /\ UNCHANGED <<role, file, lock, ending, reader, clock, acked, adrift, raced, books, heard, written, faults>>

\* service_started is written and makes the health ready; service_start_skipped
\* is only written.
ServiceStarted(t) ==
    /\ HostMayRecord(t)
    /\ \E h \in {"ready", logger.health} : logger' = [logger EXCEPT !.health = h]
    /\ Logs(t, <<Plain>>)
    /\ UNCHANGED <<role, file, lock, ending, reader, clock, acked, adrift, raced, books, heard, written, faults>>

ServiceStopped(t) ==
    /\ HostMayRecord(t)
    /\ logger' = [logger EXCEPT !.count = Flush.count, !.since = clock]
    /\ Logs(t, Flush.records \o <<Plain>>)
    /\ UNCHANGED <<role, file, lock, ending, reader, clock, acked, adrift, raced, books, heard, written, faults>>

\* record_activity, record_operation_failure and the other events of the
\* control center, from whatever thread meets them.
Record(t) ==
    /\ role = "center" /\ thread[t].at = "idle" /\ results < MaxRecords
    /\ Logs(t, <<Plain>>)
    /\ results' = results + 1
    /\ UNCHANGED <<role, file, lock, logger, ending, reader, clock, acked, adrift, raced, books, heard, written, faults>>

-----------------------------------------------------------------------------
(* EventLogWriter::append.                                                 *)

\* The lock is taken and the length looked at.
Enter(t) ==
    /\ thread[t].at = "ready" /\ lock = Nobody
    /\ lock' = t
    /\ thread' = [thread EXCEPT ![t].at = IF Fits(file[0]) THEN "write" ELSE "remove",
                                ![t].turn = IF Fits(file[0]) THEN 0 ELSE 1]
    /\ UNCHANGED <<role, file, ending, reader, clock, acked, adrift, raced, host, written, faults>>

\* The file the session's end has open moves and goes with its name.
Follows(s, moved) == ending' = IF ending.at = "open" /\ ending.slot = s THEN [ending EXCEPT !.slot = moved] ELSE ending

Remove(t) ==
    /\ thread[t].at = "remove"
    /\ file' = [file EXCEPT ![Replaced(thread[t].turn)] = <<>>]
    /\ Follows(Replaced(thread[t].turn), Backups + 1)
    /\ thread' = [thread EXCEPT ![t].at = "rename"]
    /\ UNCHANGED <<role, lock, reader, clock, acked, adrift, raced, host, written, faults>>

Rename(t) ==
    /\ thread[t].at = "rename"
    /\ LET s == Replaced(thread[t].turn) IN
         /\ file' = [file EXCEPT ![s] = file[s - 1], ![s - 1] = <<>>]
         /\ Follows(s - 1, s)
    /\ thread' = IF thread[t].turn < Backups
                 THEN [thread EXCEPT ![t].turn = @ + 1, ![t].at = "remove"]
                 ELSE [thread EXCEPT ![t].at = "write"]
    /\ UNCHANGED <<role, lock, reader, clock, acked, adrift, raced, host, written, faults>>

Leave(t) ==
    /\ lock' = Nobody
    /\ Logs(t, Tail(thread[t].todo))

Terminated(n) == Line(n, TRUE, FALSE)

Write(t) ==
    /\ thread[t].at = "write" /\ written < MaxRecords
    /\ file' = [file EXCEPT ![0] = Append(@, Terminated(written + 1))]
    /\ written' = written + 1
    /\ acked' = acked \cup {written + 1}
    /\ books' = [books EXCEPT !.reported = @ + Head(thread[t].todo).amount]
    /\ Leave(t)
    /\ UNCHANGED <<role, logger, ending, reader, clock, adrift, raced, heard, results, faults>>

\* A write that is cut off leaves the beginning of its line behind.
CutOff ==
    /\ written < MaxRecords
    /\ file' = [file EXCEPT ![0] = Append(@, Line(written + 1, FALSE, FALSE))]
    /\ written' = written + 1

\* An operation on a file fails: the record is lost.
Fails(t) ==
    /\ thread[t].at \in {"remove", "rename", "write"}
    /\ Fault
    /\ \/ UNCHANGED <<file, written>>
       \/ thread[t].at = "write" /\ CutOff
    /\ books' = [books EXCEPT !.lost = @ + Head(thread[t].todo).amount]
    /\ Leave(t)
    /\ UNCHANGED <<role, logger, ending, reader, clock, acked, adrift, raced, heard, results>>

-----------------------------------------------------------------------------
(* The end of the session, which must not wait for the lock.               *)

OpenEnding ==
    /\ role = "center" /\ ending.at = "no"
    /\ ending' = [at |-> "open", slot |-> 0, bytes |-> Bytes(file[0])]
    /\ UNCHANGED <<role, file, thread, lock, reader, clock, acked, adrift, raced, host, written, faults>>

EndingLine(n) == Line(n, TRUE, ending.bytes # 0)
EndingFits == ending.bytes + Width(EndingLine(1)) <= MaxBytes

\* What is written goes to the file that was opened, wherever it is by now.
EndsWith(line) ==
    /\ written' = written + 1
    /\ file' = IF ending.slot \in Slots THEN [file EXCEPT ![ending.slot] = Append(@, line)] ELSE file
    /\ adrift' = IF ending.slot = 0 THEN adrift ELSE adrift \cup {written + 1}
    /\ raced' = \/ raced \/ ending.slot = Backups + 1 \/ Bytes(file[ending.slot]) # ending.bytes
                \/ \E t \in Thread : thread[t].at = "write"

\* The record begins with a newline of its own in a file that was not empty; a
\* full file is left alone.
WriteEnding ==
    /\ ending.at = "open" /\ written < MaxRecords
    /\ ending' = [ending EXCEPT !.at = "done"]
    /\ IF EndingFits
       THEN EndsWith(EndingLine(written + 1)) /\ acked' = acked \cup {written + 1}
       ELSE UNCHANGED <<file, written, acked, adrift, raced>>
    /\ UNCHANGED <<role, thread, lock, reader, clock, host, faults>>

\* An operation on the file fails, or the write is cut off.
EndingFails ==
    /\ ending.at = "open" /\ Fault
    /\ ending' = [ending EXCEPT !.at = "done"]
    /\ \/ UNCHANGED <<file, written, adrift, raced>>
       \/ EndingFits /\ written < MaxRecords /\ EndsWith(Line(written + 1, FALSE, FALSE))
    /\ UNCHANGED <<role, thread, lock, reader, clock, acked, host>>

-----------------------------------------------------------------------------
(* Readers, time and crashes.                                              *)

StartRead ==
    /\ reader.at = 0 /\ written > 0
    /\ reader' = [at |-> 1, got |-> <<>>]
    /\ UNCHANGED <<role, file, thread, lock, logger, ending, clock, acked, adrift, raced, books, heard, written, results, faults>>

ReadFile ==
    /\ reader.at \in 1 .. Backups + 1
    /\ reader' = [at |-> reader.at + 1, got |-> reader.got \o Shown(file[ReadOrder(reader.at)])]
    /\ UNCHANGED <<role, file, thread, lock, logger, ending, clock, acked, adrift, raced, books, heard, written, results, faults>>

Tick ==
    /\ role = "host" /\ clock < MaxTime
    /\ clock' = clock + 1
    /\ UNCHANGED <<role, file, thread, lock, logger, ending, reader, acked, adrift, raced, books, heard, written, results, faults>>

Pending(t) ==
    LET total[i \in 0 .. Len(thread[t].todo)] ==
          IF i = 0 THEN 0 ELSE total[i - 1] + thread[t].todo[i].amount
    IN  total[Len(thread[t].todo)]
InHand == Pending(CHOOSE u \in Thread : TRUE)

\* The process dies, perhaps within a write, and another one takes its place.
Crash ==
    /\ Fault
    /\ \/ UNCHANGED <<file, written>>
       \/ lock # Nobody /\ thread[lock].at = "write" /\ CutOff
    /\ thread' = [t \in Thread |-> Rest]
    /\ lock' = Nobody
    /\ logger' = [Empty EXCEPT !.since = clock]
    /\ heard' = [k \in Failure |-> Unheard]
    /\ books' = [books EXCEPT !.lost = @ + logger.count + InHand]
    /\ ending' = [at |-> "no", slot |-> 0, bytes |-> 0]
    /\ UNCHANGED <<role, reader, clock, acked, adrift, raced, results>>

AppendStep(t) == Enter(t) \/ Remove(t) \/ Rename(t) \/ Write(t) \/ Fails(t)

Next ==
    \/ \E t \in Thread : \/ InjectionResult(t) \/ FlushInjectionSummary(t) \/ HelperBrokerFailed(t)
                         \/ HealthChanged(t) \/ ServiceStarted(t) \/ ServiceStopped(t)
                         \/ Record(t) \/ AppendStep(t)
    \/ OpenEnding \/ WriteEnding \/ EndingFails
    \/ StartRead \/ ReadFile
    \/ Tick \/ Crash

Spec == Init /\ [][Next]_vars

-----------------------------------------------------------------------------
(* Properties.                                                             *)

\* No file outgrows the limit beyond which readers skip it whole, except when
\* the unlocked record of the session's end was written beside another append
\* (contract event_log.rs 177 and 213, operation_log.rs 227).
NoOversizedFile == raced \/ \A s \in Slots : Bytes(file[s]) <= MaxBytes

\* Rotation gives up the oldest records, no others, and none before every
\* backup is in use; a process that dies or an operation that fails in the
\* middle of a rotation costs at most one backup (contract event_log.rs 180-195).
OnlyTheOldestGo ==
    LET gone == acked \ (Kept \cup adrift)
    IN  gone # {} => /\ \A n \in gone, m \in Kept \ adrift : n < m
                     /\ lock = Nobody => Cardinality({s \in 1 .. Backups : file[s] = <<>>}) <= faults

\* A line whose append succeeded can be read back, unless it follows one that
\* a crash cut off, at most one for every crash (contract event_log.rs 121-125).
FewAreUnreadable == Cardinality(Stuck \cap acked) <= faults

\* The files on disk are a bounded, readable tail of what was appended, through
\* every rotation, crash and unlocked last record.
LogInvariant ==
    EventLogTypeOK /\ NoOversizedFile /\ OnlyTheOldestGo /\ FewAreUnreadable

\* A reader that takes no lock never shows a record twice, however the files
\* move under it: it reads against the direction in which they are renamed
\* (contract event_log.rs 207-210, operation_log.rs 279-283).
ReaderSeesOnce == \A i, j \in DOMAIN reader.got : reader.got[i] = reader.got[j] => i = j

\* The summaries account for every result: each was reported, is being counted
\* or written, or was lost with a write that failed or with the process (host
\* event_log.rs 386-405).
SummariesAddUp ==
    books.seen = books.reported + books.lost + logger.count + InHand

\* A failure that keeps happening is not silenced for longer than the window:
\* whenever it happens its record was written, or its write tried, less than a
\* window ago, however full the throttle is (contract event_log.rs 270-292).
FailureIsHeard ==
    \A k \in Failure : heard[k].failed # Never =>
        heard[k].tried # Never /\ heard[k].failed - heard[k].tried < DedupeWindow

\* What the logger condenses it does not hide: counts add up, and repeated
\* failures come back after their window.
LoggerIsHonest == SummariesAddUp /\ FailureIsHeard

=============================================================================
