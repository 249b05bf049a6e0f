------------------------------ MODULE SharedLog ------------------------------
(***************************************************************************)
(* An event log that several processes append to: every command of setup   *)
(* runs in a process of its own and records its failure when it has        *)
(* already dropped the machine's lock, or never got it, and APPEND_LOCK    *)
(* keeps apart only the threads of one process.  So any two of them may be *)
(* inside EventLogWriter::append at once: they look at the length of one   *)
(* file, rotate the same backups and write to files that were renamed or   *)
(* removed since they were opened.                                         *)
(*                                                                         *)
(* A process records one event at a time.  Any operation may fail and any  *)
(* process may die, also within a write; a reader goes through the files   *)
(* meanwhile.                                                              *)
(***************************************************************************)
EXTENDS LogFile, FiniteSets

CONSTANTS
    Process,         \* processes that may be appending at one time
    MaxRecords,      \* bound: records ever begun
    MaxFaults        \* bound: deaths and failed operations

VARIABLES
    file,       \* the lines of the log (0) and of its backups
    process,    \* the append of each process: its step, its turn, the file it has open
    reader,     \* a reader: the file it reads next and the records it has
    acked,      \* history: lines whose append succeeded
    crowded,    \* history: two processes were appending at once
    begun, written, faults

vars == <<file, process, reader, acked, crowded, begun, written, faults>>

-----------------------------------------------------------------------------
Closed == Backups + 1
Rest == [at |-> "idle", turn |-> 0, slot |-> Closed]
Steps == {"idle", "look", "remove", "rename", "open", "write"}

\* A file is there when it has lines, or was just opened.
Exists(s) == file[s] # <<>> \/ \E p \in Process : process[p].slot = s
Kept == UNION {{file[s][i].n : i \in DOMAIN file[s]} : s \in Slots}
Stuck == UNION {{file[s][i].n : i \in {j \in DOMAIN file[s] : ~Readable(file[s], j)}} : s \in Slots}

\* Every variable has its type; who writes has a file open, if no longer by a name.
SharedTypeOK ==
    /\ DOMAIN file = Slots
    /\ \A s \in Slots : \A i \in DOMAIN file[s] : file[s][i].n \in 1 .. written
    /\ process \in [Process -> [at : Steps, turn : 0 .. Backups, slot : 0 .. Closed]]
    /\ \A p \in Process : process[p].slot \in Slots => process[p].at = "write"
    /\ reader.at \in 0 .. Backups + 2
    /\ acked \subseteq 1 .. written /\ crowded \in BOOLEAN
    /\ begun \in 0 .. MaxRecords /\ written \in 0 .. begun /\ faults \in 0 .. MaxFaults

Init ==
    /\ file = [s \in Slots |-> <<>>]
    /\ process = [p \in Process |-> Rest]
    /\ reader = [at |-> 0, got |-> <<>>]
    /\ acked = {} /\ crowded = FALSE
    /\ begun = 0 /\ written = 0 /\ faults = 0

-----------------------------------------------------------------------------
(* EventLogWriter::append, in every process.                               *)

\* The length is looked at, once.
Enter(p) ==
    /\ process[p].at = "idle" /\ begun < MaxRecords
    /\ begun' = begun + 1
    /\ process' = [process EXCEPT ![p] = IF Fits(file[0]) THEN [Rest EXCEPT !.at = "open"]
                                         ELSE [Rest EXCEPT !.at = "look", !.turn = 1]]
    /\ crowded' = (crowded \/ \E q \in Process \ {p} : process[q].at # "idle")
    /\ UNCHANGED <<file, reader, acked, written, faults>>

Goes(p, at) == process' = [process EXCEPT ![p].at = at]
Leaves(p) == process' = [process EXCEPT ![p] = Rest]

\* exists() and remove_file() are two calls: the second fails, and the append with
\* it, when the file went in between.
Look(p) ==
    /\ process[p].at = "look"
    /\ Goes(p, IF Exists(Replaced(process[p].turn)) THEN "remove" ELSE "rename")
    /\ UNCHANGED <<file, reader, acked, crowded, begun, written, faults>>

\* Whoever has file s open keeps it open: under its new name, or under none.
Moved(p, s, to, at) ==
    [q \in Process |-> IF q = p THEN [process[p] EXCEPT !.at = at]
                       ELSE IF process[q].slot = s THEN [process[q] EXCEPT !.slot = to]
                       ELSE process[q]]
Remove(p) ==
    /\ process[p].at = "remove"
    /\ LET s == Replaced(process[p].turn) IN
       IF Exists(s)
       THEN file' = [file EXCEPT ![s] = <<>>] /\ process' = Moved(p, s, Closed, "rename")
       ELSE Leaves(p) /\ UNCHANGED file
    /\ UNCHANGED <<reader, acked, crowded, begun, written, faults>>

\* A rename replaces what has its new name by now; nothing to rename is no error.
Onward(p) ==
    IF process[p].turn < Backups THEN [process[p] EXCEPT !.turn = @ + 1, !.at = "look"]
    ELSE [process[p] EXCEPT !.at = "open"]
Rename(p) ==
    /\ process[p].at = "rename"
    /\ LET s == Replaced(process[p].turn) IN
       IF Exists(s - 1)
       THEN /\ file' = [file EXCEPT ![s] = file[s - 1], ![s - 1] = <<>>]
            /\ process' = [q \in Process |->
                  IF q = p THEN Onward(p)
                  ELSE IF process[q].slot = s THEN [process[q] EXCEPT !.slot = Closed]
                  ELSE IF process[q].slot = s - 1 THEN [process[q] EXCEPT !.slot = s]
                  ELSE process[q]]
       ELSE process' = [process EXCEPT ![p] = Onward(p)] /\ UNCHANGED file
    /\ UNCHANGED <<reader, acked, crowded, begun, written, faults>>

Open(p) ==
    /\ process[p].at = "open"
    /\ process' = [process EXCEPT ![p].at = "write", ![p].slot = 0]
    /\ UNCHANGED <<file, reader, acked, crowded, begun, written, faults>>

\* The line goes to the end of the file that was opened, wherever it is by now.
Puts(p, line) ==
    /\ written' = written + 1
    /\ file' = IF process[p].slot \in Slots
               THEN [file EXCEPT ![process[p].slot] = Append(@, line)] ELSE file
Write(p) ==
    /\ process[p].at = "write"
    /\ Puts(p, Line(written + 1, TRUE, FALSE))
    /\ acked' = acked \cup {written + 1}
    /\ Leaves(p)
    /\ UNCHANGED <<reader, crowded, begun, faults>>

\* An operation fails or the process dies: nothing more is written, or the
\* beginning of the line.
Fails(p) ==
    /\ process[p].at # "idle" /\ faults < MaxFaults
    /\ faults' = faults + 1
    /\ \/ UNCHANGED <<file, written>>
       \/ process[p].at = "write" /\ Puts(p, Line(written + 1, FALSE, FALSE))
    /\ Leaves(p)
    /\ UNCHANGED <<reader, acked, crowded, begun>>

-----------------------------------------------------------------------------
(* A reader.                                                               *)

StartRead ==
    /\ reader.at = 0 /\ written > 0
    /\ reader' = [at |-> 1, got |-> <<>>]
    /\ UNCHANGED <<file, process, acked, crowded, begun, written, faults>>
ReadFile ==
    /\ reader.at \in 1 .. Backups + 1
    /\ reader' = [at |-> reader.at + 1, got |-> reader.got \o Shown(file[ReadOrder(reader.at)])]
    /\ UNCHANGED <<file, process, acked, crowded, begun, written, faults>>

Next ==
    \/ \E p \in Process : \/ Enter(p) \/ Look(p) \/ Remove(p) \/ Rename(p)
                          \/ Open(p) \/ Write(p) \/ Fails(p)
    \/ StartRead \/ ReadFile

Spec == Init /\ [][Next]_vars

-----------------------------------------------------------------------------
(* Properties.                                                             *)

\* However many processes look at the length at once and rotate under each other,
\* a file outgrows the limit beyond which readers skip it by at most one record of
\* each other process; and not at all as long as they append one by one
\* (contract event_log.rs 118-125 and 171-179).
OutgrowthIsBounded ==
    \A s \in Slots :
        Bytes(file[s]) <= MaxBytes + (IF crowded THEN (Cardinality(Process) - 1) * Whole ELSE 0)

\* As long as they append one by one, the oldest records go first, and none before
\* every backup is in use; a failure costs at most one backup (180-195).
OnlyTheOldestGo ==
    LET gone == acked \ Kept
    IN  ~crowded /\ gone # {} =>
            /\ \A n \in gone, m \in Kept : n < m
            /\ (\A p \in Process : process[p].at = "idle") =>
                 Cardinality({s \in Slots \ {0} : file[s] = <<>>}) <= faults

\* What the others cut off makes at most one line unreadable for every death, also
\* where their lines meet in one file (121-125).
FewAreUnreadable == Cardinality(Stuck \cap acked) <= faults

\* What several processes without a common lock leave on disk: a readable log of
\* about its size, and its tail if they did not meet.
SharedLogInvariant ==
    SharedTypeOK /\ OutgrowthIsBounded /\ OnlyTheOldestGo /\ FewAreUnreadable

\* A reader never shows a record twice, with two rotations under way beneath it:
\* each of them, too, moves files only towards those already read (206-212).
ReaderSeesOnce == \A i, j \in DOMAIN reader.got : reader.got[i] = reader.got[j] => i = j
=============================================================================
