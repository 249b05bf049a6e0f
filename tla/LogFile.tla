------------------------------- MODULE LogFile -------------------------------
(***************************************************************************)
(* What an event log looks like on disk: a file of lines and its backups,  *)
(* which of its lines a reader can parse, when it is full, and the orders  *)
(* in which a rotation and a reader go through the backups.                *)
(*                                                                         *)
(* Sizes are what matters of a record: a line has Whole bytes, a line that *)
(* begins with its own newline one more, a line cut off by a crash one.    *)
(***************************************************************************)
EXTENDS Naturals, Sequences

CONSTANTS
    Backups,         \* EVENT_LOG_BACKUPS, 4 in the code
    MaxBytes         \* MAX_EVENT_LOG_BYTES

\* The log itself is 0, its backups are numbered from the youngest.
Slots == 0 .. Backups

Whole == 2
Line(n, whole, own) == [n |-> n, whole |-> whole, own |-> own]
Width(line) == IF ~line.whole THEN 1 ELSE IF line.own THEN Whole + 1 ELSE Whole
Bytes(lines) ==
    LET total[i \in 0 .. Len(lines)] == IF i = 0 THEN 0 ELSE total[i - 1] + Width(lines[i])
    IN  total[Len(lines)]

\* A line parses unless it was cut off, or stuck to one that was.
Readable(lines, i) ==
    lines[i].whole /\ (i = 1 \/ lines[i].own \/ lines[i - 1].whole)

\* A file beyond the limit is skipped altogether.
Shown(lines) ==
    IF Bytes(lines) > MaxBytes THEN <<>>
    ELSE LET Keep[i \in 0 .. Len(lines)] ==
               IF i = 0 THEN <<>>
               ELSE IF Readable(lines, i) THEN Append(Keep[i - 1], lines[i].n) ELSE Keep[i - 1]
         IN  Keep[Len(lines)]

\* There is room for one more record.
Fits(lines) == Bytes(lines) + Whole <= MaxBytes

NewestFirst(i) == i

\* The i-th backup a rotation replaces: the oldest one first.
Replaced(i) == Backups + 1 - i

RisingOrder(i) == i - 1

\* The i-th file that is read: the oldest backup first, the log itself last.
ReadOrder(i) == Backups + 1 - i
=============================================================================
