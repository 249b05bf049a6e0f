---------------------- MODULE OrchestrationDriverProofs ----------------------
(***************************************************************************)
(* Proofs about OrchestrationDriver, for every set of processes, channel   *)
(* capacity, number of recovery attempts and tolerated failures: no        *)
(* process slips between the source and a snapshot, shells are drained     *)
(* first, and the published health is what the last injection showed.      *)
(*                                                                         *)
(* What makes these inductive: once the first snapshot is taken there is a *)
(* source that listens or that is known to have failed, so that a process  *)
(* that starts is announced or will be found by a recovery; a recovery     *)
(* that goes on has an attempt left; and the health rule holds at every    *)
(* step of the loop, not only at its start.                                *)
(***************************************************************************)
EXTENDS OrchestrationDriver, FiniteSetTheorems, SequenceTheorems, TLAPS

-----------------------------------------------------------------------------
(***************************************************************************)
(* The inductive invariant                                                 *)
(***************************************************************************)
Before == {"open", "subscribe", "snapshot"}
Round == {"loop", "drain", "poll", "polling", "observe", "handling"}
Recovery == {"recover", "resubscribe", "resnapshot"}

SourceRecord ==
    [kind : {"none", "etw", "wmi"}, open : BOOLEAN, lost : BOOLEAN, ended : BOOLEAN,
     announced : SUBSET Identities, channel : Seq(Pids)]
SourceShape ==
    /\ source \in SourceRecord
    /\ backlog \in Seq(Pids)
Shape ==
    /\ attempts \in 0 .. MaxRecoveryAttempts
    /\ health \in {"initializing", "ready", "degraded", "failed"}
    /\ reportFailures \in 0 .. (ToleratedFailures + 1)
    /\ pc \in Before \cup Round \cup Recovery \cup {"done"}
    /\ pc # "done" => reportFailures <= ToleratedFailures
    /\ result = "none" <=> pc # "done"
    /\ pc \in {"resubscribe", "resnapshot"} => attempts < MaxRecoveryAttempts

\* Somebody listens, or the failure to is on record.
Listening == pc \in Round \cup {"snapshot", "resnapshot"} => source.open \/ source.lost

\* The health rule, at every step.
TaintIsPublished ==
    /\ pc \in Before => taint = "none"
    /\ pc # "done" /\ taint = "untrusted" /\ reportFailures = 0 => health = "degraded"

DriverInv ==
    /\ SourceShape /\ Shape /\ Listening
    /\ NoTargetMissed /\ ShellsFirst /\ TaintIsPublished
-----------------------------------------------------------------------------
(***************************************************************************)
(* Sequences                                                               *)
(***************************************************************************)
\* SetToSeq lists exactly the members of a finite set.
LEMMA SetToSeqLists ==
    ASSUME NEW S, IsFiniteSet(S)
    PROVE  SetToSeq(S) \in Seq(S) /\ Range(SetToSeq(S)) = S
<1> DEFINE n == Cardinality(S)
           f == SetToSeq(S)
<1>1. n \in Nat /\ \E g \in [1 .. n -> S] : IsInjective(g)
  <2>1. n \in Nat /\ ExistsBijection(1 .. n, S)
    BY FS_CardinalityType
  <2>2. PICK g \in Bijection(1 .. n, S) : TRUE
    BY <2>1 DEF ExistsBijection
  <2>. QED BY <2>1, <2>2 DEF Bijection, Injection, IsInjective
<1>2. f \in [1 .. n -> S] /\ IsInjective(f)
  BY <1>1 DEF SetToSeq
<1>3. Range(f) \subseteq S
  BY <1>2 DEF Range
<1>4. f \in Bijection(1 .. n, Range(f))
  BY <1>2 DEF Range, Bijection, Injection, Surjection, IsInjective
<1>5. IsFiniteSet(1 .. n) /\ Cardinality(1 .. n) = n
  BY <1>1, FS_Interval
<1>6. Cardinality(Range(f)) = n
  BY <1>4, <1>5, FS_Bijection DEF ExistsBijection
<1>7. Range(f) = S
  BY <1>3, <1>6, FS_Subset
<1>. QED BY <1>1, <1>2, <1>7

\* What is in a concatenation.
LEMMA RangeOfConcat ==
    ASSUME NEW S, NEW s \in Seq(S), NEW t \in Seq(S)
    PROVE  s \o t \in Seq(S) /\ Range(s \o t) = Range(s) \cup Range(t)
<1>1. s \o t \in Seq(S) /\ Len(s \o t) = Len(s) + Len(t)
  OBVIOUS
<1>2. ASSUME NEW x \in Range(s \o t) PROVE x \in Range(s) \cup Range(t)
  <2>1. PICK k \in 1 .. Len(s) + Len(t) : x = (s \o t)[k]
    BY <1>1, <1>2 DEF Range
  <2>2. CASE k <= Len(s)
    BY <2>1, <2>2 DEF Range
  <2>3. CASE k > Len(s)
    <3>1. k - Len(s) \in 1 .. Len(t) /\ x = t[k - Len(s)]
      BY <2>1, <2>3
    <3>. QED BY <3>1 DEF Range
  <2>. QED BY <2>1, <2>2, <2>3
<1>3. ASSUME NEW x \in Range(s) PROVE x \in Range(s \o t)
  <2>1. PICK k \in 1 .. Len(s) : x = s[k]
    BY <1>3 DEF Range
  <2>2. k \in 1 .. Len(s \o t) /\ (s \o t)[k] = x
    BY <1>1, <2>1
  <2>. QED BY <1>1, <2>2 DEF Range
<1>4. ASSUME NEW x \in Range(t) PROVE x \in Range(s \o t)
  <2>1. PICK k \in 1 .. Len(t) : x = t[k]
    BY <1>4 DEF Range
  <2>2. k + Len(s) \in 1 .. Len(s \o t) /\ (s \o t)[k + Len(s)] = x
    BY <1>1, <2>1
  <2>. QED BY <1>1, <2>2 DEF Range
<1>. QED BY <1>1, <1>2, <1>3, <1>4

\* What is in an extended sequence.
LEMMA RangeOfAppend ==
    ASSUME NEW S, NEW s \in Seq(S), NEW x \in S
    PROVE  Append(s, x) \in Seq(S) /\ Range(Append(s, x)) = Range(s) \cup {x}
<1>1. /\ Append(s, x) \in Seq(S) /\ Len(Append(s, x)) = Len(s) + 1
      /\ \A k \in 1 .. Len(s) : Append(s, x)[k] = s[k]
      /\ Append(s, x)[Len(s) + 1] = x
  OBVIOUS
<1>2. DOMAIN Append(s, x) = 1 .. Len(s) + 1 /\ DOMAIN s = 1 .. Len(s) /\ Len(s) \in Nat
  BY <1>1
<1>. QED BY <1>1, <1>2 DEF Range

\* What is in the rest of a sequence, and where.
LEMMA RangeOfTail ==
    ASSUME NEW S, NEW s \in Seq(S), s # <<>>
    PROVE  /\ Head(s) \in S /\ Tail(s) \in Seq(S)
           /\ Range(s) = {Head(s)} \cup Range(Tail(s))
           /\ Len(Tail(s)) = Len(s) - 1
           /\ \A k \in 1 .. Len(Tail(s)) : Tail(s)[k] = s[k + 1]
<1>1. /\ Head(s) \in S /\ Tail(s) \in Seq(S) /\ Len(s) \in Nat \ {0}
      /\ Len(Tail(s)) = Len(s) - 1 /\ Head(s) = s[1]
      /\ \A k \in 1 .. Len(Tail(s)) : Tail(s)[k] = s[k + 1]
  OBVIOUS
<1>2. DOMAIN s = 1 .. Len(s) /\ DOMAIN Tail(s) = 1 .. (Len(s) - 1)
  BY <1>1
<1>3. ASSUME NEW k \in 1 .. Len(s) PROVE s[k] \in {Head(s)} \cup Range(Tail(s))
  <2>1. CASE k = 1
    BY <1>1, <2>1
  <2>2. CASE k > 1
    <3>1. k - 1 \in 1 .. (Len(s) - 1) /\ (k - 1) + 1 = k
      BY <1>1, <2>2
    <3>. QED BY <1>1, <1>2, <3>1 DEF Range
  <2>. QED BY <2>1, <2>2
<1>4. Range(s) \subseteq {Head(s)} \cup Range(Tail(s))
  BY <1>2, <1>3 DEF Range
<1>5. Head(s) \in Range(s)
  BY <1>1, <1>2 DEF Range
<1>6. Range(Tail(s)) \subseteq Range(s)
  <2>1. \A k \in 1 .. (Len(s) - 1) : k + 1 \in 1 .. Len(s)
    BY <1>1
  <2>. QED BY <1>1, <1>2, <2>1 DEF Range
<1>. QED BY <1>1, <1>4, <1>5, <1>6

\* Shells come before the rest.
Ordered(s) == \A m, n \in DOMAIN s : m < n /\ IsShell(s[n]) => IsShell(s[m])

\* A list of shells only, or of no shell, is ordered.
LEMMA OrderedParts ==
    ASSUME NEW s \in Seq(Pids), Range(s) \subseteq Shells \/ Range(s) \cap Shells = {}
    PROVE  Ordered(s)
  BY DEF Ordered, IsShell, Range

\* Shells before an ordered list, or others behind one, keep the order.
LEMMA OrderedConcat ==
    ASSUME NEW s \in Seq(Pids), NEW t \in Seq(Pids), Ordered(s), Ordered(t),
           Range(s) \subseteq Shells \/ Range(t) \cap Shells = {}
    PROVE  Ordered(s \o t)
<1> SUFFICES ASSUME NEW m \in 1 .. Len(s) + Len(t), NEW n \in 1 .. Len(s) + Len(t), m < n,
                    (s \o t)[n] \in Shells
             PROVE  (s \o t)[m] \in Shells
  BY DEF Ordered, IsShell
<1>1. Len(s) \in Nat /\ Len(t) \in Nat /\ DOMAIN s = 1 .. Len(s) /\ DOMAIN t = 1 .. Len(t)
  OBVIOUS
<1>2. CASE n <= Len(s)
  <2>1. m \in DOMAIN s /\ n \in DOMAIN s /\ (s \o t)[m] = s[m] /\ (s \o t)[n] = s[n]
    BY <1>1, <1>2
  <2>. QED BY <2>1 DEF Ordered, IsShell
<1>3. CASE n > Len(s)
  <2>1. n - Len(s) \in DOMAIN t /\ (s \o t)[n] = t[n - Len(s)]
    BY <1>1, <1>3
  <2>2. Range(s) \subseteq Shells
    BY <2>1 DEF Range
  <2>3. CASE m <= Len(s)
    <3>1. m \in DOMAIN s /\ (s \o t)[m] = s[m]
      BY <1>1, <2>3
    <3>. QED BY <2>2, <3>1 DEF Range
  <2>4. CASE m > Len(s)
    <3>1. m - Len(s) \in DOMAIN t /\ (s \o t)[m] = t[m - Len(s)] /\ m - Len(s) < n - Len(s)
      BY <1>1, <2>4
    <3>. QED BY <2>1, <3>1 DEF Ordered, IsShell
  <2>. QED BY <1>1, <2>3, <2>4
<1>. QED BY <1>1, <1>2, <1>3

\* So it does for some of the PIDs.
LEMMA PidsListed ==
    ASSUME NEW S \in SUBSET Pids
    PROVE  SetToSeq(S) \in Seq(Pids) /\ Range(SetToSeq(S)) = S
<1>1. IsFiniteSet(S)
  BY DriverAssumption, FS_Subset
<1>2. SetToSeq(S) \in Seq(S) /\ Range(SetToSeq(S)) = S
  BY <1>1, SetToSeqLists
<1>. QED BY <1>2, SeqMonotonic

\* A backlog between new shells and other new PIDs.
LEMMA FoldIsOrdered ==
    ASSUME NEW b \in Seq(Pids), Ordered(b), NEW new \in SUBSET Pids
    PROVE  LET r == SetToSeq(new \cap Shells) \o b \o SetToSeq(new \ Shells)
           IN  r \in Seq(Pids) /\ Range(r) = new \cup Range(b) /\ Ordered(r)
<1> DEFINE s == SetToSeq(new \cap Shells)
           t == SetToSeq(new \ Shells)
<1>1. new \cap Shells \in SUBSET Pids /\ new \ Shells \in SUBSET Pids
  OBVIOUS
<1>2. s \in Seq(Pids) /\ Range(s) = new \cap Shells
  BY <1>1, PidsListed
<1>3. t \in Seq(Pids) /\ Range(t) = new \ Shells
  BY <1>1, PidsListed
<1> HIDE DEF s, t
<1>4. Ordered(s) /\ Ordered(t)
  <2>1. Ordered(s)
    BY <1>2, OrderedParts
  <2>2. Ordered(t)
    BY <1>3, OrderedParts
  <2>. QED BY <2>1, <2>2
<1>5. s \o b \in Seq(Pids) /\ Range(s \o b) = Range(s) \cup Range(b)
  BY <1>2, RangeOfConcat
<1>6. Ordered(s \o b)
  BY <1>2, <1>4, OrderedConcat
<1> DEFINE u == s \o b
<1> HIDE DEF u
<1>7. u \in Seq(Pids) /\ Ordered(u) /\ Range(u) = (new \cap Shells) \cup Range(b)
  BY <1>2, <1>5, <1>6 DEF u
<1>8. u \o t \in Seq(Pids) /\ Range(u \o t) = Range(u) \cup Range(t)
  BY <1>3, <1>7, RangeOfConcat
<1>9. Ordered(u \o t)
  <2>1. Range(t) \cap Shells = {}
    BY <1>3
  <2>. QED BY <1>3, <1>4, <1>7, <2>1, OrderedConcat
<1>10. Range(u \o t) = new \cup Range(b)
  BY <1>3, <1>7, <1>8
<1>. QED BY <1>8, <1>9, <1>10 DEF s, t, u

\* The two backlogs a snapshot makes.
LEMMA BacklogOfSnapshot ==
    ASSUME SourceShape, ShellsFirst
    PROVE  /\ RelayRootsFirst(SnapshotPids) \in Seq(Pids)
           /\ SnapshotPids \subseteq Range(RelayRootsFirst(SnapshotPids))
           /\ Ordered(RelayRootsFirst(SnapshotPids))
           /\ Fold(SnapshotPids) \in Seq(Pids)
           /\ SnapshotPids \subseteq Range(Fold(SnapshotPids))
           /\ Ordered(Fold(SnapshotPids))
<1>1. SnapshotPids \in SUBSET Pids /\ SnapshotPids \ Range(backlog) \in SUBSET Pids
  BY DEF SnapshotPids
<1>2. backlog \in Seq(Pids) /\ Ordered(backlog)
  BY DEF SourceShape, ShellsFirst, Ordered
<1>3. /\ Fold(SnapshotPids) \in Seq(Pids)
      /\ Range(Fold(SnapshotPids)) = (SnapshotPids \ Range(backlog)) \cup Range(backlog)
      /\ Ordered(Fold(SnapshotPids))
  BY <1>1, <1>2, FoldIsOrdered DEF Fold
<1>4. /\ RelayRootsFirst(SnapshotPids) \in Seq(Pids)
      /\ Range(RelayRootsFirst(SnapshotPids)) = SnapshotPids
      /\ Ordered(RelayRootsFirst(SnapshotPids))
  <2> DEFINE s == SetToSeq(SnapshotPids \cap Shells)
             t == SetToSeq(SnapshotPids \ Shells)
  <2>1. SnapshotPids \cap Shells \in SUBSET Pids /\ SnapshotPids \ Shells \in SUBSET Pids
    BY <1>1
  <2>2. s \in Seq(Pids) /\ Range(s) = SnapshotPids \cap Shells
    BY <2>1, PidsListed
  <2>3. t \in Seq(Pids) /\ Range(t) = SnapshotPids \ Shells
    BY <2>1, PidsListed
  <2> HIDE DEF s, t
  <2>4. Ordered(s)
    BY <2>2, OrderedParts
  <2>5. Ordered(t)
    BY <2>3, OrderedParts
  <2>6. s \o t \in Seq(Pids) /\ Range(s \o t) = Range(s) \cup Range(t)
    BY <2>2, <2>3, RangeOfConcat
  <2>7. Ordered(s \o t)
    BY <2>2, <2>3, <2>4, <2>5, OrderedConcat
  <2>8. s \o t = RelayRootsFirst(SnapshotPids)
    BY DEF RelayRootsFirst, s, t
  <2>. QED BY <2>2, <2>3, <2>6, <2>7, <2>8
<1>. QED BY <1>3, <1>4
-----------------------------------------------------------------------------
(***************************************************************************)
(* The steps                                                               *)
(***************************************************************************)
\* The invariant holds at first.
LEMMA DriverInvInit == DriverInit => DriverInv
<1> SUFFICES ASSUME DriverInit PROVE DriverInv
  OBVIOUS
<1> USE DEF DriverInit
<1>1. SourceShape
  BY DEF SourceShape, SourceRecord, Source
<1>2. Shape /\ Listening /\ TaintIsPublished
  BY DriverAssumption DEF Shape, Listening, TaintIsPublished, Before, Round, Recovery
<1>3. NoTargetMissed
  BY DEF NoTargetMissed
<1>4. ShellsFirst
  BY DEF ShellsFirst
<1>. QED BY <1>1, <1>2, <1>3, <1>4 DEF DriverInv

\* The step of the thread, the counters and the health.
LEMMA NextKeepsShape ==
    ASSUME DriverInv, DriverNext
    PROVE  Shape' /\ TaintIsPublished'
<1> USE DriverAssumption DEF DriverInv, Shape, TaintIsPublished, Before, Round, Recovery
<1>1. ASSUME NEW state \in {"ready", "degraded"}, NEW next, pc # "done", Report(state, next)
      PROVE  /\ health' \in {"initializing", "ready", "degraded", "failed"}
             /\ reportFailures' \in 0 .. (ToleratedFailures + 1)
             /\ \/ pc' = "done" /\ result' # "none"
                \/ pc' = next /\ result' = result /\ reportFailures' <= ToleratedFailures
             /\ reportFailures' = 0 => health' = state
  BY <1>1 DEF Report, Return, Goto
<1>2. CASE OpenSource \/ Subscribe \/ Snapshot \/ InitializeFails
  BY <1>2 DEF OpenSource, Subscribe, Snapshot, InitializeFails, Goto, Return, noReport
<1>3. CASE CheckStop \/ DrainSessionChanges \/ Poll \/ Inject \/ Observe \/ PollDeferredAgain
  BY <1>3 DEF CheckStop, DrainSessionChanges, Poll, Inject, Observe, Handle, PollDeferredAgain,
     Goto, Return, noReport, roundUnchanged, driverVars
<1>4. CASE HandleOutcome
  BY <1>1, <1>4 DEF HandleOutcome, Degrades, Goto, Return, noReport
<1>5. CASE ObserverFails
  BY <1>1, <1>5 DEF ObserverFails
<1>6. CASE RecoverWait \/ RecoveryExhausted \/ Resubscribe
  BY <1>6 DEF RecoverWait, RecoveryExhausted, Resubscribe, AttemptFails, Goto, Return, noReport,
     roundUnchanged
<1>7. CASE Resnapshot
  BY <1>1, <1>7 DEF Resnapshot, AttemptFails, Goto, noReport
<1>8. CASE Delivery \/ Environment \/ Done
  BY <1>8 DEF Delivery, Environment, Done, ControlUnchanged, noReport, vars, driverVars
<1>. QED BY <1>2, <1>3, <1>4, <1>5, <1>6, <1>7, <1>8 DEF DriverNext, DriverStep

\* The source, the backlog and who listens.
LEMMA NextKeepsSource ==
    ASSUME DriverInv, DriverNext
    PROVE  SourceShape' /\ Listening' /\ ShellsFirst'
<1> USE DEF DriverInv, SourceRecord
<1>1. CASE OpenSource
  BY <1>1, DriverAssumption DEF OpenSource, Source, Goto, SourceShape, Listening, ShellsFirst, Round
<1>2. CASE Subscribe
  BY <1>2 DEF Subscribe, SubscribeSucceeds, KeepsSession, Source, Goto, SourceShape, Listening,
     ShellsFirst
<1>3. CASE Snapshot
  BY <1>3, BacklogOfSnapshot DEF Snapshot, Goto, SourceShape, Listening, ShellsFirst, Ordered
<1>4. CASE \/ InitializeFails \/ CheckStop \/ DrainSessionChanges \/ Poll \/ Inject
           \/ HandleOutcome \/ PollDeferredAgain \/ ObserverFails
           \/ RecoverWait \/ RecoveryExhausted \/ Done
  <2>1. UNCHANGED <<source, backlog>>
    BY <1>4 DEF InitializeFails, CheckStop, DrainSessionChanges, Poll, Inject, HandleOutcome,
       PollDeferredAgain, ObserverFails, RecoverWait, RecoveryExhausted, Done, roundUnchanged,
       driverVars, vars
  <2>2. \/ pc' \notin Round \cup {"snapshot", "resnapshot"}
        \/ pc \in Round
        \/ pc' = pc
    BY <1>4 DEF InitializeFails, CheckStop, DrainSessionChanges, Poll, Inject, HandleOutcome,
       PollDeferredAgain, ObserverFails, RecoverWait, RecoveryExhausted, Done, driverVars, vars,
       Report, Goto, Return, Round
  <2>. QED BY <2>1, <2>2 DEF SourceShape, Listening, ShellsFirst
<1>5. CASE Observe
  <2>1. pc = "observe" /\ Listening'
    BY <1>5 DEF Observe, Handle, Goto, Listening, Round, SourceShape
  <2>2. CASE UNCHANGED <<source, backlog>>
    BY <2>1, <2>2 DEF SourceShape, ShellsFirst
  <2>3. CASE /\ source.channel # <<>> /\ UNCHANGED backlog
             /\ source' = [source EXCEPT !.channel = Tail(@)]
    <3>1. Tail(source.channel) \in Seq(Pids)
      BY <2>3, RangeOfTail DEF SourceShape
    <3>. QED BY <2>1, <2>3, <3>1 DEF SourceShape, ShellsFirst
  <2>4. CASE backlog # <<>> /\ backlog' = Tail(backlog) /\ UNCHANGED source
    <3>1. /\ Tail(backlog) \in Seq(Pids) /\ Len(Tail(backlog)) = Len(backlog) - 1
          /\ \A k \in 1 .. Len(Tail(backlog)) : Tail(backlog)[k] = backlog[k + 1]
          /\ Len(backlog) \in Nat
      BY <2>4, RangeOfTail DEF SourceShape
    <3>2. /\ DOMAIN backlog = 1 .. Len(backlog)
          /\ DOMAIN backlog' = 1 .. (Len(backlog) - 1)
      BY <2>4, <3>1 DEF SourceShape
    <3>3. ShellsFirst'
      <4> SUFFICES ASSUME NEW m \in DOMAIN backlog', NEW n \in DOMAIN backlog', m < n,
                          IsShell(backlog'[n])
                   PROVE  IsShell(backlog'[m])
        BY DEF ShellsFirst, IsShell
      <4>1. m + 1 \in DOMAIN backlog /\ n + 1 \in DOMAIN backlog /\ m + 1 < n + 1
        BY <3>1, <3>2
      <4>2. backlog'[m] = backlog[m + 1] /\ backlog'[n] = backlog[n + 1]
        BY <2>4, <3>1, <3>2
      <4>. QED BY <4>1, <4>2 DEF ShellsFirst
    <3>. QED BY <2>1, <2>4, <3>1, <3>3 DEF SourceShape
  <2>. QED BY <1>5, <2>2, <2>3, <2>4 DEF Observe
<1>6. CASE Resubscribe
  <2>1. UNCHANGED backlog /\ (pc' = "resnapshot" => SubscribeSucceeds)
        /\ pc' \in {"resnapshot", "recover"} /\ (SubscribeSucceeds \/ SubscribeFails)
    BY <1>6 DEF Resubscribe, Goto, AttemptFails
  <2>2. source' \in SourceRecord
    <3>1. source'= source \/ source' = Source(source.kind, TRUE, FALSE)
          \/ source' = Source("etw", FALSE, TRUE)
      BY <2>1 DEF SubscribeSucceeds, SubscribeFails
    <3>2. source.kind \in {"none", "etw", "wmi"}
      BY DEF SourceShape
    <3>3. <<>> \in Seq(Pids)
      OBVIOUS
    <3>4. \A k \in {"none", "etw", "wmi"}, open, lost \in BOOLEAN :
            Source(k, open, lost) \in SourceRecord
      BY ONLY <3>3 DEF Source, SourceRecord
    <3>5. source' = source => source' \in SourceRecord
      BY DEF SourceShape
    <3>6. Source(source.kind, TRUE, FALSE) \in SourceRecord
      BY ONLY <3>2, <3>4
    <3>7. Source("etw", FALSE, TRUE) \in SourceRecord
      BY ONLY <3>4
    <3> HIDE DEF SourceRecord
    <3>. QED BY ONLY <3>1, <3>5, <3>6, <3>7
  <2>3. SubscribeSucceeds => source'.open
    BY DEF SubscribeSucceeds, KeepsSession, Source
  <2>. QED BY <2>1, <2>2, <2>3 DEF SourceShape, Listening, ShellsFirst, Round
<1>7. CASE Resnapshot
  <2>1. source' = source /\ pc = "resnapshot" /\ backlog' \in {backlog, Fold(SnapshotPids)}
    BY <1>7 DEF Resnapshot
  <2>. QED BY <2>1, BacklogOfSnapshot DEF SourceShape, Listening, ShellsFirst, Ordered
<1>8. CASE Delivery
  <2>1. UNCHANGED <<pc, backlog>>
    BY <1>8 DEF Delivery, ControlUnchanged
  <2>2. PICK i \in Identities : Deliver(i)
    BY <1>8 DEF Delivery
  <2>3. Append(source.channel, PidOf[i]) \in Seq(Pids)
    BY MachineAssumption, RangeOfAppend DEF SourceShape
  <2>4. SourceShape' /\ (source.open => source'.open) /\ (source.lost => source'.lost)
    BY <2>1, <2>2, <2>3 DEF Deliver, SourceShape
  <2>. QED BY <2>1, <2>4 DEF Listening, ShellsFirst
<1>9. CASE Environment
  <2>1. UNCHANGED <<pc, backlog>>
    BY <1>9 DEF Environment, ControlUnchanged
  <2>2. SourceShape' /\ (source.open => source'.open) /\ (source.lost => source'.lost)
    <3>1. \/ source' = source
          \/ \E i \in Identities : source' = [source EXCEPT !.announced = @ \cup {i}]
          \/ source' = [source EXCEPT !.lost = TRUE, !.channel = <<>>]
          \/ source' = [source EXCEPT !.ended = TRUE, !.announced = {}]
      BY <1>9 DEF Environment, Announce, SourceFails, ConsumerEnds
    <3>2. source' = source => SourceShape' /\ source'.open = source.open /\ source'.lost = source.lost
      BY <2>1 DEF SourceShape
    <3>3. ASSUME NEW i \in Identities, source' = [source EXCEPT !.announced = @ \cup {i}]
          PROVE  SourceShape' /\ source'.open = source.open /\ source'.lost = source.lost
      BY <2>1, <3>3 DEF SourceShape
    <3>4. CASE source' = [source EXCEPT !.lost = TRUE, !.channel = <<>>]
      <4>1. <<>> \in Seq(Pids)
        OBVIOUS
      <4>2. source' \in SourceRecord
        BY ONLY <3>4, <4>1, SourceShape DEF SourceShape, SourceRecord
      <4>3. source'.open = source.open /\ source'.lost
        BY ONLY <3>4, SourceShape DEF SourceShape, SourceRecord
      <4>. QED BY <2>1, <4>2, <4>3 DEF SourceShape
    <3>5. CASE source' = [source EXCEPT !.ended = TRUE, !.announced = {}]
      BY <2>1, <3>5 DEF SourceShape
    <3>. QED BY <3>1, <3>2, <3>3, <3>4, <3>5
  <2>. QED BY <2>1, <2>2 DEF Listening, ShellsFirst
<1>. QED BY <1>1, <1>2, <1>3, <1>4, <1>5, <1>6, <1>7, <1>8, <1>9 DEF DriverNext, DriverStep

\* Every live process is seen or on its way.
LEMMA NextKeepsTargets ==
    ASSUME DriverInv, DriverNext
    PROVE  NoTargetMissed'
<1> DEFINE Away == {"open", "subscribe", "snapshot", "resubscribe", "resnapshot", "recover", "done"}
<1> USE DEF DriverInv, SourceRecord
<1>1. SUFFICES ASSUME NEW i \in Identities, Live(i)', i \notin seen', pc' \notin Away,
                      ~source'.lost, ~source'.ended, i \notin source'.announced
               PROVE  PidOf[i] \in Range(source'.channel) \cup Range(backlog')
  BY DEF NoTargetMissed
<1>2. PidOf[i] \in Pids
  BY MachineAssumption
<1>3. CASE Snapshot \/ Resnapshot
  <2>1. proc' = proc /\ backlog' \in {RelayRootsFirst(SnapshotPids), Fold(SnapshotPids)}
    BY <1>1, <1>3 DEF Snapshot, Resnapshot, AttemptFails, Goto, machine
  <2>2. PidOf[i] \in SnapshotPids
    BY <1>1, <1>2, <2>1 DEF SnapshotPids, LivePid, Live
  <2>. QED BY <2>1, <2>2, BacklogOfSnapshot
<1>4. CASE \/ OpenSource \/ Subscribe \/ InitializeFails \/ RecoverWait \/ RecoveryExhausted
           \/ ObserverFails \/ Resubscribe
  BY <1>1, <1>4 DEF OpenSource, Subscribe, InitializeFails, RecoverWait, RecoveryExhausted,
     ObserverFails, Resubscribe, Report, AttemptFails, Goto, Return
<1>5. CASE \/ CheckStop \/ DrainSessionChanges \/ Poll \/ Inject \/ HandleOutcome
           \/ PollDeferredAgain \/ Done
  <2>1. UNCHANGED <<proc, source, backlog, seen>>
    BY <1>5 DEF CheckStop, DrainSessionChanges, Poll, Inject, HandleOutcome, PollDeferredAgain,
       Done, roundUnchanged, driverVars, machine, vars
  <2>2. pc \notin Away
    BY <1>1, <1>5 DEF CheckStop, DrainSessionChanges, Poll, Inject, HandleOutcome,
       PollDeferredAgain, Done, driverVars, vars
  <2>. QED BY <1>1, <2>1, <2>2 DEF NoTargetMissed, Live
<1>6. CASE Observe
  <2>1. proc' = proc /\ pc = "observe" /\ ~source.lost /\ seen \subseteq seen'
    BY <1>6 DEF Observe, Handle, machine
  <2>2. source'.announced = source.announced /\ source'.ended = source.ended
    BY <1>6 DEF Observe, SourceShape
  <2>3. PidOf[i] \in Range(source.channel) \cup Range(backlog)
    BY <1>1, <2>1, <2>2 DEF NoTargetMissed, Live
  <2>4. ASSUME NEW p, Handle(p) PROVE PidOf[i] # p
    BY <1>1, <2>1, <2>4 DEF Handle, LivePid, Live
  <2>5. CASE UNCHANGED <<source, backlog>>
    BY <2>3, <2>5
  <2>6. CASE /\ source.channel # <<>> /\ Handle(Head(source.channel)) /\ UNCHANGED backlog
             /\ source' = [source EXCEPT !.channel = Tail(@)]
    <3>1. /\ Range(source.channel) = {Head(source.channel)} \cup Range(Tail(source.channel))
          /\ source'.channel = Tail(source.channel)
      BY <2>6, RangeOfTail DEF SourceShape
    <3>. QED BY <2>3, <2>4, <2>6, <3>1
  <2>7. CASE backlog # <<>> /\ Handle(Head(backlog)) /\ backlog' = Tail(backlog) /\ UNCHANGED source
    <3>1. Range(backlog) = {Head(backlog)} \cup Range(Tail(backlog))
      BY <2>7, RangeOfTail DEF SourceShape
    <3>. QED BY <2>3, <2>4, <2>7, <3>1
  <2>. QED BY <1>6, <2>5, <2>6, <2>7 DEF Observe
<1>7. CASE Delivery
  <2>1. UNCHANGED <<proc, pc, backlog, seen>>
    BY <1>7 DEF Delivery, ControlUnchanged, machine
  <2>2. PICK j \in Identities : Deliver(j)
    BY <1>7 DEF Delivery
  <2>3. Range(Append(source.channel, PidOf[j])) = Range(source.channel) \cup {PidOf[j]}
    BY MachineAssumption, RangeOfAppend DEF SourceShape
  <2>4. /\ source'.announced = source.announced \ {j} /\ source'.ended = source.ended
        /\ ~source.lost /\ source'.channel = Append(source.channel, PidOf[j])
    BY <1>1, <2>2 DEF Deliver, SourceShape
  <2>. QED BY <1>1, <2>1, <2>3, <2>4 DEF NoTargetMissed, Live
<1>8. CASE Environment
  <2>1. UNCHANGED <<pc, backlog, seen>>
    BY <1>8 DEF Environment, ControlUnchanged
  <2>2. CASE \E j \in Identities : ProcStart(j) /\ Announce(j)
    <3>1. PICK j \in Identities : ProcStart(j) /\ Announce(j)
      BY <2>2
    <3>2. source.open
      <4>1. pc \in Round /\ ~source.lost
        BY <1>1, <2>1, <3>1 DEF Shape, Before, Round, Recovery, Announce, SourceShape
      <4>. QED BY <4>1 DEF Listening
    <3>3. source' = [source EXCEPT !.announced = @ \cup {j}]
      BY <1>1, <3>1, <3>2 DEF Announce
    <3>4. /\ source'.announced = source.announced \cup {j} /\ source'.channel = source.channel
          /\ source'.lost = source.lost /\ source'.ended = source.ended
      BY <3>3 DEF SourceShape
    <3>5. Live(i)
      BY <1>1, <3>1, <3>4 DEF ProcStart, Live
    <3>. QED BY <1>1, <2>1, <3>4, <3>5 DEF NoTargetMissed
  <2>3. CASE (RequestStop \/ \E j \in Identities : ProcChange(j)) /\ UNCHANGED source
    <3>1. RequestStop => Live(i)
      BY <1>1 DEF RequestStop, Live
    <3>2. ASSUME NEW j \in Identities, ProcChange(j) PROVE Live(i)
      <4>1. i # j => proc'[i] = proc[i]
        BY <3>2 DEF ProcChange
      <4>. QED BY <1>1, <3>2, <4>1 DEF ProcChange, Live
    <3>. QED BY <1>1, <2>1, <2>3, <3>1, <3>2 DEF NoTargetMissed
  <2>4. CASE (SourceFails \/ ConsumerEnds) /\ UNCHANGED machine
    BY <1>1, <2>4 DEF SourceFails, ConsumerEnds, SourceShape
  <2>. QED BY <1>8, <2>2, <2>3, <2>4 DEF Environment
<1>. QED BY <1>3, <1>4, <1>5, <1>6, <1>7, <1>8 DEF DriverNext, DriverStep

\* Every step keeps the invariant.
LEMMA DriverInvNext == DriverInv /\ [DriverNext]_vars => DriverInv'
<1> SUFFICES ASSUME DriverInv, [DriverNext]_vars PROVE DriverInv'
  OBVIOUS
<1>1. CASE DriverNext
  BY <1>1, NextKeepsShape, NextKeepsSource, NextKeepsTargets DEF DriverInv
<1>2. CASE UNCHANGED vars
  BY <1>2 DEF DriverInv, vars, driverVars, machine, SourceShape, Shape, Listening,
     NoTargetMissed, Live, ShellsFirst, IsShell, TaintIsPublished
<1>. QED BY <1>1, <1>2

\* The invariant holds throughout.
LEMMA DriverInvariantly == DriverSpec => []DriverInv
  BY DriverInvInit, DriverInvNext, PTL DEF DriverSpec
-----------------------------------------------------------------------------
(***************************************************************************)
(* Theorems                                                                *)
(***************************************************************************)
\* Between subscription, snapshot, overflow and recovery no process falls through:
\* until it is handled it is announced, queued, in the backlog, or due for a
\* snapshot (ProcessOrchestrationDriver::run, ObserverState::resubscribe).
THEOREM NoTargetIsMissed == DriverSpec => []NoTargetMissed
<1>1. DriverInv => NoTargetMissed
  BY DEF DriverInv
<1>. QED BY <1>1, DriverInvariantly, PTL

\* Shells are drained first after every recovery (relay_roots_first), the health is
\* what the last injection showed (generation_health_error), and the loop never
\* outlives its tolerance of failed reports or its recovery attempts.
THEOREM DriverStaysSound == DriverSpec => []DriverInvariant
<1>1. DriverInv => DriverTypeOK
  <2> SUFFICES ASSUME DriverInv PROVE DriverTypeOK
    OBVIOUS
  <2>1. \A s \in Seq(Pids) : Range(s) \subseteq Pids
    BY DEF Range
  <2>2. source.channel \in Seq(Pids) /\ backlog \in Seq(Pids)
    BY DEF DriverInv, SourceShape, SourceRecord
  <2>3. source.kind \in {"none", "etw", "wmi"} /\ source.announced \subseteq Identities
    BY DEF DriverInv, SourceShape, SourceRecord
  <2>4. Range(source.channel) \subseteq Pids /\ Range(backlog) \subseteq Pids
    BY <2>1, <2>2
  <2>. QED BY <2>3, <2>4 DEF DriverInv, Shape, DriverTypeOK
<1>2. DriverInv => NoTargetMissed /\ ShellsFirst /\ UntrustedResultIsPublished
  BY DEF DriverInv, TaintIsPublished, UntrustedResultIsPublished
<1>. QED BY <1>1, <1>2, DriverInvariantly, PTL DEF DriverInvariant
=============================================================================
