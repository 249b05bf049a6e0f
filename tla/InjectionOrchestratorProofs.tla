--------------------- MODULE InjectionOrchestratorProofs ---------------------
(***************************************************************************)
(* Proofs about InjectionOrchestrator for every set of identities, every   *)
(* reuse of PIDs and every capacity, retry and deferral limit: a target    *)
(* has one home, the ledger is implemented, each order lists its table,    *)
(* and the history is faithful.                                            *)
(***************************************************************************)
EXTENDS InjectionOrchestrator, FiniteSetTheorems, TLAPS

Records == [Identities -> Record \cup {NoRecord}]
Targets == [Identities -> Target \cup {NoTarget}]

\* A snapshot of the two tables, whatever their orders are.
Snapshot(t) ==
    /\ t = [processed |-> t.processed, processOrder |-> t.processOrder,
            deferred |-> t.deferred, deferredOrder |-> t.deferredOrder]
    /\ t.processed \in Records
    /\ t.deferred \in Targets

Apart(t) == \A j \in Identities : t.processed[j] = NoRecord \/ t.deferred[j] = NoTarget

\* What an update may do to a target it is not about: its result may be dropped,
\* and its deferral may turn into a result.
Aged(t, u, j) ==
    \/ u.deferred[j] = t.deferred[j] /\ u.processed[j] \in {t.processed[j], NoRecord}
    \/ t.deferred[j] # NoTarget /\ u.deferred[j] = NoTarget /\ u.processed[j] # NoRecord

Settles(t, u, i) ==
    /\ Snapshot(u)
    /\ u.processed[i] # NoRecord
    /\ u.deferred[i] = t.deferred[i]
    /\ \A j \in Identities \ {i} : Aged(t, u, j)

Defers(t, u, i) ==
    /\ Snapshot(u)
    /\ u.processed[i] = NoRecord
    /\ u.deferred[i] # NoTarget
    /\ \A j \in Identities \ {i} : Aged(t, u, j)
-----------------------------------------------------------------------------
(***************************************************************************)
(* The operations on the tables                                            *)
(***************************************************************************)
\* A record or a deferral that is kept differs from the absent one.
LEMMA Absent == NoRecord \notin Record /\ NoTarget \notin Target
<1>1. NoRecord \notin Record
  BY DEF NoRecord, Record, Outcomes
<1>2. NoTarget \notin Target
  BY DEF NoTarget, Target, Reasons
<1> QED
  BY <1>1, <1>2

\* Making room leaves the deferrals alone and can only drop results.
LEMMA MakeRoomDrops ==
    ASSUME NEW t, Snapshot(t)
    PROVE  /\ Snapshot(MakeRoom(t))
           /\ MakeRoom(t).deferred = t.deferred
           /\ \A j \in Identities : MakeRoom(t).processed[j] \in {t.processed[j], NoRecord}
<1> DEFINE oldest == Head(t.processOrder)
           u == [processed |-> [t.processed EXCEPT ![oldest] = NoRecord],
                 processOrder |-> Tail(t.processOrder),
                 deferred |-> t.deferred, deferredOrder |-> t.deferredOrder]
<1>1. MakeRoom(t) = t \/ MakeRoom(t) = u
  BY DEF MakeRoom, Snapshot
<1>2. u.processed \in Records
  BY DEF Snapshot, Records
<1>3. \A j \in Identities : u.processed[j] \in {t.processed[j], NoRecord}
  BY DEF Snapshot, Records
<1>4. Snapshot(u) /\ u.deferred = t.deferred
  BY <1>2 DEF Snapshot
<1> HIDE DEF u
<1> QED
  BY <1>1, <1>3, <1>4

\* Recording a result settles its target and ages the others.
LEMMA RecordSettles ==
    ASSUME NEW t, Snapshot(t), NEW i \in Identities,
           NEW outcome \in Outcomes, NEW code \in Codes
    PROVE  Settles(t, RecordResult(t, i, outcome, code), i)
<1> DEFINE known == t.processed[i] # NoRecord
           room == IF known THEN t ELSE MakeRoom(t)
           r == [outcome |-> outcome, code |-> code]
           u == [processed |-> [room.processed EXCEPT ![i] = r],
                 processOrder |-> IF known THEN room.processOrder
                                  ELSE Append(room.processOrder, i),
                 deferred |-> room.deferred, deferredOrder |-> room.deferredOrder]
<1>1. /\ Snapshot(room)
      /\ room.deferred = t.deferred
      /\ \A j \in Identities : room.processed[j] \in {t.processed[j], NoRecord}
  BY MakeRoomDrops
<1>2. r \in Record
  BY DEF Record
<1>3. RecordResult(t, i, outcome, code) = u
  <2>1. RecordResult(t, i, outcome, code) =
          [room EXCEPT !.processed[i] = r,
                       !.processOrder = IF known THEN @ ELSE Append(@, i)]
    BY DEF RecordResult
  <2> HIDE DEF room, r, known
  <2> QED
    BY <1>1, <2>1 DEF Snapshot
<1> HIDE DEF room, r
<1>4. u.processed \in Records
  BY <1>1, <1>2 DEF Snapshot, Records
<1>5. Snapshot(u)
  BY <1>1, <1>4 DEF Snapshot
<1>6. u.processed[i] = r /\ \A j \in Identities \ {i} : u.processed[j] = room.processed[j]
  BY <1>1 DEF Snapshot, Records
<1>7. u.deferred = t.deferred
  BY <1>1
<1> HIDE DEF u
<1> QED
  BY <1>1, <1>2, <1>3, <1>5, <1>6, <1>7, Absent DEF Settles, Aged

\* So does recording a skip.
LEMMA SkipSettles ==
    ASSUME NEW t, Snapshot(t), NEW i \in Identities
    PROVE  Settles(t, RecordSkip(t, i), i)
<1>1. "skipped" \in Outcomes /\ "ordinary" \in Codes
  BY DEF Outcomes, Codes
<1> QED
  BY <1>1, RecordSettles DEF RecordSkip

\* Evicting a deferral turns it into a result and ages every other target.
LEMMA EvictAges ==
    ASSUME NEW t, Snapshot(t)
    PROVE  Snapshot(EvictDeferral(t)) /\ \A j \in Identities : Aged(t, EvictDeferral(t), j)
<1> DEFINE oldest == Head(t.deferredOrder)
           popped == [processed |-> t.processed, processOrder |-> t.processOrder,
                      deferred |-> [t.deferred EXCEPT ![oldest] = NoTarget],
                      deferredOrder |-> Tail(t.deferredOrder)]
<1>1. popped.deferred \in Targets
  BY DEF Snapshot, Targets
<1>2. Snapshot(popped)
  BY <1>1 DEF Snapshot
<1>3. \A j \in Identities : Aged(t, t, j)
  BY DEF Aged
<1>4. ASSUME NEW x, x = [t EXCEPT !.deferred[oldest] = NoTarget,
                                 !.deferredOrder = Tail(t.deferredOrder)]
      PROVE  x = popped
  BY <1>4 DEF Snapshot
<1>5. \A j \in Identities :
        /\ popped.processed[j] = t.processed[j]
        /\ j # oldest => popped.deferred[j] = t.deferred[j]
        /\ j = oldest => popped.deferred[j] = NoTarget
  BY DEF Snapshot, Targets
<1>6. CASE oldest \in Keys(t.deferred, NoTarget)
  <2>1. oldest \in Identities /\ t.deferred[oldest] # NoTarget
    BY <1>6 DEF Keys
  <2>2. Settles(popped, RecordSkip(popped, oldest), oldest)
    BY <1>2, <2>1, SkipSettles
  <2> HIDE DEF popped
  <2>3. \A j \in Identities : Aged(t, RecordSkip(popped, oldest), j)
    BY <1>5, <2>1, <2>2 DEF Settles, Aged
  <2>4. EvictDeferral(t) = t \/ EvictDeferral(t) = RecordSkip(popped, oldest)
    BY <1>4, <1>6 DEF EvictDeferral
  <2> QED
    BY <1>3, <2>2, <2>3, <2>4 DEF Settles
<1>7. CASE oldest \notin Keys(t.deferred, NoTarget)
  <2>1. \A j \in Identities : j = oldest => t.deferred[j] = NoTarget
    BY <1>7 DEF Keys
  <2>2. EvictDeferral(t) = t \/ EvictDeferral(t) = popped
    <3> HIDE DEF popped
    <3> QED
      BY <1>4, <1>7 DEF EvictDeferral
  <2> HIDE DEF popped
  <2>3. \A j \in Identities : Aged(t, popped, j)
    BY <1>5, <2>1 DEF Aged
  <2> QED
    BY <1>2, <1>3, <2>2, <2>3
<1> QED
  BY <1>6, <1>7

\* Deferring a target without a result leaves it deferred and ages the others.
LEMMA InsertDefers ==
    ASSUME NEW t, Snapshot(t), NEW i \in Identities, NEW target \in Target,
           t.processed[i] = NoRecord, t.deferred[i] = NoTarget
    PROVE  Defers(t, InsertDeferred(t, i, target), i)
<1> DEFINE moved == [processed |-> t.processed, processOrder |-> t.processOrder,
                     deferred |-> t.deferred,
                     deferredOrder |-> Retain(t.deferredOrder, Identities \ {i})]
           room == EvictDeferral(moved)
           u == [processed |-> room.processed, processOrder |-> room.processOrder,
                 deferred |-> [room.deferred EXCEPT ![i] = target],
                 deferredOrder |-> Append(room.deferredOrder, i)]
<1>1. Snapshot(moved)
  BY DEF Snapshot
<1>2. Snapshot(room) /\ \A j \in Identities : Aged(moved, room, j)
  <2> HIDE DEF moved
  <2> QED
    BY <1>1, EvictAges
<1>3. \A j \in Identities : Aged(t, room, j)
  <2>1. moved.processed = t.processed /\ moved.deferred = t.deferred
    OBVIOUS
  <2> HIDE DEF room, moved
  <2> QED
    BY <1>2, <2>1 DEF Aged
<1>4. moved = [t EXCEPT !.deferredOrder = Retain(@, Identities \ {i})]
  BY DEF Snapshot
<1>5. InsertDeferred(t, i, target) = u
  <2> HIDE DEF moved
  <2>1. InsertDeferred(t, i, target) =
          [room EXCEPT !.deferred[i] = target, !.deferredOrder = Append(@, i)]
    BY <1>4 DEF InsertDeferred
  <2> HIDE DEF room
  <2> QED
    BY <1>2, <2>1 DEF Snapshot
<1> HIDE DEF room
<1>6. u.deferred \in Targets
  BY <1>2 DEF Snapshot, Targets
<1>7. Snapshot(u)
  BY <1>2, <1>6 DEF Snapshot
<1>8. /\ u.deferred[i] = target
      /\ \A j \in Identities \ {i} : u.deferred[j] = room.deferred[j]
      /\ u.processed = room.processed
  BY <1>2 DEF Snapshot, Targets
<1> HIDE DEF u
<1> QED
  BY <1>3, <1>5, <1>7, <1>8, Absent DEF Defers, Aged

\* An update keeps results and deferrals apart when it settles a target without
\* a deferral, or defers one.
LEMMA ApartAfter ==
    ASSUME NEW t, NEW u, Snapshot(t), Apart(t), NEW i \in Identities,
           (Settles(t, u, i) /\ t.deferred[i] = NoTarget) \/ Defers(t, u, i)
    PROVE  Apart(u)
BY DEF Apart, Settles, Defers, Aged
-----------------------------------------------------------------------------
(***************************************************************************)
(* The inductive invariant: OneHomePerTarget, the types the steps rely on, *)
(* and that a back-off is only entered with an attempt left.               *)
(***************************************************************************)
HomesInv ==
    /\ processed \in Records
    /\ deferred \in Targets
    /\ job \in Job \cup {NoJob}
    /\ job.phase = "backoff" => job.attempt < MaxAttempts
    /\ OneHomePerTarget

\* The tables of a state are a snapshot that keeps results and deferrals apart.
LEMMA TablesOfState ==
    ASSUME HomesInv
    PROVE  /\ Snapshot(Tables) /\ Apart(Tables)
           /\ Tables.processed = processed /\ Tables.deferred = deferred
<1>1. /\ Tables.processed = processed /\ Tables.deferred = deferred
      /\ Tables = [processed |-> Tables.processed, processOrder |-> Tables.processOrder,
                   deferred |-> Tables.deferred, deferredOrder |-> Tables.deferredOrder]
  BY DEF Tables
<1>2. \A j \in Identities : processed[j] = NoRecord \/ deferred[j] = NoTarget
  BY DEF HomesInv, OneHomePerTarget, Tracked, DeferredTargets, Keys
<1> QED
  BY <1>1, <1>2 DEF Snapshot, Apart, HomesInv

\* An injection in progress is about a target without result and deferral.
LEMMA JobOfState ==
    ASSUME HomesInv, job.phase # "none"
    PROVE  /\ job \in Job /\ job.id \in Identities
           /\ processed[job.id] = NoRecord /\ deferred[job.id] = NoTarget
<1>1. job \in Job
  BY DEF HomesInv, NoJob
<1>2. job.id \in Identities
  BY <1>1 DEF Job
<1> QED
  BY <1>1, <1>2 DEF HomesInv, OneHomePerTarget, Known, Tracked, DeferredTargets, Keys, Idle

\* A call that returns keeps the invariant if its tables do.
LEMMA FinishKeeps ==
    ASSUME NEW u, Snapshot(u), Apart(u), NEW i, NEW outcome, Finish(u, i, outcome)
    PROVE  HomesInv'
<1>1. processed' = u.processed /\ deferred' = u.deferred /\ job' = NoJob
  BY DEF Finish, Install
<1>2. job'.phase = "none"
  BY <1>1 DEF NoJob
<1>3. Tracked' \cap DeferredTargets' = {}
  BY <1>1 DEF Tracked, DeferredTargets, Keys, Apart
<1> QED
  BY <1>1, <1>2, <1>3 DEF HomesInv, OneHomePerTarget, Snapshot, Idle

\* So does one that hands a target without a home to the broker.
LEMMA StartKeeps ==
    ASSUME NEW u, Snapshot(u), Apart(u), Install(u), NEW i \in Identities,
           u.processed[i] = NoRecord, u.deferred[i] = NoTarget,
           NEW deferrals \in 0..LaunchMaxDeferrals, StartAttempt(i, deferrals)
    PROVE  HomesInv'
<1>1. processed' = u.processed /\ deferred' = u.deferred
  BY DEF Install
<1>2. job' = [id |-> i, deferrals |-> deferrals, attempt |-> 1, phase |-> "launch"]
  BY DEF StartAttempt
<1>3. job' \in Job
  BY <1>2, PolicyAssumption DEF Job
<1>4. job'.phase = "launch" /\ job'.id = i
  BY <1>2
<1>5. Tracked' \cap DeferredTargets' = {} /\ i \notin Tracked' \cup DeferredTargets'
  BY <1>1 DEF Tracked, DeferredTargets, Keys, Apart
<1> QED
  BY <1>1, <1>3, <1>4, <1>5 DEF HomesInv, OneHomePerTarget, Snapshot, Known

\* What poll_deferred takes out of the tables.
LEMMA RemovedDeferral ==
    ASSUME HomesInv, NEW n \in DOMAIN deferredOrder, deferredOrder[n] \in DeferredTargets
    PROVE  LET i == deferredOrder[n]
               t == RemoveDeferred(Tables, n)
           IN  /\ i \in Identities /\ deferred[i] \in Target
               /\ Snapshot(t) /\ Apart(t)
               /\ t.processed = processed
               /\ t.processed[i] = NoRecord /\ t.deferred[i] = NoTarget
               /\ \A j \in Identities \ {i} : t.deferred[j] = deferred[j]
<1> DEFINE i == deferredOrder[n]
           t == RemoveDeferred(Tables, n)
<1>1. i \in Identities /\ deferred[i] \in Target /\ processed[i] = NoRecord
  BY DEF HomesInv, OneHomePerTarget, Tracked, DeferredTargets, Keys, Targets
<1>2. /\ t.processed = processed /\ t.deferred = [deferred EXCEPT ![i] = NoTarget]
      /\ t = [processed |-> t.processed, processOrder |-> t.processOrder,
              deferred |-> t.deferred, deferredOrder |-> t.deferredOrder]
  <2>1. ASSUME NEW x, x = t
        PROVE  x = [processed |-> processed, processOrder |-> processOrder,
                    deferred |-> [deferred EXCEPT ![i] = NoTarget],
                    deferredOrder |-> RemoveAt(deferredOrder, n)]
    <3>1. Tables.deferredOrder = deferredOrder
      BY DEF Tables
    <3>2. x = [Tables EXCEPT !.deferred[i] = NoTarget,
                             !.deferredOrder = RemoveAt(deferredOrder, n)]
      BY <2>1, <3>1 DEF RemoveDeferred
    <3> HIDE DEF t, i
    <3> QED
      BY <3>2 DEF Tables
  <2> HIDE DEF t, i
  <2> QED
    BY <2>1
<1> HIDE DEF t, i
<1>3. /\ t.deferred \in Targets /\ t.deferred[i] = NoTarget
      /\ \A j \in Identities \ {i} : t.deferred[j] = deferred[j]
  BY <1>1, <1>2 DEF HomesInv, Targets
<1>4. Snapshot(t)
  BY <1>2, <1>3 DEF Snapshot, HomesInv
<1>5. Apart(t)
  BY <1>1, <1>2, <1>3, TablesOfState DEF Apart
<1> QED
  BY <1>1, <1>2, <1>3, <1>4, <1>5 DEF t, i
-----------------------------------------------------------------------------
(***************************************************************************)
(* The step simulation: what each step is in TargetLedger.                 *)
(***************************************************************************)
LedgerStep == Ledger!LedgerNext \/ UNCHANGED Ledger!ledgerVars

Busy(i) == job.phase # "none" /\ job.id = i

\* The stage of a target from its record, its deferral and the injection in
\* progress, before and after a step.
LEMMA StageOf ==
    ASSUME NEW j \in Identities
    PROVE  /\ Busy(j) => Stage(j) = "injecting"
           /\ ~Busy(j) /\ processed[j] # NoRecord => Stage(j) = "settled"
           /\ ~Busy(j) /\ processed[j] = NoRecord /\ deferred[j] # NoTarget
                => Stage(j) = "deferred"
           /\ ~Busy(j) /\ processed[j] = NoRecord /\ deferred[j] = NoTarget
                => Stage(j) = "unknown"
BY DEF Stage, Busy, Idle, Tracked, DeferredTargets, Keys

LEMMA StageAfterwards ==
    ASSUME NEW j \in Identities
    PROVE  /\ Busy(j)' => Stage(j)' = "injecting"
           /\ ~Busy(j)' /\ processed'[j] # NoRecord => Stage(j)' = "settled"
           /\ ~Busy(j)' /\ processed'[j] = NoRecord /\ deferred'[j] # NoTarget
                => Stage(j)' = "deferred"
           /\ ~Busy(j)' /\ processed'[j] = NoRecord /\ deferred'[j] = NoTarget
                => Stage(j)' = "unknown"
BY DEF Stage, Busy, Idle, Tracked, DeferredTargets, Keys

\* Nothing is being injected while no injection is in progress.
LEMMA NoBusyIsQuiet ==
    ASSUME job.phase = "none"
    PROVE  Ledger!Quiet
<1>1. \A j \in Identities : Stage(j) # "injecting"
  BY StageOf DEF Busy
<1> QED
  BY <1>1 DEF Ledger!Quiet

\* A call about a target that returns is an Answer.
LEMMA AnswerSimulated ==
    ASSUME HomesInv, NEW i \in Identities, NEW u, NEW outcome \in Outcomes \cup {"error"},
           \A j \in Identities \ {i} : Aged(Tables, u, j),
           Finish(u, i, outcome),
           job.phase = "none" \/ job.id = i,
           \/ /\ outcome = "deferred"
              /\ processed[i] = NoRecord
              /\ u.processed[i] = NoRecord /\ u.deferred[i] # NoTarget
           \/ /\ outcome \in Ledger!Final
              /\ job.phase # "none"
              /\ u.processed[i] # NoRecord
           \/ /\ outcome = "skipped"
              /\ job.phase = "none" /\ processed[i] = NoRecord /\ deferred[i] # NoTarget
              /\ u.processed[i] # NoRecord
           \/ /\ outcome = "error"
              /\ job.phase = "none" /\ processed[i] = NoRecord /\ deferred[i] # NoTarget
              /\ u.processed[i] = NoRecord /\ u.deferred[i] = NoTarget
    PROVE  Ledger!Answer(i, outcome)
<1>1. processed' = u.processed /\ deferred' = u.deferred /\ job' = NoJob
  BY DEF Finish, Install
<1>2. \A j \in Identities : ~Busy(j)'
  BY <1>1 DEF Busy, NoJob
<1>3. \E untrusted \in BOOLEAN :
        /\ untrusted => outcome \in Ledger!Failures
        /\ returned' = Ledger!Reply(outcome, i, untrusted)
  <2> DEFINE v == outcome \in Failures /\ Untrustworthy(u)
  <2>1. v \in BOOLEAN /\ (v => outcome \in Ledger!Failures)
    BY DEF Failures, Ledger!Failures
  <2>2. returned' = Ledger!Reply(outcome, i, v)
    BY DEF Finish, Returned, Ledger!Reply
  <2> HIDE DEF v
  <2> QED
    BY <2>1, <2>2
<1>4. \A j \in Identities : Stage(j)' \in Ledger!Stages
  BY <1>2, StageAfterwards DEF Ledger!Stages
<1>5. Stage(i)' = Ledger!StageAfter(outcome)
  BY <1>1, <1>2, StageAfterwards DEF Ledger!StageAfter, Ledger!Final
<1>6. ASSUME NEW j \in Identities \ {i}
      PROVE  \/ Stage(j)' = Stage(j)
             \/ Stage(j) = "deferred" /\ Stage(j)' = "settled"
             \/ Stage(j) = "settled" /\ Stage(j)' = "unknown"
  <2>1. Aged(Tables, u, j) /\ ~Busy(j)
    BY DEF Busy
  <2>2. Tables.processed = processed /\ Tables.deferred = deferred
    BY DEF Tables
  <2> QED
    BY <1>1, <1>2, <2>1, <2>2, StageOf, StageAfterwards, TablesOfState DEF Aged, Apart
<1>7. Stage(i) = "injecting" \/ Ledger!Quiet
  BY StageOf, NoBusyIsQuiet DEF Busy
<1>8. \/ outcome = "deferred" /\ Stage(i) # "settled"
      \/ outcome \in Ledger!Final /\ Stage(i) = "injecting"
      \/ outcome \in {"skipped", "error"} /\ Stage(i) = "deferred"
  BY StageOf DEF Busy
<1> QED
  BY <1>3, <1>4, <1>5, <1>6, <1>7, <1>8 DEF Ledger!Answer, Ledger!Ages

\* An Answer is a step of the ledger.
LEMMA AnswerIsAStep ==
    ASSUME NEW i \in Identities, NEW outcome \in Outcomes \cup {"error"},
           Ledger!Answer(i, outcome)
    PROVE  LedgerStep
BY DEF LedgerStep, Ledger!LedgerNext, Outcomes, Ledger!Outcomes

\* A target without a home that is handed to the broker is taken.
LEMMA TakeSimulated ==
    ASSUME NEW i \in Identities, NEW deferrals, NEW u, job.phase = "none",
           processed[i] = NoRecord, Install(u), StartAttempt(i, deferrals),
           u.processed = processed, \A j \in Identities \ {i} : u.deferred[j] = deferred[j]
    PROVE  LedgerStep
<1>1. processed' = processed /\ \A j \in Identities \ {i} : deferred'[j] = deferred[j]
  BY DEF Install
<1>2. job'.phase = "launch" /\ job'.id = i /\ returned' = Ledger!Pending
  BY DEF StartAttempt, NothingYet, Returned, Ledger!Pending, Ledger!Reply
<1>3. \A j \in Identities : ~Busy(j) /\ (Busy(j)' <=> j = i)
  BY <1>2 DEF Busy
<1>4. Stage(i) \in {"unknown", "deferred"} /\ Stage(i)' = "injecting"
  BY <1>3, StageOf, StageAfterwards
<1>5. \A j \in Identities \ {i} : Stage(j)' = Stage(j)
  BY <1>1, <1>3, StageOf, StageAfterwards
<1>6. [j \in Identities |-> Stage(j)]' = [[j \in Identities |-> Stage(j)] EXCEPT ![i] = "injecting"]
  BY <1>4, <1>5
<1>7. Ledger!Take(i)
  BY <1>2, <1>4, <1>6, NoBusyIsQuiet DEF Ledger!Take
<1> QED
  BY <1>7 DEF LedgerStep, Ledger!LedgerNext

\* Deferring a target without a home keeps the invariant and answers.
LEMMA DeferringStep ==
    ASSUME HomesInv, NEW i \in Identities, NEW target \in Target,
           processed[i] = NoRecord, deferred[i] = NoTarget,
           job.phase = "none" \/ job.id = i,
           Finish(InsertDeferred(Tables, i, target), i, "deferred")
    PROVE  HomesInv' /\ LedgerStep
<1> DEFINE u == InsertDeferred(Tables, i, target)
<1>1. Defers(Tables, u, i)
  BY InsertDefers, TablesOfState
<1>2. Apart(u)
  BY <1>1, ApartAfter, TablesOfState
<1> HIDE DEF u
<1>3. Finish(u, i, "deferred")
  BY DEF u
<1>4. HomesInv'
  BY <1>1, <1>2, <1>3, FinishKeeps DEF Defers
<1>5. "deferred" \in Outcomes \cup {"error"}
  BY DEF Outcomes
<1>6. Ledger!Answer(i, "deferred")
  BY <1>1, <1>3, <1>5, AnswerSimulated DEF Defers
<1> QED
  BY <1>4, <1>5, <1>6, AnswerIsAStep

\* Recording the result of the injection in progress keeps the invariant and
\* answers.
LEMMA SettlingStep ==
    ASSUME HomesInv, job.phase # "none", NEW outcome \in Ledger!Final, NEW code \in Codes,
           Finish(RecordResult(Tables, job.id, outcome, code), job.id, outcome)
    PROVE  HomesInv' /\ LedgerStep
<1> DEFINE u == RecordResult(Tables, job.id, outcome, code)
<1>1. outcome \in Outcomes
  BY DEF Outcomes, Ledger!Final
<1>2. job.id \in Identities /\ deferred[job.id] = NoTarget
  BY JobOfState
<1>3. Settles(Tables, u, job.id)
  BY <1>1, <1>2, RecordSettles, TablesOfState
<1>4. Apart(u)
  BY <1>2, <1>3, ApartAfter, TablesOfState
<1> HIDE DEF u
<1>5. Finish(u, job.id, outcome)
  BY DEF u
<1>6. HomesInv'
  BY <1>3, <1>4, <1>5, FinishKeeps DEF Settles
<1>7. Ledger!Answer(job.id, outcome)
  BY <1>1, <1>2, <1>3, <1>5, AnswerSimulated DEF Settles
<1> QED
  BY <1>1, <1>2, <1>6, <1>7, AnswerIsAStep

\* Recording a skip of the injection in progress is a case of it.
LEMMA SkippingStep ==
    ASSUME HomesInv, job.phase # "none",
           Finish(RecordSkip(Tables, job.id), job.id, "skipped")
    PROVE  HomesInv' /\ LedgerStep
<1>1. "skipped" \in Ledger!Final /\ "ordinary" \in Codes
  BY DEF Ledger!Final, Codes
<1> QED
  BY <1>1, SettlingStep DEF RecordSkip
-----------------------------------------------------------------------------
(***************************************************************************)
(* One lemma per action.                                                   *)
(***************************************************************************)
\* A deferral of a frozen target is well formed.
LEMMA FrozenIsATarget ==
    ASSUME NEW deferrals \in 0..LaunchMaxDeferrals
    PROVE  FrozenTarget(deferrals) \in Target
BY DEF FrozenTarget, Target, Reasons

\* Unchanged tables are installed again.
LEMMA UnchangedTables ==
    ASSUME UNCHANGED tables
    PROVE  Install(Tables)
BY DEF tables, Install, Tables

\* What the validator decides about.
LEMMA Decided ==
    ASSUME NEW p, NEW d \in Validate(p)
    PROVE  /\ d.kind \in {"skipped", "error", "eligible", "deferred"}
           /\ d.kind \in {"skipped", "error"} => d.id = "none"
           /\ d.kind \in {"eligible", "deferred"} => d.id \in Identities
BY DEF Validate, Decision, LivePid

LEMMA HandlePidStep ==
    ASSUME HomesInv, NEW p \in Pids, HandlePid(p)
    PROVE  HomesInv' /\ LedgerStep
<1>1. job.phase = "none" /\ Ledger!Quiet
  BY NoBusyIsQuiet DEF HandlePid, Idle
<1>2. PICK d \in Validate(p) :
         \/ /\ d.kind \in {"skipped", "error"}
            /\ returned' = Returned(d.kind, d.id, FALSE)
            /\ UNCHANGED <<tables, job>>
         \/ /\ d.kind \in {"eligible", "deferred"}
            /\ Known(d.id)
            /\ returned' = Returned("duplicate", d.id, FALSE)
            /\ UNCHANGED <<tables, job>>
         \/ /\ d.kind = "eligible"
            /\ ~Known(d.id)
            /\ StartAttempt(d.id, 0)
            /\ UNCHANGED tables
         \/ /\ d.kind = "deferred"
            /\ ~Known(d.id)
            /\ Finish(InsertDeferred(Tables, d.id, FrozenTarget(0)), d.id, "deferred")
  BY DEF HandlePid
<1>3. 0 \in 0..LaunchMaxDeferrals
  BY PolicyAssumption
<1>4. \A i \in Identities : ~Known(i) => processed[i] = NoRecord /\ deferred[i] = NoTarget
  BY DEF Known, Tracked, DeferredTargets, Keys
<1>5. ASSUME UNCHANGED <<tables, job>>
      PROVE  HomesInv' /\ UNCHANGED [i \in Identities |-> Stage(i)]
  <2>1. processed' = processed /\ deferred' = deferred /\ job' = job
    BY <1>5 DEF tables
  <2>2. HomesInv'
    BY <2>1 DEF HomesInv, OneHomePerTarget, Known, Idle, Tracked, DeferredTargets, Keys
  <2>3. \A i \in Identities : Stage(i)' = Stage(i)
    BY <2>1 DEF Stage, Idle, Tracked, DeferredTargets, Keys
  <2> QED
    BY <2>2, <2>3
<1>6. CASE /\ d.kind \in {"skipped", "error"}
           /\ returned' = Returned(d.kind, d.id, FALSE)
           /\ UNCHANGED <<tables, job>>
  <2>1. returned' = Ledger!Reply(d.kind, "none", FALSE)
    BY <1>6, Decided DEF Returned, Ledger!Reply
  <2>2. Ledger!PassOver
    BY <1>1, <1>5, <1>6, <2>1 DEF Ledger!PassOver
  <2> QED
    BY <1>5, <1>6, <2>2 DEF LedgerStep, Ledger!LedgerNext
<1>7. CASE /\ d.kind \in {"eligible", "deferred"}
           /\ Known(d.id)
           /\ returned' = Returned("duplicate", d.id, FALSE)
           /\ UNCHANGED <<tables, job>>
  <2>1. d.id \in Identities /\ returned' = Ledger!Reply("duplicate", d.id, FALSE)
    BY <1>7, Decided DEF Returned, Ledger!Reply
  <2>2. processed[d.id] # NoRecord \/ deferred[d.id] # NoTarget
    BY <1>7 DEF Known, Tracked, DeferredTargets, Keys
  <2>3. Stage(d.id) \in {"deferred", "settled"}
    BY <1>1, <2>1, <2>2, StageOf DEF Busy
  <2>4. Ledger!PassOver
    BY <1>1, <1>5, <1>7, <2>1, <2>3 DEF Ledger!PassOver
  <2> QED
    BY <1>5, <1>7, <2>4 DEF LedgerStep, Ledger!LedgerNext
<1>8. CASE d.kind = "eligible" /\ ~Known(d.id) /\ StartAttempt(d.id, 0) /\ UNCHANGED tables
  <2>1. d.id \in Identities /\ processed[d.id] = NoRecord /\ deferred[d.id] = NoTarget
    BY <1>4, <1>8, Decided
  <2>2. Install(Tables)
    BY <1>8, UnchangedTables
  <2>3. HomesInv'
    BY <1>3, <1>8, <2>1, <2>2, StartKeeps, TablesOfState
  <2>4. LedgerStep
    BY <1>1, <1>8, <2>1, <2>2, TakeSimulated, TablesOfState
  <2> QED
    BY <2>3, <2>4
<1>9. CASE /\ d.kind = "deferred"
           /\ ~Known(d.id)
           /\ Finish(InsertDeferred(Tables, d.id, FrozenTarget(0)), d.id, "deferred")
  <2>1. d.id \in Identities /\ processed[d.id] = NoRecord /\ deferred[d.id] = NoTarget
    BY <1>4, <1>9, Decided
  <2> QED
    BY <1>1, <1>3, <1>9, <2>1, DeferringStep, FrozenIsATarget
<1> QED
  BY <1>2, <1>6, <1>7, <1>8, <1>9

\* The three ways a polled deferral ends without an injection.
LEMMA PolledStep ==
    ASSUME HomesInv, job.phase = "none", NEW n \in DOMAIN deferredOrder,
           deferredOrder[n] \in DeferredTargets, NEW i, i = deferredOrder[n],
           NEW t, t = RemoveDeferred(Tables, n),
           \/ \E target \in Target : Finish(InsertDeferred(t, i, target), i, "deferred")
           \/ Finish(RecordSkip(t, i), i, "skipped")
           \/ Finish(t, i, "error")
    PROVE  HomesInv' /\ LedgerStep
<1>1. /\ i \in Identities /\ deferred[i] \in Target
      /\ Snapshot(t) /\ Apart(t)
      /\ t.processed = processed
      /\ t.processed[i] = NoRecord /\ t.deferred[i] = NoTarget
      /\ \A j \in Identities \ {i} : t.deferred[j] = deferred[j]
  BY RemovedDeferral
<1>2. processed[i] = NoRecord /\ deferred[i] # NoTarget
  BY <1>1, Absent
<1>3. Tables.processed = processed /\ Tables.deferred = deferred
  BY DEF Tables
<1>4. ASSUME NEW u, \A j \in Identities \ {i} : Aged(t, u, j)
      PROVE  \A j \in Identities \ {i} : Aged(Tables, u, j)
  <2> TAKE j \in Identities \ {i}
  <2>1. Tables.processed[j] = t.processed[j] /\ Tables.deferred[j] = t.deferred[j]
    BY <1>1, <1>3
  <2>2. Aged(t, u, j)
    BY <1>4
  <2> QED
    BY <2>1, <2>2 DEF Aged
<1>5. {"deferred", "skipped", "error"} \subseteq Outcomes \cup {"error"}
  BY DEF Outcomes
<1>6. ASSUME NEW target \in Target, Finish(InsertDeferred(t, i, target), i, "deferred")
      PROVE  HomesInv' /\ LedgerStep
  <2> DEFINE u == InsertDeferred(t, i, target)
  <2>1. Defers(t, u, i)
    BY <1>1, InsertDefers
  <2> HIDE DEF u
  <2>2. Finish(u, i, "deferred")
    BY <1>6 DEF u
  <2>3. HomesInv'
    BY <1>1, <2>1, <2>2, ApartAfter, FinishKeeps DEF Defers
  <2>4. Ledger!Answer(i, "deferred")
    BY <1>1, <1>2, <1>4, <1>5, <2>1, <2>2, AnswerSimulated DEF Defers
  <2> QED
    BY <1>1, <1>5, <2>3, <2>4, AnswerIsAStep
<1>7. CASE Finish(RecordSkip(t, i), i, "skipped")
  <2> DEFINE u == RecordSkip(t, i)
  <2>1. Settles(t, u, i)
    BY <1>1, SkipSettles
  <2> HIDE DEF u
  <2>2. Finish(u, i, "skipped")
    BY <1>7 DEF u
  <2>3. HomesInv'
    BY <1>1, <2>1, <2>2, ApartAfter, FinishKeeps DEF Settles
  <2>4. Ledger!Answer(i, "skipped")
    BY <1>1, <1>2, <1>4, <1>5, <2>1, <2>2, AnswerSimulated DEF Settles
  <2> QED
    BY <1>1, <1>5, <2>3, <2>4, AnswerIsAStep
<1>8. CASE Finish(t, i, "error")
  <2>1. HomesInv'
    BY <1>1, <1>8, FinishKeeps
  <2>2. \A j \in Identities \ {i} : Aged(Tables, t, j)
    BY <1>1, <1>3 DEF Aged
  <2>3. Ledger!Answer(i, "error")
    BY <1>1, <1>2, <1>5, <1>8, <2>2, AnswerSimulated
  <2> QED
    BY <1>1, <1>5, <2>1, <2>3, AnswerIsAStep
<1> QED
  BY <1>6, <1>7, <1>8

LEMMA PollDeferredStep ==
    ASSUME HomesInv, PollDeferred
    PROVE  HomesInv' /\ LedgerStep
<1>1. job.phase = "none"
  BY DEF PollDeferred, Idle
<1>2. PICK n \in DOMAIN deferredOrder :
        LET i == deferredOrder[n]
            target == deferred[i]
            t == RemoveDeferred(Tables, n)
        IN  /\ FirstDue(n)
            /\ \/ /\ target.reason = "helper-launch-failed"
                  /\ Revalidate(i, target, t)
               \/ /\ target.reason = "frozen"
                  /\ \E state \in Lifecycle(i) :
                       \/ /\ state \in {"frozen", "unknown"}
                          /\ Finish(InsertDeferred(t, i, FrozenTarget(target.deferrals)), i, "deferred")
                       \/ /\ state = "exiting"
                          /\ Finish(RecordSkip(t, i), i, "skipped")
                       \/ /\ state = "running"
                          /\ Revalidate(i, target, t)
  BY DEF PollDeferred
<1> DEFINE i == deferredOrder[n]
           target == deferred[i]
           t == RemoveDeferred(Tables, n)
<1>3. i \in DeferredTargets
  BY <1>2 DEF FirstDue, Due
<1>4. /\ i \in Identities /\ target \in Target
      /\ Snapshot(t) /\ Apart(t)
      /\ t.processed = processed
      /\ t.processed[i] = NoRecord /\ t.deferred[i] = NoTarget
      /\ \A j \in Identities \ {i} : t.deferred[j] = deferred[j]
  BY <1>3, RemovedDeferral
<1> HIDE DEF t, target, i
<1>5. target.deferrals \in 0..LaunchMaxDeferrals
  BY <1>4 DEF Target
<1>6. FrozenTarget(target.deferrals) \in Target
  BY <1>5, FrozenIsATarget
<1>7. ASSUME \/ \E again \in Target : Finish(InsertDeferred(t, i, again), i, "deferred")
             \/ Finish(RecordSkip(t, i), i, "skipped")
             \/ Finish(t, i, "error")
      PROVE  HomesInv' /\ LedgerStep
  BY <1>1, <1>3, <1>7, PolledStep DEF i, t
<1>8. ASSUME Install(t), StartAttempt(i, target.deferrals)
      PROVE  HomesInv' /\ LedgerStep
  <2>1. HomesInv'
    BY <1>4, <1>5, <1>8, StartKeeps
  <2>2. LedgerStep
    BY <1>1, <1>4, <1>8, TakeSimulated
  <2> QED
    BY <2>1, <2>2
<1>9. ASSUME Revalidate(i, target, t)
      PROVE  HomesInv' /\ LedgerStep
  BY <1>6, <1>7, <1>8, <1>9 DEF Revalidate
<1>10. \/ Revalidate(i, target, t)
       \/ Finish(InsertDeferred(t, i, FrozenTarget(target.deferrals)), i, "deferred")
       \/ Finish(RecordSkip(t, i), i, "skipped")
  BY <1>2 DEF i, target, t
<1> QED
  BY <1>6, <1>7, <1>9, <1>10

\* A step that only moves the injection in progress on is a stutter.
LEMMA JobMoves ==
    ASSUME HomesInv, job.phase # "none", UNCHANGED <<tables, returned>>,
           job' \in Job, job'.id = job.id,
           job'.phase = "backoff" => job'.attempt < MaxAttempts
    PROVE  HomesInv' /\ LedgerStep
<1>1. processed' = processed /\ deferred' = deferred /\ returned' = returned
  BY DEF tables
<1>2. job'.phase # "none"
  BY DEF Job
<1>3. HomesInv'
  BY <1>1, <1>2 DEF HomesInv, OneHomePerTarget, Known, Idle, Tracked, DeferredTargets, Keys
<1>4. \A i \in Identities : Stage(i)' = Stage(i)
  BY <1>1, <1>2 DEF Stage, Idle, Tracked, DeferredTargets, Keys
<1>5. UNCHANGED Ledger!ledgerVars
  BY <1>1, <1>4 DEF Ledger!ledgerVars
<1> QED
  BY <1>3, <1>5 DEF LedgerStep

LEMMA LaunchHelperStep ==
    ASSUME HomesInv, LaunchHelper
    PROVE  HomesInv' /\ LedgerStep
<1>1. job.phase = "launch"
  BY DEF LaunchHelper
<1>2. /\ job \in Job /\ job.id \in Identities
      /\ processed[job.id] = NoRecord /\ deferred[job.id] = NoTarget
  BY <1>1, JobOfState
<1>3. {"cancelled", "rejected"} \subseteq Ledger!Final /\ "ordinary" \in Codes
  BY DEF Ledger!Final, Codes
<1>4. CASE Finish(RecordSkip(Tables, job.id), job.id, "skipped")
  BY <1>1, <1>4, SkippingStep
<1>5. CASE Finish(RecordResult(Tables, job.id, "cancelled", "ordinary"), job.id, "cancelled")
  BY <1>1, <1>3, <1>5, SettlingStep
<1>6. CASE LaunchFailure(job.id, job.deferrals)
  <2> DEFINE again == [reason |-> "helper-launch-failed", deferrals |-> job.deferrals + 1,
                       due |-> FALSE]
  <2>1. CASE Finish(RecordResult(Tables, job.id, "rejected", "ordinary"), job.id, "rejected")
    BY <1>1, <1>3, <2>1, SettlingStep
  <2>2. CASE /\ job.deferrals < LaunchMaxDeferrals
             /\ Finish(InsertDeferred(Tables, job.id, again), job.id, "deferred")
    <3>1. job.deferrals + 1 \in 0..LaunchMaxDeferrals
      BY <1>2, <2>2, PolicyAssumption DEF Job
    <3>2. again \in Target
      BY <3>1 DEF Target, Reasons
    <3> QED
      BY <1>2, <2>2, <3>2, DeferringStep
  <2> QED
    BY <1>4, <1>6, <2>1, <2>2 DEF LaunchFailure
<1>7. CASE job' = [job EXCEPT !.phase = "helper"] /\ UNCHANGED <<tables, returned>>
  <2>1. job' \in Job /\ job'.id = job.id /\ job'.phase = "helper"
    BY <1>2, <1>7 DEF Job
  <2> QED
    BY <1>1, <1>7, <2>1, JobMoves
<1> QED
  BY <1>4, <1>5, <1>6, <1>7 DEF LaunchHelper

LEMMA HelperAnswersStep ==
    ASSUME HomesInv, HelperAnswers
    PROVE  HomesInv' /\ LedgerStep
<1>1. job.phase = "helper"
  BY DEF HelperAnswers
<1>2. /\ job \in Job /\ job.id \in Identities
      /\ processed[job.id] = NoRecord /\ deferred[job.id] = NoTarget
  BY <1>1, JobOfState
<1>3. PICK result \in HelperResults, alive \in Liveness(job.id) :
         LET outcome == TerminalOutcome(Disposition(result), job.attempt = MaxAttempts)
             vanished == Vanished(outcome, result.code, alive)
         IN  \/ /\ outcome = "frozen"
                /\ Finish(InsertDeferred(Tables, job.id, FrozenTarget(job.deferrals)),
                          job.id, "deferred")
             \/ /\ outcome = "retry"
                /\ job' = [job EXCEPT !.phase = "backoff"]
                /\ UNCHANGED <<tables, returned>>
             \/ /\ outcome \notin {"frozen", "retry"}
                /\ ~vanished
                /\ Finish(RecordResult(Tables, job.id, outcome, result.code), job.id, outcome)
             \/ /\ vanished
                /\ Finish(RecordSkip(Tables, job.id), job.id, "skipped")
  BY DEF HelperAnswers
<1> DEFINE outcome == TerminalOutcome(Disposition(result), job.attempt = MaxAttempts)
<1>4. /\ result.disposition \in {"injected", "skipped", "frozen", "rejected", "retryable"}
      /\ result.code \in Codes
  BY DEF HelperResults, Result, Codes, Untrusted, CleanupUnknown
<1>5. /\ outcome \in {"injected", "skipped", "frozen", "rejected", "retry-exhausted", "retry"}
      /\ outcome = "retry" => job.attempt # MaxAttempts
  BY <1>4 DEF TerminalOutcome, Disposition
<1>6. CASE Finish(InsertDeferred(Tables, job.id, FrozenTarget(job.deferrals)), job.id, "deferred")
  <2>1. FrozenTarget(job.deferrals) \in Target
    BY <1>2, FrozenIsATarget DEF Job
  <2> QED
    BY <1>2, <1>6, <2>1, DeferringStep
<1>7. CASE /\ outcome = "retry"
           /\ job' = [job EXCEPT !.phase = "backoff"]
           /\ UNCHANGED <<tables, returned>>
  <2>1. job' \in Job /\ job'.id = job.id /\ job'.attempt = job.attempt
    BY <1>2, <1>7 DEF Job
  <2>2. job.attempt < MaxAttempts
    BY <1>2, <1>5, <1>7, PolicyAssumption DEF Job
  <2> QED
    BY <1>1, <1>7, <2>1, <2>2, JobMoves
<1>8. CASE /\ outcome \notin {"frozen", "retry"}
           /\ Finish(RecordResult(Tables, job.id, outcome, result.code), job.id, outcome)
  <2>1. outcome \in Ledger!Final
    BY <1>5, <1>8 DEF Ledger!Final
  <2> HIDE DEF outcome
  <2> QED
    BY <1>1, <1>4, <1>8, <2>1, SettlingStep
<1>9. CASE Finish(RecordSkip(Tables, job.id), job.id, "skipped")
  BY <1>1, <1>9, SkippingStep
<1> QED
  BY <1>3, <1>6, <1>7, <1>8, <1>9

LEMMA RetryWaitStep ==
    ASSUME HomesInv, RetryWait
    PROVE  HomesInv' /\ LedgerStep
<1>1. job.phase = "backoff" /\ job.attempt < MaxAttempts
  BY DEF RetryWait, HomesInv
<1>2. job \in Job
  BY <1>1, JobOfState
<1>3. CASE /\ job' = [job EXCEPT !.phase = "launch", !.attempt = @ + 1]
           /\ UNCHANGED <<tables, returned>>
  <2>1. job.attempt + 1 \in 1..MaxAttempts
    BY <1>1, <1>2, PolicyAssumption DEF Job
  <2>2. job' \in Job /\ job'.id = job.id /\ job'.phase = "launch"
    BY <1>2, <1>3, <2>1 DEF Job
  <2> QED
    BY <1>1, <1>3, <2>2, JobMoves
<1>4. CASE Finish(RecordResult(Tables, job.id, "cancelled", "transient"), job.id, "cancelled")
  <2>1. "cancelled" \in Ledger!Final /\ "transient" \in Codes
    BY DEF Ledger!Final, Codes
  <2> QED
    BY <1>1, <1>4, <2>1, SettlingStep
<1> QED
  BY <1>3, <1>4 DEF RetryWait

LEMMA SessionForgetsStep ==
    ASSUME HomesInv, NEW gone \in SUBSET Identities, SessionForgets(gone)
    PROVE  HomesInv' /\ LedgerStep
<1>1. job.phase = "none" /\ job' = job /\ returned' = returned
  BY DEF SessionForgets, Idle
<1>2. /\ processed' = [i \in Identities |-> IF i \in gone THEN NoRecord ELSE processed[i]]
      /\ deferred' = [i \in Identities |-> IF i \in gone THEN NoTarget ELSE deferred[i]]
  BY DEF SessionForgets, Install, Forget
<1>3. processed' \in Records /\ deferred' \in Targets
  BY <1>2 DEF HomesInv, Records, Targets
<1>4. Tracked' \cap DeferredTargets' = {}
  BY <1>2 DEF HomesInv, OneHomePerTarget, Tracked, DeferredTargets, Keys
<1>5. HomesInv'
  BY <1>1, <1>3, <1>4 DEF HomesInv, OneHomePerTarget, Idle
<1>6. \A i \in Identities : ~Busy(i) /\ ~Busy(i)'
  BY <1>1 DEF Busy
<1>7. \A i \in Identities : Stage(i)' = IF i \in gone THEN "unknown" ELSE Stage(i)
  BY <1>2, <1>6, StageOf, StageAfterwards
<1>8. Ledger!ForgetSession
  BY <1>1, <1>7, NoBusyIsQuiet DEF Ledger!ForgetSession
<1> QED
  BY <1>5, <1>8 DEF LedgerStep, Ledger!LedgerNext

LEMMA WorldStep ==
    ASSUME HomesInv, World
    PROVE  HomesInv' /\ LedgerStep
<1>1. /\ processed' = processed /\ job' = job /\ returned' = returned
      /\ deferred' \in Targets
      /\ \A j \in Identities : deferred'[j] = NoTarget <=> deferred[j] = NoTarget
  <2>1. CASE UNCHANGED <<tables, job, returned>>
    BY <2>1 DEF tables, HomesInv
  <2>2. ASSUME NEW i \in Identities, BecomeDue(i),
               UNCHANGED <<processed, processOrder, deferredOrder, job, returned, machine>>
        PROVE  /\ processed' = processed /\ job' = job /\ returned' = returned
               /\ deferred' \in Targets
               /\ \A j \in Identities : deferred'[j] = NoTarget <=> deferred[j] = NoTarget
    <3>1. deferred[i] \in Target /\ deferred' = [deferred EXCEPT ![i].due = TRUE]
      BY <2>2 DEF BecomeDue, DeferredTargets, Keys, HomesInv, Targets
    <3>2. [deferred[i] EXCEPT !.due = TRUE] \in Target
      BY <3>1 DEF Target
    <3>3. /\ deferred' \in Targets /\ deferred'[i] \in Target
          /\ \A j \in Identities \ {i} : deferred'[j] = deferred[j]
      BY <3>1, <3>2 DEF HomesInv, Targets
    <3> QED
      BY <2>2, <3>1, <3>3, Absent
  <2> QED
    BY <2>1, <2>2 DEF World
<1>2. DeferredTargets' = DeferredTargets /\ Tracked' = Tracked
  BY <1>1 DEF DeferredTargets, Tracked, Keys
<1>3. HomesInv'
  BY <1>1, <1>2 DEF HomesInv, OneHomePerTarget, Known, Idle
<1>4. \A i \in Identities : Stage(i)' = Stage(i)
  BY <1>1, <1>2 DEF Stage, Idle
<1>5. UNCHANGED Ledger!ledgerVars
  BY <1>1, <1>4 DEF Ledger!ledgerVars
<1> QED
  BY <1>3, <1>5 DEF LedgerStep
-----------------------------------------------------------------------------
\* Every step keeps the invariant and is a step of the ledger or leaves it alone.
LEMMA EveryStep ==
    ASSUME HomesInv, [OrchestratorNext]_orchestratorVars
    PROVE  HomesInv' /\ LedgerStep
<1>1. ASSUME NEW p \in Pids, HandlePid(p) PROVE HomesInv' /\ LedgerStep
  BY <1>1, HandlePidStep
<1>2. CASE PollDeferred
  BY <1>2, PollDeferredStep
<1>3. CASE LaunchHelper
  BY <1>3, LaunchHelperStep
<1>4. CASE HelperAnswers
  BY <1>4, HelperAnswersStep
<1>5. CASE RetryWait
  BY <1>5, RetryWaitStep
<1>6. CASE SessionChange
  BY <1>6, SessionForgetsStep DEF SessionChange
<1>7. CASE World
  BY <1>7, WorldStep
<1>8. CASE UNCHANGED orchestratorVars
  <2>1. /\ processed' = processed /\ deferred' = deferred /\ job' = job
        /\ returned' = returned
    BY <1>8 DEF orchestratorVars, tables
  <2>2. HomesInv'
    BY <2>1 DEF HomesInv, OneHomePerTarget, Known, Idle, Tracked, DeferredTargets, Keys
  <2>3. \A i \in Identities : Stage(i)' = Stage(i)
    BY <2>1 DEF Stage, Idle, Tracked, DeferredTargets, Keys
  <2>4. UNCHANGED Ledger!ledgerVars
    BY <2>1, <2>3 DEF Ledger!ledgerVars
  <2> QED
    BY <2>2, <2>4 DEF LedgerStep
<1> QED
  BY <1>1, <1>2, <1>3, <1>4, <1>5, <1>6, <1>7, <1>8 DEF OrchestratorNext

\* Both tables start empty: every target is unknown.
LEMMA InitStep == OrchestratorInit => HomesInv /\ Ledger!LedgerInit
<1> SUFFICES ASSUME OrchestratorInit PROVE HomesInv /\ Ledger!LedgerInit
  OBVIOUS
<1>1. /\ processed = [i \in Identities |-> NoRecord]
      /\ deferred = [i \in Identities |-> NoTarget]
      /\ job = NoJob /\ returned = NothingYet
  BY DEF OrchestratorInit
<1>2. job.phase = "none"
  BY <1>1 DEF NoJob
<1>3. HomesInv
  BY <1>1, <1>2 DEF HomesInv, Records, Targets, OneHomePerTarget, Idle, Tracked,
                    DeferredTargets, Keys
<1>4. \A i \in Identities : Stage(i) = "unknown"
  BY <1>1, <1>2, StageOf DEF Busy
<1>5. Ledger!LedgerInit
  BY <1>1, <1>4 DEF Ledger!LedgerInit, NothingYet, Returned, Ledger!Pending, Ledger!Reply
<1> QED
  BY <1>3, <1>5

\* The invariant holds in every reachable state.
THEOREM HomesInvariant == OrchestratorSpec => []HomesInv
<1>1. OrchestratorInit => HomesInv
  BY InitStep
<1>2. HomesInv /\ [OrchestratorNext]_orchestratorVars => HomesInv'
  BY EveryStep
<1> QED
  BY <1>1, <1>2, PTL DEF OrchestratorSpec

\* No target is ever both settled and deferred, and none is injected while it
\* has a result or a deferral, for any number of targets and any capacity.
THEOREM OneHome == OrchestratorSpec => []OneHomePerTarget
<1>1. HomesInv => OneHomePerTarget
  BY DEF HomesInv
<1> QED
  BY <1>1, HomesInvariant, PTL

\* The orchestrator implements the ledger its caller relies on.
THEOREM OrchestratorKeepsTheLedger == OrchestratorSpec => KeepsTheLedger
<1>1. OrchestratorInit => Ledger!LedgerInit
  BY InitStep
<1>2. HomesInv /\ [OrchestratorNext]_orchestratorVars
        => [Ledger!LedgerNext]_(Ledger!ledgerVars)
  BY EveryStep DEF LedgerStep
<1> QED
  BY <1>1, <1>2, HomesInvariant, PTL DEF OrchestratorSpec, KeepsTheLedger, Ledger!LedgerSpec
-----------------------------------------------------------------------------
(***************************************************************************)
(* Orders: sequences that list a set, each member once.                    *)
(***************************************************************************)
Lists(order, keys) ==
    /\ order \in Seq(Identities)
    /\ IsInjective(order)
    /\ Range(order) = keys

\* Such a list is as long as the set is large.
LEMMA ListLength ==
    ASSUME NEW order, NEW keys, Lists(order, keys)
    PROVE  /\ IsFiniteSet(keys)
           /\ Len(order) \in Nat /\ Cardinality(keys) = Len(order)
           /\ order # <<>> <=> keys # {}
<1>1. Len(order) \in Nat /\ DOMAIN order = 1 .. Len(order)
  BY DEF Lists
<1>2. order \in Bijection(1 .. Len(order), keys)
  BY <1>1 DEF Lists, IsInjective, Range, Bijection, Injection, Surjection
<1>3. IsFiniteSet(1 .. Len(order)) /\ Cardinality(1 .. Len(order)) = Len(order)
  <2>1. \A n \in Nat : IsFiniteSet(1 .. n) /\ Cardinality(1 .. n) = n
    <3> TAKE n \in Nat
    <3>. QED BY FS_Interval
  <2>. QED BY <1>1, <2>1
<1>4. IsFiniteSet(keys) /\ Cardinality(keys) = Len(order)
  BY <1>2, <1>3, FS_Bijection DEF ExistsBijection
<1>5. order # <<>> <=> Len(order) # 0
  BY DEF Lists
<1>. QED BY <1>1, <1>4, <1>5, FS_EmptySet

\* pop_front takes the oldest member away.
LEMMA ListTail ==
    ASSUME NEW order, NEW keys, Lists(order, keys), order # <<>>
    PROVE  Head(order) \in keys /\ Lists(Tail(order), keys \ {Head(order)})
<1>1. /\ Len(order) \in Nat \ {0} /\ DOMAIN order = 1 .. Len(order)
      /\ Head(order) = order[1] /\ order[1] \in keys
  BY DEF Lists, Range
<1>2. /\ Tail(order) \in Seq(Identities) /\ Len(Tail(order)) = Len(order) - 1
      /\ \A k \in 1 .. Len(order) - 1 : Tail(order)[k] = order[k + 1]
  BY <1>1 DEF Lists
<1>3. DOMAIN Tail(order) = 1 .. Len(order) - 1
  BY <1>1, <1>2
<1>4. IsInjective(Tail(order))
  BY <1>1, <1>2, <1>3 DEF Lists, IsInjective
<1>5. ASSUME NEW x \in Range(Tail(order)) PROVE x \in keys \ {Head(order)}
  BY <1>1, <1>2, <1>3, <1>5 DEF Lists, IsInjective, Range
<1>6. ASSUME NEW x \in keys \ {Head(order)} PROVE x \in Range(Tail(order))
  <2>1. PICK k \in 1 .. Len(order) : x = order[k]
    BY <1>1, <1>6 DEF Lists, Range
  <2>2. k - 1 \in 1 .. Len(order) - 1 /\ Tail(order)[k - 1] = x
    BY <1>1, <1>2, <1>6, <2>1
  <2>. QED BY <1>3, <2>2 DEF Range
<1>. QED BY <1>1, <1>2, <1>4, <1>5, <1>6 DEF Lists

\* push_back adds a new member, as the youngest.
LEMMA ListAppend ==
    ASSUME NEW order, NEW keys, Lists(order, keys), NEW i \in Identities, i \notin keys
    PROVE  /\ Lists(Append(order, i), keys \cup {i})
           /\ Append(order, i) # <<>> /\ Last(Append(order, i)) = i
<1> DEFINE longer == Append(order, i)
<1>1. Len(order) \in Nat /\ DOMAIN order = 1 .. Len(order)
  BY DEF Lists
<1>2. /\ longer \in Seq(Identities) /\ Len(longer) = Len(order) + 1
      /\ DOMAIN longer = 1 .. Len(order) + 1
      /\ \A k \in 1 .. Len(order) : longer[k] = order[k]
      /\ longer[Len(order) + 1] = i
  BY <1>1 DEF Lists
<1> HIDE DEF longer
<1>3. \A k \in 1 .. Len(order) : order[k] \in keys
  BY <1>1 DEF Lists, Range
<1>4. IsInjective(longer)
  BY <1>1, <1>2, <1>3 DEF Lists, IsInjective
<1>5. ASSUME NEW x \in Range(longer) PROVE x \in keys \cup {i}
  BY <1>1, <1>2, <1>3, <1>5 DEF Range
<1>6. ASSUME NEW x \in keys PROVE x \in Range(longer)
  <2>1. PICK k \in 1 .. Len(order) : x = order[k]
    BY <1>1, <1>6 DEF Lists, Range
  <2>. QED BY <1>1, <1>2, <2>1 DEF Range
<1>7. i \in Range(longer)
  BY <1>1, <1>2 DEF Range
<1>8. longer # <<>> /\ Last(longer) = i
  BY <1>1, <1>2 DEF Last
<1>. QED BY <1>2, <1>4, <1>5, <1>6, <1>7, <1>8 DEF Lists, longer

\* VecDeque::remove takes one member out of its place.
LEMMA ListRemoveAt ==
    ASSUME NEW order, NEW keys, Lists(order, keys), NEW n \in DOMAIN order
    PROVE  Lists(RemoveAt(order, n), keys \ {order[n]})
<1> DEFINE len == Len(order)
           shorter == RemoveAt(order, n)
<1>1. len \in Nat /\ DOMAIN order = 1 .. len /\ n \in 1 .. len
  BY DEF Lists
<1>2. /\ shorter \in Seq(Identities) /\ Len(shorter) = len - 1
      /\ \A k \in 1 .. len - 1 : shorter[k] = IF k < n THEN order[k] ELSE order[k + 1]
  <2> DEFINE front == SubSeq(order, 1, n - 1)
             back == SubSeq(order, n + 1, len)
  <2>1. /\ front \in Seq(Identities) /\ Len(front) = n - 1
        /\ \A k \in 1 .. n - 1 : front[k] = order[k]
    BY <1>1 DEF Lists
  <2>2. /\ back \in Seq(Identities) /\ Len(back) = len - n
        /\ \A k \in 1 .. len - n : back[k] = order[k + n]
    BY <1>1 DEF Lists
  <2>3. shorter = front \o back
    BY DEF RemoveAt
  <2> HIDE DEF front, back, shorter, len
  <2>4. shorter \in Seq(Identities) /\ Len(shorter) = len - 1
    <3>1. \A s, t \in Seq(Identities) : s \o t \in Seq(Identities) /\ Len(s \o t) = Len(s) + Len(t)
      OBVIOUS
    <3>2. (n - 1) + (len - n) = len - 1
      BY <1>1
    <3>. QED BY <2>1, <2>2, <2>3, <3>1, <3>2
  <2>5. ASSUME NEW k \in 1 .. n - 1 PROVE shorter[k] = order[k]
    <3>1. k \in Nat /\ k > 0 /\ k <= Len(front)
      BY <1>1, <2>1
    <3>2. \A s, t \in Seq(Identities) : \A m \in Nat : m > 0 /\ m <= Len(s) => (s \o t)[m] = s[m]
      OBVIOUS
    <3>. QED BY <2>1, <2>2, <2>3, <3>1, <3>2
  <2>6. ASSUME NEW k \in n .. len - 1 PROVE shorter[k] = order[k + 1]
    <3>1. k - (n - 1) \in 1 .. len - n /\ k - (n - 1) + n = k + 1
      BY <1>1
    <3>2. k \in Nat /\ k > Len(front) /\ k <= Len(front) + Len(back) /\ k - Len(front) = k - (n - 1)
      BY <1>1, <2>1, <2>2
    <3>3. \A s, t \in Seq(Identities) : \A m \in Nat :
             m > Len(s) /\ m <= Len(s) + Len(t) => (s \o t)[m] = t[m - Len(s)]
      OBVIOUS
    <3>4. shorter[k] = back[k - (n - 1)]
      BY <2>1, <2>2, <2>3, <3>2, <3>3
    <3>. QED BY <2>2, <3>1, <3>4
  <2>. QED BY <1>1, <2>4, <2>5, <2>6
<1>3. DOMAIN shorter = 1 .. len - 1
  BY <1>1, <1>2
<1> HIDE DEF shorter
<1>4. IsInjective(shorter)
  <2> SUFFICES ASSUME NEW a \in 1 .. len - 1, NEW b \in 1 .. len - 1, shorter[a] = shorter[b]
               PROVE  a = b
    BY <1>3 DEF IsInjective
  <2> DEFINE Old(k) == IF k < n THEN k ELSE k + 1
  <2>1. /\ Old(a) \in 1 .. len /\ Old(b) \in 1 .. len
        /\ shorter[a] = order[Old(a)] /\ shorter[b] = order[Old(b)]
    BY <1>1, <1>2
  <2>2. Old(a) = Old(b)
    <3> HIDE DEF Old
    <3>. QED BY <1>1, <2>1 DEF Lists, IsInjective
  <2>. QED BY <1>1, <2>2
<1>5. ASSUME NEW x \in Range(shorter) PROVE x \in keys \ {order[n]}
  BY <1>1, <1>2, <1>3, <1>5 DEF Lists, IsInjective, Range
<1>6. ASSUME NEW x \in keys \ {order[n]} PROVE x \in Range(shorter)
  <2>1. PICK k \in 1 .. len : x = order[k]
    BY <1>1, <1>6 DEF Lists, Range
  <2>2. CASE k < n
    BY <1>1, <1>2, <1>3, <2>1, <2>2 DEF Range
  <2>3. CASE k > n
    <3>1. k - 1 \in 1 .. len - 1 /\ shorter[k - 1] = x
      BY <1>1, <1>2, <2>1, <2>3
    <3>. QED BY <1>3, <3>1 DEF Range
  <2>. QED BY <1>1, <1>6, <2>1, <2>2, <2>3
<1>. QED BY <1>2, <1>4, <1>5, <1>6 DEF Lists, shorter

\* In a finite set of numbers, each member has a place of its own among the smaller
\* ones, and each place is taken.
LEMMA Places ==
    ASSUME NEW len \in Nat, NEW kept \in SUBSET (1 .. len)
    PROVE  LET Place(n) == Cardinality({m \in kept : m <= n})
           IN  /\ IsFiniteSet(kept) /\ Cardinality(kept) \in Nat
               /\ \A n \in kept : Place(n) \in 1 .. Cardinality(kept)
               /\ \A n, m \in kept : n < m => Place(n) < Place(m)
               /\ \A k \in 1 .. Cardinality(kept) : \E n \in kept : Place(n) = k
<1> DEFINE Below(n) == {m \in kept : m <= n}
           Place(n) == Cardinality(Below(n))
           c == Cardinality(kept)
<1>1. IsFiniteSet(1 .. len)
  BY FS_Interval
<1>2. IsFiniteSet(kept) /\ c \in Nat
  BY <1>1, FS_Subset, FS_CardinalityType
<1>3. \A n \in kept : IsFiniteSet(Below(n)) /\ Place(n) \in Nat /\ Place(n) <= c
  <2> TAKE n \in kept
  <2>1. Below(n) \in SUBSET kept
    OBVIOUS
  <2> HIDE DEF Below
  <2>. QED BY <1>2, <2>1, FS_Subset, FS_CardinalityType
<1>4. \A n \in kept : Place(n) # 0
  <2> TAKE n \in kept
  <2>1. n \in Below(n)
    OBVIOUS
  <2> HIDE DEF Below
  <2>. QED BY <1>3, <2>1, FS_EmptySet
<1>5. \A n, m \in kept : n < m => Place(n) < Place(m)
  <2> SUFFICES ASSUME NEW n \in kept, NEW m \in kept, n < m PROVE Place(n) < Place(m)
    OBVIOUS
  <2>0. \A k \in kept : k \in Nat
    OBVIOUS
  <2>1. Below(n) \in SUBSET Below(m) /\ m \in Below(m) /\ m \notin Below(n)
    <3>1. \A k \in kept : k <= n => k <= m
      BY <2>0
    <3>2. m <= m /\ ~(m <= n)
      BY <2>0
    <3>. QED BY <3>1, <3>2
  <2>2. IsFiniteSet(Below(m)) /\ Place(n) \in Nat /\ Place(m) \in Nat
    BY <1>3
  <2> HIDE DEF Below
  <2>3. Place(n) <= Place(m) /\ Place(n) # Place(m)
    BY <2>1, <2>2, FS_Subset
  <2>. QED BY <2>2, <2>3
<1>6. \A n \in kept : Place(n) \in 1 .. c
  BY <1>2, <1>3, <1>4
<1>7. \A k \in 1 .. c : \E n \in kept : Place(n) = k
  <2> DEFINE f == [n \in kept |-> Place(n)]
  <2> HIDE DEF Place
  <2>1. f \in [kept -> 1 .. c]
    BY <1>6
  <2>2. \A n, m \in kept : f[n] = f[m] => n = m
    <3> SUFFICES ASSUME NEW n \in kept, NEW m \in kept, Place(n) = Place(m) PROVE n = m
      OBVIOUS
    <3>1. n \in Nat /\ m \in Nat /\ Place(n) \in Nat /\ Place(m) \in Nat
      BY <1>6
    <3>2. ~(n < m) /\ ~(m < n)
      BY <1>5, <3>1
    <3>. QED BY <3>1, <3>2
  <2>3. f \in Injection(kept, 1 .. c)
    BY <2>1, <2>2 DEF Injection, IsInjective
  <2>4. IsFiniteSet(1 .. c) /\ Cardinality(1 .. c) = c
    BY <1>2, FS_Interval
  <2>5. f \in Surjection(kept, 1 .. c)
    BY <2>3, <2>4, FS_Injection
  <2>. QED BY <2>5 DEF Surjection
<1>. QED BY <1>2, <1>5, <1>6, <1>7

\* VecDeque::retain lists what it keeps, in the order it was listed before.
LEMMA ListRetain ==
    ASSUME NEW order, NEW keys, Lists(order, keys), NEW keep
    PROVE  Lists(Retain(order, keep), keys \cap keep)
<1> DEFINE kept == {n \in DOMAIN order : order[n] \in keep}
           Place(n) == Cardinality({m \in kept : m <= n})
           c == Cardinality(kept)
           At(k) == CHOOSE n \in kept : Place(n) = k
           rest == [k \in 1 .. c |-> order[At(k)]]
<1>1. Len(order) \in Nat /\ DOMAIN order = 1 .. Len(order)
  BY DEF Lists
<1>2. rest = Retain(order, keep)
  BY DEF Retain
<1>3. kept \in SUBSET (1 .. Len(order))
  BY <1>1
<1>4. \A n \in kept : order[n] \in Identities /\ order[n] \in keys \cap keep
  BY <1>1 DEF Lists, Range
<1>5. \A x \in keys \cap keep : \E n \in kept : order[n] = x
  BY <1>1 DEF Lists, Range
<1>6. \A n, m \in kept : order[n] = order[m] => n = m
  BY DEF Lists, IsInjective
<1> HIDE DEF kept
<1>7. /\ IsFiniteSet(kept) /\ c \in Nat
      /\ \A n \in kept : Place(n) \in 1 .. c
      /\ \A n, m \in kept : n < m => Place(n) < Place(m)
      /\ \A k \in 1 .. c : \E n \in kept : Place(n) = k
  BY <1>1, <1>3, Places
<1> HIDE DEF Place
<1>8. \A k \in 1 .. c : At(k) \in kept /\ Place(At(k)) = k
  BY <1>7
<1>9. \A n \in kept : At(Place(n)) = n
  <2> TAKE n \in kept
  <2>1. At(Place(n)) \in kept /\ Place(At(Place(n))) = Place(n)
    BY <1>7, <1>8
  <2> HIDE DEF At
  <2>2. \A m \in kept : Place(m) = Place(n) => m = n
    <3> SUFFICES ASSUME NEW m \in kept, Place(m) = Place(n) PROVE m = n
      OBVIOUS
    <3>1. n \in Nat /\ m \in Nat /\ Place(n) \in Nat
      BY <1>1, <1>3, <1>7
    <3>2. ~(n < m) /\ ~(m < n)
      BY <1>7, <3>1
    <3>. QED BY <3>1, <3>2
  <2>. QED BY <2>1, <2>2
<1> HIDE DEF At, c
<1>10. rest \in [1 .. c -> Identities]
  BY <1>4, <1>8
<1>11. rest \in Seq(Identities)
  BY <1>7, <1>10
<1>12. IsInjective(rest)
  <2> SUFFICES ASSUME NEW k \in 1 .. c, NEW l \in 1 .. c, rest[k] = rest[l] PROVE k = l
    BY DEF IsInjective
  <2>1. order[At(k)] = order[At(l)]
    OBVIOUS
  <2>2. At(k) = At(l)
    BY <1>6, <1>8, <2>1
  <2>. QED BY <1>8, <2>2
<1>13. Range(rest) = keys \cap keep
  <2>1. \A k \in 1 .. c : rest[k] \in keys \cap keep
    BY <1>4, <1>8
  <2>2. ASSUME NEW x \in keys \cap keep PROVE \E k \in 1 .. c : rest[k] = x
    <3>1. PICK n \in kept : order[n] = x
      BY <1>5, <2>2
    <3>2. Place(n) \in 1 .. c /\ At(Place(n)) = n
      BY <1>7, <1>9
    <3>. QED BY <3>1, <3>2
  <2>. QED BY <2>1, <2>2 DEF Range
<1>. QED BY <1>2, <1>11, <1>12, <1>13 DEF Lists
-----------------------------------------------------------------------------
(***************************************************************************)
(* The tables and their orders                                             *)
(***************************************************************************)
\* The agreement TablesAgree speaks of, in a form that each update preserves.
Orderly(t) ==
    /\ Lists(t.processOrder, Keys(t.processed, NoRecord))
    /\ Cardinality(Keys(t.processed, NoRecord)) <= MaxTracked
    /\ Lists(t.deferredOrder, Keys(t.deferred, NoTarget))
    /\ Cardinality(Keys(t.deferred, NoTarget)) <= MaxDeferred

\* A result is lost only as the oldest of a full history.
LosesTheOldest(t, u) ==
    \A j \in Keys(t.processed, NoRecord) :
        \/ j \in Keys(u.processed, NoRecord)
        \/ Len(t.processOrder) = MaxTracked /\ Head(t.processOrder) = j

\* A full history makes room by giving up its oldest result.
LEMMA MakeRoomOrderly ==
    ASSUME NEW t, Snapshot(t), Orderly(t)
    PROVE  LET u == MakeRoom(t)
           IN  /\ Lists(u.processOrder, Keys(u.processed, NoRecord))
               /\ Cardinality(Keys(u.processed, NoRecord)) < MaxTracked
               /\ Keys(u.processed, NoRecord) \subseteq Keys(t.processed, NoRecord)
               /\ u.deferred = t.deferred /\ u.deferredOrder = t.deferredOrder
               /\ LosesTheOldest(t, u)
<1> DEFINE keys == Keys(t.processed, NoRecord)
           oldest == Head(t.processOrder)
           u == MakeRoom(t)
<1>1. /\ IsFiniteSet(keys) /\ Cardinality(keys) = Len(t.processOrder)
      /\ Len(t.processOrder) \in Nat /\ t.processOrder # <<>> <=> keys # {}
  BY ListLength DEF Orderly
<1>2. MaxTracked \in Nat \ {0} /\ Cardinality(keys) <= MaxTracked
  BY PolicyAssumption DEF Orderly
<1>3. CASE Cardinality(keys) < MaxTracked
  <2>1. u = t
    BY <1>1, <1>2, <1>3 DEF MakeRoom
  <2> HIDE DEF u
  <2>. QED BY <1>3, <2>1 DEF Orderly, LosesTheOldest, u
<1>4. CASE Cardinality(keys) = MaxTracked
  <2>1. /\ u.processed = [t.processed EXCEPT ![oldest] = NoRecord]
        /\ u.processOrder = Tail(t.processOrder)
        /\ u.deferred = t.deferred /\ u.deferredOrder = t.deferredOrder
    BY <1>1, <1>2, <1>4 DEF MakeRoom, Snapshot
  <2>2. t.processOrder # <<>>
    BY <1>1, <1>2, <1>4
  <2>3. oldest \in keys /\ Lists(Tail(t.processOrder), keys \ {oldest})
    BY <2>2, ListTail DEF Orderly
  <2>4. Keys(u.processed, NoRecord) = keys \ {oldest}
    BY <2>1, <2>3 DEF Keys, Snapshot, Records
  <2>5. Cardinality(keys \ {oldest}) = Cardinality(keys) - 1
    BY <1>1, <2>3, FS_RemoveElement
  <2>6. Len(t.processOrder) = MaxTracked
    BY <1>1, <1>4
  <2> HIDE DEF u, keys
  <2>7. \A j \in keys : j \in Keys(u.processed, NoRecord) \/ oldest = j
    BY <2>4
  <2>8. Cardinality(Keys(u.processed, NoRecord)) < MaxTracked
    BY <1>1, <1>2, <1>4, <2>4, <2>5
  <2>9. Lists(u.processOrder, Keys(u.processed, NoRecord)) /\ Keys(u.processed, NoRecord) \subseteq keys
    BY <2>1, <2>3, <2>4
  <2>10. LosesTheOldest(t, u)
    BY <2>6, <2>7 DEF LosesTheOldest, keys
  <2>. QED BY <2>1, <2>8, <2>9, <2>10 DEF u, keys
<1>. QED BY <1>1, <1>2, <1>3, <1>4

\* What record_result makes of the tables: a new result is the youngest.
Recorded(t, u, i, r) ==
    /\ Orderly(u) /\ LosesTheOldest(t, u)
    /\ u.deferred = t.deferred /\ u.deferredOrder = t.deferredOrder
    /\ u.processed[i] = r
    /\ t.processed[i] = NoRecord => u.processOrder # <<>> /\ Last(u.processOrder) = i

\* record_result keeps the tables in order.
LEMMA RecordOrderly ==
    ASSUME NEW t, Snapshot(t), Orderly(t), NEW i \in Identities,
           NEW outcome \in Outcomes, NEW code \in Codes
    PROVE  Recorded(t, RecordResult(t, i, outcome, code), i, [outcome |-> outcome, code |-> code])
<1> DEFINE known == t.processed[i] # NoRecord
           room == IF known THEN t ELSE MakeRoom(t)
           r == [outcome |-> outcome, code |-> code]
           u == RecordResult(t, i, outcome, code)
           keys == Keys(room.processed, NoRecord)
<1>1. Snapshot(room)
  BY MakeRoomDrops
<1>2. r \in Record /\ r # NoRecord
  BY Absent DEF Record
<1>3. /\ u.processed = [room.processed EXCEPT ![i] = r]
      /\ u.processOrder = IF known THEN room.processOrder ELSE Append(room.processOrder, i)
      /\ u.deferred = room.deferred /\ u.deferredOrder = room.deferredOrder
  <2>1. u = [room EXCEPT !.processed[i] = r,
                         !.processOrder = IF known THEN @ ELSE Append(@, i)]
    BY DEF RecordResult
  <2> HIDE DEF room, r, known, u
  <2>. QED BY <1>1, <2>1 DEF Snapshot
<1>4. /\ Lists(room.processOrder, keys)
      /\ known => Cardinality(keys) <= MaxTracked
      /\ ~known => Cardinality(keys) < MaxTracked
      /\ keys \subseteq Keys(t.processed, NoRecord)
      /\ room.deferred = t.deferred /\ room.deferredOrder = t.deferredOrder
      /\ LosesTheOldest(t, room)
  <2>1. CASE known
    <3>1. room = t
      BY <2>1
    <3> HIDE DEF room
    <3>. QED BY <2>1, <3>1 DEF Orderly, LosesTheOldest
  <2>2. CASE ~known
    <3>1. room = MakeRoom(t)
      BY <2>2
    <3> HIDE DEF room
    <3>. QED BY <2>2, <3>1, MakeRoomOrderly
  <2>. QED BY <2>1, <2>2
<1>5. known <=> i \in keys
  <2>1. CASE known
    <3>1. room = t
      BY <2>1
    <3> HIDE DEF room
    <3>. QED BY <2>1, <3>1 DEF Keys
  <2>2. CASE ~known
    BY <1>4, <2>2 DEF Keys
  <2>. QED BY <2>1, <2>2
<1>6. IsFiniteSet(keys) /\ Cardinality(keys) \in Nat /\ MaxTracked \in Nat
  BY <1>4, ListLength, PolicyAssumption
<1> HIDE DEF room, u, r
<1>7. Keys(u.processed, NoRecord) = keys \cup {i} /\ u.processed[i] = r
  BY <1>1, <1>2, <1>3 DEF Keys, Snapshot, Records
<1> HIDE DEF keys, known
<1>8. /\ Lists(u.processOrder, keys \cup {i})
      /\ Cardinality(keys \cup {i}) <= MaxTracked
      /\ ~known => u.processOrder # <<>> /\ Last(u.processOrder) = i
  <2>1. CASE known
    <3>1. keys \cup {i} = keys
      BY <1>5, <2>1
    <3>. QED BY <1>3, <1>4, <2>1, <3>1
  <2>2. CASE ~known
    <3>1. Cardinality(keys \cup {i}) = Cardinality(keys) + 1
      BY <1>5, <1>6, <2>2, FS_AddElement
    <3>2. u.processOrder = Append(room.processOrder, i)
      BY <1>3, <2>2
    <3>3. Cardinality(keys \cup {i}) <= MaxTracked
      BY <1>4, <1>6, <2>2, <3>1
    <3>4. i \notin keys /\ Lists(room.processOrder, keys)
      BY <1>4, <1>5, <2>2
    <3>. QED BY <3>2, <3>3, <3>4, ListAppend
  <2>. QED BY <2>1, <2>2
<1>9. Orderly(u)
  BY <1>3, <1>4, <1>7, <1>8 DEF Orderly
<1>10. LosesTheOldest(t, u)
  BY <1>4, <1>7 DEF LosesTheOldest, keys
<1>11. Recorded(t, u, i, r)
  BY <1>3, <1>4, <1>7, <1>8, <1>9, <1>10 DEF Recorded, known
<1>. QED BY <1>11 DEF u, r

\* So does recording a skip.
LEMMA SkipOrderly ==
    ASSUME NEW t, Snapshot(t), Orderly(t), NEW i \in Identities
    PROVE  Recorded(t, RecordSkip(t, i), i, [outcome |-> "skipped", code |-> "ordinary"])
<1>1. "skipped" \in Outcomes /\ "ordinary" \in Codes
  BY DEF Outcomes, Codes
<1>. QED BY <1>1, RecordOrderly DEF RecordSkip

\* insert_deferred makes room among the deferrals by a skip of the oldest one.
LEMMA EvictOrderly ==
    ASSUME NEW t, Snapshot(t), Orderly(t)
    PROVE  LET u == EvictDeferral(t)
           IN  /\ Orderly(u) /\ LosesTheOldest(t, u)
               /\ Cardinality(Keys(u.deferred, NoTarget)) < MaxDeferred
               /\ Keys(u.deferred, NoTarget) \subseteq Keys(t.deferred, NoTarget)
<1> DEFINE keys == Keys(t.deferred, NoTarget)
           oldest == Head(t.deferredOrder)
           popped == [processed |-> t.processed, processOrder |-> t.processOrder,
                      deferred |-> [t.deferred EXCEPT ![oldest] = NoTarget],
                      deferredOrder |-> Tail(t.deferredOrder)]
           u == EvictDeferral(t)
<1>1. /\ IsFiniteSet(keys) /\ Cardinality(keys) = Len(t.deferredOrder)
      /\ Len(t.deferredOrder) \in Nat /\ t.deferredOrder # <<>> <=> keys # {}
  BY ListLength DEF Orderly
<1>2. MaxDeferred \in Nat \ {0} /\ Cardinality(keys) <= MaxDeferred
  BY PolicyAssumption DEF Orderly
<1>3. CASE Cardinality(keys) < MaxDeferred
  <2>1. u = t
    BY <1>3 DEF EvictDeferral
  <2> HIDE DEF u
  <2>. QED BY <1>3, <2>1 DEF LosesTheOldest, u
<1>4. CASE Cardinality(keys) = MaxDeferred
  <2>1. t.deferredOrder # <<>>
    BY <1>1, <1>2, <1>4
  <2>2. oldest \in keys /\ Lists(Tail(t.deferredOrder), keys \ {oldest})
    BY <2>1, ListTail DEF Orderly
  <2>3. oldest \in Identities
    BY <2>2 DEF Keys
  <2>4. ASSUME NEW x, x = [t EXCEPT !.deferred[oldest] = NoTarget,
                                   !.deferredOrder = Tail(t.deferredOrder)]
        PROVE  x = popped
    BY <2>4 DEF Snapshot
  <2>5. u = RecordSkip(popped, oldest)
    <3> HIDE DEF popped
    <3>. QED BY <1>1, <1>2, <1>4, <2>2, <2>4 DEF EvictDeferral
  <2>6. popped.deferred \in Targets
    BY DEF Snapshot, Targets
  <2>7. Snapshot(popped)
    BY <2>6 DEF Snapshot
  <2>8. Keys(popped.deferred, NoTarget) = keys \ {oldest}
    BY <2>3 DEF Keys, Snapshot, Targets
  <2>9. Cardinality(keys \ {oldest}) = Cardinality(keys) - 1
    BY <1>1, <2>2, FS_RemoveElement
  <2>11. /\ popped.processed = t.processed /\ popped.processOrder = t.processOrder
         /\ popped.deferredOrder = Tail(t.deferredOrder)
    OBVIOUS
  <2> HIDE DEF popped, u, keys
  <2>15. Cardinality(keys \ {oldest}) < MaxDeferred /\ Cardinality(keys \ {oldest}) <= MaxDeferred
    BY <1>1, <1>2, <1>4, <2>9
  <2>10. Orderly(popped)
    BY <2>2, <2>8, <2>11, <2>15 DEF Orderly
  <2>12. Orderly(u) /\ LosesTheOldest(popped, u) /\ u.deferred = popped.deferred
    BY <2>3, <2>5, <2>7, <2>10, SkipOrderly DEF Recorded
  <2>13. LosesTheOldest(t, u)
    BY <2>11, <2>12 DEF LosesTheOldest
  <2>14. Keys(u.deferred, NoTarget) = keys \ {oldest}
    BY <2>8, <2>12
  <2>. QED BY <2>12, <2>13, <2>14, <2>15 DEF u, keys
<1>. QED BY <1>1, <1>2, <1>3, <1>4

\* insert_deferred of a target that is not deferred keeps the tables in order.
LEMMA InsertOrderly ==
    ASSUME NEW t, Snapshot(t), Orderly(t), NEW i \in Identities, NEW target \in Target,
           t.deferred[i] = NoTarget
    PROVE  LET u == InsertDeferred(t, i, target)
           IN  Orderly(u) /\ LosesTheOldest(t, u)
<1> DEFINE others == Identities \ {i}
           moved == [processed |-> t.processed, processOrder |-> t.processOrder,
                     deferred |-> t.deferred, deferredOrder |-> Retain(t.deferredOrder, others)]
           room == EvictDeferral(moved)
           u == InsertDeferred(t, i, target)
           keys == Keys(room.deferred, NoTarget)
<1>1. Snapshot(moved)
  BY DEF Snapshot
<1>2. Orderly(moved)
  <2>1. Lists(Retain(t.deferredOrder, others), Keys(t.deferred, NoTarget) \cap others)
    BY ListRetain DEF Orderly
  <2>2. Keys(t.deferred, NoTarget) \cap others = Keys(t.deferred, NoTarget)
    BY DEF Keys
  <2>. QED BY <2>1, <2>2 DEF Orderly
<1>3. moved = [t EXCEPT !.deferredOrder = Retain(@, others)]
  BY DEF Snapshot
<1>4. moved.processed = t.processed /\ moved.processOrder = t.processOrder /\ moved.deferred = t.deferred
  OBVIOUS
<1> HIDE DEF moved, others
<1>5. /\ Snapshot(room) /\ Orderly(room) /\ LosesTheOldest(t, room)
      /\ Cardinality(keys) < MaxDeferred /\ keys \subseteq Keys(t.deferred, NoTarget)
  BY <1>1, <1>2, <1>4, EvictAges, EvictOrderly DEF LosesTheOldest
<1>6. u = [room EXCEPT !.deferred[i] = target, !.deferredOrder = Append(@, i)]
  BY <1>3 DEF InsertDeferred, others
<1> HIDE DEF room, u
<1>7. /\ u.processed = room.processed /\ u.processOrder = room.processOrder
      /\ u.deferred = [room.deferred EXCEPT ![i] = target]
      /\ u.deferredOrder = Append(room.deferredOrder, i)
  BY <1>5, <1>6 DEF Snapshot
<1>8. i \notin keys
  BY <1>5 DEF Keys
<1>9. Keys(u.deferred, NoTarget) = keys \cup {i}
  BY <1>5, <1>7, Absent DEF Keys, Snapshot, Targets
<1> HIDE DEF keys
<1>10. Lists(u.deferredOrder, keys \cup {i})
  BY <1>5, <1>7, <1>8, ListAppend DEF Orderly, keys
<1>11. Cardinality(keys \cup {i}) <= MaxDeferred
  <2>1. IsFiniteSet(keys) /\ Cardinality(keys) \in Nat /\ MaxDeferred \in Nat
    BY <1>5, ListLength, PolicyAssumption DEF Orderly, keys
  <2>2. Cardinality(keys \cup {i}) = Cardinality(keys) + 1
    BY <1>8, <2>1, FS_AddElement
  <2>. QED BY <1>5, <2>1, <2>2
<1>12. Orderly(u) /\ LosesTheOldest(t, u)
  BY <1>5, <1>7, <1>9, <1>10, <1>11 DEF Orderly, LosesTheOldest
<1>. QED BY <1>12 DEF u
-----------------------------------------------------------------------------
(***************************************************************************)
(* The tables of every reachable state are in order, and the history is    *)
(* faithful in every step.                                                 *)
(***************************************************************************)
OrderInv ==
    /\ HomesInv
    /\ Orderly(Tables)
    /\ MachineTypeOK
    /\ returned.outcome \in Outcomes \cup {"pending", "error"}

\* What a step has to keep besides HomesInv.
Faithful == VerdictIsAboutTheTarget /\ ResultsAgeOut
KeepsOrder ==
    /\ Orderly(Tables)' /\ Faithful
    /\ returned'.outcome \in Outcomes \cup {"pending", "error"}

\* The tables of a state, before and after a step.
LEMMA PartsOfTables ==
    /\ Tables.processed = processed /\ Tables.processOrder = processOrder
    /\ Tables.deferred = deferred /\ Tables.deferredOrder = deferredOrder
BY DEF Tables

\* Tables that are installed in order are in order.
LEMMA InstalledOrderly ==
    ASSUME NEW u, Orderly(u), Install(u)
    PROVE  Orderly(Tables)'
<1>1. /\ Tables'.processed = u.processed /\ Tables'.processOrder = u.processOrder
      /\ Tables'.deferred = u.deferred /\ Tables'.deferredOrder = u.deferredOrder
  BY DEF Install, Tables
<1>. QED BY <1>1 DEF Orderly, Keys

\* What an update loses is what the step loses.
LEMMA InstalledAges ==
    ASSUME NEW t, NEW u, LosesTheOldest(t, u), Install(u),
           t.processed = processed, t.processOrder = processOrder
    PROVE  ResultsAgeOut
<1>1. Tracked' = Keys(u.processed, NoRecord) /\ Tracked = Keys(t.processed, NoRecord)
  BY DEF Install, Tracked, Keys
<1>. QED BY <1>1 DEF ResultsAgeOut, LosesTheOldest

\* A call that returns keeps the order if its tables do; its verdict on a failed
\* target is about that target if the youngest result is.
LEMMA FinishOrderly ==
    ASSUME NEW t, t.processed = processed, t.processOrder = processOrder,
           NEW u, Orderly(u), LosesTheOldest(t, u), NEW i,
           NEW outcome \in Outcomes \cup {"error"}, Finish(u, i, outcome),
           job.phase # "none" /\ outcome \in Failures =>
               u.processOrder # <<>> /\ Last(u.processOrder) = i
    PROVE  KeepsOrder
<1>1. /\ Install(u) /\ processed' = u.processed
      /\ returned' = Returned(outcome, i, outcome \in Failures /\ Untrustworthy(u))
  BY DEF Finish, Install
<1>2. Orderly(Tables)' /\ ResultsAgeOut
  BY <1>1, InstalledOrderly, InstalledAges
<1>3. /\ returned'.outcome = outcome /\ returned'.id = i
      /\ returned'.untrusted = (outcome \in Failures /\ Untrustworthy(u))
  BY <1>1 DEF Returned
<1>4. ASSUME job.phase # "none", outcome \in Failures
      PROVE  returned'.untrusted = (processed'[i].code \in Untrusted)
  <2>1. Untrustworthy(u) <=> u.processed[i].code \in Untrusted
    BY <1>4 DEF Untrustworthy
  <2>. QED BY <1>1, <1>3, <1>4, <2>1
<1>5. VerdictIsAboutTheTarget
  BY <1>3, <1>4 DEF VerdictIsAboutTheTarget, Idle
<1>. QED BY <1>2, <1>3, <1>5 DEF KeepsOrder, Faithful

\* So does a step that leaves the tables alone and ends no injection.
LEMMA UnchangedOrderly ==
    ASSUME Orderly(Tables), UNCHANGED tables, job.phase = "none" \/ job'.phase # "none",
           returned'.outcome \in Outcomes \cup {"pending", "error"}
    PROVE  KeepsOrder
<1>1. Orderly(Tables)'
  BY UnchangedTables, InstalledOrderly
<1>2. ResultsAgeOut
  BY DEF tables, ResultsAgeOut, Tracked, Keys
<1>. QED BY <1>1, <1>2 DEF KeepsOrder, Faithful, VerdictIsAboutTheTarget, Idle

\* A call that ends in a deferral keeps the order.
LEMMA DeferringOrderly ==
    ASSUME OrderInv, NEW i \in Identities, NEW target \in Target, deferred[i] = NoTarget,
           Finish(InsertDeferred(Tables, i, target), i, "deferred")
    PROVE  KeepsOrder
<1> DEFINE u == InsertDeferred(Tables, i, target)
<1>1. Snapshot(Tables) /\ Orderly(Tables)
  BY TablesOfState DEF OrderInv
<1>2. Orderly(u) /\ LosesTheOldest(Tables, u)
  BY <1>1, PartsOfTables, InsertOrderly
<1>3. "deferred" \in Outcomes /\ "deferred" \notin Failures
  BY DEF Outcomes, Failures
<1> HIDE DEF u
<1>. QED BY <1>2, <1>3, PartsOfTables, FinishOrderly DEF u

\* A result of it keeps the order, and is the youngest.
LEMMA SettlingOrderly ==
    ASSUME OrderInv, job.phase # "none", NEW outcome \in Outcomes, NEW code \in Codes,
           Finish(RecordResult(Tables, job.id, outcome, code), job.id, outcome)
    PROVE  KeepsOrder
<1> DEFINE u == RecordResult(Tables, job.id, outcome, code)
<1>1. Snapshot(Tables) /\ Orderly(Tables)
  BY TablesOfState DEF OrderInv
<1>2. job.id \in Identities /\ processed[job.id] = NoRecord
  BY JobOfState DEF OrderInv
<1>3. Recorded(Tables, u, job.id, [outcome |-> outcome, code |-> code])
  BY <1>1, <1>2, RecordOrderly
<1> HIDE DEF u
<1>4. Orderly(u) /\ LosesTheOldest(Tables, u) /\ u.processOrder # <<>> /\ Last(u.processOrder) = job.id
  BY <1>2, <1>3, PartsOfTables DEF Recorded
<1>5. Finish(u, job.id, outcome)
  BY DEF u
<1>. QED BY <1>4, <1>5, PartsOfTables, FinishOrderly

\* So does a skip.
LEMMA SkippingOrderly ==
    ASSUME OrderInv, job.phase # "none",
           Finish(RecordSkip(Tables, job.id), job.id, "skipped")
    PROVE  KeepsOrder
<1>1. "skipped" \in Outcomes /\ "ordinary" \in Codes
  BY DEF Outcomes, Codes
<1>. QED BY <1>1, SettlingOrderly DEF RecordSkip

\* handle_pid_at
LEMMA HandlePidOrderly ==
    ASSUME OrderInv, NEW p \in Pids, HandlePid(p)
    PROVE  KeepsOrder
<1>1. job.phase = "none"
  BY DEF HandlePid, Idle
<1>2. PICK d \in Validate(p) :
         \/ /\ d.kind \in {"skipped", "error"}
            /\ returned' = Returned(d.kind, d.id, FALSE)
            /\ UNCHANGED tables
         \/ /\ returned' = Returned("duplicate", d.id, FALSE)
            /\ UNCHANGED tables
         \/ /\ StartAttempt(d.id, 0)
            /\ UNCHANGED tables
         \/ /\ d.kind = "deferred"
            /\ ~Known(d.id)
            /\ Finish(InsertDeferred(Tables, d.id, FrozenTarget(0)), d.id, "deferred")
  BY DEF HandlePid
<1>3. CASE UNCHANGED tables /\ returned'.outcome \in Outcomes \cup {"pending", "error"}
  BY <1>1, <1>3, UnchangedOrderly DEF OrderInv
<1>4. {"skipped", "error", "duplicate"} \subseteq Outcomes \cup {"error"}
  BY DEF Outcomes
<1>5. CASE /\ d.kind = "deferred"
           /\ ~Known(d.id)
           /\ Finish(InsertDeferred(Tables, d.id, FrozenTarget(0)), d.id, "deferred")
  <2>1. d.id \in Identities /\ deferred[d.id] = NoTarget
    BY <1>5, Decided DEF Known, DeferredTargets, Keys
  <2>2. FrozenTarget(0) \in Target
    BY FrozenIsATarget, PolicyAssumption
  <2>. QED BY <1>5, <2>1, <2>2, DeferringOrderly
<1>6. \A outcome, i : Returned(outcome, i, FALSE).outcome = outcome
  BY DEF Returned
<1>7. NothingYet.outcome = "pending"
  BY DEF NothingYet, Returned
<1>. QED BY <1>2, <1>3, <1>4, <1>5, <1>6, <1>7 DEF StartAttempt

\* What poll_deferred takes out leaves the tables in order.
LEMMA RemovedOrderly ==
    ASSUME OrderInv, NEW n \in DOMAIN deferredOrder
    PROVE  LET t == RemoveDeferred(Tables, n)
           IN  /\ Orderly(t)
               /\ t.processed = processed /\ t.processOrder = processOrder
<1> DEFINE i == deferredOrder[n]
           t == RemoveDeferred(Tables, n)
<1>1. Lists(deferredOrder, DeferredTargets) /\ Cardinality(DeferredTargets) <= MaxDeferred
  BY PartsOfTables DEF OrderInv, Orderly, DeferredTargets
<1>2. i \in DeferredTargets /\ i \in Identities
  BY <1>1 DEF Lists, Range, DeferredTargets, Keys
<1>3. /\ t.processed = processed /\ t.processOrder = processOrder
      /\ t.deferred = [deferred EXCEPT ![i] = NoTarget]
      /\ t.deferredOrder = RemoveAt(deferredOrder, n)
  <2>1. ASSUME NEW x, x = t
        PROVE  x = [processed |-> processed, processOrder |-> processOrder,
                    deferred |-> [deferred EXCEPT ![i] = NoTarget],
                    deferredOrder |-> RemoveAt(deferredOrder, n)]
    <3>1. Tables.deferredOrder = deferredOrder
      BY DEF Tables
    <3>2. x = [Tables EXCEPT !.deferred[i] = NoTarget,
                             !.deferredOrder = RemoveAt(deferredOrder, n)]
      BY <2>1, <3>1 DEF RemoveDeferred
    <3> HIDE DEF t, i
    <3>. QED BY <3>2 DEF Tables
  <2> HIDE DEF t, i
  <2>. QED BY <2>1
<1>4. Lists(t.deferredOrder, DeferredTargets \ {i})
  BY <1>1, <1>3, ListRemoveAt
<1> HIDE DEF t, i
<1>5. Keys(t.deferred, NoTarget) = DeferredTargets \ {i}
  BY <1>2, <1>3 DEF OrderInv, HomesInv, Targets, DeferredTargets, Keys
<1>6. Cardinality(DeferredTargets \ {i}) <= MaxDeferred
  <2>1. /\ IsFiniteSet(DeferredTargets) /\ Cardinality(DeferredTargets) \in Nat
        /\ MaxDeferred \in Nat
    BY <1>1, ListLength, PolicyAssumption
  <2>2. Cardinality(DeferredTargets \ {i}) = Cardinality(DeferredTargets) - 1
    BY <1>2, <2>1, FS_RemoveElement
  <2>. QED BY <1>1, <2>1, <2>2
<1>7. Lists(processOrder, Keys(processed, NoRecord)) /\ Cardinality(Keys(processed, NoRecord)) <= MaxTracked
  BY PartsOfTables DEF OrderInv, Orderly
<1>. QED BY <1>3, <1>4, <1>5, <1>6, <1>7 DEF Orderly, t

\* poll_deferred
LEMMA PollDeferredOrderly ==
    ASSUME OrderInv, PollDeferred
    PROVE  KeepsOrder
<1>1. job.phase = "none" /\ HomesInv
  BY DEF PollDeferred, Idle, OrderInv
<1>2. PICK n \in DOMAIN deferredOrder :
        LET i == deferredOrder[n]
            target == deferred[i]
            t == RemoveDeferred(Tables, n)
        IN  /\ FirstDue(n)
            /\ \/ Revalidate(i, target, t)
               \/ Finish(InsertDeferred(t, i, FrozenTarget(target.deferrals)), i, "deferred")
               \/ Finish(RecordSkip(t, i), i, "skipped")
  BY DEF PollDeferred
<1> DEFINE i == deferredOrder[n]
           target == deferred[i]
           t == RemoveDeferred(Tables, n)
<1>3. i \in DeferredTargets
  BY <1>2 DEF FirstDue, Due
<1>4. /\ i \in Identities /\ target \in Target
      /\ Snapshot(t) /\ t.deferred[i] = NoTarget
  BY <1>1, <1>3, RemovedDeferral
<1>5. Orderly(t) /\ t.processed = processed /\ t.processOrder = processOrder
  BY RemovedOrderly
<1>6. \/ Revalidate(i, target, t)
      \/ Finish(InsertDeferred(t, i, FrozenTarget(target.deferrals)), i, "deferred")
      \/ Finish(RecordSkip(t, i), i, "skipped")
  BY <1>2
<1> HIDE DEF t, target, i
<1>7. FrozenTarget(target.deferrals) \in Target
  BY <1>4, FrozenIsATarget DEF Target
<1>8. {"deferred", "skipped", "error"} \subseteq Outcomes \cup {"error"}
  BY DEF Outcomes
<1>9. CASE Finish(InsertDeferred(t, i, FrozenTarget(target.deferrals)), i, "deferred")
  <2> DEFINE u == InsertDeferred(t, i, FrozenTarget(target.deferrals))
  <2>1. Orderly(u) /\ LosesTheOldest(t, u)
    BY <1>4, <1>5, <1>7, InsertOrderly
  <2>2. Finish(u, i, "deferred")
    BY <1>9
  <2> HIDE DEF u
  <2>. QED BY <1>1, <1>5, <1>8, <2>1, <2>2, FinishOrderly
<1>10. CASE Finish(RecordSkip(t, i), i, "skipped")
  <2> DEFINE u == RecordSkip(t, i)
  <2>1. Orderly(u) /\ LosesTheOldest(t, u)
    BY <1>4, <1>5, SkipOrderly DEF Recorded
  <2>2. Finish(u, i, "skipped")
    BY <1>10
  <2> HIDE DEF u
  <2>. QED BY <1>1, <1>5, <1>8, <2>1, <2>2, FinishOrderly
<1>11. LosesTheOldest(t, t)
  BY DEF LosesTheOldest
<1>12. CASE Finish(t, i, "error")
  BY <1>1, <1>5, <1>8, <1>11, <1>12, FinishOrderly
<1>13. CASE Install(t) /\ StartAttempt(i, target.deferrals)
  <2>1. Orderly(Tables)' /\ ResultsAgeOut
    BY <1>5, <1>11, <1>13, InstalledOrderly, InstalledAges
  <2>2. returned'.outcome = "pending"
    BY <1>13 DEF StartAttempt, NothingYet, Returned
  <2>. QED BY <1>1, <2>1, <2>2 DEF KeepsOrder, Faithful, VerdictIsAboutTheTarget, Idle
<1>. QED BY <1>6, <1>9, <1>10, <1>12, <1>13 DEF Revalidate

\* attempt_injection up to the helper's launch
LEMMA LaunchHelperOrderly ==
    ASSUME OrderInv, LaunchHelper
    PROVE  KeepsOrder
<1>1. job.phase = "launch" /\ job.phase # "none"
  BY DEF LaunchHelper
<1>2. job \in Job /\ job.id \in Identities /\ deferred[job.id] = NoTarget
  BY <1>1, JobOfState DEF OrderInv
<1>3. {"cancelled", "rejected"} \subseteq Outcomes /\ "ordinary" \in Codes
  BY DEF Outcomes, Codes
<1>4. CASE Finish(RecordSkip(Tables, job.id), job.id, "skipped")
  BY <1>1, <1>4, SkippingOrderly
<1>5. CASE Finish(RecordResult(Tables, job.id, "cancelled", "ordinary"), job.id, "cancelled")
  BY <1>1, <1>3, <1>5, SettlingOrderly
<1>6. CASE LaunchFailure(job.id, job.deferrals)
  <2> DEFINE again == [reason |-> "helper-launch-failed", deferrals |-> job.deferrals + 1,
                       due |-> FALSE]
  <2>1. CASE Finish(RecordResult(Tables, job.id, "rejected", "ordinary"), job.id, "rejected")
    BY <1>1, <1>3, <2>1, SettlingOrderly
  <2>2. CASE /\ job.deferrals < LaunchMaxDeferrals
             /\ Finish(InsertDeferred(Tables, job.id, again), job.id, "deferred")
    <3>1. job.deferrals + 1 \in 0..LaunchMaxDeferrals
      BY <1>2, <2>2, PolicyAssumption DEF Job
    <3>2. again \in Target
      BY <3>1 DEF Target, Reasons
    <3>. QED BY <1>2, <2>2, <3>2, DeferringOrderly
  <2>. QED BY <1>4, <1>6, <2>1, <2>2 DEF LaunchFailure
<1>7. CASE job' = [job EXCEPT !.phase = "helper"] /\ UNCHANGED <<tables, returned>>
  <2>1. job'.phase = "helper"
    BY <1>2, <1>7 DEF Job
  <2>. QED BY <1>7, <2>1, UnchangedOrderly DEF OrderInv
<1>. QED BY <1>4, <1>5, <1>6, <1>7 DEF LaunchHelper

\* attempt_injection after the helper's answer
LEMMA HelperAnswersOrderly ==
    ASSUME OrderInv, HelperAnswers
    PROVE  KeepsOrder
<1>1. job.phase = "helper" /\ job.phase # "none"
  BY DEF HelperAnswers
<1>2. job \in Job /\ job.id \in Identities /\ deferred[job.id] = NoTarget
  BY <1>1, JobOfState DEF OrderInv
<1>3. PICK result \in HelperResults, alive \in Liveness(job.id) :
         LET outcome == TerminalOutcome(Disposition(result), job.attempt = MaxAttempts)
         IN  \/ Finish(InsertDeferred(Tables, job.id, FrozenTarget(job.deferrals)),
                       job.id, "deferred")
             \/ /\ job' = [job EXCEPT !.phase = "backoff"]
                /\ UNCHANGED <<tables, returned>>
             \/ /\ outcome \notin {"frozen", "retry"}
                /\ Finish(RecordResult(Tables, job.id, outcome, result.code), job.id, outcome)
             \/ Finish(RecordSkip(Tables, job.id), job.id, "skipped")
  BY DEF HelperAnswers
<1> DEFINE outcome == TerminalOutcome(Disposition(result), job.attempt = MaxAttempts)
<1>4. /\ result.disposition \in {"injected", "skipped", "frozen", "rejected", "retryable"}
      /\ result.code \in Codes
  BY DEF HelperResults, Result, Codes, Untrusted, CleanupUnknown
<1>5. outcome \in {"injected", "skipped", "frozen", "rejected", "retry-exhausted", "retry"}
  BY <1>4 DEF TerminalOutcome, Disposition
<1>6. CASE Finish(InsertDeferred(Tables, job.id, FrozenTarget(job.deferrals)), job.id, "deferred")
  <2>1. FrozenTarget(job.deferrals) \in Target
    BY <1>2, FrozenIsATarget DEF Job
  <2>. QED BY <1>2, <1>6, <2>1, DeferringOrderly
<1>7. CASE job' = [job EXCEPT !.phase = "backoff"] /\ UNCHANGED <<tables, returned>>
  <2>1. job'.phase = "backoff"
    BY <1>2, <1>7 DEF Job
  <2>. QED BY <1>7, <2>1, UnchangedOrderly DEF OrderInv
<1>8. CASE /\ outcome \notin {"frozen", "retry"}
           /\ Finish(RecordResult(Tables, job.id, outcome, result.code), job.id, outcome)
  <2>1. outcome \in Outcomes
    BY <1>5, <1>8 DEF Outcomes
  <2> HIDE DEF outcome
  <2>. QED BY <1>1, <1>4, <1>8, <2>1, SettlingOrderly
<1>9. CASE Finish(RecordSkip(Tables, job.id), job.id, "skipped")
  BY <1>1, <1>9, SkippingOrderly
<1>. QED BY <1>3, <1>6, <1>7, <1>8, <1>9

\* The back-off between two attempts.
LEMMA RetryWaitOrderly ==
    ASSUME OrderInv, RetryWait
    PROVE  KeepsOrder
<1>1. job.phase = "backoff" /\ job.phase # "none"
  BY DEF RetryWait
<1>2. job \in Job
  BY <1>1, JobOfState DEF OrderInv
<1>3. CASE /\ job' = [job EXCEPT !.phase = "launch", !.attempt = @ + 1]
           /\ UNCHANGED <<tables, returned>>
  <2>1. job'.phase = "launch"
    BY <1>2, <1>3 DEF Job
  <2>. QED BY <1>3, <2>1, UnchangedOrderly DEF OrderInv
<1>4. CASE Finish(RecordResult(Tables, job.id, "cancelled", "transient"), job.id, "cancelled")
  <2>1. "cancelled" \in Outcomes /\ "transient" \in Codes
    BY DEF Outcomes, Codes
  <2>. QED BY <1>1, <1>4, <2>1, SettlingOrderly
<1>. QED BY <1>3, <1>4 DEF RetryWait

\* handle_session_change takes from the orders what it takes from the tables.
LEMMA SessionForgetsOrderly ==
    ASSUME OrderInv, NEW gone \in SUBSET Identities, SessionForgets(gone)
    PROVE  KeepsOrder
<1>1. Idle /\ UNCHANGED <<job, returned>> /\ job'.phase = "none"
  BY DEF SessionForgets, Idle
<1>2. /\ processed' = [i \in Identities |-> IF i \in gone THEN NoRecord ELSE processed[i]]
      /\ deferred' = [i \in Identities |-> IF i \in gone THEN NoTarget ELSE deferred[i]]
      /\ processOrder' = Retain(processOrder, Tracked \ gone)
      /\ deferredOrder' = Retain(deferredOrder, DeferredTargets \ gone)
  BY DEF SessionForgets, Install, Forget
<1>3. /\ Lists(processOrder, Tracked) /\ Cardinality(Tracked) <= MaxTracked
      /\ Lists(deferredOrder, DeferredTargets) /\ Cardinality(DeferredTargets) <= MaxDeferred
  BY PartsOfTables DEF OrderInv, Orderly, Tracked, DeferredTargets
<1>4. Tracked' = Tracked \ gone /\ DeferredTargets' = DeferredTargets \ gone
  BY <1>2 DEF Tracked, DeferredTargets, Keys
<1>5. Lists(processOrder', Tracked \ gone) /\ Lists(deferredOrder', DeferredTargets \ gone)
  <2>1. /\ Lists(Retain(processOrder, Tracked \ gone), Tracked \cap (Tracked \ gone))
        /\ Lists(Retain(deferredOrder, DeferredTargets \ gone),
                 DeferredTargets \cap (DeferredTargets \ gone))
    BY <1>3, ListRetain
  <2>2. /\ Tracked \cap (Tracked \ gone) = Tracked \ gone
        /\ DeferredTargets \cap (DeferredTargets \ gone) = DeferredTargets \ gone
    OBVIOUS
  <2>. QED BY <1>2, <2>1, <2>2
<1>6. ASSUME NEW keys, NEW order, Lists(order, keys), NEW limit \in Nat, Cardinality(keys) <= limit
      PROVE  Cardinality(keys \ gone) <= limit
  <2>1. IsFiniteSet(keys) /\ Cardinality(keys) \in Nat
    BY <1>6, ListLength
  <2>2. keys \ gone \in SUBSET keys
    OBVIOUS
  <2>3. Cardinality(keys \ gone) \in Nat /\ Cardinality(keys \ gone) <= Cardinality(keys)
    BY <2>1, <2>2, FS_Subset, FS_CardinalityType
  <2>. QED BY <1>6, <2>1, <2>3
<1>7. Cardinality(Tracked \ gone) <= MaxTracked /\ Cardinality(DeferredTargets \ gone) <= MaxDeferred
  BY <1>3, <1>6, PolicyAssumption
<1>8. Orderly(Tables)'
  <2>1. /\ Tables'.processed = processed' /\ Tables'.processOrder = processOrder'
        /\ Tables'.deferred = deferred' /\ Tables'.deferredOrder = deferredOrder'
    BY DEF Tables
  <2>. QED BY <1>4, <1>5, <1>7, <2>1 DEF Orderly, Tracked, DeferredTargets, Keys
<1>9. Faithful
  BY <1>1 DEF Faithful, VerdictIsAboutTheTarget, ResultsAgeOut
<1>. QED BY <1>1, <1>8, <1>9 DEF KeepsOrder, OrderInv

\* The machine and the clock touch no order.
LEMMA WorldOrderly ==
    ASSUME OrderInv, World
    PROVE  KeepsOrder
<1>1. CASE UNCHANGED <<tables, job, returned>>
  BY <1>1, UnchangedOrderly DEF OrderInv
<1>2. ASSUME NEW i \in Identities, BecomeDue(i),
             UNCHANGED <<processed, processOrder, deferredOrder, job, returned, machine>>
      PROVE  KeepsOrder
  <2>1. deferred[i] \in Target /\ deferred' = [deferred EXCEPT ![i].due = TRUE]
    BY <1>2 DEF BecomeDue, DeferredTargets, Keys, OrderInv, HomesInv, Targets
  <2>2. [deferred[i] EXCEPT !.due = TRUE] \in Target
    BY <2>1 DEF Target
  <2>3. Keys(deferred', NoTarget) = Keys(deferred, NoTarget)
    BY <2>1, <2>2, Absent DEF OrderInv, HomesInv, Targets, Keys
  <2>4. /\ Tables'.processed = processed /\ Tables'.processOrder = processOrder
        /\ Tables'.deferred = deferred' /\ Tables'.deferredOrder = deferredOrder
    BY <1>2 DEF Tables
  <2>5. Orderly(Tables)'
    BY <2>3, <2>4, PartsOfTables DEF OrderInv, Orderly, Keys
  <2>6. Faithful
    BY <1>2 DEF Faithful, VerdictIsAboutTheTarget, ResultsAgeOut, Tracked, Keys, Idle
  <2>. QED BY <1>2, <2>5, <2>6 DEF KeepsOrder, OrderInv
<1>. QED BY <1>1, <1>2 DEF World

\* Every step keeps the order and is faithful.
LEMMA EveryStepOrderly ==
    ASSUME OrderInv, [OrchestratorNext]_orchestratorVars
    PROVE  OrderInv' /\ [Faithful]_orchestratorVars
<1>1. HomesInv'
  BY EveryStep DEF OrderInv
<1>2. MachineTypeOK'
  <2>1. CASE UNCHANGED machine
    BY <2>1 DEF OrderInv, MachineTypeOK, machine
  <2>2. ASSUME NEW i \in Identities, ProcStart(i) \/ ProcChange(i) PROVE MachineTypeOK'
    BY <2>2, MachineAssumption DEF OrderInv, MachineTypeOK, ProcStart, ProcChange
  <2>3. CASE RequestStop
    BY <2>3 DEF OrderInv, MachineTypeOK, RequestStop
  <2>. QED BY <2>1, <2>2, <2>3 DEF OrchestratorNext, HandlePid, PollDeferred, LaunchHelper,
              HelperAnswers, RetryWait, SessionChange, SessionForgets, World, orchestratorVars
<1>3. ASSUME NEW p \in Pids, HandlePid(p) PROVE KeepsOrder
  BY <1>3, HandlePidOrderly
<1>4. ASSUME SessionChange PROVE KeepsOrder
  <2>1. PICK gone \in SUBSET Identities : SessionForgets(gone)
    BY <1>4 DEF SessionChange
  <2>. QED BY <2>1, SessionForgetsOrderly
<1>5. CASE UNCHANGED orchestratorVars
  <2>1. UNCHANGED tables /\ job' = job /\ returned' = returned
    BY <1>5 DEF orchestratorVars
  <2>2. Orderly(Tables)'
    BY <2>1, UnchangedTables, InstalledOrderly DEF OrderInv
  <2>. QED BY <1>1, <1>2, <1>5, <2>1, <2>2 DEF OrderInv
<1>6. KeepsOrder \/ UNCHANGED orchestratorVars
  <2>1. CASE PollDeferred
    BY <2>1, PollDeferredOrderly
  <2>2. CASE LaunchHelper
    BY <2>2, LaunchHelperOrderly
  <2>3. CASE HelperAnswers
    BY <2>3, HelperAnswersOrderly
  <2>4. CASE RetryWait
    BY <2>4, RetryWaitOrderly
  <2>5. CASE World
    BY <2>5, WorldOrderly
  <2>. QED BY <1>3, <1>4, <2>1, <2>2, <2>3, <2>4, <2>5 DEF OrchestratorNext
<1>. QED BY <1>1, <1>2, <1>5, <1>6 DEF KeepsOrder, OrderInv

\* Both orders start empty.
LEMMA InitOrderly == OrchestratorInit => OrderInv
<1> SUFFICES ASSUME OrchestratorInit PROVE OrderInv
  OBVIOUS
<1>1. Keys(processed, NoRecord) = {} /\ Keys(deferred, NoTarget) = {}
  BY DEF OrchestratorInit, Keys
<1>2. Lists(<<>>, {})
  BY DEF Lists, Range, IsInjective
<1>3. Orderly(Tables)
  <2>1. Cardinality({}) = 0 /\ 0 <= MaxTracked /\ 0 <= MaxDeferred
    BY FS_EmptySet, PolicyAssumption
  <2>2. processOrder = <<>> /\ deferredOrder = <<>>
    BY DEF OrchestratorInit
  <2>. QED BY <1>1, <1>2, <2>1, <2>2, PartsOfTables DEF Orderly
<1>4. MachineTypeOK
  BY DEF OrchestratorInit, MachineInit, MachineTypeOK
<1>. QED BY <1>3, <1>4, InitStep DEF OrderInv, OrchestratorInit, NothingYet, Returned

\* The invariant holds in every reachable state.
LEMMA OrderAlways == OrchestratorSpec => []OrderInv
<1>1. OrderInv /\ [OrchestratorNext]_orchestratorVars => OrderInv'
  BY EveryStepOrderly
<1>. QED BY <1>1, InitOrderly, PTL DEF OrchestratorSpec

\* process_order and deferred_order list the keys of their tables, each once, after
\* any mix of observations, deferrals, evictions and session changes, and neither
\* table outgrows its capacity: no loop over them spins or skips an entry.
THEOREM TablesStaySound == OrchestratorSpec => []TablesAreSound
<1>1. OrderInv => TablesAreSound
  <2> SUFFICES ASSUME OrderInv PROVE TablesAreSound
    OBVIOUS
  <2>1. /\ Lists(processOrder, Tracked) /\ Cardinality(Tracked) <= MaxTracked
        /\ Lists(deferredOrder, DeferredTargets) /\ Cardinality(DeferredTargets) <= MaxDeferred
    BY PartsOfTables DEF OrderInv, Orderly, Tracked, DeferredTargets
  <2>2. /\ Len(processOrder) = Cardinality(Tracked)
        /\ Len(deferredOrder) = Cardinality(DeferredTargets)
    BY <2>1, ListLength
  <2>3. TablesAgree
    BY <2>1, <2>2 DEF TablesAgree, Lists
  <2>4. TypeOK
    BY <2>1 DEF TypeOK, OrderInv, HomesInv, Lists, Records, Targets
  <2>. QED BY <2>3, <2>4 DEF TablesAreSound
<1>. QED BY <1>1, OrderAlways, PTL

\* The verdict attempt_injection publishes about a failed target is read from that
\* target's own result, although it is looked up as the youngest one; and a result is
\* forgotten only with its session or as the oldest of a full history.
THEOREM HistoryStaysFaithful == OrchestratorSpec => HistoryIsFaithful
<1>1. OrderInv /\ [OrchestratorNext]_orchestratorVars => [Faithful]_orchestratorVars
  BY EveryStepOrderly
<1>. QED BY <1>1, OrderAlways, PTL DEF OrchestratorSpec, HistoryIsFaithful, Faithful
=============================================================================
