-------------------------- MODULE ServiceHostProofs --------------------------
(***************************************************************************)
(* Proofs about the parts of the service host that stand alone, for every  *)
(* value of their constants: the queue of process events, the life of the  *)
(* service beside its health file and its exit code, and the event log     *)
(* that the host, setup and the control center write.                      *)
(***************************************************************************)
EXTENDS SessionEventQueue, ServiceLifecycle, EventLog, FiniteSetTheorems,
        WellFoundedInduction, TLAPS

\* The events a pop awaits were stored before it began; the slots its scan has
\* passed hold none of them.
ScanLeavesNothing ==
    /\ \A e \in awaited : pushers[e].phase = "stored"
    /\ popper.phase = "scan" =>
         \A k \in Indices : k < popper.offset => slots[Index(popper.start, k)] \notin awaited
    /\ NoneMeansDrained

\* The inductive invariant.
QueueInv == QueueTypeOK /\ NothingLost /\ DeliveredOnce /\ ScanLeavesNothing
-----------------------------------------------------------------------------
\* The wrapped sum of two positions is a position.
LEMMA IndexInRange ==
    ASSUME NEW start \in Indices, NEW offset \in 0..Capacity
    PROVE  Index(start, offset) \in Indices
BY QueueAssumption DEF Indices, Index

\* The first position, and every position as an offset.
LEMMA Positions == 0 \in Indices /\ Indices \subseteq 0..Capacity
BY QueueAssumption DEF Indices

\* One lap from any start visits every slot.
LEMMA LapVisitsAll ==
    ASSUME NEW start \in Indices, NEW n \in Indices
    PROVE  \E k \in Indices : Index(start, k) = n
<1> DEFINE k == IF start <= n THEN n - start ELSE (n - start) + Capacity
<1>1. k \in Indices
  BY QueueAssumption DEF Indices
<1>2. Index(start, k) = n
  BY QueueAssumption DEF Indices, Index
<1> QED
  BY <1>1, <1>2
-----------------------------------------------------------------------------
\* The queue starts empty, with the invariant.
LEMMA InvInit == QueueInit => QueueInv
<1> SUFFICES ASSUME QueueInit PROVE QueueInv
  OBVIOUS
<1>1. QueueTypeOK
  <2>1. At("idle", 0, 0) \in [phase: Phases, start: Indices, offset: Indices]
    BY Positions DEF At, Phases
  <2>2. At("idle", 0, 0) \in [phase: {"idle", "scan", "none"}, start: Indices, offset: Indices]
    BY Positions DEF At
  <2> QED
    BY <2>1, <2>2, Positions DEF QueueInit, QueueTypeOK
<1>2. Held = {}
  BY QueueAssumption DEF QueueInit, Held
<1> QED
  BY <1>1, <1>2, QueueAssumption
     DEF QueueInit, QueueInv, NothingLost, DeliveredOnce, ScanLeavesNothing,
         NoneMeansDrained, At

\* push takes its ticket, or finds its event not encodable.
LEMMA PushBeginPreserves ==
    ASSUME QueueInv, NEW e \in Events, PushBegin(e)
    PROVE  QueueInv'
<1> USE DEF QueueInv
<1>0. 1 \in 0..Capacity
  BY QueueAssumption
<1>1. QueueTypeOK'
  <2>1. Index(writeCursor, 1) \in Indices
    BY <1>0, IndexInRange DEF QueueTypeOK
  <2>2. At("scan", writeCursor, 0) \in [phase: Phases, start: Indices, offset: Indices]
    BY Positions DEF At, Phases, QueueTypeOK
  <2>3. pushers' \in [Events -> [phase: Phases, start: Indices, offset: Indices]]
    BY <2>2 DEF PushBegin, QueueTypeOK, Phases
  <2> QED
    BY <2>1, <2>3 DEF PushBegin, QueueTypeOK, popping
<1>2. /\ slots' = slots /\ delivered' = delivered /\ covered' = covered
      /\ overflowed' = overflowed /\ awaited' = awaited /\ popper' = popper
  BY DEF PushBegin, popping
<1>3. \A f \in Events : f # e => pushers'[f] = pushers[f]
  BY DEF PushBegin, QueueTypeOK
<1>4. pushers[e].phase = "idle" /\ pushers'[e].phase \in {"scan", "overflow"}
  BY DEF PushBegin, QueueTypeOK, At
<1>5. Held' = Held
  BY <1>2 DEF Held
<1>6. NothingLost'
  BY <1>2, <1>3, <1>4, <1>5 DEF NothingLost
<1>7. DeliveredOnce'
  BY <1>2, <1>3, <1>4, <1>5 DEF DeliveredOnce, QueueTypeOK, Held
<1>8. ScanLeavesNothing'
  BY <1>2, <1>3, <1>4, <1>5 DEF ScanLeavesNothing, NoneMeansDrained, QueueTypeOK
<1> QED
  BY <1>1, <1>6, <1>7, <1>8

\* push tries a slot: the compare_exchange stores the event in an empty one.
LEMMA PushTryPreserves ==
    ASSUME QueueInv, NEW e \in Events, PushTry(e)
    PROVE  QueueInv'
<1> USE DEF QueueInv
<1> DEFINE n == Index(pushers[e].start, pushers[e].offset)
<1>0. pushers[e].start \in Indices /\ pushers[e].offset \in Indices
  BY DEF QueueTypeOK
<1>1. n \in Indices
  BY <1>0, IndexInRange, Positions
<1>2. /\ delivered' = delivered /\ covered' = covered
      /\ overflowed' = overflowed /\ awaited' = awaited /\ popper' = popper
      /\ writeCursor' = writeCursor /\ readCursor' = readCursor
  BY DEF PushTry, popping
<1>3. \A f \in Events : f # e => pushers'[f] = pushers[f]
  BY DEF PushTry, QueueTypeOK
<1>4. pushers[e].phase = "scan" /\ e \notin Held \cup delivered \cup awaited
  BY DEF PushTry, DeliveredOnce, ScanLeavesNothing
<1>5. CASE slots[n] # "empty"
  <2>1. slots' = slots /\ pushers'[e].phase \in {"scan", "overflow"}
    BY <1>5 DEF PushTry, QueueTypeOK, At
  <2>2. QueueTypeOK'
    <3>1. pushers[e].offset + 1 < Capacity => pushers[e].offset + 1 \in Indices
      BY <1>0, QueueAssumption DEF Indices
    <3>2. pushers' \in [Events -> [phase: Phases, start: Indices, offset: Indices]]
      BY <1>0, <1>5, <3>1 DEF PushTry, QueueTypeOK, At, Phases
    <3> QED
      BY <1>2, <2>1, <3>2 DEF QueueTypeOK
  <2>3. Held' = Held
    BY <2>1 DEF Held
  <2>4. NothingLost'
    BY <1>2, <1>3, <2>1, <2>3 DEF NothingLost
  <2>5. DeliveredOnce'
    BY <1>2, <1>3, <1>4, <2>1, <2>3 DEF DeliveredOnce, QueueTypeOK, Held
  <2>6. ScanLeavesNothing'
    BY <1>2, <1>3, <1>4, <2>1, <2>3 DEF ScanLeavesNothing, NoneMeansDrained, QueueTypeOK
  <2> QED
    BY <2>2, <2>4, <2>5, <2>6
<1>6. CASE slots[n] = "empty"
  <2>1. /\ slots' = [slots EXCEPT ![n] = e]
        /\ pushers' = [pushers EXCEPT ![e].phase = "stored"]
    BY <1>6 DEF PushTry
  <2>2. QueueTypeOK'
    BY <1>1, <1>2, <2>1 DEF QueueTypeOK, Phases
  <2>3. pushers'[e].phase = "stored"
    BY <2>1 DEF QueueTypeOK
  <2>4. /\ slots'[n] = e
        /\ \A m \in Indices : m # n => slots'[m] = slots[m]
    BY <1>1, <2>1 DEF QueueTypeOK
  <2>5. Held' = Held \cup {e}
    BY <1>1, <1>6, <2>4, QueueAssumption DEF Held
  <2>6. NothingLost'
    BY <1>2, <1>3, <2>3, <2>5 DEF NothingLost
  <2>7. \A i, j \in Indices : slots'[i] # "empty" /\ slots'[i] = slots'[j] => i = j
    <3>1. \A i \in Indices : slots[i] # e
      BY <1>4 DEF Held
    <3> QED
      BY <1>1, <2>4, <3>1 DEF DeliveredOnce
  <2>8. DeliveredOnce'
    BY <1>2, <1>3, <1>4, <2>3, <2>5, <2>7 DEF DeliveredOnce, QueueTypeOK, Held
  <2>9. ScanLeavesNothing'
    <3>1. \A f \in awaited' : pushers'[f].phase = "stored"
      BY <1>2, <1>3, <1>4 DEF ScanLeavesNothing, QueueTypeOK
    <3>2. ASSUME popper'.phase = "scan", NEW k \in Indices, k < popper'.offset
          PROVE  slots'[Index(popper'.start, k)] \notin awaited'
      <4>1. Index(popper.start, k) \in Indices
        BY <1>2, IndexInRange, Positions DEF QueueTypeOK
      <4> QED
        BY <1>2, <1>4, <2>4, <3>2, <4>1 DEF ScanLeavesNothing
    <3>3. NoneMeansDrained'
      BY <1>2, <1>4, <2>5 DEF NoneMeansDrained, ScanLeavesNothing
    <3> QED
      BY <3>1, <3>2, <3>3 DEF ScanLeavesNothing
  <2> QED
    BY <2>2, <2>6, <2>8, <2>9
<1> QED
  BY <1>5, <1>6

\* push gives up: the flag stands for the event from now on.
LEMMA PushRefusePreserves ==
    ASSUME QueueInv, NEW e \in Events, PushRefuse(e)
    PROVE  QueueInv'
<1> USE DEF QueueInv
<1>1. QueueTypeOK'
  BY DEF PushRefuse, QueueTypeOK, Phases, popping
<1>2. /\ slots' = slots /\ delivered' = delivered /\ covered' = covered
      /\ overflowed' = TRUE /\ awaited' = awaited /\ popper' = popper
  BY DEF PushRefuse, popping
<1>3. \A f \in Events : f # e => pushers'[f] = pushers[f]
  BY DEF PushRefuse, QueueTypeOK
<1>4. pushers[e].phase = "overflow" /\ pushers'[e].phase = "refused"
  BY DEF PushRefuse, QueueTypeOK
<1>5. Held' = Held
  BY <1>2 DEF Held
<1>6. NothingLost'
  BY <1>2, <1>3, <1>4, <1>5 DEF NothingLost
<1>7. DeliveredOnce'
  BY <1>2, <1>3, <1>4, <1>5 DEF DeliveredOnce, QueueTypeOK, Held
<1>8. ScanLeavesNothing'
  BY <1>2, <1>3, <1>4, <1>5 DEF ScanLeavesNothing, NoneMeansDrained, QueueTypeOK
<1> QED
  BY <1>1, <1>6, <1>7, <1>8

\* pop reports an overflow, or begins its scan.
LEMMA PopBeginPreserves ==
    ASSUME QueueInv, PopBegin
    PROVE  QueueInv'
<1> USE DEF QueueInv
<1>1. QueueTypeOK'
  <2>1. At("scan", readCursor, 0)
          \in [phase: {"idle", "scan", "none"}, start: Indices, offset: Indices]
    BY Positions DEF At, QueueTypeOK
  <2>2. popper' \in [phase: {"idle", "scan", "none"}, start: Indices, offset: Indices]
    BY <2>1 DEF PopBegin, QueueTypeOK
  <2>3. covered' \subseteq Events /\ awaited' \subseteq Events
    BY DEF PopBegin, QueueTypeOK, Held, Returned
  <2> QED
    BY <2>2, <2>3 DEF PopBegin, QueueTypeOK, pushing
<1>2. slots' = slots /\ delivered' = delivered /\ pushers' = pushers /\ overflowed' = FALSE
  BY DEF PopBegin, pushing
<1>3. Held' = Held
  BY <1>2 DEF Held
<1>4. NothingLost'
  BY <1>2, <1>3 DEF NothingLost, PopBegin, Returned
<1>5. DeliveredOnce'
  BY <1>2, <1>3 DEF DeliveredOnce
<1>6. ScanLeavesNothing'
  <2>1. CASE overflowed
    BY <1>2, <1>3, <2>1 DEF PopBegin, ScanLeavesNothing, NoneMeansDrained
  <2>2. CASE ~overflowed
    <3>1. popper' = At("scan", readCursor, 0) /\ awaited' = Held
      BY <2>2 DEF PopBegin
    <3>2. popper'.phase = "scan" /\ popper'.offset = 0
      BY <3>1 DEF At
    <3>3. \A k \in Indices : ~(k < popper'.offset)
      BY <3>2, QueueAssumption DEF Indices
    <3> QED
      BY <1>2, <3>1, <3>2, <3>3 DEF ScanLeavesNothing, NoneMeansDrained, DeliveredOnce
  <2> QED
    BY <2>1, <2>2
<1> QED
  BY <1>1, <1>4, <1>5, <1>6

\* pop empties a slot and delivers its event, or passes an empty one.
LEMMA PopTryPreserves ==
    ASSUME QueueInv, PopTry
    PROVE  QueueInv'
<1> USE DEF QueueInv
<1> DEFINE n == Index(popper.start, popper.offset)
<1>1. n \in Indices
  BY IndexInRange, QueueAssumption DEF QueueTypeOK, Indices
<1>2. /\ overflowed' = overflowed /\ covered' = covered /\ awaited' = awaited
      /\ pushers' = pushers /\ writeCursor' = writeCursor
  BY DEF PopTry, pushing
<1>3. CASE slots[n] # "empty"
  <2>1. /\ slots' = [slots EXCEPT ![n] = "empty"]
        /\ delivered' = delivered \cup {slots[n]}
        /\ readCursor' = Index(n, 1)
        /\ popper' = At("idle", 0, 0)
    BY <1>3 DEF PopTry
  <2>2. slots[n] \in Events
    BY <1>1, <1>3 DEF QueueTypeOK
  <2>3. Index(n, 1) \in Indices
    BY <1>1, IndexInRange, QueueAssumption
  <2>4. QueueTypeOK'
    BY <1>1, <1>2, <2>1, <2>2, <2>3, QueueAssumption DEF QueueTypeOK, At, Indices
  <2>5. /\ slots'[n] = "empty"
        /\ \A m \in Indices : m # n => slots'[m] = slots[m]
    BY <1>1, <2>1 DEF QueueTypeOK
  <2>6. Held' = Held \ {slots[n]}
    BY <1>1, <1>3, <2>5, QueueAssumption DEF Held, DeliveredOnce
  <2>7. slots[n] \in Held
    BY <1>1, <2>2 DEF Held
  <2>8. NothingLost'
    BY <1>2, <2>1, <2>6 DEF NothingLost
  <2>9. DeliveredOnce'
    BY <1>2, <2>1, <2>5, <2>6, <2>7 DEF DeliveredOnce
  <2>10. popper'.phase = "idle"
    BY <2>1 DEF At
  <2>11. ScanLeavesNothing'
    BY <1>2, <2>10 DEF ScanLeavesNothing, NoneMeansDrained
  <2> QED
    BY <2>4, <2>8, <2>9, <2>11
<1>4. CASE slots[n] = "empty"
  <2>1. /\ slots' = slots /\ delivered' = delivered /\ readCursor' = readCursor
        /\ popper.phase = "scan"
        /\ popper' = IF popper.offset + 1 < Capacity
                     THEN At("scan", popper.start, popper.offset + 1)
                     ELSE At("none", 0, 0)
    BY <1>4 DEF PopTry
  <2>2. QueueTypeOK'
    BY <1>2, <2>1, QueueAssumption DEF QueueTypeOK, At, Indices
  <2>3. Held' = Held
    BY <2>1 DEF Held
  <2>4. NothingLost' /\ DeliveredOnce'
    BY <1>2, <2>1, <2>3 DEF NothingLost, DeliveredOnce
  <2>5. slots[n] \notin awaited
    BY <1>4, QueueAssumption DEF QueueTypeOK
  <2>6. \A k \in Indices : k <= popper.offset => slots[Index(popper.start, k)] \notin awaited
    BY <2>1, <2>5, QueueAssumption DEF ScanLeavesNothing, QueueTypeOK, Indices
  <2>7. CASE popper.offset + 1 < Capacity
    <3>1. popper' = At("scan", popper.start, popper.offset + 1)
      BY <2>1, <2>7
    <3>2. popper'.phase = "scan" /\ popper'.start = popper.start
          /\ popper'.offset = popper.offset + 1
      BY <3>1 DEF At
    <3>3. \A k \in Indices : k < popper'.offset => k <= popper.offset
      BY <3>2 DEF QueueTypeOK, Indices
    <3> QED
      BY <1>2, <2>1, <2>2, <2>4, <2>6, <3>2, <3>3 DEF ScanLeavesNothing, NoneMeansDrained
  <2>8. CASE ~(popper.offset + 1 < Capacity)
    <3>1. popper' = At("none", 0, 0)
      BY <2>1, <2>8
    <3>2. popper'.phase = "none"
      BY <3>1 DEF At
    <3>3. \A k \in Indices : slots[Index(popper.start, k)] \notin awaited
      BY <2>6, <2>8, QueueAssumption DEF QueueTypeOK, Indices
    <3>4. \A m \in Indices : slots[m] \notin awaited
      BY <3>3, LapVisitsAll DEF QueueTypeOK
    <3>5. awaited \cap Held = {}
      BY <3>4 DEF Held
    <3> QED
      BY <1>2, <2>2, <2>3, <2>4, <3>2, <3>5 DEF ScanLeavesNothing, NoneMeansDrained
  <2> QED
    BY <2>7, <2>8
<1> QED
  BY <1>3, <1>4

\* The service loop returns to pop.
LEMMA PopAgainPreserves ==
    ASSUME QueueInv, PopAgain
    PROVE  QueueInv'
<1> USE DEF QueueInv
<1>1. /\ slots' = slots /\ delivered' = delivered /\ covered' = covered
      /\ overflowed' = overflowed /\ awaited' = awaited /\ pushers' = pushers
      /\ popper' = At("idle", 0, 0) /\ writeCursor' = writeCursor /\ readCursor' = readCursor
  BY DEF PopAgain, pushing
<1>2. popper'.phase = "idle"
  BY <1>1 DEF At
<1>3. Held' = Held
  BY <1>1 DEF Held
<1>4. QueueTypeOK'
  BY <1>1, QueueAssumption DEF QueueTypeOK, At, Indices
<1>5. NothingLost' /\ DeliveredOnce'
  BY <1>1, <1>3 DEF NothingLost, DeliveredOnce
<1>6. ScanLeavesNothing'
  BY <1>1, <1>2 DEF ScanLeavesNothing, NoneMeansDrained
<1> QED
  BY <1>4, <1>5, <1>6

\* Stuttering changes nothing the invariant is about.
LEMMA StutterPreserves ==
    ASSUME QueueInv, UNCHANGED queueVars
    PROVE  QueueInv'
BY DEF queueVars, QueueInv, QueueTypeOK, NothingLost, DeliveredOnce, ScanLeavesNothing,
       NoneMeansDrained, Held

\* Every reachable state of the queue satisfies the inductive invariant.
THEOREM QueueInvariant == QueueSpec => []QueueInv
<1>1. QueueInit => QueueInv
  BY InvInit
<1>2. QueueInv /\ [QueueNext]_queueVars => QueueInv'
  <2> SUFFICES ASSUME QueueInv, [QueueNext]_queueVars PROVE QueueInv'
    OBVIOUS
  <2>1. ASSUME NEW e \in Events, Push(e) PROVE QueueInv'
    BY <2>1, PushBeginPreserves, PushTryPreserves, PushRefusePreserves DEF Push
  <2>2. CASE Pop
    BY <2>2, PopBeginPreserves, PopTryPreserves, PopAgainPreserves DEF Pop
  <2>3. CASE UNCHANGED queueVars
    BY <2>3, StutterPreserves
  <2> QED
    BY <2>1, <2>2, <2>3 DEF QueueNext
<1> QED
  BY <1>1, <1>2, PTL DEF QueueSpec

\* Session notifications are never lost silently: an accepted one stays in the
\* queue until it is delivered, a refused one is announced by an overflow.
THEOREM NothingIsLost == QueueSpec => []NothingLost
<1>1. QueueInv => NothingLost
  BY DEF QueueInv
<1> QED
  BY <1>1, QueueInvariant, PTL

\* No notification is handed to the orchestrator twice.
THEOREM NothingIsDeliveredTwice == QueueSpec => []DeliveredOnce
<1>1. QueueInv => DeliveredOnce
  BY DEF QueueInv
<1> QED
  BY <1>1, QueueInvariant, PTL

\* A pop that returns None has emptied the queue of everything that was in it
\* when it began.
THEOREM DrainIsComplete == QueueSpec => []NoneMeansDrained
<1>1. QueueInv => NoneMeansDrained
  BY DEF QueueInv, ScanLeavesNothing
<1> QED
  BY <1>1, QueueInvariant, PTL

\* No scan leaves the slot array and every cursor stays inside it.
THEOREM QueueIsTyped == QueueSpec => []QueueTypeOK
<1>1. QueueInv => QueueTypeOK
  BY DEF QueueInv
<1> QED
  BY <1>1, QueueInvariant, PTL
-----------------------------------------------------------------------------
\* The service thread before the driver loop has returned and before any failure.
Starting == {"register", "paths", "pipe", "start-pending", "initializing", "initialize",
             "running", "ready"}

\* After the loop has returned, and after a failure.
Leaving == {"judge", "unknown-health", "stopped"}
Failing == {"skip-health", "fail-health", "fail-status", "terminal-health",
            "terminal-status"}

\* What the proofs need of the types.
LifecycleTypeOK ==
    /\ pc \in Starting \cup {"run"} \cup Leaving \cup Failing \cup {"drop", "done"}
    /\ status \in [state : {"start-pending", "running", "stop-pending", "stopped"},
                   exit : {"ok", "error-0", "error-1", "error-2", "error-3"}]
    /\ stopEvent \in {"none", "clear", "set"}
    /\ handler \in {"idle", "report", "set"}
    /\ persisted \in {"absent", "old", "initializing", "ready", "degraded", "failed",
                      "unknown"}
    /\ failure \in {"none", "error", "panic"}

\* The file is this process's own before Running is reported, and after.
FileIsOurs ==
    /\ pc \in {"initialize", "running"} => persisted # "old"
    /\ RunningHealthIsOurs

\* Only the loop and the way out of it may leave an active report in the file; each
\* way out replaces it before the process ends, or the publication was refused.
FileIsNotActive ==
    \/ "publication" \in refused
    \/ pc \in {"run", "judge", "unknown-health", "fail-health", "terminal-health"}
    \/ persisted \notin {"ready", "degraded"}

\* No error code has been reported while the run can still end well.
NoErrorYet == pc \in Starting \cup {"run"} => status.exit = "ok"

\* A panic is the last thing run_registered_service does.
PanicIsLast ==
    failure = "panic" => pc \in {"terminal-health", "terminal-status", "drop", "done"}

\* The run ended on a set stop event: it leaves over the Unknown report, and
\* the event stays set until the error of the run has been judged.
WindingDown ==
    /\ windDown => pc \notin Starting \cup {"run", "skip-health"}
    /\ windDown /\ failure # "panic" /\ "status" \notin refused =>
         /\ pc \in Leaving \cup {"drop", "done"}
         /\ pc = "judge" => stopEvent = "set"
         /\ status.exit = "ok"

LifecycleInv ==
    /\ LifecycleTypeOK
    /\ FileIsOurs
    /\ FileIsNotActive
    /\ NoErrorYet
    /\ PanicIsLast
    /\ WindingDown
-----------------------------------------------------------------------------
\* The first states satisfy the inductive invariant.
LEMMA InitEstablishesInv == LifecycleInit => LifecycleInv
BY DEF LifecycleInit, Status, LifecycleInv, LifecycleTypeOK, FileIsOurs, RunningHealthIsOurs, FileIsNotActive, NoErrorYet,
       PanicIsLast, WindingDown, Starting, Leaving, Failing

\* Every step of the service thread, of the loop it waits for and of the control
\* handler preserves it.
LEMMA NextPreservesInv == LifecycleInv /\ [LifecycleNext]_lifecycleVars => LifecycleInv'
<1> SUFFICES ASSUME LifecycleInv, [LifecycleNext]_lifecycleVars
             PROVE  LifecycleInv'
  OBVIOUS
<1> USE DEF LifecycleInv, LifecycleTypeOK, FileIsOurs, RunningHealthIsOurs, FileIsNotActive, NoErrorYet,
       PanicIsLast, WindingDown, Starting, Leaving, Failing
<1>1. CASE Register
  BY <1>1 DEF Register, Report, Status
<1>2. CASE MachinePaths
  BY <1>2 DEF MachinePaths, Report, Status, untouched
<1>3. CASE StartPipe
  BY <1>3 DEF StartPipe
<1>4. CASE ReportStartPending
  BY <1>4 DEF ReportStartPending, Report, Status, untouched
<1>5. CASE PublishInitializing
  BY <1>5 DEF PublishInitializing, Publish, untouched
<1>6. CASE Initialize
  BY <1>6 DEF Initialize, untouched
<1>7. CASE ReportRunning
  BY <1>7 DEF ReportRunning, Report, Status, untouched
<1>8. CASE PublishReady
  BY <1>8 DEF PublishReady, Publish, untouched
<1>9. CASE RunPublishes
  BY <1>9 DEF RunPublishes, Publish, untouched
<1>10. CASE RunReturns
  <2>1. CASE pc' = "unknown-health"
    BY <1>10, <2>1 DEF RunReturns
  <2>2. CASE pc' = "judge"
    BY <1>10, <2>2 DEF RunReturns
  <2>. QED BY <1>10, <2>1, <2>2 DEF RunReturns
<1>11. CASE JudgeError
  BY <1>11 DEF JudgeError, untouched
<1>12. CASE PublishUnknown
  BY <1>12 DEF PublishUnknown, Publish, untouched
<1>13. CASE ReportStopped
  BY <1>13 DEF ReportStopped, Report, Status, untouched
<1>14. CASE PublishFailed
  BY <1>14 DEF PublishFailed, Publish, untouched
<1>15. CASE ReportFailed
  BY <1>15 DEF ReportFailed, Report, Status
<1>16. CASE Panic
  BY <1>16 DEF Panic
<1>17. CASE PersistTerminal
  BY <1>17 DEF PersistTerminal, untouched
<1>18. CASE ReportTerminal
  BY <1>18 DEF ReportTerminal, Report, Status, untouched
<1>19. CASE DropContext
  BY <1>19 DEF DropContext
<1>20. CASE SendStop
  BY <1>20 DEF SendStop, handlerOnly
<1>21. CASE HandlerReport
  BY <1>21 DEF HandlerReport, Status, handlerOnly
<1>22. CASE HandlerSet
  BY <1>22 DEF HandlerSet, handlerOnly
<1>23. CASE UNCHANGED lifecycleVars
  BY <1>23 DEF lifecycleVars
<1>. QED
  BY <1>1, <1>2, <1>3, <1>4, <1>5, <1>6, <1>7, <1>8, <1>9, <1>10, <1>11, <1>12, <1>13, <1>14, <1>15, <1>16, <1>17, <1>18, <1>19, <1>20, <1>21, <1>22, <1>23 DEF LifecycleNext, ServiceMain, Handler

\* The inductive invariant holds throughout.
LEMMA LifecycleInvHolds == LifecycleSpec => []LifecycleInv
<1>1. LifecycleInit => LifecycleInv
  BY InitEstablishesInv
<1>2. LifecycleInv /\ [LifecycleNext]_lifecycleVars => LifecycleInv'
  BY NextPreservesInv
<1>. QED
  BY <1>1, <1>2, PTL DEF LifecycleSpec

\* HealthIsHonest, for any number of stop controls: whatever reports and
\* publications fail, panic or overtake each other, health.json beside the
\* service's state never tells of a working injector that is not there.
THEOREM HealthStaysHonest == LifecycleSpec => []HealthIsHonest
<1>1. LifecycleInv => HealthIsHonest
  BY DEF LifecycleInv, FileIsOurs, FileIsNotActive, HealthIsHonest, StoppedIsNotReady
<1>. QED
  BY <1>1, LifecycleInvHolds, PTL

\* WindDownIsClean, for any number of stop controls: an error of a run that a
\* requested stop has ended never becomes an exit code of the service.
THEOREM WindDownStaysClean == LifecycleSpec => []WindDownIsClean
<1>1. LifecycleInv => WindDownIsClean
  BY DEF LifecycleInv, WindingDown, WindDownIsClean
<1>. QED
  BY <1>1, LifecycleInvHolds, PTL
-----------------------------------------------------------------------------
(* The event log.  Sizes and readings are defined by recursion over the    *)
(* lines of a file; what they compute is proved by induction over sets of  *)
(* numbers.                                                                *)

\* A set of numbers that is not empty has a least element.
LEMMA LeastNumber ==
    ASSUME NEW T \in SUBSET Nat, T # {}
    PROVE  \E x \in T : \A y \in T : x <= y
<1> DEFINE Less == OpToRel(<, Nat)
<1>1. IsWellFoundedOn(Less, Nat)
    BY NatLessThanWellFounded
<1>2. \A x, y \in Nat : x < y => <<x, y>> \in Less
    BY DEF OpToRel
<1> HIDE DEF Less
<1>3. PICK x \in T : \A y \in T : ~(<<y, x>> \in Less)
    BY <1>1, WFMin
<1>4. \A y \in T : ~(y < x)
    <2> TAKE y \in T
    <2>1. <<y, x>> \notin Less
        BY <1>3
    <2>2. x \in Nat /\ y \in Nat
        OBVIOUS
    <2> QED BY <1>2, <2>1, <2>2
<1>5. \A y \in T : x <= y
    BY <1>4
<1> QED BY <1>5

\* Induction, for a property given as the set of the numbers that have it.
LEMMA SetInduction ==
    ASSUME NEW S, 0 \in S, \A n \in Nat : n \in S => n + 1 \in S
    PROVE  \A n \in Nat : n \in S
<1> SUFFICES ASSUME NEW T, T = {n \in Nat : n \notin S}, T # {} PROVE FALSE
    OBVIOUS
<1>1. PICK x \in T : \A y \in T : x <= y
    BY LeastNumber
<1> QED BY <1>1

\* The partial sums of the first n weights, and their total.
Sums(w, n, g) == g = [i \in 0 .. n |-> IF i = 0 THEN 0 ELSE g[i - 1] + w[i]]
Weighed(w, n) == n \in Nat /\ \A i \in 1 .. n : w[i] \in Nat
Total(w, n) == (CHOOSE g : Sums(w, n, g))[n]

\* Partial sums exist, whatever the weights.
LEMMA SumsExist ==
    ASSUME NEW w, NEW n, Weighed(w, n)
    PROVE  \E g \in [0 .. n -> Nat] : Sums(w, n, g)
<1>0. n \in Nat /\ \A i \in 1 .. n : w[i] \in Nat
    BY DEF Weighed
<1> DEFINE S == {m \in Nat : m <= n => \E g \in [0 .. m -> Nat] : Sums(w, m, g)}
<1>1. 0 \in S
    <2> DEFINE g == [i \in 0 .. 0 |-> 0]
    <2>1. g \in [0 .. 0 -> Nat] /\ Sums(w, 0, g)
        BY DEF Sums
    <2> QED BY <2>1
<1>2. ASSUME NEW m \in Nat, m \in S PROVE m + 1 \in S
    <2> SUFFICES ASSUME m + 1 <= n PROVE \E h \in [0 .. m + 1 -> Nat] : Sums(w, m + 1, h)
        OBVIOUS
    <2>1. m <= n
        BY <1>0
    <2>2. PICK g \in [0 .. m -> Nat] : Sums(w, m, g)
        BY <1>2, <2>1
    <2> DEFINE h == [i \in 0 .. m + 1 |-> IF i <= m THEN g[i] ELSE g[m] + w[m + 1]]
    <2>3. w[m + 1] \in Nat
        BY <1>0
    <2>4. h \in [0 .. m + 1 -> Nat]
        BY <2>3
    <2>5. \A i \in 0 .. m : g[i] = IF i = 0 THEN 0 ELSE g[i - 1] + w[i]
        BY <2>2 DEF Sums
    <2>6. \A i \in 0 .. m + 1 : h[i] = IF i = 0 THEN 0 ELSE h[i - 1] + w[i]
        <3> TAKE i \in 0 .. m + 1
        <3>1. CASE i <= m
            BY <2>5, <3>1
        <3>2. CASE i = m + 1
            BY <3>2
        <3> QED BY <3>1, <3>2
    <2>7. h = [i \in 0 .. m + 1 |-> h[i]]
        OBVIOUS
    <2> HIDE DEF h
    <2>8. h = [i \in 0 .. m + 1 |-> IF i = 0 THEN 0 ELSE h[i - 1] + w[i]]
        BY <2>4, <2>6
    <2> QED BY <2>4, <2>8 DEF Sums
<1> HIDE DEF S
<1>3. \A m \in Nat : m \in S
    BY <1>1, <1>2, SetInduction
<1> USE DEF S
<1> QED BY <1>0, <1>3

\* Partial sums are unique.
LEMMA SumsUnique ==
    ASSUME NEW w, NEW n \in Nat, NEW g, NEW h, Sums(w, n, g), Sums(w, n, h)
    PROVE  g = h
<1> DEFINE S == {m \in Nat : m <= n => g[m] = h[m]}
<1>0. /\ \A i \in 0 .. n : g[i] = IF i = 0 THEN 0 ELSE g[i - 1] + w[i]
      /\ \A i \in 0 .. n : h[i] = IF i = 0 THEN 0 ELSE h[i - 1] + w[i]
    BY DEF Sums
<1>1. 0 \in S
    BY <1>0
<1>2. ASSUME NEW m \in Nat, m \in S PROVE m + 1 \in S
    <2> SUFFICES ASSUME m + 1 <= n PROVE g[m + 1] = h[m + 1]
        OBVIOUS
    <2>1. g[m] = h[m]
        BY <1>2
    <2>2. (m + 1) - 1 = m /\ m + 1 \in 0 .. n /\ m + 1 # 0
        OBVIOUS
    <2> QED BY <1>0, <2>1, <2>2
<1> HIDE DEF S
<1>3. \A m \in Nat : m \in S
    BY <1>1, <1>2, SetInduction
<1>4. \A m \in 0 .. n : g[m] = h[m]
    BY <1>3 DEF S
<1>5. g = [m \in 0 .. n |-> g[m]] /\ h = [m \in 0 .. n |-> h[m]]
    BY DEF Sums
<1> QED BY <1>4, <1>5

\* The total of weights, computed by any function that satisfies the recursion.
LEMMA TotalIs ==
    ASSUME NEW w, NEW n, Weighed(w, n), NEW g, Sums(w, n, g)
    PROVE  Total(w, n) = g[n]
<1>1. Sums(w, n, CHOOSE h : Sums(w, n, h))
    BY Zenon
<1>2. n \in Nat
    BY DEF Weighed
<1>3. (CHOOSE h : Sums(w, n, h)) = g
    BY <1>1, <1>2, SumsUnique
<1> QED BY <1>3 DEF Total

\* A total is a number; the empty one is zero.
LEMMA TotalType ==
    ASSUME NEW w, NEW n, Weighed(w, n)
    PROVE  Total(w, n) \in Nat /\ (n = 0 => Total(w, n) = 0)
<1>1. PICK g \in [0 .. n -> Nat] : Sums(w, n, g)
    BY SumsExist
<1>2. n \in Nat
    BY DEF Weighed
<1>3. g[n] \in Nat /\ g[0] = 0
    BY <1>1, <1>2 DEF Sums
<1>4. Total(w, n) = g[n]
    BY <1>1, TotalIs
<1> QED BY <1>3, <1>4

\* One more weight is added to the total of the others.
LEMMA TotalNext ==
    ASSUME NEW w, NEW n \in Nat, Weighed(w, n + 1), NEW v, \A i \in 1 .. n : v[i] = w[i]
    PROVE  Weighed(v, n) /\ Total(w, n + 1) = Total(v, n) + w[n + 1]
<1>1. PICK g \in [0 .. n + 1 -> Nat] : Sums(w, n + 1, g)
    BY SumsExist
<1>2. \A i \in 0 .. n + 1 : g[i] = IF i = 0 THEN 0 ELSE g[i - 1] + w[i]
    BY <1>1 DEF Sums
<1> DEFINE h == [i \in 0 .. n |-> g[i]]
<1>3. \A i \in 0 .. n : h[i] = IF i = 0 THEN 0 ELSE h[i - 1] + v[i]
    BY <1>2
<1>4. h \in [0 .. n -> Nat]
    OBVIOUS
<1>5. h[n] = g[n] /\ g[n + 1] = g[n] + w[n + 1]
    <2>1. (n + 1) - 1 = n /\ n + 1 \in 0 .. n + 1 /\ n + 1 # 0
        OBVIOUS
    <2> QED BY <1>2, <2>1
<1> HIDE DEF h
<1>6. Sums(v, n, h)
    BY <1>3, <1>4 DEF Sums
<1>7. Weighed(v, n)
    BY DEF Weighed
<1> QED BY <1>1, <1>5, <1>6, <1>7, TotalIs

\* The lines of a file, and the records a thread has to write.
LineType == [n : Nat, whole : BOOLEAN, own : BOOLEAN]
RecordType == [kind : {"summary", "plain"}, amount : Nat]

\* A line is one to three bytes wide.
LEMMA WidthType ==
    ASSUME NEW line \in LineType
    PROVE  Width(line) \in 1 .. 3 /\ (~line.own => Width(line) <= Whole) /\ (line.whole /\ ~line.own => Width(line) = Whole)
           /\ (~line.whole => Width(line) = 1)
BY DEF LineType, Width, Whole

\* The size of a file is the total of the widths of its lines.
LEMMA BytesIs ==
    ASSUME NEW lines \in Seq(LineType), NEW w, \A i \in 1 .. Len(lines) : w[i] = Width(lines[i])
    PROVE  Weighed(w, Len(lines)) /\ Bytes(lines) = Total(w, Len(lines))
<1> DEFINE n == Len(lines)
<1>1. n \in Nat /\ \A i \in 1 .. n : lines[i] \in LineType
    OBVIOUS
<1>2. Weighed(w, n)
    BY <1>1, WidthType DEF Weighed
<1>3. PICK g \in [0 .. n -> Nat] : Sums(w, n, g)
    BY <1>2, SumsExist
<1> DEFINE Def(h) == h = [i \in 0 .. n |-> IF i = 0 THEN 0 ELSE h[i - 1] + Width(lines[i])]
<1>4. \A h : Def(h) => Sums(w, n, h)
    <2> TAKE h
    <2> HAVE Def(h)
    <2>1. \A i \in 0 .. n : h[i] = IF i = 0 THEN 0 ELSE h[i - 1] + w[i]
        <3> TAKE i \in 0 .. n
        <3>1. h[i] = IF i = 0 THEN 0 ELSE h[i - 1] + Width(lines[i])
            OBVIOUS
        <3>2. CASE i = 0
            BY <3>1, <3>2
        <3>3. CASE i # 0
            <4>1. i \in 1 .. n
                BY <3>3
            <4>2. w[i] = Width(lines[i])
                BY <4>1
            <4> QED BY <3>1, <3>3, <4>2
        <3> QED BY <3>2, <3>3
    <2>2. h = [i \in 0 .. n |-> h[i]]
        OBVIOUS
    <2> QED BY <2>1, <2>2 DEF Sums
<1>5. Def(g)
    <2>1. \A i \in 0 .. n : g[i] = IF i = 0 THEN 0 ELSE g[i - 1] + Width(lines[i])
        <3> TAKE i \in 0 .. n
        <3>1. g[i] = IF i = 0 THEN 0 ELSE g[i - 1] + w[i]
            BY <1>3 DEF Sums
        <3>2. CASE i = 0
            BY <3>1, <3>2
        <3>3. CASE i # 0
            <4>1. i \in 1 .. n
                BY <3>3
            <4>2. w[i] = Width(lines[i])
                BY <4>1
            <4> QED BY <3>1, <3>3, <4>2
        <3> QED BY <3>2, <3>3
    <2>2. g = [i \in 0 .. n |-> g[i]]
        OBVIOUS
    <2> QED BY <2>1, <2>2
<1>6. Bytes(lines) = (CHOOSE h : Def(h))[n]
    BY DEF Bytes
<1> HIDE DEF Def
<1>7. Def(CHOOSE h : Def(h))
    BY <1>5, Zenon
<1> DEFINE c == CHOOSE h : Def(h)
<1> HIDE DEF c
<1>8. Def(c) /\ Bytes(lines) = c[n]
    BY <1>6, <1>7 DEF c
<1>9. Total(w, n) = c[n]
    BY <1>2, <1>4, <1>8, TotalIs
<1> QED BY <1>2, <1>8, <1>9

\* A size is a number; that of an empty file is zero.
LEMMA BytesType ==
    ASSUME NEW lines \in Seq(LineType)
    PROVE  Bytes(lines) \in Nat /\ (lines = <<>> => Bytes(lines) = 0)
<1> DEFINE w == [i \in 1 .. Len(lines) |-> Width(lines[i])]
<1>1. \A i \in 1 .. Len(lines) : w[i] = Width(lines[i])
    OBVIOUS
<1> HIDE DEF w
<1>2. Weighed(w, Len(lines)) /\ Bytes(lines) = Total(w, Len(lines))
    BY <1>1, BytesIs
<1>3. lines = <<>> => Len(lines) = 0
    OBVIOUS
<1> QED BY <1>2, <1>3, TotalType

\* An appended line adds its width.
LEMMA BytesAppend ==
    ASSUME NEW lines \in Seq(LineType), NEW line \in LineType
    PROVE  Bytes(Append(lines, line)) = Bytes(lines) + Width(line)
<1> DEFINE more == Append(lines, line)
           n == Len(lines)
           w == [i \in 1 .. n + 1 |-> Width(more[i])]
<1>1. more \in Seq(LineType) /\ Len(more) = n + 1 /\ n \in Nat /\ more[n + 1] = line
      /\ \A i \in 1 .. n : more[i] = lines[i]
    OBVIOUS
<1>2. \A i \in 1 .. n + 1 : w[i] = Width(more[i])
    OBVIOUS
<1> HIDE DEF w
<1>3. w[n + 1] = Width(line) /\ \A i \in 1 .. n : w[i] = Width(lines[i])
    BY <1>1, <1>2
<1> HIDE DEF more
<1>4. Weighed(w, n + 1) /\ Bytes(more) = Total(w, n + 1)
    <2>1. \A i \in 1 .. Len(more) : w[i] = Width(more[i])
        BY <1>1, <1>2
    <2>2. Weighed(w, Len(more)) /\ Bytes(more) = Total(w, Len(more))
        BY <1>1, <2>1, BytesIs
    <2> QED BY <1>1, <2>2
<1>5. Bytes(lines) = Total(w, n)
    BY <1>3, BytesIs
<1>6. Total(w, n + 1) = Total(w, n) + w[n + 1]
    BY <1>1, <1>4, TotalNext
<1>7. Bytes(more) = Bytes(lines) + Width(line)
    BY <1>3, <1>4, <1>5, <1>6
<1> QED BY <1>7 DEF more

\* The injections in the summaries that a sequence of records stands for.
Owed(todo) == Total([i \in 1 .. Len(todo) |-> todo[i].amount], Len(todo))

LEMMA PendingIs ==
    ASSUME NEW t, thread[t].todo \in Seq(RecordType)
    PROVE  Pending(t) = Owed(thread[t].todo)
<1> DEFINE todo == thread[t].todo
           n == Len(todo)
           w == [i \in 1 .. n |-> todo[i].amount]
           Def(h) == h = [i \in 0 .. n |-> IF i = 0 THEN 0 ELSE h[i - 1] + todo[i].amount]
<1>1. n \in Nat /\ \A i \in 1 .. n : todo[i] \in RecordType
    OBVIOUS
<1>2. \A i \in 1 .. n : w[i] = todo[i].amount
    OBVIOUS
<1>3. Weighed(w, n)
    BY <1>1, <1>2 DEF Weighed, RecordType
<1>4. Pending(t) = (CHOOSE h : Def(h))[n]
    BY DEF Pending
<1> HIDE DEF w, n
<1>5. \A h : Def(h) <=> Sums(w, n, h)
    <2> TAKE h
    <2>1. \A i \in 0 .. n : (IF i = 0 THEN 0 ELSE h[i - 1] + todo[i].amount) = (IF i = 0 THEN 0 ELSE h[i - 1] + w[i])
        <3> TAKE i \in 0 .. n
        <3>1. CASE i = 0
            BY <3>1
        <3>2. CASE i # 0
            <4>1. i \in 1 .. n
                BY <1>1, <3>2
            <4> QED BY <1>2, <3>2, <4>1
        <3> QED BY <3>1, <3>2
    <2>2. [i \in 0 .. n |-> IF i = 0 THEN 0 ELSE h[i - 1] + todo[i].amount]
          = [i \in 0 .. n |-> IF i = 0 THEN 0 ELSE h[i - 1] + w[i]]
        BY <2>1
    <2> QED BY <2>2 DEF Sums
<1>6. \E h : Sums(w, n, h)
    BY <1>3, SumsExist
<1> HIDE DEF Def
<1>7. Def(CHOOSE h : Def(h))
    BY <1>5, <1>6, Zenon
<1> DEFINE c == CHOOSE h : Def(h)
<1> HIDE DEF c
<1>8. Sums(w, n, c) /\ Pending(t) = c[n]
    BY <1>4, <1>5, <1>7 DEF c
<1>9. Pending(t) = Total(w, n)
    BY <1>3, <1>8, TotalIs
<1> QED BY <1>9 DEF w, n, Owed

\* What at most two records stand for.
LEMMA OwedFew ==
    ASSUME NEW todo \in Seq(RecordType)
    PROVE  /\ Owed(todo) \in Nat
           /\ todo = <<>> => Owed(todo) = 0
           /\ Len(todo) = 1 => Owed(todo) = todo[1].amount
           /\ Len(todo) = 2 => Owed(todo) = todo[1].amount + todo[2].amount
<1> DEFINE n == Len(todo)
           w == [i \in 1 .. n |-> todo[i].amount]
<1>1. n \in Nat /\ \A i \in 1 .. n : todo[i] \in RecordType
    OBVIOUS
<1>2. \A i \in 1 .. n : w[i] = todo[i].amount
    OBVIOUS
<1>3. Weighed(w, n)
    BY <1>1, <1>2 DEF Weighed, RecordType
<1>4. Owed(todo) = Total(w, n)
    BY DEF Owed
<1>5. todo = <<>> => n = 0
    OBVIOUS
<1> HIDE DEF w, n
<1>6. Owed(todo) \in Nat /\ (todo = <<>> => Owed(todo) = 0)
    BY <1>3, <1>4, <1>5, TotalType
<1>7. ASSUME n = 1 PROVE Total(w, n) = w[1]
    <2>1. Weighed(w, 0 + 1)
        BY <1>3, <1>7
    <2>2. Weighed(w, 0) /\ Total(w, 0 + 1) = Total(w, 0) + w[0 + 1]
        BY <2>1, TotalNext
    <2>3. Total(w, 0) = 0
        BY <2>2, TotalType
    <2>4. w[1] \in Nat
        BY <1>3, <1>7 DEF Weighed
    <2> QED BY <1>7, <2>2, <2>3, <2>4
<1>8. ASSUME n = 2 PROVE Total(w, n) = w[1] + w[2]
    <2>1. Weighed(w, 1 + 1)
        BY <1>3, <1>8
    <2>2. Weighed(w, 1) /\ Total(w, 1 + 1) = Total(w, 1) + w[1 + 1]
        BY <2>1, TotalNext
    <2>3. Weighed(w, 0 + 1)
        BY <2>2
    <2>4. Weighed(w, 0) /\ Total(w, 0 + 1) = Total(w, 0) + w[0 + 1]
        BY <2>3, TotalNext
    <2>5. Total(w, 0) = 0
        BY <2>4, TotalType
    <2>6. w[1] \in Nat /\ w[2] \in Nat
        BY <1>3, <1>8 DEF Weighed
    <2> QED BY <1>8, <2>2, <2>4, <2>5, <2>6
<1> QED BY <1>2, <1>4, <1>6, <1>7, <1>8 DEF n

-----------------------------------------------------------------------------
(* The shape of the log's state, and what holds of the appending threads.  *)

\* The thread that stands for all that report to the host's logger.
Reporter == CHOOSE u \in Thread : TRUE
Positions5 == {"idle", "ready", "remove", "rename", "write"}
Stamp == 0 .. MaxTime \cup {Never}
ThreadType == [at : Positions5, todo : Seq(RecordType), turn : 0 .. Backups]
LoggerType == [count : Nat, since : 0 .. MaxTime, health : Healths, seen : [Failure -> Stamp]]
BooksType == [seen : Nat, reported : Nat, lost : Nat]
HeardType == [Failure -> [failed : Stamp, tried : Stamp]]
EndingType == [at : {"no", "open", "done"}, slot : 0 .. Backups + 1, bytes : Nat]
ReaderType == [at : 0 .. Backups + 2, got : Seq(Nat)]

LogShape ==
    /\ role \in {"host", "center"}
    /\ file \in [Slots -> Seq(LineType)]
    /\ thread \in [Thread -> ThreadType]
    /\ lock \in Thread \cup {Nobody}
    /\ logger \in LoggerType
    /\ ending \in EndingType
    /\ reader \in ReaderType
    /\ clock \in 0 .. MaxTime
    /\ acked \in SUBSET Nat /\ adrift \in SUBSET Nat /\ raced \in BOOLEAN
    /\ books \in BooksType
    /\ heard \in HeardType
    /\ written \in 0 .. MaxRecords /\ results \in Nat /\ faults \in Nat

\* What a thread may have to write: one record, or a summary and a plain one.
Writable(t, records) ==
    /\ records \in Seq(RecordType)
    /\ Len(records) <= 2
    /\ Len(records) = 2 => records[2].amount = 0
    /\ t # Reporter => \A i \in 1 .. Len(records) : records[i].amount = 0

\* A thread rotates and writes under the lock, and has something to write.
ThreadHolds(t) ==
    /\ Writable(t, thread[t].todo)
    /\ thread[t].at = "idle" <=> thread[t].todo = <<>>
    /\ thread[t].at \in {"remove", "rename", "write"} => lock = t
    /\ thread[t].at \in {"remove", "rename"} => thread[t].turn \in 1 .. Backups

ThreadsHold == \A t \in Thread : ThreadHolds(t)

\* The bounds are numbers.
LEMMA LogNumbers ==
    /\ Backups \in Nat \ {0} /\ MaxBytes \in Nat /\ MaxBytes > 2 /\ ThrottleSize \in Nat \ {0}
    /\ SummaryWindow \in Nat /\ DedupeWindow \in Nat \ {0}
    /\ MaxRecords \in Nat /\ MaxResults \in Nat /\ MaxTime \in Nat /\ MaxFaults \in Nat
    /\ Never \in Nat /\ Never > MaxTime
BY SizesAssumption, WindowsAssumption, BoundsAssumption DEF Never

LEMMA ReporterIsAThread == Reporter \in Thread
BY ThreadsAssumption, Zenon DEF Reporter

\* A record is a record.
LEMMA RecordTypes ==
    /\ Plain \in RecordType /\ Plain.amount = 0
    /\ \A n \in Nat : [Tally EXCEPT !.amount = n] \in RecordType /\ [Tally EXCEPT !.amount = n].amount = n
BY DEF Plain, Tally, RecordType

\* Handing records to a thread, or taking it through to the next one.
LEMMA LogsHold ==
    ASSUME LogShape, ThreadsHold, NEW t \in Thread, NEW records, Writable(t, records), Logs(t, records),
           \/ lock' = lock /\ thread[t].at = "idle"
           \/ lock = t /\ lock' = Nobody
    PROVE  /\ thread' \in [Thread -> ThreadType]
           /\ ThreadsHold'
           /\ \A u \in Thread : u # t => thread'[u] = thread[u]
           /\ thread'[t].todo = records
           /\ thread'[t].at \in {"idle", "ready"}
<1> DEFINE new == IF records = <<>> THEN Rest ELSE [Rest EXCEPT !.at = "ready", !.todo = records]
<1>0. records \in Seq(RecordType) /\ Backups \in Nat /\ Nobody \notin Thread
    BY LogNumbers, ThreadsAssumption DEF Writable
<1>1. /\ new \in ThreadType /\ new.todo = records /\ new.at \in {"idle", "ready"}
      /\ new.at = "idle" <=> records = <<>>
    <2>0. /\ records = <<>> => new = [at |-> "idle", todo |-> records, turn |-> 0]
          /\ records # <<>> => new = [at |-> "ready", todo |-> records, turn |-> 0]
        BY DEF Rest
    <2> HIDE DEF new
    <2>1. CASE records = <<>>
        <3>1. new = [at |-> "idle", todo |-> records, turn |-> 0]
            BY <2>0, <2>1
        <3>2. new \in ThreadType
            BY <1>0, <3>1 DEF ThreadType, Positions5
        <3> QED BY <2>1, <3>1, <3>2
    <2>2. CASE records # <<>>
        BY <1>0, <2>0, <2>2 DEF ThreadType, Positions5
    <2> QED BY <2>1, <2>2
<1>2. thread' = [thread EXCEPT ![t] = new]
    BY DEF Logs
<1> HIDE DEF new
<1>3. thread \in [Thread -> ThreadType]
    BY DEF LogShape
<1>4. thread'[t] = new /\ \A u \in Thread : u # t => thread'[u] = thread[u]
    BY <1>2, <1>3
<1>5. thread' \in [Thread -> ThreadType]
    BY <1>1, <1>2, <1>3
<1>6. ASSUME NEW u \in Thread PROVE ThreadHolds(u)'
    <2>1. CASE u = t
        BY <1>1, <1>4, <2>1 DEF ThreadHolds, Writable, Reporter
    <2>2. CASE u # t
        <3>1. ThreadHolds(u) /\ thread'[u] = thread[u]
            BY <1>4, <2>2 DEF ThreadsHold
        <3>2. lock = u => lock' = u
            BY <1>0, <2>2
        <3>3. lock # t \/ thread[u].at \notin {"remove", "rename", "write"}
            BY <2>2, <3>1 DEF ThreadHolds
        <3> QED BY <1>0, <2>2, <3>1, <3>2, <3>3 DEF ThreadHolds, Writable, Reporter
    <2> QED BY <2>1, <2>2
<1> QED BY <1>1, <1>4, <1>5, <1>6 DEF ThreadsHold

\* flush_summary hands over exactly what was counted.
LEMMA FlushIs ==
    ASSUME LogShape
    PROVE  /\ Flush.count = 0
           /\ logger.count = 0 => Flush.records = <<>>
           /\ logger.count # 0 => /\ Flush.records \in Seq(RecordType) /\ Len(Flush.records) = 1
                                  /\ Flush.records[1].amount = logger.count
<1>1. logger.count \in Nat
    BY DEF LogShape, LoggerType
<1> DEFINE r == [Tally EXCEPT !.amount = logger.count]
<1>2. r \in RecordType /\ r.amount = logger.count
    BY <1>1, RecordTypes
<1> HIDE DEF r
<1>3. /\ Flush.count = 0
      /\ Flush.records = IF logger.count = 0 THEN <<>> ELSE <<r>>
    BY DEF Flush, r
<1> QED BY <1>2, <1>3

\* The records of a flush and then perhaps a plain one: what they owe.
LEMMA FlushThenPlain ==
    ASSUME LogShape, NEW flush \in {Flush, FlushElapsed}, NEW more \in {<<>>, <<Plain>>}
    PROVE  /\ Writable(Reporter, flush.records) /\ Owed(flush.records) + flush.count = logger.count
           /\ Writable(Reporter, flush.records \o more) /\ Owed(flush.records \o more) + flush.count = logger.count
           /\ flush.count \in Nat
<1> DEFINE rs == flush.records
<1>1. logger.count \in Nat
    BY DEF LogShape, LoggerType
<1>2. \/ rs = <<>> /\ flush.count = logger.count
      \/ rs = <<>> /\ flush.count = 0 /\ logger.count = 0
      \/ rs \in Seq(RecordType) /\ Len(rs) = 1 /\ rs[1].amount = logger.count /\ flush.count = 0
    <2>1. CASE flush = Flush
        BY <2>1, FlushIs, <1>1
    <2>2. CASE flush = FlushElapsed
        <3>1. FlushElapsed = Flush \/ FlushElapsed = [records |-> <<>>, count |-> logger.count]
            BY DEF FlushElapsed
        <3>2. CASE FlushElapsed = Flush
            BY <2>2, <3>2, FlushIs, <1>1
        <3>3. CASE FlushElapsed = [records |-> <<>>, count |-> logger.count]
            BY <2>2, <3>3
        <3> QED BY <3>1, <3>2, <3>3
    <2> QED BY <2>1, <2>2
<1> HIDE DEF rs
<1>3. rs \in Seq(RecordType) /\ Len(rs) <= 1
    <2>1. <<>> \in Seq(RecordType) /\ Len(<<>>) = 0
        OBVIOUS
    <2>2. CASE rs = <<>>
        BY <2>1, <2>2
    <2>3. CASE rs \in Seq(RecordType) /\ Len(rs) = 1
        BY <2>3
    <2> QED BY <1>2, <2>2, <2>3
<1>4. Owed(rs) + flush.count = logger.count
    BY <1>1, <1>2, <1>3, OwedFew
<1>5. Writable(Reporter, rs)
    BY <1>3 DEF Writable
<1> DEFINE all == rs \o more
<1>6. all \in Seq(RecordType) /\ Len(all) <= 2
    <2>1. more \in Seq(RecordType) /\ Len(more) <= 1
        <3>1. CASE more = <<>>
            BY <3>1
        <3>2. CASE more = <<Plain>>
            BY <3>2, RecordTypes
        <3> QED BY <3>1, <3>2
    <2> QED BY <1>3, <2>1
<1>7. CASE more = <<>>
    <2>1. all = rs
        BY <1>3, <1>7
    <2> QED BY <1>1, <1>2, <1>4, <1>5, <2>1 DEF rs
<1>8. CASE more = <<Plain>>
    <2>1. Len(all) = Len(rs) + 1 /\ all[Len(rs) + 1] = Plain /\ (Len(rs) = 1 => all[1] = rs[1])
        BY <1>3, <1>8
    <2>2. Plain.amount = 0
        BY RecordTypes
    <2>3. Writable(Reporter, all)
        BY <1>3, <1>6, <2>1, <2>2 DEF Writable
    <2>4. Owed(all) = Owed(rs)
        <3>1. CASE Len(rs) = 0
            <4>1. rs = <<>> /\ Len(all) = 1 /\ all[1] = Plain
                BY <1>3, <2>1, <3>1
            <4> QED BY <1>3, <1>6, <2>2, <4>1, OwedFew
        <3>2. CASE Len(rs) = 1
            <4>0. rs[1] \in RecordType
                BY <1>3, <3>2
            <4>1. rs[1].amount \in Nat
                BY <4>0 DEF RecordType
            <4>2. Len(all) = 2 /\ all[1] = rs[1] /\ all[2] = Plain
                BY <2>1, <3>2
            <4>3. Owed(rs) = rs[1].amount
                BY <1>3, <3>2, OwedFew
            <4>4. Owed(all) = rs[1].amount + 0
                BY <1>6, <2>2, <4>2, OwedFew
            <4> QED BY <4>1, <4>3, <4>4
        <3> QED BY <1>3, <3>1, <3>2
    <2> QED BY <1>1, <1>2, <1>4, <1>5, <2>3, <2>4 DEF rs
<1> QED BY <1>7, <1>8

-----------------------------------------------------------------------------
(* Every report to the host's logger, seen as one kind of step.            *)

\* The throttle's answer: the key is silenced only within its window, and then
\* nothing changes; else it is stamped, and at most one other is forgotten.
LEMMA AllowIs ==
    ASSUME LogShape, NEW k \in Failure
    PROVE  LET gate == Allow(k) IN
           /\ gate.ok \in BOOLEAN
           /\ gate.seen \in [Failure -> Stamp]
           /\ ~gate.ok => /\ gate.seen = logger.seen /\ logger.seen[k] # Never
                          /\ clock - logger.seen[k] < DedupeWindow
           /\ gate.ok => /\ gate.seen[k] = clock
                         /\ \A j \in Failure : j # k => gate.seen[j] \in {logger.seen[j], Never}
<1>1. logger.seen \in [Failure -> Stamp] /\ clock \in 0 .. MaxTime
    BY DEF LogShape, LoggerType
<1>2. Never \in Stamp /\ clock \in Stamp /\ Stamp \subseteq Nat
    BY <1>1, LogNumbers DEF Stamp
<1> DEFINE room == RoomFor(k)
<1>3. room \in [Failure -> Stamp] /\ \A j \in Failure : room[j] \in {logger.seen[j], Never}
    <2>1. \/ room = logger.seen
          \/ room = [logger.seen EXCEPT ![Oldest(Fellows(k))] = Never]
        BY DEF RoomFor
    <2> HIDE DEF room
    <2> QED BY <1>1, <1>2, <2>1
<1> DEFINE stamped == [room EXCEPT ![k] = clock]
<1> HIDE DEF room
<1>4. /\ stamped \in [Failure -> Stamp] /\ stamped[k] = clock
      /\ \A j \in Failure : j # k => stamped[j] \in {logger.seen[j], Never}
    BY <1>2, <1>3
<1> HIDE DEF stamped
<1>5. CASE logger.seen[k] # Never /\ ~Elapsed(logger.seen[k], DedupeWindow)
    <2>1. Allow(k) = [ok |-> FALSE, seen |-> logger.seen]
        BY <1>5 DEF Allow
    <2>2. logger.seen[k] \in Nat /\ clock \in Nat
        BY <1>1, <1>2
    <2>3. clock - logger.seen[k] < DedupeWindow
        BY <1>5, <2>2, LogNumbers DEF Elapsed
    <2> QED BY <1>1, <1>5, <2>1, <2>3
<1>6. CASE ~(logger.seen[k] # Never /\ ~Elapsed(logger.seen[k], DedupeWindow))
    <2>1. Allow(k) = [ok |-> TRUE, seen |-> stamped]
        BY <1>6 DEF Allow, stamped, room
    <2> QED BY <1>4, <2>1
<1> QED BY <1>5, <1>6

\* One report: what it counts is handed over or still counted.
Reports(records) ==
    /\ role = "host" /\ thread[Reporter].at = "idle"
    /\ Writable(Reporter, records) /\ Logs(Reporter, records)
    /\ logger' \in LoggerType /\ books' \in BooksType
    /\ books'.reported = books.reported /\ books'.lost = books.lost
    /\ books'.seen + logger.count = books.seen + Owed(records) + logger'.count
    /\ results' \in Nat
    /\ UNCHANGED <<role, file, lock, ending, reader, clock, acked, adrift, raced, written, faults>>

\* The throttles beside the history of the failures.
Heeds ==
    \/ logger'.seen = logger.seen /\ heard' = heard
    \/ \E k \in Failure : logger'.seen = Allow(k).seen /\ Hear(k, Allow(k))

\* The fields of the logger.
LEMMA LoggerFields ==
    ASSUME LogShape
    PROVE  /\ logger.count \in Nat /\ logger.since \in 0 .. MaxTime /\ logger.health \in Healths
           /\ logger.seen \in [Failure -> Stamp]
           /\ books.seen \in Nat /\ books.reported \in Nat /\ books.lost \in Nat
           /\ Since \in 0 .. MaxTime /\ clock \in 0 .. MaxTime /\ results + 1 \in Nat
           /\ Key \subseteq Failure /\ Arch \subseteq Failure
<1>1. logger \in LoggerType /\ books \in BooksType /\ clock \in 0 .. MaxTime /\ results \in Nat
    BY DEF LogShape
<1>2. logger.since \in 0 .. MaxTime
    BY <1>1 DEF LoggerType
<1>3. Since = clock \/ Since = logger.since
    BY DEF Since
<1> QED BY <1>1, <1>2, <1>3 DEF LoggerType, BooksType, Failure

\* A logger with other fields is a logger.
LEMMA CountUpdate ==
    ASSUME LogShape, NEW c \in Nat, NEW s \in 0 .. MaxTime, logger' = [logger EXCEPT !.count = c, !.since = s]
    PROVE  logger' \in LoggerType /\ logger'.count = c /\ logger'.seen = logger.seen
<1>1. logger \in LoggerType
    BY DEF LogShape
<1> QED BY <1>1 DEF LoggerType

LEMMA CountSeenUpdate ==
    ASSUME LogShape, NEW c \in Nat, NEW s \in 0 .. MaxTime, NEW seen \in [Failure -> Stamp],
           logger' = [logger EXCEPT !.count = c, !.since = s, !.seen = seen]
    PROVE  logger' \in LoggerType /\ logger'.count = c /\ logger'.seen = seen
<1>1. logger \in LoggerType
    BY DEF LogShape
<1> QED BY <1>1 DEF LoggerType

LEMMA SeenUpdate ==
    ASSUME LogShape, NEW seen \in [Failure -> Stamp], logger' = [logger EXCEPT !.seen = seen]
    PROVE  logger' \in LoggerType /\ logger'.count = logger.count /\ logger'.seen = seen
<1>1. logger \in LoggerType
    BY DEF LogShape
<1> QED BY <1>1 DEF LoggerType

LEMMA HealthUpdate ==
    ASSUME LogShape, NEW h \in Healths, logger' = [logger EXCEPT !.health = h]
    PROVE  logger' \in LoggerType /\ logger'.count = logger.count /\ logger'.seen = logger.seen
<1>1. logger \in LoggerType
    BY DEF LogShape
<1> QED BY <1>1 DEF LoggerType

\* A counted result.
LEMMA BooksUpdate ==
    ASSUME LogShape
    PROVE  LET b == [books EXCEPT !.seen = books.seen + 1] IN
           b \in BooksType /\ b.seen = books.seen + 1 /\ b.reported = books.reported /\ b.lost = books.lost
<1>1. books \in BooksType
    BY DEF LogShape
<1> QED BY <1>1 DEF BooksType

LEMMA MayRecordIs ==
    ASSUME LogShape, NEW t \in Thread, HostMayRecord(t)
    PROVE  t = Reporter /\ role = "host" /\ thread[Reporter].at = "idle" /\ results' \in Nat
BY ReporterIsAThread, LoggerFields DEF HostMayRecord, Reporter

LEMMA InjectionReports ==
    ASSUME LogShape, NEW t \in Thread, InjectionResult(t)
    PROVE  (\E records : Reports(records)) /\ Heeds
<1>0. t = Reporter /\ role = "host" /\ thread[Reporter].at = "idle" /\ results' \in Nat
    BY MayRecordIs DEF InjectionResult
<1>1. /\ books' \in BooksType /\ books'.seen = books.seen + 1
      /\ books'.reported = books.reported /\ books'.lost = books.lost
    BY BooksUpdate DEF InjectionResult
<1>2. UNCHANGED <<role, file, lock, ending, reader, clock, acked, adrift, raced, written, faults>>
    BY DEF InjectionResult
<1> DEFINE flush == FlushElapsed
<1>3. flush \in {Flush, FlushElapsed}
    OBVIOUS
<1>4. FlushElapsed.count \in Nat /\ FlushElapsed.count + 1 \in Nat
    BY <1>3, FlushThenPlain
<1>5. logger.count \in Nat /\ books.seen \in Nat /\ Since \in 0 .. MaxTime
    BY LoggerFields
<1>6. CASE /\ logger' = [logger EXCEPT !.count = FlushElapsed.count + 1, !.since = Since]
           /\ Logs(t, FlushElapsed.records)
           /\ UNCHANGED heard
    <2>1. logger' \in LoggerType /\ logger'.count = FlushElapsed.count + 1 /\ logger'.seen = logger.seen
        BY <1>4, <1>5, <1>6, CountUpdate
    <2> DEFINE records == FlushElapsed.records
    <2>2. Writable(Reporter, records) /\ Owed(records) + FlushElapsed.count = logger.count
        BY <1>3, FlushThenPlain
    <2>3. Owed(records) \in Nat
        BY <2>2, OwedFew DEF Writable
    <2>4. books'.seen + logger.count = books.seen + Owed(records) + logger'.count
        BY <1>1, <1>4, <1>5, <2>1, <2>2, <2>3
    <2>5. Logs(Reporter, records)
        BY <1>0, <1>6
    <2>6. Reports(records)
        BY <1>0, <1>1, <1>2, <2>1, <2>2, <2>4, <2>5 DEF Reports
    <2> QED BY <1>6, <2>1, <2>6 DEF Heeds
<1>7. ASSUME NEW k \in Key,
             logger' = [logger EXCEPT !.count = FlushElapsed.count + 1, !.since = Since, !.seen = Allow(k).seen],
             Logs(t, FlushElapsed.records \o (IF Allow(k).ok THEN <<Plain>> ELSE <<>>)),
             Hear(k, Allow(k))
      PROVE  (\E records : Reports(records)) /\ Heeds
    <2>0. k \in Failure /\ Allow(k).seen \in [Failure -> Stamp]
        BY AllowIs, LoggerFields
    <2>1. logger' \in LoggerType /\ logger'.count = FlushElapsed.count + 1 /\ logger'.seen = Allow(k).seen
        BY <1>4, <1>5, <1>7, <2>0, CountSeenUpdate
    <2> DEFINE more == IF Allow(k).ok THEN <<Plain>> ELSE <<>>
               records == FlushElapsed.records \o more
    <2>2. more \in {<<>>, <<Plain>>}
        OBVIOUS
    <2> HIDE DEF more
    <2>3. Writable(Reporter, records) /\ Owed(records) + FlushElapsed.count = logger.count
        BY <1>3, <2>2, FlushThenPlain
    <2>4. Owed(records) \in Nat
        BY <2>3, OwedFew DEF Writable
    <2>5. books'.seen + logger.count = books.seen + Owed(records) + logger'.count
        BY <1>1, <1>4, <1>5, <2>1, <2>3, <2>4
    <2>6. Logs(Reporter, records)
        BY <1>0, <1>7 DEF more
    <2>7. Reports(records)
        BY <1>0, <1>1, <1>2, <2>1, <2>3, <2>5, <2>6 DEF Reports
    <2> QED BY <1>7, <2>0, <2>1, <2>7 DEF Heeds
<1> QED BY <1>6, <1>7 DEF InjectionResult

LEMMA SummaryReports ==
    ASSUME LogShape, NEW t \in Thread, FlushInjectionSummary(t)
    PROVE  (\E records : Reports(records)) /\ Heeds
<1>0. t = Reporter /\ role = "host" /\ thread[Reporter].at = "idle" /\ results' \in Nat
    BY MayRecordIs DEF FlushInjectionSummary
<1>1. UNCHANGED <<role, file, lock, ending, reader, clock, acked, adrift, raced, books, heard, written, faults>>
    BY DEF FlushInjectionSummary
<1> DEFINE records == FlushElapsed.records
<1>2. FlushElapsed.count \in Nat /\ Writable(Reporter, records) /\ Owed(records) + FlushElapsed.count = logger.count
    BY FlushThenPlain
<1>3. logger' = [logger EXCEPT !.count = FlushElapsed.count, !.since = Since] /\ Since \in 0 .. MaxTime
    BY LoggerFields DEF FlushInjectionSummary
<1>4. logger' \in LoggerType /\ logger'.count = FlushElapsed.count /\ logger'.seen = logger.seen
    BY <1>2, <1>3, CountUpdate
<1>5. Owed(records) \in Nat /\ books.seen \in Nat /\ books' = books /\ books \in BooksType
    BY <1>1, <1>2, OwedFew, LoggerFields DEF Writable, LogShape
<1>6. books'.seen + logger.count = books.seen + Owed(records) + logger'.count
    BY <1>2, <1>4, <1>5
<1>7. Logs(Reporter, records)
    BY <1>0 DEF FlushInjectionSummary
<1>8. Reports(records)
    BY <1>0, <1>1, <1>2, <1>4, <1>5, <1>6, <1>7 DEF Reports
<1> QED BY <1>1, <1>4, <1>8 DEF Heeds

\* A report that counts nothing: at most a plain record.
LEMMA PlainReports ==
    ASSUME LogShape, NEW records \in {<<>>, <<Plain>>}, role = "host", thread[Reporter].at = "idle", results' \in Nat,
           Logs(Reporter, records), logger' \in LoggerType, logger'.count = logger.count,
           UNCHANGED <<role, file, lock, ending, reader, clock, acked, adrift, raced, books, written, faults>>
    PROVE  Reports(records)
<1>1. Writable(Reporter, records) /\ Owed(records) = 0
    <2>1. CASE records = <<>>
        <3>1. records \in Seq(RecordType) /\ Len(records) = 0
            BY <2>1
        <3>2. Owed(records) = 0
            BY <2>1, <3>1, OwedFew
        <3>3. Writable(Reporter, records)
            BY <3>1 DEF Writable
        <3> QED BY <3>2, <3>3
    <2>2. CASE records = <<Plain>>
        <3>1. records \in Seq(RecordType) /\ Len(records) = 1 /\ records[1].amount = 0
            BY <2>2, RecordTypes
        <3> QED BY <3>1, OwedFew DEF Writable
    <2> QED BY <2>1, <2>2
<1>2. books.seen \in Nat /\ logger.count \in Nat /\ books \in BooksType
    BY LoggerFields DEF LogShape
<1> QED BY <1>1, <1>2 DEF Reports

LEMMA HelperReports ==
    ASSUME LogShape, NEW t \in Thread, HelperBrokerFailed(t)
    PROVE  (\E records : Reports(records)) /\ Heeds
<1>0. t = Reporter /\ role = "host" /\ thread[Reporter].at = "idle" /\ results' \in Nat
    BY MayRecordIs DEF HelperBrokerFailed
<1>1. UNCHANGED <<role, file, lock, ending, reader, clock, acked, adrift, raced, books, written, faults>>
    BY DEF HelperBrokerFailed
<1>2. PICK a \in Arch : /\ logger' = [logger EXCEPT !.seen = Allow(a).seen]
                        /\ Logs(t, IF Allow(a).ok THEN <<Plain>> ELSE <<>>)
                        /\ Hear(a, Allow(a))
    BY DEF HelperBrokerFailed
<1>3. a \in Failure /\ Allow(a).seen \in [Failure -> Stamp]
    BY AllowIs, LoggerFields
<1>4. logger' \in LoggerType /\ logger'.count = logger.count /\ logger'.seen = Allow(a).seen
    BY <1>2, <1>3, SeenUpdate
<1> DEFINE records == IF Allow(a).ok THEN <<Plain>> ELSE <<>>
<1>5. records \in {<<>>, <<Plain>>} /\ Logs(Reporter, records)
    BY <1>0, <1>2
<1> HIDE DEF records
<1>6. Reports(records)
    BY <1>0, <1>1, <1>4, <1>5, PlainReports
<1> QED BY <1>2, <1>3, <1>4, <1>6 DEF Heeds

LEMMA HealthReports ==
    ASSUME LogShape, NEW t \in Thread, HealthChanged(t) \/ ServiceStarted(t)
    PROVE  (\E records : Reports(records)) /\ Heeds
<1>0. t = Reporter /\ role = "host" /\ thread[Reporter].at = "idle" /\ results' \in Nat
    BY MayRecordIs DEF HealthChanged, ServiceStarted
<1>1. UNCHANGED <<role, file, lock, ending, reader, clock, acked, adrift, raced, books, heard, written, faults>>
    BY DEF HealthChanged, ServiceStarted
<1>2. \E h \in Healths : logger' = [logger EXCEPT !.health = h]
    <2>1. CASE HealthChanged(t)
        BY <2>1 DEF HealthChanged
    <2>2. CASE ServiceStarted(t)
        <3>1. {"ready", logger.health} \subseteq Healths
            BY LoggerFields DEF Healths
        <3> QED BY <2>2, <3>1 DEF ServiceStarted
    <2> QED BY <2>1, <2>2
<1>3. \E records \in {<<>>, <<Plain>>} : Logs(t, records)
    <2>1. CASE HealthChanged(t)
        BY <2>1, Zenon DEF HealthChanged
    <2>2. CASE ServiceStarted(t)
        BY <2>2 DEF ServiceStarted
    <2> QED BY <2>1, <2>2
<1>4. logger' \in LoggerType /\ logger'.count = logger.count /\ logger'.seen = logger.seen
    BY <1>2, HealthUpdate
<1>5. PICK records \in {<<>>, <<Plain>>} : Logs(Reporter, records)
    BY <1>0, <1>3
<1>6. Reports(records)
    BY <1>0, <1>1, <1>4, <1>5, PlainReports
<1> QED BY <1>1, <1>4, <1>6 DEF Heeds

LEMMA StopReports ==
    ASSUME LogShape, NEW t \in Thread, ServiceStopped(t)
    PROVE  (\E records : Reports(records)) /\ Heeds
<1>0. t = Reporter /\ role = "host" /\ thread[Reporter].at = "idle" /\ results' \in Nat
    BY MayRecordIs DEF ServiceStopped
<1>1. UNCHANGED <<role, file, lock, ending, reader, clock, acked, adrift, raced, books, heard, written, faults>>
    BY DEF ServiceStopped
<1> DEFINE records == Flush.records \o <<Plain>>
<1>2. Flush.count \in Nat /\ Writable(Reporter, records) /\ Owed(records) + Flush.count = logger.count
    BY FlushThenPlain
<1>3. logger' = [logger EXCEPT !.count = Flush.count, !.since = clock] /\ clock \in 0 .. MaxTime
    BY LoggerFields DEF ServiceStopped
<1>4. logger' \in LoggerType /\ logger'.count = Flush.count /\ logger'.seen = logger.seen
    BY <1>2, <1>3, CountUpdate
<1>5. Owed(records) \in Nat /\ books.seen \in Nat /\ books' = books /\ books \in BooksType
    BY <1>1, <1>2, OwedFew, LoggerFields DEF Writable, LogShape
<1>6. books'.seen + logger.count = books.seen + Owed(records) + logger'.count
    BY <1>2, <1>4, <1>5
<1>7. Logs(Reporter, records)
    BY <1>0 DEF ServiceStopped
<1>8. Reports(records)
    BY <1>0, <1>1, <1>2, <1>4, <1>5, <1>6, <1>7 DEF Reports
<1> QED BY <1>1, <1>4, <1>8 DEF Heeds

\* The reports to the host's logger.
HostReports(t) ==
    \/ InjectionResult(t) \/ FlushInjectionSummary(t) \/ HelperBrokerFailed(t)
    \/ HealthChanged(t) \/ ServiceStarted(t) \/ ServiceStopped(t)

LEMMA HostReportsIs ==
    ASSUME LogShape, NEW t \in Thread, HostReports(t)
    PROVE  (\E records : Reports(records)) /\ Heeds
BY InjectionReports, SummaryReports, HelperReports, HealthReports, StopReports DEF HostReports

-----------------------------------------------------------------------------
(* The shape of the state is kept.                                         *)

LEMMA LogShapeInit == Init => LogShape /\ ThreadsHold
<1> SUFFICES ASSUME Init PROVE LogShape /\ ThreadsHold
    OBVIOUS
<1>1. Backups \in Nat /\ 0 \in 0 .. MaxTime /\ 0 \in 0 .. MaxRecords /\ Never \in Stamp
    BY LogNumbers DEF Stamp
<1>2. Rest \in ThreadType /\ Rest.todo = <<>> /\ Rest.at = "idle"
    <2>1. <<>> \in Seq(RecordType)
        OBVIOUS
    <2> QED BY <1>1, <2>1 DEF Rest, ThreadType, Positions5
<1>3. thread \in [Thread -> ThreadType] /\ \A t \in Thread : thread[t] = Rest
    BY <1>2 DEF Init
<1>4. ThreadsHold
    <2> SUFFICES ASSUME NEW t \in Thread PROVE ThreadHolds(t)
        BY DEF ThreadsHold
    <2>1. thread[t].todo = <<>> /\ thread[t].at = "idle"
        BY <1>2, <1>3
    <2>2. <<>> \in Seq(RecordType) /\ Len(<<>>) = 0
        OBVIOUS
    <2>3. Writable(t, thread[t].todo)
        BY <2>1, <2>2 DEF Writable
    <2> QED BY <2>1, <2>3 DEF ThreadHolds
<1>5. logger \in LoggerType
    BY <1>1 DEF Init, Empty, LoggerType, Healths
<1>6. file \in [Slots -> Seq(LineType)] /\ ending \in EndingType /\ reader \in ReaderType
    <2>1. <<>> \in Seq(LineType) /\ <<>> \in Seq(Nat)
        OBVIOUS
    <2> QED BY <1>1, <2>1 DEF Init, EndingType, ReaderType
<1>7. heard \in HeardType /\ books \in BooksType
    BY <1>1 DEF Init, HeardType, BooksType, Unheard
<1> QED BY <1>1, <1>3, <1>4, <1>5, <1>6, <1>7 DEF Init, LogShape

\* What the history of the failures becomes.
LEMMA HeedsType ==
    ASSUME LogShape, Heeds
    PROVE  heard' \in HeardType
<1>1. heard \in HeardType /\ clock \in Stamp
    BY DEF LogShape, Stamp
<1>2. ASSUME NEW k \in Failure, Hear(k, Allow(k)) PROVE heard' \in HeardType
    <2> DEFINE new == [failed |-> clock, tried |-> IF Allow(k).ok THEN clock ELSE heard[k].tried]
    <2>1. heard' = [heard EXCEPT ![k] = new]
        BY <1>2 DEF Hear
    <2>2. heard[k].tried \in Stamp
        BY <1>1 DEF HeardType
    <2>3. new \in [failed : Stamp, tried : Stamp]
        BY <1>1, <2>2
    <2> HIDE DEF new
    <2> QED BY <1>1, <2>1, <2>3 DEF HeardType
<1> QED BY <1>1, <1>2 DEF Heeds

LEMMA HostShape ==
    ASSUME LogShape, ThreadsHold, NEW t \in Thread, HostReports(t)
    PROVE  LogShape' /\ ThreadsHold'
<1>1. PICK records : Reports(records)
    BY HostReportsIs
<1>2. heard' \in HeardType
    BY HostReportsIs, HeedsType
<1>3. Reporter \in Thread
    BY ReporterIsAThread
<1>4. /\ Writable(Reporter, records) /\ Logs(Reporter, records) /\ lock' = lock /\ thread[Reporter].at = "idle"
      /\ logger' \in LoggerType /\ books' \in BooksType /\ results' \in Nat
      /\ UNCHANGED <<role, file, lock, ending, reader, clock, acked, adrift, raced, written, faults>>
    BY <1>1 DEF Reports
<1>5. thread' \in [Thread -> ThreadType] /\ ThreadsHold'
    BY <1>3, <1>4, LogsHold
<1> QED BY <1>2, <1>4, <1>5 DEF LogShape

\* A record of the control center.
PlainRecords(t) == Record(t)

LEMMA PlainRecordsIs ==
    ASSUME LogShape, NEW t \in Thread, PlainRecords(t)
    PROVE  /\ thread[t].at = "idle" /\ Logs(t, <<Plain>>) /\ Writable(t, <<Plain>>) /\ Owed(<<Plain>>) = 0
           /\ results' \in Nat
           /\ UNCHANGED <<role, file, lock, logger, ending, reader, clock, acked, adrift, raced, books, heard, written, faults>>
<1>1. thread[t].at = "idle" /\ Logs(t, <<Plain>>)
    BY DEF PlainRecords, Record
<1>2. results' \in Nat
    BY LoggerFields DEF PlainRecords, Record
<1>3. <<Plain>> \in Seq(RecordType) /\ Len(<<Plain>>) = 1 /\ <<Plain>>[1].amount = 0
    BY RecordTypes
<1>4. Writable(t, <<Plain>>) /\ Owed(<<Plain>>) = 0
    <2> DEFINE r == <<Plain>>
    <2>1. r \in Seq(RecordType) /\ Len(r) = 1 /\ r[1].amount = 0
        BY <1>3
    <2> HIDE DEF r
    <2>2. Owed(r) = 0 /\ Writable(t, r)
        BY <2>1, OwedFew DEF Writable
    <2> QED BY <2>2 DEF r
<1> QED BY <1>1, <1>2, <1>4 DEF PlainRecords, Record

LEMMA PlainShape ==
    ASSUME LogShape, ThreadsHold, NEW t \in Thread, PlainRecords(t)
    PROVE  LogShape' /\ ThreadsHold'
<1>1. /\ thread[t].at = "idle" /\ Logs(t, <<Plain>>) /\ Writable(t, <<Plain>>) /\ results' \in Nat
      /\ UNCHANGED <<role, file, lock, logger, ending, reader, clock, acked, adrift, raced, books, heard, written, faults>>
    BY PlainRecordsIs
<1>2. thread' \in [Thread -> ThreadType] /\ ThreadsHold'
    BY <1>1, LogsHold
<1> QED BY <1>1, <1>2 DEF LogShape

\* A step of one thread that leaves its records alone.
LEMMA StepHolds ==
    ASSUME LogShape, ThreadsHold, NEW t \in Thread, thread[t].at # "idle",
           NEW at \in {"remove", "rename", "write"}, NEW turn \in 0 .. Backups,
           at \in {"remove", "rename"} => turn \in 1 .. Backups,
           lock' = t, lock \in {t, Nobody},
           thread' = [thread EXCEPT ![t] = [thread[t] EXCEPT !.at = at, !.turn = turn]]
    PROVE  /\ thread' \in [Thread -> ThreadType] /\ ThreadsHold'
           /\ \A u \in Thread : thread'[u].todo = thread[u].todo /\ (u # t => thread'[u] = thread[u])
           /\ thread'[t].at = at /\ thread'[t].turn = turn
<1> DEFINE new == [thread[t] EXCEPT !.at = at, !.turn = turn]
<1>1. thread \in [Thread -> ThreadType] /\ thread[t] \in ThreadType
    BY DEF LogShape
<1>2. new \in ThreadType /\ new.at = at /\ new.turn = turn /\ new.todo = thread[t].todo
    BY <1>1 DEF ThreadType, Positions5
<1> HIDE DEF new
<1>3. thread' = [thread EXCEPT ![t] = new]
    BY DEF new
<1>4. thread' \in [Thread -> ThreadType] /\ thread'[t] = new /\ \A u \in Thread : u # t => thread'[u] = thread[u]
    BY <1>1, <1>2, <1>3
<1>5. \A u \in Thread : ThreadHolds(u)
    BY DEF ThreadsHold
<1>6. ASSUME NEW u \in Thread PROVE ThreadHolds(u)'
    <2>1. CASE u = t
        <3>1. Writable(t, thread[t].todo) /\ thread[t].todo # <<>>
            BY <1>5 DEF ThreadHolds
        <3>2. /\ thread'[t].todo = thread[t].todo /\ thread'[t].at = at /\ thread'[t].turn = turn
              /\ at # "idle"
            BY <1>2, <1>4
        <3> QED BY <2>1, <3>1, <3>2 DEF ThreadHolds, Writable, Reporter
    <2>2. CASE u # t
        <3>1. ThreadHolds(u) /\ thread'[u] = thread[u]
            BY <1>4, <1>5, <2>2
        <3>2. lock # u
            BY <2>2, ThreadsAssumption
        <3> QED BY <3>1, <3>2 DEF ThreadHolds, Writable, Reporter
    <2> QED BY <2>1, <2>2
<1> QED BY <1>2, <1>4, <1>6 DEF ThreadsHold

LEMMA EnterIs ==
    ASSUME LogShape, ThreadsHold, NEW t \in Thread, Enter(t)
    PROVE  /\ LogShape' /\ ThreadsHold'
           /\ \A u \in Thread : thread'[u].todo = thread[u].todo /\ (u # t => thread'[u] = thread[u])
           /\ thread'[t].at = (IF Fits(file[0]) THEN "write" ELSE "remove")
           /\ thread'[t].turn = (IF Fits(file[0]) THEN 0 ELSE 1)
<1> DEFINE at == IF Fits(file[0]) THEN "write" ELSE "remove"
           turn == IF Fits(file[0]) THEN 0 ELSE 1
<1>1. /\ thread[t].at # "idle" /\ lock' = t /\ lock = Nobody
      /\ UNCHANGED <<role, file, ending, reader, clock, acked, adrift, raced, logger, books, heard, results, written, faults>>
    BY DEF Enter, host
<1>2. thread' = [thread EXCEPT ![t].at = at, ![t].turn = turn]
    BY DEF Enter
<1>3. at \in {"remove", "rename", "write"} /\ turn \in 0 .. Backups /\ (at \in {"remove", "rename"} => turn \in 1 .. Backups)
    BY LogNumbers
<1> HIDE DEF at, turn
<1>4. thread \in [Thread -> ThreadType]
    BY DEF LogShape
<1>5. thread' = [thread EXCEPT ![t] = [thread[t] EXCEPT !.at = at, !.turn = turn]]
    BY <1>2, <1>4
<1>6. /\ thread' \in [Thread -> ThreadType] /\ ThreadsHold'
      /\ \A u \in Thread : thread'[u].todo = thread[u].todo /\ (u # t => thread'[u] = thread[u])
      /\ thread'[t].at = at /\ thread'[t].turn = turn
    BY <1>1, <1>3, <1>5, StepHolds
<1>7. LogShape'
    BY <1>1, <1>6 DEF LogShape
<1> QED BY <1>6, <1>7 DEF at, turn

\* The slots of a rotation.
LEMMA ReplacedIs ==
    ASSUME NEW i \in 1 .. Backups
    PROVE  /\ Replaced(i) \in 1 .. Backups /\ Replaced(i) \in Slots /\ Replaced(i) - 1 \in Slots
           /\ Replaced(1) = Backups /\ Replaced(Backups) = 1 /\ Replaced(i + 1) = Replaced(i) - 1
BY LogNumbers DEF Replaced, Slots

\* The file that the session's end has open, after a step of a rotation.
LEMMA FollowsType ==
    ASSUME LogShape, NEW s, NEW moved \in 0 .. Backups + 1, Follows(s, moved)
    PROVE  ending' \in EndingType
<1>1. ending \in EndingType
    BY DEF LogShape
<1>2. ending' = ending \/ ending' = [ending EXCEPT !.slot = moved]
    BY DEF Follows
<1> QED BY <1>1, <1>2 DEF EndingType

LEMMA RemoveIs ==
    ASSUME LogShape, ThreadsHold, NEW t \in Thread, Remove(t)
    PROVE  /\ LogShape' /\ ThreadsHold'
           /\ \A u \in Thread : thread'[u].todo = thread[u].todo /\ (u # t => thread'[u] = thread[u])
           /\ thread[t].turn \in 1 .. Backups
           /\ thread'[t].at = "rename" /\ thread'[t].turn = thread[t].turn
<1>1. /\ thread[t].at = "remove" /\ thread' = [thread EXCEPT ![t].at = "rename"]
      /\ file' = [file EXCEPT ![Replaced(thread[t].turn)] = <<>>]
      /\ Follows(Replaced(thread[t].turn), Backups + 1)
      /\ UNCHANGED <<role, lock, reader, clock, acked, adrift, raced, logger, books, heard, results, written, faults>>
    BY DEF Remove, host
<1>2. ThreadHolds(t) /\ thread \in [Thread -> ThreadType] /\ file \in [Slots -> Seq(LineType)]
    BY DEF ThreadsHold, LogShape
<1>3. lock = t /\ lock' = t /\ thread[t].turn \in 1 .. Backups
    BY <1>1, <1>2 DEF ThreadHolds
<1> DEFINE turn == thread[t].turn
<1>4. thread' = [thread EXCEPT ![t] = [thread[t] EXCEPT !.at = "rename", !.turn = turn]]
    BY <1>1, <1>2 DEF ThreadType
<1>5. turn \in 0 .. Backups
    BY <1>3
<1> HIDE DEF turn
<1>6. /\ thread' \in [Thread -> ThreadType] /\ ThreadsHold'
      /\ \A u \in Thread : thread'[u].todo = thread[u].todo /\ (u # t => thread'[u] = thread[u])
      /\ thread'[t].at = "rename" /\ thread'[t].turn = turn
    <2>1. turn \in 1 .. Backups
        BY <1>3 DEF turn
    <2> QED BY <1>1, <1>3, <1>4, <1>5, <2>1, StepHolds
<1>7. file' \in [Slots -> Seq(LineType)]
    <2>1. <<>> \in Seq(LineType)
        OBVIOUS
    <2> QED BY <1>1, <1>2, <2>1
<1>8. ending' \in EndingType
    BY <1>1, FollowsType, LogNumbers
<1>9. LogShape'
    BY <1>1, <1>6, <1>7, <1>8 DEF LogShape
<1> QED BY <1>3, <1>6, <1>9 DEF turn

LEMMA RenameIs ==
    ASSUME LogShape, ThreadsHold, NEW t \in Thread, Rename(t)
    PROVE  /\ LogShape' /\ ThreadsHold'
           /\ \A u \in Thread : thread'[u].todo = thread[u].todo /\ (u # t => thread'[u] = thread[u])
           /\ thread[t].turn \in 1 .. Backups
           /\ thread[t].turn < Backups => thread'[t].at = "remove" /\ thread'[t].turn = thread[t].turn + 1
           /\ thread[t].turn = Backups => thread'[t].at = "write"
<1> DEFINE turn == thread[t].turn
           s == Replaced(turn)
<1>1. /\ thread[t].at = "rename"
      /\ thread' = IF turn < Backups
                   THEN [thread EXCEPT ![t].turn = @ + 1, ![t].at = "remove"]
                   ELSE [thread EXCEPT ![t].at = "write"]
      /\ file' = [file EXCEPT ![s] = file[s - 1], ![s - 1] = <<>>]
      /\ Follows(s - 1, s)
      /\ UNCHANGED <<role, lock, reader, clock, acked, adrift, raced, logger, books, heard, results, written, faults>>
    BY DEF Rename, host
<1>2. ThreadHolds(t) /\ thread \in [Thread -> ThreadType] /\ file \in [Slots -> Seq(LineType)]
    BY DEF ThreadsHold, LogShape
<1>3. lock = t /\ lock' = t /\ turn \in 1 .. Backups
    BY <1>1, <1>2 DEF ThreadHolds
<1>4. s \in 1 .. Backups /\ s \in Slots /\ s - 1 \in Slots
    BY <1>3, ReplacedIs
<1>5. file' \in [Slots -> Seq(LineType)]
    <2>1. <<>> \in Seq(LineType)
        OBVIOUS
    <2> HIDE DEF s
    <2> QED BY <1>1, <1>2, <1>4, <2>1
<1>6. ending' \in EndingType
    <2>1. s \in 0 .. Backups + 1
        BY <1>4, LogNumbers
    <2> HIDE DEF s
    <2> QED BY <1>1, <2>1, FollowsType
<1> DEFINE at == IF turn < Backups THEN "remove" ELSE "write"
           next == IF turn < Backups THEN turn + 1 ELSE turn
<1>7. at \in {"remove", "rename", "write"} /\ next \in 1 .. Backups /\ next \in 0 .. Backups
    BY <1>3, LogNumbers
<1>8. thread' = [thread EXCEPT ![t] = [thread[t] EXCEPT !.at = at, !.turn = next]]
    <2>1. CASE turn < Backups
        BY <1>1, <1>2, <2>1 DEF ThreadType
    <2>2. CASE ~(turn < Backups)
        BY <1>1, <1>2, <2>2 DEF ThreadType
    <2> QED BY <2>1, <2>2
<1>9. turn = Backups => ~(turn < Backups)
    BY LogNumbers
<1>10. /\ turn < Backups => at = "remove" /\ next = turn + 1
       /\ turn = Backups => at = "write"
    BY <1>9
<1> HIDE DEF at, next
<1>11. /\ thread' \in [Thread -> ThreadType] /\ ThreadsHold'
       /\ \A u \in Thread : thread'[u].todo = thread[u].todo /\ (u # t => thread'[u] = thread[u])
       /\ thread'[t].at = at /\ thread'[t].turn = next
    <2>1. thread[t].at # "idle" /\ lock \in {t, Nobody} /\ lock' = t
        BY <1>1, <1>3
    <2> HIDE DEF turn, s
    <2> QED BY <1>7, <1>8, <2>1, StepHolds
<1>12. LogShape'
    BY <1>1, <1>5, <1>6, <1>11 DEF LogShape
<1> QED BY <1>3, <1>10, <1>11, <1>12

\* A record is written or lost; what is left is what the others stand for.
LEMMA TailOwed ==
    ASSUME NEW t, NEW todo, Writable(t, todo), todo # <<>>
    PROVE  /\ Writable(t, Tail(todo)) /\ Head(todo) \in RecordType /\ Head(todo).amount \in Nat
           /\ Owed(todo) = Head(todo).amount + Owed(Tail(todo))
           /\ t # Reporter => Head(todo).amount = 0
<1>1. /\ todo \in Seq(RecordType) /\ Len(todo) \in {1, 2} /\ Len(Tail(todo)) = Len(todo) - 1 /\ Tail(todo) \in Seq(RecordType)
      /\ Head(todo) = todo[1] /\ todo[1] \in RecordType
    <2>1. todo \in Seq(RecordType) /\ Len(todo) <= 2
        BY DEF Writable
    <2>2. Len(todo) \in Nat /\ Len(todo) # 0
        BY <2>1
    <2>3. Len(todo) \in {1, 2} /\ 1 \in 1 .. Len(todo)
        <3>1. \A n \in Nat : n # 0 /\ n <= 2 => n \in {1, 2} /\ 1 \in 1 .. n
            OBVIOUS
        <3> QED BY <2>1, <2>2, <3>1
    <2>4. Len(Tail(todo)) = Len(todo) - 1 /\ Tail(todo) \in Seq(RecordType)
        BY <2>1
    <2> QED BY <2>1, <2>3, <2>4
<1>2. Head(todo).amount \in Nat /\ (t # Reporter => Head(todo).amount = 0)
    BY <1>1 DEF RecordType, Writable
<1>3. CASE Len(todo) = 1
    <2>0. Len(Tail(todo)) = 0 /\ Tail(todo) \in Seq(RecordType)
        BY <1>1, <1>3
    <2>1. Tail(todo) = <<>> /\ Len(Tail(todo)) = 0
        <3>1. \A tail \in Seq(RecordType) : Len(tail) = 0 => tail = <<>>
            OBVIOUS
        <3> QED BY <2>0, <3>1
    <2>2. Writable(t, Tail(todo))
        BY <1>1, <2>1 DEF Writable
    <2>3. Owed(todo) = todo[1].amount /\ Owed(Tail(todo)) = 0
        BY <1>1, <1>3, <2>1, OwedFew
    <2> QED BY <1>1, <1>2, <2>2, <2>3
<1>4. CASE Len(todo) = 2
    <2>1. Len(Tail(todo)) = 1 /\ Tail(todo)[1] = todo[2] /\ todo[2].amount = 0
        BY <1>1, <1>4 DEF Writable
    <2>2. Writable(t, Tail(todo))
        BY <1>1, <2>1 DEF Writable
    <2>3. Owed(todo) = todo[1].amount + todo[2].amount /\ Owed(Tail(todo)) = Tail(todo)[1].amount
        BY <1>1, <1>4, <2>1, OwedFew
    <2> QED BY <1>1, <1>2, <2>1, <2>2, <2>3
<1> QED BY <1>1, <1>3, <1>4

\* A line is appended to the log.
LEMMA AppendedType ==
    ASSUME LogShape, NEW s \in Slots, NEW line \in LineType, file' = [file EXCEPT ![s] = Append(file[s], line)]
    PROVE  file' \in [Slots -> Seq(LineType)]
<1>1. file \in [Slots -> Seq(LineType)]
    BY DEF LogShape
<1>2. Append(file[s], line) \in Seq(LineType)
    BY <1>1
<1> QED BY <1>1, <1>2

\* The lock is left with the next record to write, or none.
LEMMA LeaveIs ==
    ASSUME LogShape, ThreadsHold, NEW t \in Thread, thread[t].at \in {"remove", "rename", "write"}, Leave(t)
    PROVE  /\ thread' \in [Thread -> ThreadType] /\ ThreadsHold' /\ lock' = Nobody /\ lock = t
           /\ \A u \in Thread : u # t => thread'[u] = thread[u]
           /\ thread'[t].at \in {"idle", "ready"} /\ thread'[t].todo = Tail(thread[t].todo)
           /\ Head(thread[t].todo).amount \in Nat
           /\ Owed(thread[t].todo) = Head(thread[t].todo).amount + Owed(thread'[t].todo)
           /\ t # Reporter => Head(thread[t].todo).amount = 0
<1>1. ThreadHolds(t)
    BY DEF ThreadsHold
<1>2. lock = t /\ Writable(t, thread[t].todo) /\ thread[t].todo # <<>>
    BY <1>1 DEF ThreadHolds
<1> DEFINE rest == Tail(thread[t].todo)
<1>3. /\ Writable(t, rest) /\ Head(thread[t].todo).amount \in Nat
      /\ Owed(thread[t].todo) = Head(thread[t].todo).amount + Owed(rest)
      /\ t # Reporter => Head(thread[t].todo).amount = 0
    BY <1>2, TailOwed
<1>4. lock' = Nobody /\ Logs(t, rest)
    BY DEF Leave
<1> HIDE DEF rest
<1>5. /\ thread' \in [Thread -> ThreadType] /\ ThreadsHold'
      /\ \A u \in Thread : u # t => thread'[u] = thread[u]
      /\ thread'[t].todo = rest /\ thread'[t].at \in {"idle", "ready"}
    BY <1>2, <1>3, <1>4, LogsHold
<1> QED BY <1>2, <1>3, <1>4, <1>5 DEF rest

\* The books after a record was written, and after one was lost.
LEMMA BooksWritten ==
    ASSUME LogShape, NEW a \in Nat
    PROVE  /\ \A b : b = [books EXCEPT !.reported = @ + a] =>
                /\ b \in BooksType /\ b.seen = books.seen /\ b.reported = books.reported + a /\ b.lost = books.lost
           /\ \A b : b = [books EXCEPT !.lost = @ + a] =>
                /\ b \in BooksType /\ b.seen = books.seen /\ b.reported = books.reported /\ b.lost = books.lost + a
<1>1. books \in BooksType
    BY DEF LogShape
<1> QED BY <1>1 DEF BooksType

LEMMA WriteIs ==
    ASSUME LogShape, ThreadsHold, NEW t \in Thread, Write(t)
    PROVE  LogShape' /\ ThreadsHold'
<1>1. /\ thread[t].at = "write" /\ written < MaxRecords /\ Leave(t)
      /\ file' = [file EXCEPT ![0] = Append(file[0], Terminated(written + 1))]
      /\ written' = written + 1 /\ acked' = acked \cup {written + 1}
      /\ books' = [books EXCEPT !.reported = @ + Head(thread[t].todo).amount]
      /\ UNCHANGED <<role, logger, ending, reader, clock, adrift, raced, heard, results, faults>>
    BY DEF Write
<1>2. thread' \in [Thread -> ThreadType] /\ ThreadsHold' /\ lock' = Nobody /\ Head(thread[t].todo).amount \in Nat
    BY <1>1, LeaveIs
<1>3. books' \in BooksType
    BY <1>1, <1>2, BooksWritten
<1>4. written' \in 0 .. MaxRecords /\ written + 1 \in Nat
    <2>1. written \in 0 .. MaxRecords /\ MaxRecords \in Nat
        BY LogNumbers DEF LogShape
    <2> QED BY <1>1, <2>1
<1>5. Terminated(written + 1) \in LineType /\ 0 \in Slots
    BY <1>4, LogNumbers DEF Terminated, Line, LineType, Slots
<1>6. file' \in [Slots -> Seq(LineType)]
    BY <1>1, <1>5, AppendedType
<1> QED BY <1>1, <1>2, <1>3, <1>4, <1>6 DEF LogShape

LEMMA CutOffIs ==
    ASSUME LogShape, CutOff
    PROVE  file' \in [Slots -> Seq(LineType)] /\ written' \in 0 .. MaxRecords
<1>1. written' \in 0 .. MaxRecords /\ written + 1 \in Nat
    BY LogNumbers DEF LogShape, CutOff
<1>2. Line(written + 1, FALSE, FALSE) \in LineType /\ 0 \in Slots
    BY <1>1, LogNumbers DEF Line, LineType, Slots
<1>3. file' \in [Slots -> Seq(LineType)]
    BY <1>2, AppendedType DEF CutOff
<1> QED BY <1>1, <1>3

LEMMA FailsIs ==
    ASSUME LogShape, ThreadsHold, NEW t \in Thread, Fails(t)
    PROVE  LogShape' /\ ThreadsHold'
<1>1. /\ thread[t].at \in {"remove", "rename", "write"} /\ Leave(t) /\ faults' = faults + 1
      /\ (UNCHANGED <<file, written>>) \/ CutOff
      /\ books' = [books EXCEPT !.lost = @ + Head(thread[t].todo).amount]
      /\ UNCHANGED <<role, logger, ending, reader, clock, acked, adrift, raced, heard, results>>
    BY DEF Fails, Fault
<1>2. thread' \in [Thread -> ThreadType] /\ ThreadsHold' /\ lock' = Nobody /\ Head(thread[t].todo).amount \in Nat
    BY <1>1, LeaveIs
<1>3. books' \in BooksType
    BY <1>1, <1>2, BooksWritten
<1>4. file' \in [Slots -> Seq(LineType)] /\ written' \in 0 .. MaxRecords
    BY <1>1, CutOffIs DEF LogShape
<1>5. faults' \in Nat
    BY <1>1 DEF LogShape
<1> QED BY <1>1, <1>2, <1>3, <1>4, <1>5 DEF LogShape

\* The threads after a step that does not concern them.
LEMMA ThreadsUnchanged ==
    ASSUME ThreadsHold, UNCHANGED <<thread, lock>>
    PROVE  ThreadsHold'
BY DEF ThreadsHold, ThreadHolds, Writable, Reporter

LEMMA OpenEndingIs ==
    ASSUME LogShape, ThreadsHold, OpenEnding
    PROVE  LogShape' /\ ThreadsHold'
<1>1. /\ ending' = [at |-> "open", slot |-> 0, bytes |-> Bytes(file[0])]
      /\ UNCHANGED <<role, file, thread, lock, reader, clock, acked, adrift, raced, logger, books, heard, results, written, faults>>
    BY DEF OpenEnding, host
<1>2. file[0] \in Seq(LineType) /\ Backups \in Nat
    BY LogNumbers DEF LogShape, Slots
<1>3. Bytes(file[0]) \in Nat
    BY <1>2, BytesType
<1>4. ending' \in EndingType
    BY <1>1, <1>2, <1>3 DEF EndingType
<1> QED BY <1>1, <1>4, ThreadsUnchanged DEF LogShape

\* What the end of the session writes is a line, and a line cut off is the shorter.
LEMMA EndingLinesAre ==
    ASSUME NEW n \in Nat
    PROVE  /\ EndingLine(n) \in LineType /\ EndingLine(n).n = n /\ EndingLine(n).whole
           /\ Line(n, FALSE, FALSE) \in LineType /\ Line(n, FALSE, FALSE).n = n
           /\ Width(EndingLine(1)) \in Nat /\ Width(EndingLine(n)) = Width(EndingLine(1))
           /\ Width(Line(n, FALSE, FALSE)) \in Nat /\ Width(Line(n, FALSE, FALSE)) <= Width(EndingLine(1))
<1>1. EndingLine(n) \in LineType /\ EndingLine(n).n = n /\ EndingLine(n).whole
    BY DEF EndingLine, Line, LineType
<1>2. Line(n, FALSE, FALSE) \in LineType /\ Line(n, FALSE, FALSE).n = n
    BY DEF Line, LineType
<1>3. Width(Line(n, FALSE, FALSE)) = 1
    BY DEF Line, Width
<1>4. ASSUME NEW m \in Nat PROVE Width(EndingLine(m)) = IF ending.bytes # 0 THEN 3 ELSE 2
    <2> DEFINE line == EndingLine(m)
    <2>1. line.whole /\ (ending.bytes # 0 => line.own) /\ (ending.bytes = 0 => ~line.own)
        BY DEF EndingLine, Line
    <2> HIDE DEF line
    <2>2. CASE ending.bytes # 0
        <3>1. Width(line) = Whole + 1
            BY <2>1, <2>2 DEF Width
        <3> QED BY <2>2, <3>1 DEF Whole, line
    <2>3. CASE ending.bytes = 0
        <3>1. Width(line) = Whole
            BY <2>1, <2>3 DEF Width
        <3> QED BY <2>3, <3>1 DEF Whole, line
    <2> QED BY <2>2, <2>3
<1>5. Width(EndingLine(1)) \in {2, 3} /\ Width(EndingLine(n)) = Width(EndingLine(1))
    BY <1>4
<1> DEFINE w == Width(EndingLine(1))
           v == Width(EndingLine(n))
           c == Width(Line(n, FALSE, FALSE))
<1>6. c = 1 /\ w \in {2, 3} /\ v = w
    BY <1>3, <1>5
<1> HIDE DEF w, v, c
<1>7. w \in Nat /\ v = w /\ c \in Nat /\ c <= w
    BY <1>6
<1> QED BY <1>1, <1>2, <1>7 DEF w, v, c

\* The end of the session is written, or its record is lost or cut off.
EndsSession == WriteEnding \/ EndingFails
EndingLines == {EndingLine(written + 1), Line(written + 1, FALSE, FALSE)}

LEMMA EndsSessionIs ==
    ASSUME EndsSession
    PROVE  /\ ending.at = "open" /\ ending' = [ending EXCEPT !.at = "done"] /\ faults' \in {faults, faults + 1}
           /\ \/ UNCHANGED <<file, written, acked, adrift, raced>>
              \/ /\ EndingFits /\ written < MaxRecords /\ acked' \in {acked, acked \cup {written + 1}}
                 /\ \E line \in EndingLines : EndsWith(line)
           /\ UNCHANGED <<role, thread, lock, reader, clock, logger, books, heard, results>>
<1>1. CASE WriteEnding
    BY <1>1 DEF WriteEnding, host, EndingLines
<1>2. CASE EndingFails
    BY <1>2 DEF EndingFails, Fault, host, EndingLines
<1> QED BY <1>1, <1>2 DEF EndsSession

LEMMA EndsSessionShape ==
    ASSUME LogShape, ThreadsHold, EndsSession
    PROVE  LogShape' /\ ThreadsHold'
<1>1. /\ ending' = [ending EXCEPT !.at = "done"] /\ faults' \in {faults, faults + 1}
      /\ UNCHANGED <<role, thread, lock, reader, clock, logger, books, heard, results>>
    BY EndsSessionIs
<1>2. ending \in EndingType /\ faults \in Nat
    BY DEF LogShape
<1>3. ending' \in EndingType /\ faults' \in Nat
    BY <1>1, <1>2 DEF EndingType
<1>4. ASSUME NEW line \in EndingLines, EndsWith(line), written < MaxRecords,
             acked' \in {acked, acked \cup {written + 1}}
      PROVE  LogShape' /\ ThreadsHold'
    <2>1. written + 1 \in 0 .. MaxRecords /\ written + 1 \in Nat
        <3>1. written \in 0 .. MaxRecords /\ MaxRecords \in Nat
            BY LogNumbers DEF LogShape
        <3> QED BY <1>4, <3>1
    <2>2. line \in LineType
        BY <2>1, EndingLinesAre DEF EndingLines
    <2>3. /\ written' = written + 1
          /\ file' = IF ending.slot \in Slots
                     THEN [file EXCEPT ![ending.slot] = Append(file[ending.slot], line)] ELSE file
          /\ adrift' = IF ending.slot = 0 THEN adrift ELSE adrift \cup {written + 1}
          /\ raced' \in BOOLEAN
        BY <1>4 DEF EndsWith
    <2>4. file' \in [Slots -> Seq(LineType)]
        <3>1. CASE ending.slot \in Slots
            BY <2>2, <2>3, <3>1, AppendedType
        <3>2. CASE ending.slot \notin Slots
            BY <2>3, <3>2 DEF LogShape
        <3> QED BY <3>1, <3>2
    <2>5. acked' \in SUBSET Nat /\ adrift' \in SUBSET Nat
        BY <1>4, <2>1, <2>3 DEF LogShape
    <2> QED BY <1>1, <1>3, <2>1, <2>3, <2>4, <2>5, ThreadsUnchanged DEF LogShape
<1>5. CASE UNCHANGED <<file, written, acked, adrift, raced>>
    BY <1>1, <1>3, <1>5, ThreadsUnchanged DEF LogShape
<1> QED BY <1>4, <1>5, EndsSessionIs

-----------------------------------------------------------------------------
(* What a reader takes from a file.                                        *)

\* The recursion of Shown, up to line n.
Picks(lines, n, g) ==
    g = [i \in 0 .. n |-> IF i = 0 THEN <<>>
                          ELSE IF Readable(lines, i) THEN Append(g[i - 1], lines[i].n) ELSE g[i - 1]]

\* Only numbers of lines are taken, and each once when they differ.
Taken(lines, n, got) ==
    /\ got \in Seq(Nat)
    /\ \A j \in 1 .. Len(got) : \E i \in 1 .. n : got[j] = lines[i].n
    /\ (\A i, j \in 1 .. n : lines[i].n = lines[j].n => i = j)
         => \A i, j \in 1 .. Len(got) : got[i] = got[j] => i = j

LEMMA TakenNext ==
    ASSUME NEW lines \in Seq(LineType), NEW n \in Nat, n + 1 \in 1 .. Len(lines), NEW got, Taken(lines, n, got)
    PROVE  Taken(lines, n + 1, got) /\ Taken(lines, n + 1, Append(got, lines[n + 1].n))
<1>1. lines[n + 1] \in LineType
    OBVIOUS
<1>2. lines[n + 1].n \in Nat
    BY <1>1 DEF LineType
<1> DEFINE x == lines[n + 1].n
           more == Append(got, x)
<1>3. /\ got \in Seq(Nat) /\ Len(got) \in Nat
      /\ \A j \in 1 .. Len(got) : \E i \in 1 .. n : got[j] = lines[i].n
    BY DEF Taken
<1>0. \A i \in 1 .. n : i \in 1 .. n + 1
    OBVIOUS
<1>4. Taken(lines, n + 1, got)
    <2>1. \A j \in 1 .. Len(got) : \E i \in 1 .. n + 1 : got[j] = lines[i].n
        <3> TAKE j \in 1 .. Len(got)
        <3>1. PICK i \in 1 .. n : got[j] = lines[i].n
            BY <1>3
        <3> QED BY <1>0, <3>1
    <2>2. (\A i, j \in 1 .. n + 1 : lines[i].n = lines[j].n => i = j)
          => \A i, j \in 1 .. Len(got) : got[i] = got[j] => i = j
        <3> HAVE \A i, j \in 1 .. n + 1 : lines[i].n = lines[j].n => i = j
        <3>1. \A i, j \in 1 .. n : lines[i].n = lines[j].n => i = j
            BY <1>0
        <3> QED BY <3>1 DEF Taken
    <2> QED BY <1>3, <2>1, <2>2 DEF Taken
<1>5. more \in Seq(Nat) /\ Len(more) = Len(got) + 1 /\ more[Len(got) + 1] = x /\ \A j \in 1 .. Len(got) : more[j] = got[j]
    BY <1>2, <1>3
<1> HIDE DEF more
<1>6. \A j \in 1 .. Len(more) : \E i \in 1 .. n + 1 : more[j] = lines[i].n
    <2> TAKE j \in 1 .. Len(more)
    <2>1. CASE j = Len(got) + 1
        BY <1>5, <2>1
    <2>2. CASE j # Len(got) + 1
        <3>1. j \in 1 .. Len(got)
            BY <1>3, <1>5, <2>2
        <3>2. PICK i \in 1 .. n : got[j] = lines[i].n
            BY <1>3, <3>1
        <3>3. i \in 1 .. n + 1 /\ more[j] = lines[i].n
            BY <1>0, <1>5, <3>1, <3>2
        <3> QED BY <3>3
    <2> QED BY <2>1, <2>2
<1>7. ASSUME \A i, j \in 1 .. n + 1 : lines[i].n = lines[j].n => i = j,
             NEW i \in 1 .. Len(more), NEW j \in 1 .. Len(more), more[i] = more[j]
      PROVE  i = j
    <2>1. \A k \in 1 .. Len(got) : got[k] # x
        <3> TAKE k \in 1 .. Len(got)
        <3>1. PICK l \in 1 .. n : got[k] = lines[l].n
            BY <1>3
        <3>2. l \in 1 .. n + 1 /\ n + 1 \in 1 .. n + 1 /\ l # n + 1
            OBVIOUS
        <3> QED BY <1>7, <3>1, <3>2
    <2>2. \A k, l \in 1 .. Len(got) : got[k] = got[l] => k = l
        <3>1. \A k, l \in 1 .. n + 1 : lines[k].n = lines[l].n => k = l
            BY <1>7
        <3> QED BY <1>4, <3>1 DEF Taken
    <2>3. i \in 1 .. Len(got) \/ i = Len(got) + 1
        BY <1>3, <1>5
    <2>4. j \in 1 .. Len(got) \/ j = Len(got) + 1
        BY <1>3, <1>5
    <2> QED BY <1>5, <1>7, <2>1, <2>2, <2>3, <2>4
<1>8. Taken(lines, n + 1, more)
    BY <1>5, <1>6, <1>7 DEF Taken
<1> QED BY <1>4, <1>8 DEF more

LEMMA PicksExist ==
    ASSUME NEW lines \in Seq(LineType)
    PROVE  \E g : Picks(lines, Len(lines), g)
<1> DEFINE n == Len(lines)
<1>0. n \in Nat
    OBVIOUS
<1> HIDE DEF n
<1> DEFINE S == {m \in Nat : m <= n => \E g : Picks(lines, m, g)}
<1>1. 0 \in S
    <2> DEFINE g == [i \in 0 .. 0 |-> <<>>]
    <2>1. Picks(lines, 0, g)
        BY DEF Picks
    <2> QED BY <2>1
<1>2. ASSUME NEW m \in Nat, m \in S PROVE m + 1 \in S
    <2> SUFFICES ASSUME m + 1 <= n PROVE \E h : Picks(lines, m + 1, h)
        OBVIOUS
    <2>1. m <= n
        BY <1>0
    <2>2. PICK g : Picks(lines, m, g)
        BY <1>2, <2>1
    <2> DEFINE last == IF Readable(lines, m + 1) THEN Append(g[m], lines[m + 1].n) ELSE g[m]
               h == [i \in 0 .. m + 1 |-> IF i <= m THEN g[i] ELSE last]
    <2>3. \A i \in 0 .. m : g[i] = IF i = 0 THEN <<>>
                                   ELSE IF Readable(lines, i) THEN Append(g[i - 1], lines[i].n) ELSE g[i - 1]
        BY <2>2 DEF Picks
    <2> HIDE DEF last
    <2>4. (\A i \in 0 .. m : h[i] = g[i]) /\ h[m + 1] = last
        OBVIOUS
    <2>5. h = [i \in 0 .. m + 1 |-> h[i]]
        OBVIOUS
    <2> HIDE DEF h
    <2>6. ASSUME NEW i \in 0 .. m + 1
          PROVE  h[i] = IF i = 0 THEN <<>>
                        ELSE IF Readable(lines, i) THEN Append(h[i - 1], lines[i].n) ELSE h[i - 1]
        <3>1. CASE i = 0
            BY <2>3, <2>4, <3>1
        <3>2. CASE i \in 1 .. m
            <4>1. h[i] = g[i] /\ h[i - 1] = g[i - 1] /\ i # 0 /\ i \in 0 .. m
                BY <2>4, <3>2
            <4>2. g[i] = IF Readable(lines, i) THEN Append(g[i - 1], lines[i].n) ELSE g[i - 1]
                BY <2>3, <4>1
            <4> QED BY <4>1, <4>2
        <3>3. CASE i = m + 1
            <4>1. i # 0 /\ i - 1 = m /\ h[m] = g[m] /\ h[i] = last
                BY <2>4, <3>3
            <4> QED BY <3>3, <4>1 DEF last
        <3> QED BY <3>1, <3>2, <3>3
    <2>7. Picks(lines, m + 1, h)
        BY <2>5, <2>6, Zenon DEF Picks
    <2> QED BY <2>7
<1> HIDE DEF S
<1>3. \A m \in Nat : m \in S
    BY <1>1, <1>2, SetInduction
<1>4. n \in S
    BY <1>0, <1>3
<1> QED BY <1>0, <1>4 DEF S, n

\* What a reader takes from a file are numbers of its lines, each once.
LEMMA ShownIs ==
    ASSUME NEW lines \in Seq(LineType)
    PROVE  Taken(lines, Len(lines), Shown(lines))
<1> DEFINE n == Len(lines)
<1>0. n \in Nat
    OBVIOUS
<1>1. CASE Bytes(lines) > MaxBytes
    <2>1. Shown(lines) = <<>>
        BY <1>1 DEF Shown
    <2>2. <<>> \in Seq(Nat) /\ 1 .. Len(<<>>) = {}
        OBVIOUS
    <2> HIDE DEF n
    <2> QED BY <2>1, <2>2 DEF Taken
<1>2. CASE ~(Bytes(lines) > MaxBytes)
    <2> DEFINE c == CHOOSE g : Picks(lines, n, g)
    <2>1. Shown(lines) = c[n]
        BY <1>2 DEF Shown, Picks
    <2>2. \E g : Picks(lines, n, g)
        BY PicksExist
    <2> HIDE DEF n
    <2>3. Picks(lines, n, c)
        BY <2>2, Zenon
    <2> HIDE DEF c
    <2>4. \A i \in 0 .. n : c[i] = IF i = 0 THEN <<>>
                                   ELSE IF Readable(lines, i) THEN Append(c[i - 1], lines[i].n) ELSE c[i - 1]
        BY <2>3 DEF Picks
    <2> DEFINE S == {m \in Nat : m <= n => Taken(lines, m, c[m])}
    <2>5. 0 \in S
        <3>1. c[0] = <<>>
            BY <1>0, <2>4
        <3>2. <<>> \in Seq(Nat) /\ 1 .. Len(<<>>) = {}
            OBVIOUS
        <3>3. Taken(lines, 0, c[0])
            BY <3>1, <3>2 DEF Taken
        <3> QED BY <3>3
    <2>6. ASSUME NEW m \in Nat, m \in S PROVE m + 1 \in S
        <3> SUFFICES ASSUME m + 1 <= n PROVE Taken(lines, m + 1, c[m + 1])
            OBVIOUS
        <3>1. Taken(lines, m, c[m])
            BY <1>0, <2>6
        <3>2. m + 1 \in 1 .. Len(lines)
            BY <1>0 DEF n
        <3>3. (m + 1) - 1 = m /\ m + 1 \in 0 .. n /\ m + 1 # 0
            BY <1>0
        <3>4. c[m + 1] = c[m] \/ c[m + 1] = Append(c[m], lines[m + 1].n)
            BY <2>4, <3>3
        <3> QED BY <3>1, <3>2, <3>4, TakenNext
    <2> HIDE DEF S
    <2>7. \A m \in Nat : m \in S
        BY <2>5, <2>6, SetInduction
    <2>8. Taken(lines, n, c[n])
        BY <1>0, <2>7 DEF S
    <2> QED BY <2>1, <2>8 DEF n
<1> QED BY <1>1, <1>2

-----------------------------------------------------------------------------
(* What the logger condenses.                                              *)

\* What is in hand is what the reporting thread has still to write.
LEMMA InHandIs ==
    ASSUME LogShape
    PROVE  InHand = Owed(thread[Reporter].todo) /\ InHand \in Nat
<1>1. thread[Reporter] \in ThreadType
    BY ReporterIsAThread DEF LogShape
<1>2. thread[Reporter].todo \in Seq(RecordType)
    BY <1>1 DEF ThreadType
<1>3. InHand = Pending(Reporter)
    BY DEF InHand, Reporter
<1> QED BY <1>2, <1>3, PendingIs, OwedFew

\* The process dies: nothing is left of its threads and of its logger.
LEMMA CrashIs ==
    ASSUME LogShape, Crash
    PROVE  /\ LogShape' /\ ThreadsHold' /\ \A t \in Thread : thread'[t].at = "idle" /\ thread'[t].todo = <<>>
           /\ lock' = Nobody /\ ending'.at = "no" /\ faults' = faults + 1
           /\ logger'.count = 0 /\ logger'.seen = [k \in Failure |-> Never] /\ heard' = [k \in Failure |-> Unheard]
           /\ books'.seen = books.seen /\ books'.reported = books.reported
           /\ books'.lost = books.lost + logger.count + InHand
<1>1. /\ (UNCHANGED <<file, written>>) \/ CutOff
      /\ thread' = [t \in Thread |-> Rest] /\ lock' = Nobody /\ faults' = faults + 1
      /\ logger' = [Empty EXCEPT !.since = clock]
      /\ heard' = [k \in Failure |-> Unheard]
      /\ books' = [books EXCEPT !.lost = @ + logger.count + InHand]
      /\ ending' = [at |-> "no", slot |-> 0, bytes |-> 0]
      /\ UNCHANGED <<role, reader, clock, acked, adrift, raced, results>>
    BY DEF Crash, Fault
<1>2. Backups \in Nat /\ clock \in 0 .. MaxTime /\ Never \in Stamp /\ faults \in Nat
    BY LogNumbers DEF Stamp, LogShape
<1>3. Rest \in ThreadType /\ Rest.todo = <<>> /\ Rest.at = "idle"
    <2>1. <<>> \in Seq(RecordType)
        OBVIOUS
    <2> QED BY <1>2, <2>1 DEF Rest, ThreadType, Positions5
<1>4. thread' \in [Thread -> ThreadType] /\ \A t \in Thread : thread'[t].at = "idle" /\ thread'[t].todo = <<>>
    BY <1>1, <1>3
<1>5. ThreadsHold'
    <2> SUFFICES ASSUME NEW t \in Thread PROVE ThreadHolds(t)'
        BY DEF ThreadsHold
    <2>1. thread'[t].todo = <<>> /\ thread'[t].at = "idle"
        BY <1>4
    <2>2. <<>> \in Seq(RecordType) /\ Len(<<>>) = 0
        OBVIOUS
    <2>3. Writable(t, thread[t].todo)'
        BY <2>1, <2>2 DEF Writable, Reporter
    <2> QED BY <2>1, <2>3 DEF ThreadHolds
<1>6. logger' \in LoggerType /\ logger'.count = 0 /\ logger'.seen = [k \in Failure |-> Never]
    BY <1>1, <1>2 DEF Empty, LoggerType, Healths
<1>7. heard' \in HeardType
    BY <1>1, <1>2 DEF HeardType, Unheard
<1>8. /\ books' \in BooksType /\ books'.seen = books.seen /\ books'.reported = books.reported
      /\ books'.lost = books.lost + logger.count + InHand
    <2>1. books \in BooksType /\ logger.count \in Nat /\ InHand \in Nat
        BY LoggerFields, InHandIs DEF LogShape
    <2> QED BY <1>1, <2>1 DEF BooksType
<1>9. ending' \in EndingType /\ ending'.at = "no"
    BY <1>1, <1>2 DEF EndingType
<1>10. file' \in [Slots -> Seq(LineType)] /\ written' \in 0 .. MaxRecords
    BY <1>1, CutOffIs DEF LogShape
<1>11. LogShape'
    BY <1>1, <1>2, <1>4, <1>6, <1>7, <1>8, <1>9, <1>10 DEF LogShape
<1> QED BY <1>1, <1>4, <1>5, <1>6, <1>8, <1>9, <1>11

LEMMA ReadsShape ==
    ASSUME LogShape, ThreadsHold, StartRead \/ ReadFile \/ Tick
    PROVE  LogShape' /\ ThreadsHold'
<1>1. UNCHANGED <<role, file, thread, lock, logger, ending, acked, adrift, raced, books, heard, written, results, faults>>
    BY DEF StartRead, ReadFile, Tick
<1>2. reader \in ReaderType /\ Backups \in Nat /\ clock \in 0 .. MaxTime
    BY LogNumbers DEF LogShape
<1>3. CASE StartRead
    <2>1. <<>> \in Seq(Nat)
        OBVIOUS
    <2>2. reader' \in ReaderType /\ clock' = clock
        BY <1>2, <1>3, <2>1 DEF StartRead, ReaderType
    <2> QED BY <1>1, <2>2, ThreadsUnchanged DEF LogShape
<1>4. CASE ReadFile
    <2> DEFINE lines == file[ReadOrder(reader.at)]
    <2>1. reader.at \in 1 .. Backups + 1 /\ reader' = [at |-> reader.at + 1, got |-> reader.got \o Shown(lines)] /\ clock' = clock
        BY <1>4 DEF ReadFile
    <2>2. lines \in Seq(LineType)
        BY <1>2, <2>1 DEF LogShape, Slots, ReadOrder
    <2>3. Shown(lines) \in Seq(Nat) /\ reader.got \in Seq(Nat)
        BY <1>2, <2>2, ShownIs DEF Taken, ReaderType
    <2>4. reader.got \o Shown(lines) \in Seq(Nat) /\ reader.at + 1 \in 0 .. Backups + 2
        BY <1>2, <2>1, <2>3
    <2>5. reader' \in ReaderType
        BY <2>1, <2>4 DEF ReaderType
    <2> QED BY <1>1, <2>1, <2>5, ThreadsUnchanged DEF LogShape
<1>5. CASE Tick
    <2>1. clock' \in 0 .. MaxTime /\ reader' = reader
        BY <1>2, <1>5, LogNumbers DEF Tick
    <2> QED BY <1>1, <2>1, ThreadsUnchanged DEF LogShape
<1> QED BY <1>3, <1>4, <1>5

\* The kinds of steps of the log.
LEMMA LogSteps ==
    ASSUME Next
    PROVE  \/ \E t \in Thread : HostReports(t) \/ PlainRecords(t)
           \/ \E t \in Thread : Enter(t) \/ Remove(t) \/ Rename(t)
           \/ \E t \in Thread : Write(t) \/ Fails(t)
           \/ OpenEnding \/ EndsSession \/ StartRead \/ ReadFile \/ Tick \/ Crash
BY DEF Next, AppendStep, HostReports, PlainRecords, EndsSession

LEMMA LogShapeNext ==
    ASSUME LogShape, ThreadsHold, [Next]_vars
    PROVE  LogShape' /\ ThreadsHold'
<1>1. CASE Next
    BY <1>1, LogSteps, HostShape, PlainShape, EnterIs, RemoveIs, RenameIs, WriteIs, FailsIs, OpenEndingIs,
       EndsSessionShape, ReadsShape, CrashIs
<1>2. CASE UNCHANGED vars
    BY <1>2, ThreadsUnchanged DEF vars, LogShape
<1> QED BY <1>1, <1>2

\* The throttle remembers when each failure was last written or tried.
ThrottleRemembers == \A k \in Failure : logger.seen[k] # Never => heard[k].tried = logger.seen[k]

LoggerInv == LogShape /\ ThreadsHold /\ SummariesAddUp /\ FailureIsHeard /\ ThrottleRemembers

LEMMA LoggerInit == Init => LoggerInv
<1> SUFFICES ASSUME Init PROVE LoggerInv
    OBVIOUS
<1>1. LogShape /\ ThreadsHold
    BY LogShapeInit
<1>2. InHand = 0
    <2>1. thread[Reporter].todo = <<>> /\ <<>> \in Seq(RecordType)
        BY ReporterIsAThread DEF Init, Rest
    <2> QED BY <1>1, <2>1, InHandIs, OwedFew
<1>3. SummariesAddUp
    BY <1>2 DEF Init, SummariesAddUp, Empty
<1>4. FailureIsHeard /\ ThrottleRemembers
    BY DEF Init, FailureIsHeard, ThrottleRemembers, Empty, Unheard
<1> QED BY <1>1, <1>3, <1>4 DEF LoggerInv

\* What the throttles let through is heard.
LEMMA HeedsHeard ==
    ASSUME LogShape, FailureIsHeard, ThrottleRemembers, Heeds
    PROVE  FailureIsHeard' /\ ThrottleRemembers'
<1>1. CASE logger'.seen = logger.seen /\ heard' = heard
    BY <1>1 DEF FailureIsHeard, ThrottleRemembers
<1>2. ASSUME NEW k \in Failure, logger'.seen = Allow(k).seen, Hear(k, Allow(k))
      PROVE  FailureIsHeard' /\ ThrottleRemembers'
    <2> DEFINE gate == Allow(k)
    <2>1. /\ gate.ok \in BOOLEAN
          /\ ~gate.ok => /\ gate.seen = logger.seen /\ logger.seen[k] # Never
                         /\ clock - logger.seen[k] < DedupeWindow
          /\ gate.ok => /\ gate.seen[k] = clock
                        /\ \A j \in Failure : j # k => gate.seen[j] \in {logger.seen[j], Never}
        BY AllowIs
    <2> HIDE DEF gate
    <2>2. heard \in HeardType /\ clock \in Nat /\ clock # Never
        BY LogNumbers DEF LogShape
    <2>3. /\ heard'[k].failed = clock /\ heard'[k].tried = IF gate.ok THEN clock ELSE heard[k].tried
          /\ \A j \in Failure : j # k => heard'[j] = heard[j]
        BY <1>2, <2>2 DEF Hear, HeardType, gate
    <2>4. logger'.seen = gate.seen
        BY <1>2 DEF gate
    <2>5. CASE ~gate.ok
        <3>1. heard[k].tried = logger.seen[k]
            BY <2>1, <2>5 DEF ThrottleRemembers
        <3>2. heard'[k].tried = heard[k].tried
            BY <2>3, <2>5
        <3>3. ThrottleRemembers'
            <4> SUFFICES ASSUME NEW j \in Failure, logger'.seen[j] # Never PROVE heard'[j].tried = logger'.seen[j]
                BY DEF ThrottleRemembers
            <4>1. logger'.seen[j] = logger.seen[j] /\ heard[j].tried = logger.seen[j]
                BY <2>1, <2>4, <2>5 DEF ThrottleRemembers
            <4> QED BY <2>3, <3>2, <4>1
        <3>4. FailureIsHeard'
            BY <2>1, <2>2, <2>3, <2>5, <3>1, <3>2 DEF FailureIsHeard
        <3> QED BY <3>3, <3>4
    <2>6. CASE gate.ok
        <3>1. heard'[k].tried = clock /\ logger'.seen[k] = clock
            BY <2>1, <2>3, <2>4, <2>6
        <3>2. ThrottleRemembers'
            <4> SUFFICES ASSUME NEW j \in Failure, logger'.seen[j] # Never PROVE heard'[j].tried = logger'.seen[j]
                BY DEF ThrottleRemembers
            <4>1. CASE j = k
                BY <3>1, <4>1
            <4>2. CASE j # k
                BY <2>1, <2>3, <2>4, <2>6, <4>2 DEF ThrottleRemembers
            <4> QED BY <4>1, <4>2
        <3>3. clock - clock < DedupeWindow
            BY <2>2, LogNumbers
        <3>4. FailureIsHeard'
            BY <2>2, <2>3, <3>1, <3>3 DEF FailureIsHeard
        <3> QED BY <3>2, <3>4
    <2> QED BY <2>1, <2>5, <2>6
<1> QED BY <1>1, <1>2 DEF Heeds

\* And after a step.
LEMMA InHandNext ==
    ASSUME LogShape'
    PROVE  InHand' = Owed(thread'[Reporter].todo)
<1>1. (InHand = Owed(thread[Reporter].todo))'
    BY InHandIs, PTL
<1> QED BY <1>1 DEF Reporter, Owed, Total, Sums

\* Nothing of the logger changes.
LEMMA LoggerUnchanged ==
    ASSUME LoggerInv, LogShape', thread'[Reporter].todo = thread[Reporter].todo, UNCHANGED <<logger, books, heard>>
    PROVE  SummariesAddUp' /\ FailureIsHeard' /\ ThrottleRemembers'
<1>1. InHand' = InHand
    BY InHandNext, InHandIs DEF LoggerInv
<1> QED BY <1>1 DEF LoggerInv, SummariesAddUp, FailureIsHeard, ThrottleRemembers

LEMMA HostLogger ==
    ASSUME LoggerInv, LogShape', NEW t \in Thread, HostReports(t)
    PROVE  SummariesAddUp' /\ FailureIsHeard' /\ ThrottleRemembers'
<1>0. LogShape /\ ThreadsHold /\ SummariesAddUp /\ FailureIsHeard /\ ThrottleRemembers
    BY DEF LoggerInv
<1>1. PICK records : Reports(records)
    BY <1>0, HostReportsIs
<1>2. FailureIsHeard' /\ ThrottleRemembers'
    BY <1>0, HostReportsIs, HeedsHeard
<1>3. Reporter \in Thread
    BY ReporterIsAThread
<1>4. /\ Writable(Reporter, records) /\ Logs(Reporter, records) /\ lock' = lock /\ thread[Reporter].at = "idle"
      /\ books'.reported = books.reported /\ books'.lost = books.lost
      /\ books'.seen + logger.count = books.seen + Owed(records) + logger'.count
    BY <1>1 DEF Reports
<1>5. thread'[Reporter].todo = records
    BY <1>0, <1>3, <1>4, LogsHold
<1>6. thread[Reporter].todo = <<>>
    BY <1>0, <1>3, <1>4 DEF ThreadsHold, ThreadHolds
<1>7. InHand = 0
    <2>1. <<>> \in Seq(RecordType)
        OBVIOUS
    <2> QED BY <1>0, <1>6, <2>1, InHandIs, OwedFew
<1>8. InHand' = Owed(records) /\ Owed(records) \in Nat
    BY <1>4, <1>5, InHandNext, OwedFew DEF Writable
<1>9. books \in BooksType /\ logger \in LoggerType /\ books' \in BooksType /\ logger' \in LoggerType
    BY <1>0 DEF LogShape
<1>10. /\ books.seen \in Nat /\ books.reported \in Nat /\ books.lost \in Nat /\ logger.count \in Nat
       /\ books'.seen \in Nat /\ logger'.count \in Nat
    BY <1>9 DEF BooksType, LoggerType
<1>11. books.seen = books.reported + books.lost + logger.count
    BY <1>0, <1>7, <1>10 DEF SummariesAddUp
<1>12. books'.seen = books.reported + books.lost + logger'.count + Owed(records)
    <2> DEFINE n == books'.seen
               s == books.seen
               r == books.reported
               l == books.lost
               c == logger.count
               d == logger'.count
               o == Owed(records)
    <2>1. n + c = s + o + d /\ s = r + l + c
        BY <1>4, <1>11
    <2>2. n \in Nat /\ s \in Nat /\ r \in Nat /\ l \in Nat /\ c \in Nat /\ d \in Nat /\ o \in Nat
        BY <1>8, <1>10
    <2> HIDE DEF n, s, r, l, c, d, o
    <2>3. n = r + l + d + o
        BY <2>1, <2>2
    <2> QED BY <2>3 DEF n, r, l, d, o
<1>13. SummariesAddUp'
    BY <1>4, <1>8, <1>12 DEF SummariesAddUp
<1> QED BY <1>2, <1>13

LEMMA PlainLogger ==
    ASSUME LoggerInv, LogShape', NEW t \in Thread, PlainRecords(t)
    PROVE  SummariesAddUp' /\ FailureIsHeard' /\ ThrottleRemembers'
<1>0. LogShape /\ ThreadsHold /\ SummariesAddUp
    BY DEF LoggerInv
<1>1. /\ thread[t].at = "idle" /\ Logs(t, <<Plain>>) /\ Writable(t, <<Plain>>) /\ Owed(<<Plain>>) = 0
      /\ UNCHANGED <<lock, logger, books, heard>>
    BY <1>0, PlainRecordsIs
<1>2. thread'[t].todo = <<Plain>> /\ \A u \in Thread : u # t => thread'[u] = thread[u]
    BY <1>0, <1>1, LogsHold
<1>3. InHand' = InHand
    <2>1. CASE t = Reporter
        <3>1. thread[t].todo = <<>> /\ <<>> \in Seq(RecordType)
            BY <1>0, <1>1 DEF ThreadsHold, ThreadHolds
        <3>2. InHand = 0
            BY <1>0, <2>1, <3>1, InHandIs, OwedFew
        <3>3. InHand' = Owed(<<Plain>>)
            BY <1>2, <2>1, InHandNext
        <3> QED BY <1>1, <3>2, <3>3
    <2>2. CASE t # Reporter
        BY <1>0, <1>2, <2>2, ReporterIsAThread, InHandIs, InHandNext
    <2> QED BY <2>1, <2>2
<1> QED BY <1>1, <1>3 DEF LoggerInv, SummariesAddUp, FailureIsHeard, ThrottleRemembers

LEMMA WriteLogger ==
    ASSUME LoggerInv, LogShape', NEW t \in Thread, Write(t) \/ Fails(t)
    PROVE  SummariesAddUp' /\ FailureIsHeard' /\ ThrottleRemembers'
<1>0. LogShape /\ ThreadsHold /\ SummariesAddUp
    BY DEF LoggerInv
<1> DEFINE a == Head(thread[t].todo).amount
<1>1. /\ thread[t].at \in {"remove", "rename", "write"} /\ Leave(t) /\ UNCHANGED <<logger, heard>>
      /\ books' = [books EXCEPT !.reported = @ + a] \/ books' = [books EXCEPT !.lost = @ + a]
    BY DEF Write, Fails
<1>2. /\ \A u \in Thread : u # t => thread'[u] = thread[u]
      /\ a \in Nat /\ Owed(thread[t].todo) = a + Owed(thread'[t].todo) /\ (t # Reporter => a = 0)
    BY <1>0, <1>1, LeaveIs
<1> HIDE DEF a
<1>3. InHand = a + InHand'
    <2>1. InHand = Owed(thread[Reporter].todo) /\ InHand' = Owed(thread'[Reporter].todo) /\ InHand \in Nat
        BY <1>0, InHandIs, InHandNext
    <2>2. CASE t = Reporter
        BY <1>2, <2>1, <2>2
    <2>3. CASE t # Reporter
        BY <1>2, <2>1, <2>3, ReporterIsAThread
    <2> QED BY <2>2, <2>3
<1>4. /\ books'.seen = books.seen
      /\ \/ books'.reported = books.reported + a /\ books'.lost = books.lost
         \/ books'.reported = books.reported /\ books'.lost = books.lost + a
    BY <1>0, <1>1, <1>2, BooksWritten
<1>5. /\ books.seen \in Nat /\ books.reported \in Nat /\ books.lost \in Nat /\ logger.count \in Nat
      /\ logger'.count = logger.count
    BY <1>0, <1>1, LoggerFields
<1>6. InHand' \in Nat
    <2>1. (InHand \in Nat)'
        BY InHandIs, PTL
    <2> QED BY <2>1
<1>7. SummariesAddUp'
    BY <1>0, <1>2, <1>3, <1>4, <1>5, <1>6 DEF SummariesAddUp
<1> QED BY <1>1, <1>7 DEF LoggerInv, FailureIsHeard, ThrottleRemembers

LEMMA CrashLogger ==
    ASSUME LoggerInv, LogShape', Crash
    PROVE  SummariesAddUp' /\ FailureIsHeard' /\ ThrottleRemembers'
<1>0. LogShape /\ SummariesAddUp
    BY DEF LoggerInv
<1>1. /\ \A t \in Thread : thread'[t].todo = <<>>
      /\ logger'.count = 0 /\ logger'.seen = [k \in Failure |-> Never] /\ heard' = [k \in Failure |-> Unheard]
      /\ books'.seen = books.seen /\ books'.reported = books.reported
      /\ books'.lost = books.lost + logger.count + InHand
    BY <1>0, CrashIs
<1>2. InHand' = 0
    <2>1. <<>> \in Seq(RecordType) /\ thread'[Reporter].todo = <<>>
        BY <1>1, ReporterIsAThread
    <2> QED BY <2>1, InHandNext, OwedFew
<1>3. /\ books.seen \in Nat /\ books.reported \in Nat /\ books.lost \in Nat /\ logger.count \in Nat /\ InHand \in Nat
    BY <1>0, LoggerFields, InHandIs
<1>4. SummariesAddUp'
    BY <1>0, <1>1, <1>2, <1>3 DEF SummariesAddUp
<1>5. FailureIsHeard' /\ ThrottleRemembers'
    BY <1>1 DEF FailureIsHeard, ThrottleRemembers, Unheard
<1> QED BY <1>4, <1>5

LEMMA LoggerNext ==
    ASSUME LoggerInv, [Next]_vars
    PROVE  LoggerInv'
<1>1. LogShape /\ ThreadsHold
    BY DEF LoggerInv
<1>2. LogShape' /\ ThreadsHold'
    BY <1>1, LogShapeNext
<1>3. SummariesAddUp' /\ FailureIsHeard' /\ ThrottleRemembers'
    <2>1. CASE UNCHANGED vars
        BY <1>2, <2>1, LoggerUnchanged DEF vars
    <2>2. ASSUME NEW t \in Thread, HostReports(t) \/ PlainRecords(t)
          PROVE  SummariesAddUp' /\ FailureIsHeard' /\ ThrottleRemembers'
        BY <1>2, <2>2, HostLogger, PlainLogger
    <2>3. ASSUME NEW t \in Thread, Enter(t) \/ Remove(t) \/ Rename(t)
          PROVE  SummariesAddUp' /\ FailureIsHeard' /\ ThrottleRemembers'
        <3>1. \A u \in Thread : thread'[u].todo = thread[u].todo
            BY <1>1, <2>3, EnterIs, RemoveIs, RenameIs
        <3>2. UNCHANGED <<logger, books, heard>>
            BY <2>3 DEF Enter, Remove, Rename, host
        <3> QED BY <1>2, <3>1, <3>2, ReporterIsAThread, LoggerUnchanged
    <2>4. ASSUME NEW t \in Thread, Write(t) \/ Fails(t)
          PROVE  SummariesAddUp' /\ FailureIsHeard' /\ ThrottleRemembers'
        BY <1>2, <2>4, WriteLogger
    <2>5. CASE OpenEnding \/ EndsSession \/ StartRead \/ ReadFile \/ Tick
        <3>1. UNCHANGED <<thread, logger, books, heard>>
            BY <2>5, EndsSessionIs DEF OpenEnding, StartRead, ReadFile, Tick, host
        <3> QED BY <1>2, <3>1, LoggerUnchanged
    <2>6. CASE Crash
        BY <1>2, <2>6, CrashLogger
    <2> QED BY <2>1, <2>2, <2>3, <2>4, <2>5, <2>6, LogSteps
<1> QED BY <1>2, <1>3 DEF LoggerInv

\* The host's logger condenses and throttles without hiding: every injection
\* result it has seen is reported, still counted, being written, or was lost with a
\* write that failed or with the process; and a failure that keeps happening is
\* tried again within every window, however many other failures compete for the
\* throttle (host event_log.rs flush_summary, contract event_log.rs EventThrottle).
THEOREM TheLoggerIsHonest == Spec => []LoggerIsHonest
<1>1. Init => LoggerInv
    BY LoggerInit
<1>2. LoggerInv /\ [Next]_vars => LoggerInv'
    BY LoggerNext
<1>3. LoggerInv => LoggerIsHonest
    BY DEF LoggerInv, LoggerIsHonest
<1> QED BY <1>1, <1>2, <1>3, PTL DEF Spec

-----------------------------------------------------------------------------
(* The lines on disk, and a reader that takes no lock.                     *)

\* Every line has a number of its own.
Numbered ==
    /\ \A s \in Slots : \A i \in 1 .. Len(file[s]) : file[s][i].n \in 1 .. written
    /\ acked \subseteq 1 .. written /\ adrift \subseteq 1 .. written
Distinct ==
    \A s, u \in Slots : \A i \in 1 .. Len(file[s]), j \in 1 .. Len(file[u]) :
        file[s][i].n = file[u][j].n => s = u /\ i = j

\* What the reader has taken is in no file that it has still to read.
Passed ==
    /\ \A j \in 1 .. Len(reader.got) : reader.got[j] \in 1 .. written
    /\ \A j \in 1 .. Len(reader.got), s \in Slots : \A i \in 1 .. Len(file[s]) :
         file[s][i].n = reader.got[j] => s + reader.at >= Backups + 2

\* A step moves whole files to higher slots, or removes them, and keeps their order.
Moved(org) ==
    /\ org \in [Slots -> Slots]
    /\ \A u \in Slots : file'[u] = <<>> \/ (file'[u] = file[org[u]] /\ org[u] <= u)
    /\ \A u, v \in Slots : u > v /\ file'[u] # <<>> /\ file'[v] # <<>> => org[u] > org[v]

\* Or it appends the next line to one file.
Grown(s, line) ==
    /\ s \in Slots /\ line \in LineType /\ line.n = written + 1
    /\ file' = [file EXCEPT ![s] = Append(file[s], line)]
    /\ written' = written + 1

\* The histories of what was appended.
Noted ==
    /\ written' \in {written, written + 1}
    /\ acked' \subseteq acked \cup 1 .. written' /\ adrift' \subseteq adrift \cup 1 .. written'

LEMMA SlotsAreNumbers == Slots \subseteq Nat /\ 0 \in Slots /\ Slots = 0 .. Backups
BY LogNumbers DEF Slots

LEMMA FilesOf ==
    ASSUME LogShape, NEW s \in Slots
    PROVE  /\ file[s] \in Seq(LineType) /\ Len(file[s]) \in Nat /\ (file[s] = <<>> <=> Len(file[s]) = 0)
           /\ \A i \in 1 .. Len(file[s]) : file[s][i] \in LineType /\ file[s][i].n \in Nat
<1>1. file[s] \in Seq(LineType)
    BY DEF LogShape
<1>2. \A l \in Seq(LineType) : Len(l) \in Nat /\ (l = <<>> <=> Len(l) = 0) /\ \A i \in 1 .. Len(l) : l[i] \in LineType
    OBVIOUS
<1>3. \A l \in LineType : l.n \in Nat
    BY DEF LineType
<1> QED BY <1>1, <1>2, <1>3

\* The files after a line was appended to one.
LEMMA GrownIs ==
    ASSUME LogShape, NEW s, NEW line, Grown(s, line)
    PROVE  /\ s \in Slots /\ \A u \in Slots : u # s => file'[u] = file[u]
           /\ file'[s] = Append(file[s], line)
           /\ Len(file'[s]) = Len(file[s]) + 1 /\ file'[s][Len(file[s]) + 1] = line
           /\ \A i \in 1 .. Len(file[s]) : file'[s][i] = file[s][i]
           /\ written \in Nat /\ written + 1 \in Nat /\ line \in LineType /\ line.n = written + 1
<1>1. file \in [Slots -> Seq(LineType)] /\ s \in Slots /\ written \in Nat
    BY LogNumbers DEF LogShape, Grown
<1>2. file' = [file EXCEPT ![s] = Append(file[s], line)] /\ line \in LineType /\ line.n = written + 1
    BY DEF Grown
<1>3. file'[s] = Append(file[s], line) /\ \A u \in Slots : u # s => file'[u] = file[u]
    BY <1>1, <1>2
<1>4. \A l \in Seq(LineType) : /\ Len(Append(l, line)) = Len(l) + 1 /\ Append(l, line)[Len(l) + 1] = line
                               /\ \A i \in 1 .. Len(l) : Append(l, line)[i] = l[i]
    BY <1>2
<1>5. file[s] \in Seq(LineType)
    BY <1>1
<1> QED BY <1>1, <1>2, <1>3, <1>4, <1>5

\* An entry of the files after such a step is the new line or an old entry.
LEMMA GrownEntry ==
    ASSUME LogShape, NEW s, NEW line, Grown(s, line), NEW u \in Slots, NEW i \in 1 .. Len(file'[u])
    PROVE  \/ u = s /\ i = Len(file[s]) + 1 /\ file'[u][i] = line
           \/ i \in 1 .. Len(file[u]) /\ file'[u][i] = file[u][i]
<1>1. CASE u # s
    <2>1. file'[u] = file[u]
        BY <1>1, GrownIs
    <2> QED BY <2>1
<1>2. CASE u = s
    <2>1. /\ Len(file'[s]) = Len(file[s]) + 1 /\ file'[s][Len(file[s]) + 1] = line
          /\ \A k \in 1 .. Len(file[s]) : file'[s][k] = file[s][k]
        BY GrownIs
    <2>2. Len(file[s]) \in Nat
        BY <1>2, FilesOf
    <2>3. i \in 1 .. Len(file[s]) \/ i = Len(file[s]) + 1
        BY <1>2, <2>1, <2>2
    <2> QED BY <1>2, <2>1, <2>3
<1> QED BY <1>1, <1>2

LEMMA GrownKeeps ==
    ASSUME LogShape, Numbered, Distinct, Passed, NEW s, NEW line, Grown(s, line), Noted, reader' = reader
    PROVE  Numbered' /\ Distinct' /\ Passed'
<1>0. written \in Nat /\ written' = written + 1 /\ line.n = written + 1
    BY GrownIs DEF Grown
<1>1. \A u \in Slots : \A i \in 1 .. Len(file[u]) : file[u][i].n \in 1 .. written /\ file[u][i].n # written + 1
    BY <1>0 DEF Numbered
<1>2. Numbered'
    <2>1. ASSUME NEW u \in Slots, NEW i \in 1 .. Len(file'[u]) PROVE file'[u][i].n \in 1 .. written'
        BY <1>0, <1>1, GrownEntry
    <2>2. acked' \subseteq 1 .. written' /\ adrift' \subseteq 1 .. written'
        BY <1>0 DEF Numbered, Noted
    <2> QED BY <2>1, <2>2 DEF Numbered, Slots
<1>3. Distinct'
    <2> SUFFICES ASSUME NEW u \in Slots, NEW v \in Slots, NEW i \in 1 .. Len(file'[u]), NEW j \in 1 .. Len(file'[v]),
                        file'[u][i].n = file'[v][j].n
                 PROVE  u = v /\ i = j
        BY DEF Distinct, Slots
    <2>1. \/ u = s /\ i = Len(file[s]) + 1 /\ file'[u][i] = line
          \/ i \in 1 .. Len(file[u]) /\ file'[u][i] = file[u][i]
        BY GrownEntry
    <2>2. \/ v = s /\ j = Len(file[s]) + 1 /\ file'[v][j] = line
          \/ j \in 1 .. Len(file[v]) /\ file'[v][j] = file[v][j]
        BY GrownEntry
    <2>3. CASE /\ i \in 1 .. Len(file[u]) /\ file'[u][i] = file[u][i]
               /\ j \in 1 .. Len(file[v]) /\ file'[v][j] = file[v][j]
        BY <2>3 DEF Distinct
    <2>4. CASE u = s /\ i = Len(file[s]) + 1 /\ file'[u][i] = line
        <3>1. ~(j \in 1 .. Len(file[v]) /\ file'[v][j] = file[v][j])
            BY <1>0, <1>1, <2>4
        <3> QED BY <2>2, <2>4, <3>1
    <2>5. CASE v = s /\ j = Len(file[s]) + 1 /\ file'[v][j] = line
        <3>1. ~(i \in 1 .. Len(file[u]) /\ file'[u][i] = file[u][i])
            BY <1>0, <1>1, <2>5
        <3> QED BY <2>1, <2>5, <3>1
    <2> QED BY <2>1, <2>2, <2>3, <2>4, <2>5
<1>4. Passed'
    <2>1. \A j \in 1 .. Len(reader.got) : reader.got[j] \in 1 .. written /\ reader.got[j] \in 1 .. written'
                                          /\ reader.got[j] # written + 1
        BY <1>0 DEF Passed
    <2>2. ASSUME NEW j \in 1 .. Len(reader.got), NEW u \in Slots, NEW i \in 1 .. Len(file'[u]),
                 file'[u][i].n = reader.got[j]
          PROVE  u + reader.at >= Backups + 2
        <3>1. i \in 1 .. Len(file[u]) /\ file'[u][i] = file[u][i]
            BY <1>0, <2>1, <2>2, GrownEntry
        <3> QED BY <2>2, <3>1 DEF Passed
    <2> QED BY <2>1, <2>2 DEF Passed, Slots
<1> QED BY <1>2, <1>3, <1>4

\* An entry of the files after whole files were moved.
LEMMA MovedEntry ==
    ASSUME NEW org, Moved(org), NEW u \in Slots, NEW i \in 1 .. Len(file'[u])
    PROVE  /\ org[u] \in Slots /\ org[u] <= u /\ file'[u] # <<>>
           /\ i \in 1 .. Len(file[org[u]]) /\ file'[u][i] = file[org[u]][i]
<1>1. file'[u] # <<>>
    <2>1. 1 .. Len(<<>>) = {}
        OBVIOUS
    <2> QED BY <2>1
<1>2. file'[u] = file[org[u]] /\ org[u] <= u /\ org[u] \in Slots
    BY <1>1 DEF Moved
<1> QED BY <1>1, <1>2

LEMMA MovedKeeps ==
    ASSUME LogShape, Numbered, Distinct, Passed, NEW org, Moved(org), Noted, reader' = reader
    PROVE  Numbered' /\ Distinct' /\ Passed'
<1>0. written \in Nat /\ written' \in Nat /\ written <= written'
    BY LogNumbers DEF LogShape, Noted
<1>1. 1 .. written \subseteq 1 .. written'
    BY <1>0
<1>2. Numbered'
    <2>1. ASSUME NEW u \in Slots, NEW i \in 1 .. Len(file'[u]) PROVE file'[u][i].n \in 1 .. written'
        BY <1>1, MovedEntry DEF Numbered
    <2>2. acked' \subseteq 1 .. written' /\ adrift' \subseteq 1 .. written'
        BY <1>1 DEF Numbered, Noted
    <2> QED BY <2>1, <2>2 DEF Numbered, Slots
<1>3. Distinct'
    <2> SUFFICES ASSUME NEW u \in Slots, NEW v \in Slots, NEW i \in 1 .. Len(file'[u]), NEW j \in 1 .. Len(file'[v]),
                        file'[u][i].n = file'[v][j].n
                 PROVE  u = v /\ i = j
        BY DEF Distinct, Slots
    <2>1. org[u] \in Slots /\ file'[u] # <<>> /\ i \in 1 .. Len(file[org[u]]) /\ file'[u][i] = file[org[u]][i]
        BY MovedEntry
    <2>2. org[v] \in Slots /\ file'[v] # <<>> /\ j \in 1 .. Len(file[org[v]]) /\ file'[v][j] = file[org[v]][j]
        BY MovedEntry
    <2>3. org[u] = org[v] /\ i = j
        BY <2>1, <2>2 DEF Distinct
    <2>4. ~(u > v) /\ ~(v > u)
        BY <2>1, <2>2, <2>3, SlotsAreNumbers DEF Moved
    <2> QED BY <2>3, <2>4, SlotsAreNumbers
<1>4. Passed'
    <2>1. \A j \in 1 .. Len(reader.got) : reader.got[j] \in 1 .. written'
        BY <1>1 DEF Passed
    <2>2. ASSUME NEW j \in 1 .. Len(reader.got), NEW u \in Slots, NEW i \in 1 .. Len(file'[u]),
                 file'[u][i].n = reader.got[j]
          PROVE  u + reader.at >= Backups + 2
        <3>1. org[u] \in Slots /\ org[u] <= u /\ i \in 1 .. Len(file[org[u]]) /\ file'[u][i] = file[org[u]][i]
            BY MovedEntry
        <3>2. org[u] + reader.at >= Backups + 2
            BY <2>2, <3>1 DEF Passed
        <3>3. reader \in ReaderType
            BY DEF LogShape
        <3>4. reader.at \in Nat
            BY <3>3, LogNumbers DEF ReaderType
        <3> QED BY <3>1, <3>2, <3>4, SlotsAreNumbers, LogNumbers
    <2> QED BY <2>1, <2>2 DEF Passed, Slots
<1> QED BY <1>2, <1>3, <1>4

LEMMA StillIsMoved ==
    ASSUME LogShape, file' = file
    PROVE  Moved([u \in Slots |-> u])
BY SlotsAreNumbers DEF Moved

LEMMA EmptiedIsMoved ==
    ASSUME LogShape, NEW s \in Slots, file' = [file EXCEPT ![s] = <<>>]
    PROVE  Moved([u \in Slots |-> u])
<1>1. file \in [Slots -> Seq(LineType)]
    BY DEF LogShape
<1> QED BY <1>1, SlotsAreNumbers DEF Moved

LEMMA ShiftedIsMoved ==
    ASSUME LogShape, NEW s \in 1 .. Backups, file' = [file EXCEPT ![s] = file[s - 1], ![s - 1] = <<>>]
    PROVE  /\ Moved([u \in Slots |-> IF u = s THEN s - 1 ELSE u])
           /\ file'[s] = file[s - 1] /\ file'[s - 1] = <<>> /\ s \in Slots /\ s - 1 \in Slots
           /\ \A u \in Slots : u # s /\ u # s - 1 => file'[u] = file[u]
<1>1. file \in [Slots -> Seq(LineType)] /\ s \in Slots /\ s - 1 \in Slots /\ s # s - 1 /\ Slots \subseteq Nat
    BY LogNumbers, SlotsAreNumbers DEF LogShape
<1>2. /\ file'[s] = file[s - 1] /\ file'[s - 1] = <<>>
      /\ \A u \in Slots : u # s /\ u # s - 1 => file'[u] = file[u]
    BY <1>1
<1> DEFINE org == [u \in Slots |-> IF u = s THEN s - 1 ELSE u]
<1>3. org \in [Slots -> Slots] /\ org[s] = s - 1 /\ \A u \in Slots : u # s => org[u] = u
    BY <1>1
<1> HIDE DEF org
<1>4. ASSUME NEW u \in Slots PROVE file'[u] = <<>> \/ (file'[u] = file[org[u]] /\ org[u] <= u)
    <2>1. CASE u = s
        BY <1>1, <1>2, <1>3, <2>1
    <2>2. CASE u = s - 1
        BY <1>2, <2>2
    <2>3. CASE u # s /\ u # s - 1
        BY <1>1, <1>2, <1>3, <2>3
    <2> QED BY <2>1, <2>2, <2>3
<1>5. ASSUME NEW u \in Slots, NEW v \in Slots, u > v, file'[u] # <<>>, file'[v] # <<>> PROVE org[u] > org[v]
    <2>1. u # s - 1 /\ v # s - 1
        BY <1>2, <1>5
    <2>2. CASE u = s
        BY <1>1, <1>3, <1>5, <2>1, <2>2
    <2>3. CASE v = s
        BY <1>1, <1>3, <1>5, <2>1, <2>3
    <2>4. CASE u # s /\ v # s
        BY <1>3, <1>5, <2>4
    <2> QED BY <2>2, <2>3, <2>4
<1>6. Moved(org)
    BY <1>3, <1>4, <1>5 DEF Moved
<1> QED BY <1>1, <1>2, <1>6 DEF org

\* A line cut off is the next line of the log.
LEMMA CutOffGrows ==
    ASSUME LogShape, CutOff
    PROVE  Grown(0, Line(written + 1, FALSE, FALSE))
<1>1. written + 1 \in Nat /\ 0 \in Slots
    BY LogNumbers, SlotsAreNumbers DEF LogShape
<1>2. Line(written + 1, FALSE, FALSE) \in LineType /\ Line(written + 1, FALSE, FALSE).n = written + 1
    BY <1>1 DEF Line, LineType
<1> QED BY <1>1, <1>2 DEF CutOff, Grown

LEMMA WriteGrows ==
    ASSUME LogShape, NEW t \in Thread, Write(t)
    PROVE  Grown(0, Terminated(written + 1))
<1>1. written + 1 \in Nat /\ 0 \in Slots
    BY LogNumbers, SlotsAreNumbers DEF LogShape
<1>2. Terminated(written + 1) \in LineType /\ Terminated(written + 1).n = written + 1
    BY <1>1 DEF Terminated, Line, LineType
<1> QED BY <1>1, <1>2 DEF Write, Grown

\* The end of the session: the line it leaves and what is noted of it.
EndingWrites(line) ==
    /\ EndingFits /\ written' = written + 1
    /\ \/ line = EndingLine(written + 1) /\ acked' = acked \cup {written + 1} /\ faults' = faults
       \/ line = Line(written + 1, FALSE, FALSE) /\ acked' = acked /\ faults' = faults + 1
    /\ adrift' = (IF ending.slot = 0 THEN adrift ELSE adrift \cup {written + 1})
    /\ raced' = (\/ raced \/ ending.slot = Backups + 1 \/ Bytes(file[ending.slot]) # ending.bytes
                 \/ \E t \in Thread : thread[t].at = "write")
    /\ \/ ending.slot \in Slots /\ Grown(ending.slot, line)
       \/ ending.slot = Backups + 1 /\ file' = file

LEMMA EndsSessionWrites ==
    ASSUME LogShape, EndsSession
    PROVE  (\E line : EndingWrites(line)) \/ UNCHANGED <<file, written, acked, adrift, raced>>
<1>1. ASSUME EndingFits, NEW line, EndsWith(line),
             \/ line = EndingLine(written + 1) /\ acked' = acked \cup {written + 1} /\ faults' = faults
             \/ line = Line(written + 1, FALSE, FALSE) /\ acked' = acked /\ faults' = faults + 1
      PROVE  EndingWrites(line)
    <2>1. /\ written' = written + 1
          /\ adrift' = (IF ending.slot = 0 THEN adrift ELSE adrift \cup {written + 1})
          /\ raced' = (\/ raced \/ ending.slot = Backups + 1 \/ Bytes(file[ending.slot]) # ending.bytes
                       \/ \E t \in Thread : thread[t].at = "write")
          /\ file' = IF ending.slot \in Slots
                     THEN [file EXCEPT ![ending.slot] = Append(file[ending.slot], line)] ELSE file
        BY <1>1 DEF EndsWith
    <2>2. written + 1 \in Nat
        BY LogNumbers DEF LogShape
    <2>3. line \in LineType /\ line.n = written + 1
        BY <1>1, <2>2, EndingLinesAre
    <2>4. ending.slot \in Slots \/ ending.slot = Backups + 1
        <3>1. ending \in EndingType
            BY DEF LogShape
        <3>2. ending.slot \in 0 .. Backups + 1
            BY <3>1 DEF EndingType
        <3> QED BY <3>2, LogNumbers, SlotsAreNumbers
    <2>5. ending.slot = Backups + 1 => ending.slot \notin Slots
        BY LogNumbers, SlotsAreNumbers
    <2>6. CASE ending.slot \in Slots
        <3>1. Grown(ending.slot, line)
            BY <2>1, <2>3, <2>6 DEF Grown
        <3> QED BY <1>1, <2>1, <2>6, <3>1 DEF EndingWrites
    <2>7. CASE ending.slot = Backups + 1
        <3>1. file' = file
            BY <2>1, <2>5, <2>7
        <3> QED BY <1>1, <2>1, <2>7, <3>1 DEF EndingWrites
    <2> QED BY <2>4, <2>6, <2>7
<1>2. CASE WriteEnding
    BY <1>1, <1>2 DEF WriteEnding
<1>3. CASE EndingFails
    BY <1>1, <1>3 DEF EndingFails, Fault
<1> QED BY <1>2, <1>3 DEF EndsSession

\* Every step moves whole files or appends a line.
LEMMA FileSteps ==
    ASSUME LogShape, ThreadsHold, [Next]_vars
    PROVE  /\ Noted
           /\ (\E org : Moved(org)) \/ (\E s, line : Grown(s, line))
           /\ reader' # reader => StartRead \/ ReadFile
<1>0. written \in Nat
    BY LogNumbers DEF LogShape
<1>1. ASSUME UNCHANGED <<file, written, acked, adrift>>
      PROVE  Noted /\ \E org : Moved(org)
    BY <1>1, StillIsMoved DEF Noted
<1>2. CASE UNCHANGED vars
    BY <1>1, <1>2 DEF vars
<1>3. ASSUME NEW t \in Thread, HostReports(t) \/ PlainRecords(t) \/ Enter(t)
      PROVE  UNCHANGED <<file, written, acked, adrift, reader>>
    BY <1>3, HostReportsIs, PlainRecordsIs DEF Reports, Enter
<1>4. ASSUME NEW t \in Thread, Remove(t)
      PROVE  Noted /\ (\E org : Moved(org)) /\ reader' = reader
    <2>1. Replaced(thread[t].turn) \in Slots
        BY <1>4, RemoveIs, ReplacedIs
    <2>2. file' = [file EXCEPT ![Replaced(thread[t].turn)] = <<>>]
        BY <1>4 DEF Remove
    <2>3. \E org : Moved(org)
        BY <2>1, <2>2, EmptiedIsMoved
    <2> QED BY <1>4, <2>3 DEF Remove, Noted
<1>5. ASSUME NEW t \in Thread, Rename(t)
      PROVE  Noted /\ (\E org : Moved(org)) /\ reader' = reader
    <2> DEFINE s == Replaced(thread[t].turn)
    <2>1. s \in 1 .. Backups
        BY <1>5, RenameIs, ReplacedIs
    <2>2. file' = [file EXCEPT ![s] = file[s - 1], ![s - 1] = <<>>]
        BY <1>5 DEF Rename
    <2> HIDE DEF s
    <2>3. \E org : Moved(org)
        BY <2>1, <2>2, ShiftedIsMoved
    <2> QED BY <1>5, <2>3 DEF Rename, Noted
<1>6. ASSUME NEW t \in Thread, Write(t)
      PROVE  Noted /\ (\E s, line : Grown(s, line)) /\ reader' = reader
    BY <1>0, <1>6, WriteGrows DEF Write, Noted
<1>7. ASSUME CutOff, UNCHANGED <<acked, adrift>>
      PROVE  Noted /\ (\E s, line : Grown(s, line))
    BY <1>0, <1>7, CutOffGrows DEF CutOff, Noted
<1>8. ASSUME NEW t \in Thread, Fails(t)
      PROVE  Noted /\ ((\E org : Moved(org)) \/ (\E s, line : Grown(s, line))) /\ reader' = reader
    BY <1>1, <1>7, <1>8 DEF Fails
<1>9. CASE Crash
    BY <1>1, <1>7, <1>9 DEF Crash
<1>10. CASE OpenEnding \/ Tick
    BY <1>1, <1>10 DEF OpenEnding, Tick
<1>11. CASE StartRead \/ ReadFile
    BY <1>1, <1>11 DEF StartRead, ReadFile
<1>12. CASE EndsSession
    <2>1. reader' = reader
        BY <1>12, EndsSessionIs
    <2>2. CASE UNCHANGED <<file, written, acked, adrift, raced>>
        BY <1>1, <2>1, <2>2
    <2>3. ASSUME NEW line, EndingWrites(line)
          PROVE  Noted /\ ((\E org : Moved(org)) \/ (\E s, l : Grown(s, l)))
        <3>1. Noted
            <4>1. written' = written + 1 /\ acked' \subseteq acked \cup {written + 1} /\ adrift' \subseteq adrift \cup {written + 1}
                BY <2>3 DEF EndingWrites
            <4>2. written + 1 \in 1 .. written + 1
                BY <1>0
            <4> QED BY <4>1, <4>2 DEF Noted
        <3>2. (\E org : Moved(org)) \/ (\E s, l : Grown(s, l))
            BY <2>3, StillIsMoved DEF EndingWrites
        <3> QED BY <3>1, <3>2
    <2> QED BY <1>12, <2>1, <2>2, <2>3, EndsSessionWrites
<1> QED BY <1>1, <1>2, <1>3, <1>4, <1>5, <1>6, <1>8, <1>9, <1>10, <1>11, <1>12, LogSteps

\* A reader that takes no lock reads against the direction in which files move.
ReaderInv == LogShape /\ ThreadsHold /\ Numbered /\ Distinct /\ Passed /\ ReaderSeesOnce

LEMMA ReaderInit == Init => ReaderInv
<1> SUFFICES ASSUME Init PROVE ReaderInv
    OBVIOUS
<1>1. LogShape /\ ThreadsHold
    BY LogShapeInit
<1>2. \A s \in Slots : 1 .. Len(file[s]) = {}
    BY DEF Init
<1>3. 1 .. Len(reader.got) = {} /\ DOMAIN reader.got = {} /\ acked = {} /\ adrift = {}
    BY DEF Init
<1>4. Numbered /\ Distinct
    BY <1>2, <1>3 DEF Numbered, Distinct
<1>5. Passed /\ ReaderSeesOnce
    BY <1>3 DEF Passed, ReaderSeesOnce
<1> QED BY <1>1, <1>4, <1>5 DEF ReaderInv

\* The next file gives the reader nothing it has.
LEMMA ReadFileKeeps ==
    ASSUME ReaderInv, ReadFile
    PROVE  Passed' /\ ReaderSeesOnce'
<1>0. LogShape /\ Numbered /\ Distinct /\ Passed /\ ReaderSeesOnce
    BY DEF ReaderInv
<1> DEFINE at == reader.at
           got == reader.got
           s == ReadOrder(at)
           lines == file[s]
           new == Shown(lines)
           all == got \o new
<1>1. at \in 1 .. Backups + 1 /\ reader' = [at |-> at + 1, got |-> all] /\ file' = file /\ written' = written
    BY DEF ReadFile
<1>2. s \in Slots /\ s + at = Backups + 1 /\ at \in Nat
    BY <1>1, LogNumbers, SlotsAreNumbers DEF ReadOrder
<1>3. got \in Seq(Nat)
    BY <1>0 DEF LogShape, ReaderType
<1> HIDE DEF s
<1>4. lines \in Seq(LineType)
    BY <1>0, <1>2, FilesOf
<1>5. Taken(lines, Len(lines), new)
    BY <1>4, ShownIs
<1> HIDE DEF new
<1>6. /\ new \in Seq(Nat) /\ \A j \in 1 .. Len(new) : \E i \in 1 .. Len(lines) : new[j] = lines[i].n
    BY <1>5 DEF Taken
<1>7. \A i, j \in 1 .. Len(new) : new[i] = new[j] => i = j
    <2>1. \A i, j \in 1 .. Len(lines) : lines[i].n = lines[j].n => i = j
        BY <1>0, <1>2 DEF Distinct
    <2> QED BY <1>5, <2>1 DEF Taken
<1>8. \A i, j \in 1 .. Len(got) : got[i] = got[j] => i = j
    <2>1. DOMAIN got = 1 .. Len(got)
        BY <1>3
    <2> QED BY <1>0, <2>1 DEF ReaderSeesOnce
<1> HIDE DEF lines, got, at
<1>9. /\ Len(all) = Len(got) + Len(new) /\ all \in Seq(Nat) /\ Len(got) \in Nat /\ Len(new) \in Nat
      /\ \A j \in 1 .. Len(got) : all[j] = got[j]
      /\ \A j \in 1 .. Len(new) : all[Len(got) + j] = new[j]
    <2>1. got \in Seq(Nat) /\ new \in Seq(Nat)
        BY <1>3, <1>6
    <2>2. Len(all) = Len(got) + Len(new) /\ all \in Seq(Nat) /\ Len(got) \in Nat /\ Len(new) \in Nat
        BY <2>1
    <2>3. \A j \in 1 .. Len(got) : all[j] = got[j]
        BY <2>1
    <2>4. \A j \in 1 .. Len(new) : all[Len(got) + j] = new[j]
        BY <2>1
    <2> QED BY <2>2, <2>3, <2>4
<1> HIDE DEF all
<1>10. ASSUME NEW k \in 1 .. Len(all)
       PROVE  \/ k \in 1 .. Len(got) /\ all[k] = got[k]
              \/ k - Len(got) \in 1 .. Len(new) /\ all[k] = new[k - Len(got)]
    <2>1. CASE k <= Len(got)
        BY <1>9, <2>1
    <2>2. CASE k > Len(got)
        <3>1. k - Len(got) \in 1 .. Len(new) /\ k = Len(got) + (k - Len(got))
            BY <1>9, <2>2
        <3> QED BY <1>9, <3>1
    <2> QED BY <1>9, <2>1, <2>2
<1>11. \A i \in 1 .. Len(got), j \in 1 .. Len(new) : got[i] # new[j]
    <2> SUFFICES ASSUME NEW i \in 1 .. Len(got), NEW j \in 1 .. Len(new), got[i] = new[j] PROVE FALSE
        OBVIOUS
    <2>1. PICK k \in 1 .. Len(lines) : new[j] = lines[k].n
        BY <1>6
    <2>2. s + at >= Backups + 2
        BY <1>0, <1>2, <2>1 DEF Passed, lines, got, at
    <2> QED BY <1>2, <2>2, LogNumbers
<1>12. \A i, j \in 1 .. Len(all) : all[i] = all[j] => i = j
    <2> SUFFICES ASSUME NEW i \in 1 .. Len(all), NEW j \in 1 .. Len(all), all[i] = all[j] PROVE i = j
        OBVIOUS
    <2>1. CASE i \in 1 .. Len(got) /\ all[i] = got[i] /\ j \in 1 .. Len(got) /\ all[j] = got[j]
        BY <1>8, <2>1
    <2>2. CASE i - Len(got) \in 1 .. Len(new) /\ all[i] = new[i - Len(got)] /\ j - Len(got) \in 1 .. Len(new)
               /\ all[j] = new[j - Len(got)]
        <3>1. i - Len(got) = j - Len(got)
            BY <1>7, <2>2
        <3> QED BY <1>9, <3>1
    <2>3. CASE i \in 1 .. Len(got) /\ all[i] = got[i] /\ j - Len(got) \in 1 .. Len(new) /\ all[j] = new[j - Len(got)]
        BY <1>11, <2>3
    <2>4. CASE j \in 1 .. Len(got) /\ all[j] = got[j] /\ i - Len(got) \in 1 .. Len(new) /\ all[i] = new[i - Len(got)]
        BY <1>11, <2>4
    <2> QED BY <1>10, <2>1, <2>2, <2>3, <2>4
<1>13. reader'.got = all /\ reader'.at = at + 1
    BY <1>1
<1>14. ReaderSeesOnce'
    <2>1. DOMAIN all = 1 .. Len(all)
        BY <1>9
    <2> QED BY <1>12, <1>13, <2>1 DEF ReaderSeesOnce
<1>15. ASSUME NEW k \in 1 .. Len(all)
       PROVE  /\ all[k] \in 1 .. written
              /\ \A u \in Slots : \A i \in 1 .. Len(file[u]) : file[u][i].n = all[k] => u + (at + 1) >= Backups + 2
    <2>1. CASE k \in 1 .. Len(got) /\ all[k] = got[k]
        <3>1. got[k] \in 1 .. written
            BY <1>0, <2>1 DEF Passed, got
        <3>2. ASSUME NEW u \in Slots, NEW i \in 1 .. Len(file[u]), file[u][i].n = got[k] PROVE u + (at + 1) >= Backups + 2
            <4>1. u + at >= Backups + 2
                BY <1>0, <2>1, <3>2 DEF Passed, got, at
            <4> QED BY <1>2, <4>1, LogNumbers, SlotsAreNumbers
        <3> QED BY <2>1, <3>1, <3>2
    <2>2. CASE k - Len(got) \in 1 .. Len(new) /\ all[k] = new[k - Len(got)]
        <3>1. PICK j \in 1 .. Len(lines) : all[k] = lines[j].n
            BY <1>6, <2>2
        <3>2. all[k] \in 1 .. written
            BY <1>0, <1>2, <3>1 DEF Numbered, lines
        <3>3. ASSUME NEW u \in Slots, NEW i \in 1 .. Len(file[u]), file[u][i].n = all[k] PROVE u + (at + 1) >= Backups + 2
            <4>1. u = s
                BY <1>0, <1>2, <3>1, <3>3 DEF Distinct, lines
            <4> QED BY <1>2, <4>1, LogNumbers, SlotsAreNumbers
        <3> QED BY <3>2, <3>3
    <2> QED BY <1>10, <2>1, <2>2
<1>16. Passed'
    BY <1>1, <1>13, <1>15 DEF Passed, Slots
<1> QED BY <1>14, <1>16

LEMMA ReaderNext ==
    ASSUME ReaderInv, [Next]_vars
    PROVE  ReaderInv'
<1>0. LogShape /\ ThreadsHold /\ Numbered /\ Distinct /\ Passed /\ ReaderSeesOnce
    BY DEF ReaderInv
<1>1. LogShape' /\ ThreadsHold'
    BY <1>0, LogShapeNext
<1>2. /\ Noted
      /\ (\E org : Moved(org)) \/ (\E s, line : Grown(s, line))
      /\ reader' # reader => StartRead \/ ReadFile
    BY <1>0, FileSteps
<1>3. CASE reader' = reader
    <2>1. Numbered' /\ Distinct' /\ Passed'
        BY <1>0, <1>2, <1>3, GrownKeeps, MovedKeeps
    <2>2. ReaderSeesOnce'
        BY <1>0, <1>3 DEF ReaderSeesOnce
    <2> QED BY <1>1, <2>1, <2>2 DEF ReaderInv
<1>4. CASE StartRead \/ ReadFile
    <2>1. UNCHANGED <<file, written, acked, adrift>>
        BY <1>4 DEF StartRead, ReadFile
    <2>2. Numbered' /\ Distinct'
        <3>1. Numbered'
            BY <1>0, <2>1 DEF Numbered, Slots
        <3>2. Distinct'
            BY <1>0, <2>1 DEF Distinct, Slots
        <3> QED BY <3>1, <3>2
    <2>3. Passed' /\ ReaderSeesOnce'
        <3>1. CASE ReadFile
            BY <3>1, ReadFileKeeps
        <3>2. CASE StartRead
            <4>1. 1 .. Len(reader'.got) = {} /\ DOMAIN reader'.got = {}
                BY <3>2 DEF StartRead
            <4> QED BY <4>1 DEF Passed, ReaderSeesOnce
        <3> QED BY <1>4, <3>1, <3>2
    <2> QED BY <1>1, <2>2, <2>3 DEF ReaderInv
<1> QED BY <1>2, <1>3, <1>4

\* A reader that takes no lock never shows a record twice, while any number of
\* threads append and rotate through any number of backups, operations fail, the
\* process dies and the session's end writes to a file that has moved (contract
\* event_log.rs read_event_log, operation_log.rs).
THEOREM NothingIsReadTwice == Spec => []ReaderSeesOnce
<1>1. Init => ReaderInv
    BY ReaderInit
<1>2. ReaderInv /\ [Next]_vars => ReaderInv'
    BY ReaderNext
<1>3. ReaderInv => ReaderSeesOnce
    BY DEF ReaderInv
<1> QED BY <1>1, <1>2, <1>3, PTL DEF Spec

-----------------------------------------------------------------------------
(* The sizes of the files, and the middle of a rotation.                   *)

\* A thread in the middle of a rotation: one slot is free for the next rename.
Freed(t) == thread[t].at = "rename" \/ (thread[t].at = "remove" /\ thread[t].turn > 1)

\* Who is about to write has room, unless the session's end wrote beside it.
SizesHold ==
    raced \/ /\ \A s \in Slots : Bytes(file[s]) <= MaxBytes
             /\ \A t \in Thread : thread[t].at = "write" => Fits(file[0])

\* A rotation begins with a full file, keeps one slot free, and never leaves the
\* session's end with an empty backup open.
RotationHolds ==
    /\ \A t \in Thread : thread[t].at \in {"remove", "rename"} => file[0] # <<>>
    /\ \A t \in Thread : Freed(t) => file[Replaced(thread[t].turn)] = <<>>
    /\ ending.at = "open" /\ ending.slot \in 1 .. Backups => file[ending.slot] # <<>>

\* The lock keeps all but one thread out.
LEMMA OneInside ==
    ASSUME ThreadsHold, NEW t \in Thread, NEW u \in Thread, thread[t].at \in {"remove", "rename", "write"}, u # t
    PROVE  thread[u].at \notin {"remove", "rename", "write"}
BY DEF ThreadsHold, ThreadHolds

LEMMA FitsIs ==
    ASSUME NEW lines \in Seq(LineType)
    PROVE  /\ Fits(lines) <=> Bytes(lines) + 2 <= MaxBytes
           /\ lines = <<>> => Fits(lines) /\ Bytes(lines) <= MaxBytes
           /\ Fits(lines) => \A line \in LineType : ~line.own => Bytes(Append(lines, line)) <= MaxBytes
<1>1. Bytes(lines) \in Nat /\ (lines = <<>> => Bytes(lines) = 0)
    BY BytesType
<1>2. Fits(lines) <=> Bytes(lines) + 2 <= MaxBytes
    BY DEF Fits, Whole
<1>3. ASSUME Fits(lines), NEW line \in LineType, ~line.own PROVE Bytes(Append(lines, line)) <= MaxBytes
    <2>1. Bytes(Append(lines, line)) = Bytes(lines) + Width(line)
        BY BytesAppend
    <2>2. Width(line) \in 1 .. 3 /\ Width(line) <= 2
        BY <1>3, WidthType DEF Whole
    <2> QED BY <1>1, <1>2, <1>3, <2>1, <2>2, LogNumbers
<1> QED BY <1>1, <1>2, <1>3, LogNumbers

\* A line of an append goes to the log.
LEMMA GrowsFirst ==
    ASSUME LogShape, ThreadsHold, SizesHold, NEW line, Grown(0, line), ~line.own, raced' = raced,
           NEW t \in Thread, thread[t].at = "write"
    PROVE  raced' \/ \A s \in Slots : Bytes(file'[s]) <= MaxBytes
<1> SUFFICES ASSUME ~raced, NEW s \in Slots PROVE Bytes(file'[s]) <= MaxBytes
    OBVIOUS
<1>1. Fits(file[0]) /\ Bytes(file[s]) <= MaxBytes
    BY DEF SizesHold
<1>2. CASE s = 0
    <2>1. file'[0] = Append(file[0], line) /\ line \in LineType /\ 0 \in Slots
        BY GrownIs
    <2>2. file[0] \in Seq(LineType)
        BY <2>1, FilesOf
    <2> QED BY <1>1, <1>2, <2>1, <2>2, FitsIs
<1>3. CASE s # 0
    <2>1. file'[s] = file[s]
        BY <1>3, GrownIs
    <2> QED BY <1>1, <2>1
<1> QED BY <1>2, <1>3

\* Nobody writes after a thread has left.
LEMMA NoWriter ==
    ASSUME LogShape, ThreadsHold, NEW t \in Thread, thread[t].at \in {"remove", "rename", "write"}, Leave(t)
    PROVE  \A u \in Thread : thread'[u].at \notin {"remove", "rename", "write"}
<1> SUFFICES ASSUME NEW u \in Thread PROVE thread'[u].at \notin {"remove", "rename", "write"}
    OBVIOUS
<1>1. CASE u = t
    BY <1>1, LeaveIs
<1>2. CASE u # t
    BY <1>2, LeaveIs, OneInside
<1> QED BY <1>1, <1>2

\* A new report is not yet inside.
LEMMA ReportsOutside ==
    ASSUME LogShape, ThreadsHold, NEW t \in Thread, HostReports(t) \/ PlainRecords(t)
    PROVE  /\ \A u \in Thread : thread'[u] = thread[u] \/ thread'[u].at \notin {"remove", "rename", "write"}
           /\ \A u \in Thread : thread[u].at # "idle" => thread'[u] = thread[u]
           /\ UNCHANGED <<file, lock, ending, acked, adrift, raced, written, faults>>
<1>1. CASE HostReports(t)
    <2>1. PICK records : Reports(records)
        BY <1>1, HostReportsIs
    <2>2. Writable(Reporter, records) /\ Logs(Reporter, records) /\ lock' = lock /\ thread[Reporter].at = "idle"
        BY <2>1 DEF Reports
    <2>3. thread'[Reporter].at \in {"idle", "ready"} /\ \A u \in Thread : u # Reporter => thread'[u] = thread[u]
        BY <2>2, ReporterIsAThread, LogsHold
    <2> QED BY <2>1, <2>2, <2>3 DEF Reports
<1>2. CASE PlainRecords(t)
    <2>1. /\ Writable(t, <<Plain>>) /\ Logs(t, <<Plain>>) /\ lock' = lock /\ thread[t].at = "idle"
          /\ UNCHANGED <<file, lock, ending, acked, adrift, raced, written, faults>>
        BY <1>2, PlainRecordsIs
    <2>2. thread'[t].at \in {"idle", "ready"} /\ \A u \in Thread : u # t => thread'[u] = thread[u]
        BY <2>1, LogsHold
    <2> QED BY <2>1, <2>2
<1> QED BY <1>1, <1>2

\* The steps of a rotation, as far as files and sizes go.
LEMMA RotationSteps ==
    ASSUME LogShape, ThreadsHold, NEW t \in Thread, Remove(t) \/ Rename(t), NEW s, s = Replaced(thread[t].turn)
    PROVE  /\ s \in 1 .. Backups /\ s \in Slots /\ s - 1 \in Slots /\ thread[t].turn \in 1 .. Backups
           /\ Remove(t) => /\ file'[s] = <<>> /\ \A u \in Slots : u # s => file'[u] = file[u]
                           /\ Follows(s, Backups + 1)
           /\ Rename(t) => /\ file'[s] = file[s - 1] /\ file'[s - 1] = <<>>
                           /\ \A u \in Slots : u # s /\ u # s - 1 => file'[u] = file[u]
                           /\ Follows(s - 1, s)
           /\ UNCHANGED <<lock, acked, adrift, raced, written, faults>>
<1>1. thread[t].turn \in 1 .. Backups
    BY RemoveIs, RenameIs
<1>2. s \in 1 .. Backups /\ s \in Slots /\ s - 1 \in Slots
    BY <1>1, ReplacedIs
<1>3. UNCHANGED <<lock, acked, adrift, raced, written, faults>>
    BY DEF Remove, Rename
<1>4. ASSUME Remove(t)
      PROVE  file'[s] = <<>> /\ (\A u \in Slots : u # s => file'[u] = file[u]) /\ Follows(s, Backups + 1)
    <2>1. file' = [file EXCEPT ![s] = <<>>] /\ Follows(s, Backups + 1)
        BY <1>4 DEF Remove
    <2>2. file \in [Slots -> Seq(LineType)]
        BY DEF LogShape
    <2> QED BY <1>2, <2>1, <2>2
<1>5. ASSUME Rename(t)
      PROVE  /\ file'[s] = file[s - 1] /\ file'[s - 1] = <<>>
             /\ \A u \in Slots : u # s /\ u # s - 1 => file'[u] = file[u]
             /\ Follows(s - 1, s)
    <2>1. file' = [file EXCEPT ![s] = file[s - 1], ![s - 1] = <<>>] /\ Follows(s - 1, s)
        BY <1>5 DEF Rename
    <2> QED BY <1>2, <2>1, ShiftedIsMoved
<1> QED BY <1>1, <1>2, <1>3, <1>4, <1>5

\* SizesHold after a step, spelt out.
LEMMA SizesPrimed ==
    SizesHold' <=> raced' \/ /\ \A s \in Slots : Bytes(file'[s]) <= MaxBytes
                             /\ \A t \in Thread : thread'[t].at = "write" => Fits(file'[0])
BY DEF SizesHold, Slots, Fits, Bytes, Width, Whole

\* Sizes beside a step that leaves the files alone and lets nobody in.
LEMMA SizesUnchanged ==
    ASSUME SizesHold, UNCHANGED <<file, raced>>,
           \A u \in Thread : thread'[u].at = "write" => thread[u].at = "write" \/ Fits(file[0])
    PROVE  SizesHold'
<1>1. raced' = raced /\ file' = file
    OBVIOUS
<1>2. CASE raced
    BY <1>1, <1>2, SizesPrimed
<1>3. CASE ~raced
    BY <1>1, <1>3, SizesPrimed DEF SizesHold
<1> QED BY <1>2, <1>3

LEMMA RotationSizes ==
    ASSUME LogShape, ThreadsHold, SizesHold, NEW t \in Thread, Remove(t) \/ Rename(t)
    PROVE  SizesHold'
<1> DEFINE s == Replaced(thread[t].turn)
<1>0. /\ s \in 1 .. Backups /\ s \in Slots /\ s - 1 \in Slots /\ thread[t].turn \in 1 .. Backups
      /\ Remove(t) => /\ file'[s] = <<>> /\ \A u \in Slots : u # s => file'[u] = file[u]
      /\ Rename(t) => /\ file'[s] = file[s - 1] /\ file'[s - 1] = <<>>
                      /\ \A u \in Slots : u # s /\ u # s - 1 => file'[u] = file[u]
      /\ raced' = raced
    BY RotationSteps
<1> SUFFICES ASSUME ~raced
             PROVE  /\ \A u \in Slots : Bytes(file'[u]) <= MaxBytes
                    /\ \A u \in Thread : thread'[u].at = "write" => Fits(file'[0])
    BY <1>0, SizesPrimed
<1> HIDE DEF s
<1>1. \A u \in Slots : Bytes(file[u]) <= MaxBytes
    BY DEF SizesHold
<1>2. Bytes(<<>>) <= MaxBytes /\ Fits(<<>>)
    <2>1. <<>> \in Seq(LineType)
        OBVIOUS
    <2> QED BY <2>1, FitsIs
<1>3. ASSUME NEW u \in Slots PROVE Bytes(file'[u]) <= MaxBytes
    <2>1. file'[u] = <<>> \/ file'[u] = file[u] \/ file'[u] = file[s - 1]
        BY <1>0
    <2> QED BY <1>0, <1>1, <1>2, <2>1
<1>4. ASSUME NEW u \in Thread, thread'[u].at = "write" PROVE Fits(file'[0])
    <2>1. thread[t].at \in {"remove", "rename", "write"}
        BY DEF Remove, Rename
    <2>2. CASE u # t
        <3>1. thread'[u] = thread[u]
            BY <2>2, RemoveIs, RenameIs
        <3> QED BY <1>4, <2>1, <2>2, <3>1, OneInside
    <2>3. CASE u = t
        <3>1. Rename(t) /\ thread[t].turn = Backups
            BY <1>0, <1>4, <2>3, RemoveIs, RenameIs, LogNumbers
        <3>2. s - 1 = 0
            BY <1>0, <3>1, ReplacedIs DEF s
        <3>3. file'[0] = <<>>
            BY <1>0, <3>1, <3>2
        <3> QED BY <1>2, <3>3
    <2> QED BY <2>2, <2>3
<1> QED BY <1>3, <1>4

LEMMA EndingSizes ==
    ASSUME LogShape, ThreadsHold, SizesHold, EndsSession
    PROVE  SizesHold'
<1>1. thread' = thread
    BY EndsSessionIs
<1>2. CASE UNCHANGED <<file, written, acked, adrift, raced>>
    BY <1>1, <1>2, SizesUnchanged
<1>3. ASSUME NEW line, EndingWrites(line) PROVE SizesHold'
    <2> DEFINE s == ending.slot
    <2> SUFFICES ASSUME ~raced'
                 PROVE  /\ \A u \in Slots : Bytes(file'[u]) <= MaxBytes
                        /\ \A u \in Thread : thread'[u].at = "write" => Fits(file'[0])
        BY SizesPrimed
    <2>1. ~raced /\ s # Backups + 1 /\ Bytes(file[s]) = ending.bytes /\ \A t \in Thread : thread[t].at # "write"
        BY <1>3 DEF EndingWrites
    <2>2. s \in Slots /\ Grown(s, line) /\ EndingFits
        BY <1>3, <2>1 DEF EndingWrites
    <2>3. ending.bytes + Width(EndingLine(1)) <= MaxBytes
        BY <2>2 DEF EndingFits
    <2>4. Width(line) \in Nat /\ Width(EndingLine(1)) \in Nat /\ Width(line) <= Width(EndingLine(1))
        <3>1. written + 1 \in Nat
            BY LogNumbers DEF LogShape
        <3>2. line \in EndingLines
            BY <1>3 DEF EndingWrites, EndingLines
        <3> DEFINE n == written + 1
        <3>3. line = EndingLine(n) \/ line = Line(n, FALSE, FALSE)
            BY <3>2 DEF EndingLines
        <3> HIDE DEF n
        <3>4. n \in Nat
            BY <3>1 DEF n
        <3>5. /\ Width(EndingLine(1)) \in Nat /\ Width(EndingLine(n)) = Width(EndingLine(1))
              /\ Width(Line(n, FALSE, FALSE)) \in Nat /\ Width(Line(n, FALSE, FALSE)) <= Width(EndingLine(1))
            BY <3>4, EndingLinesAre
        <3>6. CASE line = EndingLine(n)
            <4> DEFINE w == Width(EndingLine(1))
            <4>1. Width(line) = w /\ w \in Nat
                BY <3>5, <3>6
            <4> HIDE DEF w
            <4>2. Width(line) \in Nat /\ w \in Nat /\ Width(line) <= w
                BY <4>1
            <4> QED BY <4>2 DEF w
        <3>7. CASE line = Line(n, FALSE, FALSE)
            BY <3>5, <3>7
        <3> QED BY <3>3, <3>6, <3>7
    <2> HIDE DEF s
    <2>5. file'[s] = Append(file[s], line) /\ line \in LineType /\ \A u \in Slots : u # s => file'[u] = file[u]
        BY <2>2, GrownIs
    <2>6. file[s] \in Seq(LineType)
        BY <2>2, FilesOf
    <2>7. Bytes(file'[s]) <= MaxBytes
        <3>1. Bytes(Append(file[s], line)) = Bytes(file[s]) + Width(line)
            BY <2>5, <2>6, BytesAppend
        <3>2. Bytes(file[s]) \in Nat
            BY <2>6, BytesType
        <3> QED BY <2>1, <2>3, <2>4, <2>5, <3>1, <3>2, LogNumbers
    <2>8. \A u \in Slots : Bytes(file[u]) <= MaxBytes
        BY <2>1 DEF SizesHold
    <2>9. \A u \in Slots : Bytes(file'[u]) <= MaxBytes
        BY <2>5, <2>7, <2>8
    <2> QED BY <1>1, <2>1, <2>9
<1> QED BY <1>2, <1>3, EndsSessionWrites

LEMMA SizesNext ==
    ASSUME LogShape, ThreadsHold, SizesHold, [Next]_vars
    PROVE  SizesHold'
<1>1. CASE UNCHANGED vars
    BY <1>1, SizesUnchanged DEF vars
<1>2. ASSUME NEW t \in Thread, HostReports(t) \/ PlainRecords(t) PROVE SizesHold'
    BY <1>2, ReportsOutside, SizesUnchanged
<1>3. ASSUME NEW t \in Thread, Enter(t) PROVE SizesHold'
    <2>1. UNCHANGED <<file, raced>>
        BY <1>3 DEF Enter
    <2>2. /\ \A u \in Thread : u # t => thread'[u] = thread[u]
          /\ thread'[t].at = (IF Fits(file[0]) THEN "write" ELSE "remove")
        BY <1>3, EnterIs
    <2> QED BY <2>1, <2>2, SizesUnchanged
<1>4. ASSUME NEW t \in Thread, Remove(t) \/ Rename(t) PROVE SizesHold'
    BY <1>4, RotationSizes
<1>5. ASSUME NEW t \in Thread, thread[t].at = "write", NEW line, Grown(0, line), ~line.own, raced' = raced,
             \A u \in Thread : thread'[u].at # "write"
      PROVE  SizesHold'
    <2>1. raced' \/ \A s \in Slots : Bytes(file'[s]) <= MaxBytes
        BY <1>5, GrowsFirst
    <2> QED BY <1>5, <2>1, SizesPrimed
<1>6. ASSUME NEW t \in Thread, Write(t) PROVE SizesHold'
    <2>1. thread[t].at = "write" /\ Leave(t) /\ raced' = raced
        BY <1>6 DEF Write
    <2>2. \A u \in Thread : thread'[u].at # "write"
        BY <2>1, NoWriter
    <2>3. ~Terminated(written + 1).own /\ Grown(0, Terminated(written + 1))
        BY <1>6, WriteGrows DEF Terminated, Line
    <2> QED BY <1>5, <2>1, <2>2, <2>3
<1>7. ~Line(written + 1, FALSE, FALSE).own
    BY DEF Line
<1>8. ASSUME NEW t \in Thread, Fails(t) PROVE SizesHold'
    <2>1. thread[t].at \in {"remove", "rename", "write"} /\ Leave(t) /\ raced' = raced
        BY <1>8 DEF Fails
    <2>2. \A u \in Thread : thread'[u].at # "write"
        BY <2>1, NoWriter
    <2>3. CASE UNCHANGED <<file, written>>
        BY <2>1, <2>2, <2>3, SizesUnchanged
    <2>4. CASE thread[t].at = "write" /\ CutOff
        BY <1>5, <1>7, <2>1, <2>2, <2>4, CutOffGrows
    <2> QED BY <1>8, <2>3, <2>4 DEF Fails
<1>9. CASE Crash
    <2>1. (\A u \in Thread : thread'[u].at # "write") /\ raced' = raced
        BY <1>9, CrashIs DEF Crash
    <2>2. CASE UNCHANGED <<file, written>>
        BY <2>1, <2>2, SizesUnchanged
    <2>3. CASE lock # Nobody /\ thread[lock].at = "write" /\ CutOff
        <3>1. lock \in Thread
            BY <2>3 DEF LogShape
        <3> QED BY <1>5, <1>7, <2>1, <2>3, <3>1, CutOffGrows
    <2> QED BY <1>9, <2>2, <2>3 DEF Crash
<1>10. CASE EndsSession
    BY <1>10, EndingSizes
<1>11. CASE OpenEnding \/ StartRead \/ ReadFile \/ Tick
    <2>1. UNCHANGED <<file, raced, thread>>
        BY <1>11 DEF OpenEnding, StartRead, ReadFile, Tick
    <2> QED BY <2>1, SizesUnchanged
<1> QED BY <1>1, <1>2, <1>3, <1>4, <1>6, <1>8, <1>9, <1>10, <1>11, LogSteps

\* A file that has lines keeps some while it only grows.
LEMMA GrownNonEmpty ==
    ASSUME LogShape, NEW s, NEW line, Grown(s, line), NEW u \in Slots, file[u] # <<>> \/ u = s
    PROVE  file'[u] # <<>>
<1>1. CASE u # s
    BY <1>1, GrownIs
<1>2. CASE u = s
    <2>1. Len(file'[s]) = Len(file[s]) + 1 /\ s \in Slots
        BY GrownIs
    <2>2. Len(file[s]) \in Nat
        BY <2>1, FilesOf
    <2>3. Len(<<>>) = 0
        OBVIOUS
    <2> QED BY <1>2, <2>1, <2>2, <2>3
<1> QED BY <1>1, <1>2

\* RotationHolds after a step that leaves nobody inside.
LEMMA NobodyInside ==
    ASSUME LogShape, RotationHolds, \A u \in Thread : thread'[u].at \notin {"remove", "rename"},
           \/ file' = file \/ \E line : Grown(0, line),
           ending' = ending \/ ending'.at # "open"
    PROVE  RotationHolds'
<1>1. \A u \in Thread : ~Freed(u)'
    BY DEF Freed
<1>2. ASSUME ending'.at = "open", ending'.slot \in 1 .. Backups PROVE file'[ending'.slot] # <<>>
    <2>1. ending' = ending /\ file[ending.slot] # <<>>
        BY <1>2 DEF RotationHolds
    <2>2. ending.slot \in Slots
        BY <1>2, <2>1, LogNumbers, SlotsAreNumbers
    <2> QED BY <2>1, <2>2, GrownNonEmpty
<1> QED BY <1>1, <1>2 DEF RotationHolds, Freed

\* A freed slot is a backup.
LEMMA FreedIs ==
    ASSUME ThreadsHold, NEW t \in Thread, Freed(t)
    PROVE  /\ thread[t].turn \in 1 .. Backups /\ Replaced(thread[t].turn) \in 1 .. Backups
           /\ Replaced(thread[t].turn) \in Slots /\ thread[t].at \in {"remove", "rename", "write"}
<1>1. thread[t].turn \in 1 .. Backups /\ thread[t].at \in {"remove", "rename", "write"}
    BY DEF Freed, ThreadsHold, ThreadHolds
<1> QED BY <1>1, ReplacedIs

LEMMA RemoveRotates ==
    ASSUME LogShape, ThreadsHold, RotationHolds, NEW t \in Thread, Remove(t)
    PROVE  RotationHolds'
<1> DEFINE s == Replaced(thread[t].turn)
<1>0. /\ s \in 1 .. Backups /\ s \in Slots
      /\ file'[s] = <<>> /\ (\A u \in Slots : u # s => file'[u] = file[u]) /\ Follows(s, Backups + 1)
    BY RotationSteps
<1>1. /\ \A u \in Thread : u # t => thread'[u] = thread[u]
      /\ thread'[t].at = "rename" /\ thread'[t].turn = thread[t].turn /\ thread[t].at = "remove"
    BY RemoveIs DEF Remove
<1>2. \A u \in Thread : u # t => thread'[u].at \notin {"remove", "rename", "write"}
    BY <1>1, OneInside
<1>3. file[0] # <<>> /\ file'[0] = file[0]
    BY <1>0, <1>1, SlotsAreNumbers DEF RotationHolds
<1>4. ASSUME NEW u \in Thread, Freed(u)' PROVE file'[Replaced(thread'[u].turn)] = <<>>
    <2>1. u = t
        BY <1>2, <1>4 DEF Freed
    <2> QED BY <1>0, <1>1, <2>1
<1>5. ASSUME ending'.at = "open", ending'.slot \in 1 .. Backups PROVE file'[ending'.slot] # <<>>
    <2> HIDE DEF s
    <2>0. ending \in EndingType
        BY DEF LogShape
    <2>1. CASE ending.at = "open" /\ ending.slot = s
        <3>1. ending'.slot = Backups + 1
            BY <1>0, <2>0, <2>1 DEF Follows, EndingType
        <3> QED BY <1>5, <3>1, LogNumbers
    <2>2. CASE ~(ending.at = "open" /\ ending.slot = s)
        <3>1. ending' = ending
            BY <1>0, <2>2 DEF Follows
        <3>2. ending.slot \in Slots /\ ending.slot # s /\ file[ending.slot] # <<>>
            BY <1>5, <2>2, <3>1, LogNumbers, SlotsAreNumbers DEF RotationHolds
        <3> QED BY <1>0, <3>1, <3>2
    <2> QED BY <2>1, <2>2
<1> QED BY <1>3, <1>4, <1>5 DEF RotationHolds, Freed, Replaced

LEMMA RenameRotates ==
    ASSUME LogShape, ThreadsHold, RotationHolds, NEW t \in Thread, Rename(t)
    PROVE  RotationHolds'
<1> DEFINE s == Replaced(thread[t].turn)
<1>0. /\ s \in 1 .. Backups /\ s \in Slots /\ s - 1 \in Slots /\ thread[t].turn \in 1 .. Backups
      /\ file'[s] = file[s - 1] /\ file'[s - 1] = <<>>
      /\ (\A u \in Slots : u # s /\ u # s - 1 => file'[u] = file[u]) /\ Follows(s - 1, s)
    BY RotationSteps
<1>1. /\ \A u \in Thread : u # t => thread'[u] = thread[u]
      /\ thread[t].turn < Backups => thread'[t].at = "remove" /\ thread'[t].turn = thread[t].turn + 1
      /\ thread[t].turn = Backups => thread'[t].at = "write"
      /\ thread[t].at = "rename"
    BY RenameIs DEF Rename
<1>2. \A u \in Thread : u # t => thread'[u].at \notin {"remove", "rename", "write"}
    BY <1>1, OneInside
<1>3. file[0] # <<>> /\ file[s] = <<>>
    BY <1>1 DEF RotationHolds, Freed
<1>4. ASSUME NEW u \in Thread, thread'[u].at \in {"remove", "rename"}
      PROVE  u = t /\ thread[t].turn < Backups /\ thread'[t].turn = thread[t].turn + 1 /\ s - 1 \in 1 .. Backups
    <2>1. u = t
        BY <1>2, <1>4
    <2>2. thread[t].turn < Backups
        BY <1>0, <1>1, <1>4, <2>1, LogNumbers
    <2>3. s - 1 \in 1 .. Backups
        BY <1>0, <2>2, LogNumbers DEF Replaced
    <2> QED BY <1>1, <2>1, <2>2, <2>3
<1>5. ASSUME NEW u \in Thread, thread'[u].at \in {"remove", "rename"} PROVE file'[0] # <<>>
    <2>1. 0 # s /\ 0 # s - 1 /\ 0 \in Slots
        BY <1>0, <1>4, <1>5, SlotsAreNumbers
    <2> QED BY <1>0, <1>3, <2>1
<1>6. ASSUME NEW u \in Thread, Freed(u)' PROVE file'[Replaced(thread'[u].turn)] = <<>>
    <2>1. thread'[u].at \in {"remove", "rename"}
        BY <1>6 DEF Freed
    <2>2. Replaced(thread'[u].turn) = s - 1
        BY <1>0, <1>4, <2>1, ReplacedIs
    <2> QED BY <1>0, <2>2
<1>7. ASSUME ending'.at = "open", ending'.slot \in 1 .. Backups PROVE file'[ending'.slot] # <<>>
    <2> HIDE DEF s
    <2>0. ending \in EndingType
        BY DEF LogShape
    <2>1. CASE ending.at = "open" /\ ending.slot = s - 1
        <3>1. ending'.slot = s
            BY <1>0, <2>0, <2>1 DEF Follows, EndingType
        <3>2. file[s - 1] # <<>>
            <4>1. CASE s - 1 = 0
                BY <1>3, <4>1
            <4>2. CASE s - 1 # 0
                <5>1. s - 1 \in 1 .. Backups
                    BY <1>0, <4>2, LogNumbers
                <5> QED BY <2>1, <5>1 DEF RotationHolds
            <4> QED BY <4>1, <4>2
        <3> QED BY <1>0, <3>1, <3>2
    <2>2. CASE ~(ending.at = "open" /\ ending.slot = s - 1)
        <3>1. ending' = ending
            BY <1>0, <2>2 DEF Follows
        <3>2. ending.slot \in Slots /\ ending.slot # s - 1 /\ file[ending.slot] # <<>>
            BY <1>7, <2>2, <3>1, LogNumbers, SlotsAreNumbers DEF RotationHolds
        <3>3. ending.slot # s
            BY <1>3, <3>2
        <3> QED BY <1>0, <3>1, <3>2, <3>3
    <2> QED BY <2>1, <2>2
<1> QED BY <1>5, <1>6, <1>7 DEF RotationHolds, Freed, Replaced

LEMMA EndingRotates ==
    ASSUME LogShape, ThreadsHold, RotationHolds, EndsSession
    PROVE  RotationHolds'
<1>1. thread' = thread /\ ending.at = "open" /\ ending'.at # "open"
    <2>1. ending \in EndingType /\ ending' = [ending EXCEPT !.at = "done"] /\ thread' = thread /\ ending.at = "open"
        BY EndsSessionIs DEF LogShape
    <2> QED BY <2>1 DEF EndingType
<1>2. ASSUME file' = file PROVE RotationHolds'
    BY <1>1, <1>2 DEF RotationHolds, Freed, Replaced
<1>3. ASSUME NEW line, ending.slot \in Slots, Grown(ending.slot, line) PROVE RotationHolds'
    <2> DEFINE s == ending.slot
    <2>1. \A u \in Slots : u # s => file'[u] = file[u]
        BY <1>3, GrownIs
    <2>2. file[0] # <<>> => file'[0] # <<>>
        BY <1>3, GrownNonEmpty, SlotsAreNumbers
    <2>3. ASSUME NEW t \in Thread, Freed(t) PROVE file'[Replaced(thread[t].turn)] = <<>>
        <3>1. file[Replaced(thread[t].turn)] = <<>> /\ Replaced(thread[t].turn) \in 1 .. Backups /\ Replaced(thread[t].turn) \in Slots
            BY <2>3, FreedIs DEF RotationHolds
        <3>2. s # Replaced(thread[t].turn)
            BY <1>1, <3>1 DEF RotationHolds
        <3> QED BY <2>1, <3>1, <3>2
    <2> QED BY <1>1, <2>2, <2>3 DEF RotationHolds, Freed, Replaced
<1> QED BY <1>2, <1>3, EndsSessionWrites DEF EndingWrites

LEMMA RotationNext ==
    ASSUME LogShape, ThreadsHold, RotationHolds, [Next]_vars
    PROVE  RotationHolds'
<1>1. ASSUME UNCHANGED <<file, ending>>, \A u \in Thread : thread'[u] = thread[u] \/ thread'[u].at \notin {"remove", "rename"}
      PROVE  RotationHolds'
    <2>1. ASSUME NEW u \in Thread, thread'[u].at \in {"remove", "rename"} PROVE thread'[u] = thread[u]
        BY <1>1, <2>1
    <2> QED BY <1>1, <2>1 DEF RotationHolds, Freed, Replaced
<1>2. CASE UNCHANGED vars
    BY <1>1, <1>2 DEF vars
<1>3. ASSUME NEW t \in Thread, HostReports(t) \/ PlainRecords(t) PROVE RotationHolds'
    BY <1>1, <1>3, ReportsOutside
<1>4. ASSUME NEW t \in Thread, Enter(t) PROVE RotationHolds'
    <2>1. UNCHANGED <<file, ending>> /\ lock = Nobody
        BY <1>4 DEF Enter
    <2>2. /\ \A u \in Thread : u # t => thread'[u] = thread[u]
          /\ thread'[t].at = (IF Fits(file[0]) THEN "write" ELSE "remove")
          /\ thread'[t].turn = (IF Fits(file[0]) THEN 0 ELSE 1)
        BY <1>4, EnterIs
    <2>3. \A u \in Thread : u # t => thread'[u].at \notin {"remove", "rename"}
        BY <2>1, <2>2, ThreadsAssumption DEF ThreadsHold, ThreadHolds
    <2>4. ASSUME thread'[t].at = "remove" PROVE file'[0] # <<>>
        <3>1. ~Fits(file[0]) /\ file[0] \in Seq(LineType)
            BY <2>2, <2>4, FilesOf, SlotsAreNumbers
        <3> QED BY <2>1, <3>1, FitsIs
    <2>5. \A u \in Thread : ~Freed(u)'
        <3> TAKE u \in Thread
        <3>1. CASE u = t
            BY <2>2, <3>1 DEF Freed
        <3>2. CASE u # t
            BY <2>3, <3>2 DEF Freed
        <3> QED BY <3>1, <3>2
    <2>6. \A u \in Thread : thread'[u].at \in {"remove", "rename"} => file'[0] # <<>>
        BY <2>2, <2>3, <2>4
    <2> QED BY <2>1, <2>5, <2>6 DEF RotationHolds, Freed
<1>5. ASSUME NEW t \in Thread, Remove(t) \/ Rename(t) PROVE RotationHolds'
    BY <1>5, RemoveRotates, RenameRotates
<1>6. ASSUME NEW t \in Thread, Write(t) \/ Fails(t) PROVE RotationHolds'
    <2>1. thread[t].at \in {"remove", "rename", "write"} /\ Leave(t) /\ ending' = ending
        BY <1>6 DEF Write, Fails
    <2>2. \A u \in Thread : thread'[u].at \notin {"remove", "rename"}
        BY <2>1, NoWriter
    <2>3. file' = file \/ \E line : Grown(0, line)
        BY <1>6, WriteGrows, CutOffGrows DEF Fails
    <2> QED BY <2>1, <2>2, <2>3, NobodyInside
<1>7. CASE Crash
    <2>1. (\A u \in Thread : thread'[u].at = "idle") /\ ending'.at = "no"
        BY <1>7, CrashIs
    <2>2. file' = file \/ \E line : Grown(0, line)
        BY <1>7, CutOffGrows DEF Crash
    <2> QED BY <2>1, <2>2, NobodyInside
<1>8. CASE OpenEnding
    <2>1. UNCHANGED <<file, thread>> /\ ending'.slot = 0
        BY <1>8 DEF OpenEnding
    <2> QED BY <2>1 DEF RotationHolds, Freed, Replaced
<1>9. CASE EndsSession
    BY <1>9, EndingRotates
<1>10. CASE StartRead \/ ReadFile \/ Tick
    BY <1>1, <1>10 DEF StartRead, ReadFile, Tick
<1> QED BY <1>2, <1>3, <1>4, <1>5, <1>6, <1>7, <1>8, <1>9, <1>10, LogSteps

-----------------------------------------------------------------------------
(* Which records a rotation gives up.                                      *)

\* The records that were appended, reached a file of the log and are gone.
Gone == acked \ (Kept \cup adrift)

\* Older files hold older records.
Rising ==
    \A s, u \in Slots : s > u =>
        \A i \in 1 .. Len(file[s]), j \in 1 .. Len(file[u]) :
            file[s][i].n \notin adrift /\ file[u][j].n \notin adrift => file[s][i].n < file[u][j].n

GoneAreOldest == \A n \in Gone, m \in Kept \ adrift : n < m

OrderHolds == Rising /\ GoneAreOldest

LEMMA KeptIs ==
    \A m : m \in Kept <=> \E s \in Slots : \E i \in 1 .. Len(file[s]) : m = file[s][i].n
BY DEF Kept

LEMMA KeptPrimed ==
    \A m : m \in Kept' <=> \E s \in Slots : \E i \in 1 .. Len(file'[s]) : m = file'[s][i].n
BY DEF Kept, Slots

LEMMA GonePrimed == Gone' = acked' \ (Kept' \cup adrift')
BY DEF Gone

\* What an append adds to the records, and that it makes none go.
LEMMA GrownKept ==
    ASSUME LogShape, NEW s, NEW line, Grown(s, line), acked' \subseteq acked \cup {written + 1}, adrift \subseteq adrift'
    PROVE  Kept' = Kept \cup {written + 1} /\ Gone' \subseteq Gone
<1>1. /\ s \in Slots /\ \A u \in Slots : u # s => file'[u] = file[u]
      /\ Len(file'[s]) = Len(file[s]) + 1 /\ file'[s][Len(file[s]) + 1] = line
      /\ \A i \in 1 .. Len(file[s]) : file'[s][i] = file[s][i]
      /\ line.n = written + 1
    BY GrownIs
<1>2. ASSUME NEW m, m \in Kept' PROVE m \in Kept \cup {written + 1}
    <2>1a. PICK u \in Slots : \E i \in 1 .. Len(file'[u]) : m = file'[u][i].n
        BY <1>2, KeptPrimed
    <2>1. PICK i \in 1 .. Len(file'[u]) : m = file'[u][i].n
        BY <2>1a
    <2>2. \/ file'[u][i] = line
          \/ i \in 1 .. Len(file[u]) /\ file'[u][i] = file[u][i]
        BY GrownEntry
    <2> QED BY <1>1, <2>1, <2>2, KeptIs
<1>3. ASSUME NEW m, m \in Kept PROVE m \in Kept'
    <2>1a. PICK u \in Slots : \E i \in 1 .. Len(file[u]) : m = file[u][i].n
        BY <1>3, KeptIs
    <2>1. PICK i \in 1 .. Len(file[u]) : m = file[u][i].n
        BY <2>1a
    <2>2. Len(file[u]) \in Nat
        BY FilesOf
    <2>3. i \in 1 .. Len(file'[u]) /\ file'[u][i] = file[u][i]
        <3>1. CASE u = s
            BY <1>1, <2>2, <3>1
        <3>2. CASE u # s
            BY <1>1, <3>2
        <3> QED BY <3>1, <3>2
    <2> QED BY <2>1, <2>3, KeptPrimed
<1>4. written + 1 \in Kept'
    <2>1. Len(file[s]) + 1 \in 1 .. Len(file'[s])
        BY <1>1, FilesOf
    <2> QED BY <1>1, <2>1, KeptPrimed
<1>5. Kept' = Kept \cup {written + 1}
    BY <1>2, <1>3, <1>4
<1> QED BY <1>5, GonePrimed DEF Gone

LEMMA GrownOrder ==
    ASSUME LogShape, Numbered, OrderHolds, NEW s, NEW line, Grown(s, line), acked' \subseteq acked \cup {written + 1},
           adrift \subseteq adrift', adrift' \subseteq adrift \cup {written + 1}, s = 0 \/ written + 1 \in adrift'
    PROVE  OrderHolds'
<1>0. written \in Nat /\ line.n = written + 1 /\ s \in Slots
    BY GrownIs
<1>1. Kept' = Kept \cup {written + 1} /\ Gone' \subseteq Gone
    BY GrownKept
<1>2. \A u \in Slots : \A i \in 1 .. Len(file[u]) : file[u][i].n \in 1 .. written
    BY DEF Numbered
<1>3. Gone \subseteq 1 .. written
    BY DEF Gone, Numbered
<1>4. GoneAreOldest'
    <2> SUFFICES ASSUME NEW n \in Gone', NEW m \in Kept', m \notin adrift' PROVE n < m
        BY DEF GoneAreOldest
    <2>1. n \in Gone /\ n \in 1 .. written
        BY <1>1, <1>3
    <2>2. CASE m = written + 1
        BY <1>0, <2>1, <2>2
    <2>3. CASE m # written + 1
        BY <1>1, <2>1, <2>3 DEF OrderHolds, GoneAreOldest
    <2> QED BY <2>2, <2>3
<1>5. Rising'
    <2> SUFFICES ASSUME NEW u \in Slots, NEW v \in Slots, u > v, NEW i \in 1 .. Len(file'[u]), NEW j \in 1 .. Len(file'[v]),
                        file'[u][i].n \notin adrift', file'[v][j].n \notin adrift'
                 PROVE  file'[u][i].n < file'[v][j].n
        BY DEF Rising, Slots
    <2>1. u \in Nat /\ v \in Nat
        BY SlotsAreNumbers
    <2>2. ~(u = s /\ file'[u][i] = line)
        BY <1>0, <2>1
    <2>3. i \in 1 .. Len(file[u]) /\ file'[u][i] = file[u][i]
        BY <2>2, GrownEntry
    <2>4. file'[u][i].n \in 1 .. written
        BY <1>2, <2>3
    <2>5. CASE file'[v][j] = line
        BY <1>0, <2>4, <2>5
    <2>6. CASE j \in 1 .. Len(file[v]) /\ file'[v][j] = file[v][j]
        BY <2>3, <2>6 DEF OrderHolds, Rising
    <2> QED BY <2>5, <2>6, GrownEntry
<1> QED BY <1>4, <1>5 DEF OrderHolds

LEMMA MovedOrder ==
    ASSUME LogShape, Rising, NEW org, Moved(org), adrift \subseteq adrift'
    PROVE  Rising' /\ Kept' \subseteq Kept
<1>1. Rising'
    <2> SUFFICES ASSUME NEW u \in Slots, NEW v \in Slots, u > v, NEW i \in 1 .. Len(file'[u]), NEW j \in 1 .. Len(file'[v]),
                        file'[u][i].n \notin adrift', file'[v][j].n \notin adrift'
                 PROVE  file'[u][i].n < file'[v][j].n
        BY DEF Rising, Slots
    <2>1. org[u] \in Slots /\ file'[u] # <<>> /\ i \in 1 .. Len(file[org[u]]) /\ file'[u][i] = file[org[u]][i]
        BY MovedEntry
    <2>2. org[v] \in Slots /\ file'[v] # <<>> /\ j \in 1 .. Len(file[org[v]]) /\ file'[v][j] = file[org[v]][j]
        BY MovedEntry
    <2>3. org[u] > org[v]
        BY <2>1, <2>2 DEF Moved
    <2> QED BY <2>1, <2>2, <2>3 DEF Rising
<1>2. Kept' \subseteq Kept
    <2> SUFFICES ASSUME NEW m, m \in Kept' PROVE m \in Kept
        OBVIOUS
    <2>1a. PICK u \in Slots : \E i \in 1 .. Len(file'[u]) : m = file'[u][i].n
        BY KeptPrimed
    <2>1. PICK i \in 1 .. Len(file'[u]) : m = file'[u][i].n
        BY <2>1a
    <2>2. org[u] \in Slots /\ i \in 1 .. Len(file[org[u]]) /\ file'[u][i] = file[org[u]][i]
        BY MovedEntry
    <2> QED BY <2>1, <2>2, KeptIs
<1> QED BY <1>1, <1>2

\* The files stay where they are.
LEMMA StillOrder ==
    ASSUME LogShape, OrderHolds, file' = file, adrift \subseteq adrift', acked' \ adrift' \subseteq acked
    PROVE  OrderHolds' /\ Gone' \subseteq Gone
<1>1. Rising' /\ Kept' = Kept
    <2>1. Kept' = Kept
        BY DEF Kept, Slots
    <2> QED BY <2>1, StillIsMoved, MovedOrder DEF OrderHolds
<1>2. Gone' \subseteq Gone
    BY <1>1, GonePrimed DEF Gone
<1>3. GoneAreOldest'
    <2> SUFFICES ASSUME NEW n \in Gone', NEW m \in Kept', m \notin adrift' PROVE n < m
        BY DEF GoneAreOldest
    <2> QED BY <1>1, <1>2 DEF OrderHolds, GoneAreOldest
<1> QED BY <1>1, <1>2, <1>3 DEF OrderHolds

\* A rename loses nothing: the slot it fills is free.
LEMMA RenameOrder ==
    ASSUME LogShape, ThreadsHold, RotationHolds, OrderHolds, NEW t \in Thread, Rename(t)
    PROVE  OrderHolds' /\ Gone' = Gone
<1> DEFINE s == Replaced(thread[t].turn)
<1>0. /\ s \in 1 .. Backups /\ s \in Slots /\ s - 1 \in Slots
      /\ file'[s] = file[s - 1] /\ file'[s - 1] = <<>>
      /\ (\A u \in Slots : u # s /\ u # s - 1 => file'[u] = file[u])
      /\ UNCHANGED <<acked, adrift>>
    BY RotationSteps
<1>1. file[s] = <<>>
    BY DEF RotationHolds, Freed, Rename
<1>2. Rising' /\ Kept' \subseteq Kept
    <2>1. file' = [file EXCEPT ![s] = file[s - 1], ![s - 1] = <<>>]
        BY DEF Rename
    <2> HIDE DEF s
    <2>2. \E org : Moved(org)
        BY <1>0, <2>1, ShiftedIsMoved
    <2> QED BY <1>0, <2>2, MovedOrder DEF OrderHolds
<1> HIDE DEF s
<1>3. Kept \subseteq Kept'
    <2> SUFFICES ASSUME NEW m, m \in Kept PROVE m \in Kept'
        OBVIOUS
    <2>1a. PICK u \in Slots : \E i \in 1 .. Len(file[u]) : m = file[u][i].n
        BY KeptIs
    <2>1. PICK i \in 1 .. Len(file[u]) : m = file[u][i].n
        BY <2>1a
    <2>2. u # s
        <3>1. 1 .. Len(<<>>) = {}
            OBVIOUS
        <3> QED BY <1>1, <3>1
    <2>3. CASE u = s - 1
        BY <1>0, <2>1, <2>3, KeptPrimed
    <2>4. CASE u # s - 1
        BY <1>0, <2>1, <2>2, <2>4, KeptPrimed
    <2> QED BY <2>3, <2>4
<1>4. Gone' = Gone
    BY <1>0, <1>2, <1>3, GonePrimed DEF Gone
<1>5. GoneAreOldest'
    <2> SUFFICES ASSUME NEW n \in Gone', NEW m \in Kept', m \notin adrift' PROVE n < m
        BY DEF GoneAreOldest
    <2> QED BY <1>0, <1>2, <1>4 DEF OrderHolds, GoneAreOldest
<1> QED BY <1>2, <1>4, <1>5 DEF OrderHolds

\* A removal gives up the oldest backup, and finds every other slot free.
LEMMA RemoveOrder ==
    ASSUME LogShape, ThreadsHold, RotationHolds, OrderHolds, NEW t \in Thread, Remove(t),
           NEW s, s = Replaced(thread[t].turn)
    PROVE  /\ OrderHolds'
           /\ Gone' # {} => Gone # {} \/ (s = Backups /\ file[s] # <<>>)
           /\ file[s] # <<>> => s = Backups
<1>0. /\ s \in 1 .. Backups /\ s \in Slots /\ thread[t].turn \in 1 .. Backups
      /\ file'[s] = <<>> /\ (\A u \in Slots : u # s => file'[u] = file[u])
      /\ UNCHANGED <<acked, adrift>>
    BY RotationSteps
<1>1. file[s] # <<>> => s = Backups
    <2> SUFFICES ASSUME file[s] # <<>> PROVE s = Backups
        OBVIOUS
    <2>1. ~Freed(t) /\ thread[t].at = "remove"
        BY DEF RotationHolds, Remove
    <2>2. thread[t].turn = 1
        BY <1>0, <2>1 DEF Freed
    <2> QED BY <2>2, ReplacedIs, LogNumbers
<1>2. Rising' /\ Kept' \subseteq Kept
    <2>1. file' = [file EXCEPT ![s] = <<>>]
        BY DEF Remove
    <2>2. \E org : Moved(org)
        BY <1>0, <2>1, EmptiedIsMoved
    <2> QED BY <1>0, <2>2, MovedOrder DEF OrderHolds
<1>3. ASSUME NEW n \in Gone', n \notin Gone
      PROVE  n \notin adrift /\ \E i \in 1 .. Len(file[s]) : n = file[s][i].n
    <2>1. n \in Kept /\ n \notin Kept' /\ n \notin adrift
        BY <1>0, <1>3, GonePrimed DEF Gone
    <2>2a. PICK u \in Slots : \E i \in 1 .. Len(file[u]) : n = file[u][i].n
        BY <2>1, KeptIs
    <2>2. PICK i \in 1 .. Len(file[u]) : n = file[u][i].n
        BY <2>2a
    <2>3. u = s
        BY <1>0, <2>1, <2>2, KeptPrimed
    <2> QED BY <2>1, <2>2, <2>3
<1>4. ASSUME NEW n \in Gone', NEW m \in Kept', m \notin adrift' PROVE n < m
    <2>1. CASE n \in Gone
        BY <1>0, <1>2, <1>4, <2>1 DEF OrderHolds, GoneAreOldest
    <2>2. CASE n \notin Gone
        <3>1. PICK i \in 1 .. Len(file[s]) : n = file[s][i].n /\ n \notin adrift
            BY <1>3, <2>2
        <3>2a. PICK u \in Slots : \E j \in 1 .. Len(file'[u]) : m = file'[u][j].n
            BY KeptPrimed
        <3>2. PICK j \in 1 .. Len(file'[u]) : m = file'[u][j].n
            BY <3>2a
        <3>3. u # s
            <4>1. 1 .. Len(<<>>) = {}
                OBVIOUS
            <4> QED BY <1>0, <4>1
        <3>4. file[s] # <<>>
            <4>1. 1 .. Len(<<>>) = {}
                OBVIOUS
            <4> QED BY <4>1
        <3>5. s > u
            BY <1>1, <3>3, <3>4, SlotsAreNumbers, LogNumbers
        <3> QED BY <1>0, <1>4, <3>1, <3>2, <3>3, <3>5 DEF OrderHolds, Rising
    <2> QED BY <2>1, <2>2
<1>5. OrderHolds'
    BY <1>2, <1>4 DEF OrderHolds, GoneAreOldest
<1>6. Gone' # {} => Gone # {} \/ (s = Backups /\ file[s] # <<>>)
    <2> SUFFICES ASSUME NEW n \in Gone', n \notin Gone PROVE s = Backups /\ file[s] # <<>>
        OBVIOUS
    <2>1. 1 .. Len(<<>>) = {}
        OBVIOUS
    <2> QED BY <1>1, <1>3, <2>1
<1> QED BY <1>1, <1>5, <1>6

\* The records of the steps that append one line.
LEMMA AppendNotes ==
    ASSUME LogShape, NEW t \in Thread, Write(t)
    PROVE  acked' = acked \cup {written + 1} /\ adrift' = adrift
BY DEF Write

LEMMA OrderNext ==
    ASSUME LogShape, ThreadsHold, Numbered, RotationHolds, OrderHolds, [Next]_vars
    PROVE  OrderHolds'
<1>1. ASSUME UNCHANGED <<file, acked, adrift>> PROVE OrderHolds'
    BY <1>1, StillOrder
<1>2. CASE UNCHANGED vars
    BY <1>1, <1>2 DEF vars
<1>3. ASSUME NEW t \in Thread, HostReports(t) \/ PlainRecords(t) PROVE OrderHolds'
    BY <1>1, <1>3, ReportsOutside
<1>4. ASSUME NEW t \in Thread, Enter(t) PROVE OrderHolds'
    BY <1>1, <1>4 DEF Enter
<1>5. ASSUME NEW t \in Thread, Remove(t) \/ Rename(t) PROVE OrderHolds'
    <2> DEFINE s == Replaced(thread[t].turn)
    <2>0. s = Replaced(thread[t].turn)
        OBVIOUS
    <2> HIDE DEF s
    <2>1. CASE Remove(t)
        BY <2>0, <2>1, RemoveOrder
    <2>2. CASE Rename(t)
        BY <2>2, RenameOrder
    <2> QED BY <1>5, <2>1, <2>2
<1>6. ASSUME NEW t \in Thread, Write(t) PROVE OrderHolds'
    BY <1>6, WriteGrows, AppendNotes, GrownOrder
<1>7. ASSUME CutOff, UNCHANGED <<acked, adrift>> PROVE OrderHolds'
    BY <1>7, CutOffGrows, GrownOrder
<1>8. ASSUME NEW t \in Thread, Fails(t) PROVE OrderHolds'
    BY <1>1, <1>7, <1>8 DEF Fails
<1>9. CASE Crash
    BY <1>1, <1>7, <1>9 DEF Crash
<1>10. CASE EndsSession
    <2>1. CASE UNCHANGED <<file, written, acked, adrift, raced>>
        BY <1>1, <2>1
    <2>2. ASSUME NEW line, EndingWrites(line) PROVE OrderHolds'
        <3>1. acked' \subseteq acked \cup {written + 1} /\ adrift \subseteq adrift' /\ adrift' \subseteq adrift \cup {written + 1}
              /\ (ending.slot # 0 => written + 1 \in adrift')
            BY <2>2 DEF EndingWrites
        <3>2. CASE Grown(ending.slot, line)
            BY <3>1, <3>2, GrownOrder
        <3>3. CASE ending.slot = Backups + 1 /\ file' = file
            <4>1. ending.slot # 0
                BY <3>3, LogNumbers
            <4>2. acked' \ adrift' \subseteq acked
                BY <3>1, <4>1
            <4> QED BY <3>1, <3>3, <4>2, StillOrder
        <3> QED BY <2>2, <3>2, <3>3 DEF EndingWrites
    <2> QED BY <1>10, <2>1, <2>2, EndsSessionWrites
<1>11. CASE OpenEnding \/ StartRead \/ ReadFile \/ Tick
    BY <1>1, <1>11 DEF OpenEnding, StartRead, ReadFile, Tick
<1> QED BY <1>2, <1>3, <1>4, <1>5, <1>6, <1>8, <1>9, <1>10, <1>11, LogSteps

-----------------------------------------------------------------------------
(* What a rotation that is cut off costs.                                  *)

\* A backup that is empty although an older one is in use, or records are gone,
\* and that no rotation is about to fill.
Filling(s) == \E t \in Thread : Freed(t) /\ s = Replaced(thread[t].turn)
Gap(s) == file[s] = <<>> /\ (Gone # {} \/ \E u \in Slots : u > s /\ file[u] # <<>>)
Gaps == {s \in 1 .. Backups : Gap(s) /\ ~Filling(s)}

\* Every gap is the work of a fault.
GapsHold == Cardinality(Gaps) <= faults

LEMMA GapsPrimed ==
    /\ Gaps' = {s \in 1 .. Backups : Gap(s)' /\ ~Filling(s)'}
    /\ \A s : Gap(s)' <=> file'[s] = <<>> /\ (Gone' # {} \/ \E u \in Slots : u > s /\ file'[u] # <<>>)
    /\ \A s : Filling(s)' <=> \E t \in Thread : Freed(t)' /\ s = Replaced(thread'[t].turn)
BY DEF Gaps, Gap, Filling, Slots, Replaced

LEMMA GapsFinite ==
    /\ IsFiniteSet(Gaps) /\ Cardinality(Gaps) \in Nat
    /\ \A S \in SUBSET (1 .. Backups) : IsFiniteSet(S) /\ Cardinality(S) \in Nat
<1>1. IsFiniteSet(1 .. Backups)
    BY LogNumbers, FS_Interval
<1>2. ASSUME NEW S \in SUBSET (1 .. Backups) PROVE IsFiniteSet(S) /\ Cardinality(S) \in Nat
    BY <1>1, FS_Subset, FS_CardinalityType
<1>3. Gaps \in SUBSET (1 .. Backups)
    BY DEF Gaps
<1> QED BY <1>2, <1>3

\* Sets that become smaller, or that gain one element.
LEMMA FewerThan ==
    ASSUME NEW S, IsFiniteSet(S), NEW T \in SUBSET S, NEW n \in Nat, Cardinality(S) <= n, NEW m \in Nat, n <= m
    PROVE  IsFiniteSet(T) /\ Cardinality(T) <= m
<1>1. IsFiniteSet(T) /\ Cardinality(T) <= Cardinality(S)
    BY FS_Subset
<1>2. Cardinality(T) \in Nat /\ Cardinality(S) \in Nat
    BY <1>1, FS_CardinalityType
<1> QED BY <1>1, <1>2

LEMMA OneMoreThan ==
    ASSUME NEW S, IsFiniteSet(S), NEW x, NEW T \in SUBSET (S \cup {x}), NEW n \in Nat, Cardinality(S) <= n
    PROVE  IsFiniteSet(T) /\ Cardinality(T) <= n + 1
<1> DEFINE all == S \cup {x}
<1>1. IsFiniteSet(all) /\ Cardinality(all) = IF x \in S THEN Cardinality(S) ELSE Cardinality(S) + 1
    BY FS_AddElement
<1>2. Cardinality(S) \in Nat
    BY FS_CardinalityType
<1>3. T \in SUBSET all
    OBVIOUS
<1> HIDE DEF all
<1>4. Cardinality(all) <= n + 1
    BY <1>1, <1>2
<1> QED BY <1>1, <1>3, <1>4, FewerThan

\* Gaps that become fewer, and gaps with one fault more.
LEMMA FewerGaps ==
    ASSUME LogShape, GapsHold, Gaps' \subseteq Gaps, faults' \in Nat, faults' >= faults
    PROVE  GapsHold'
<1>1. IsFiniteSet(Gaps) /\ Cardinality(Gaps) <= faults /\ faults \in Nat
    BY GapsFinite DEF LogShape, GapsHold
<1> DEFINE new == Gaps'
           more == faults'
<1>2. new \in SUBSET Gaps /\ more \in Nat /\ faults <= more
    BY <1>1
<1> HIDE DEF new, more
<1>3. Cardinality(new) <= more
    BY <1>1, <1>2, FewerThan
<1> QED BY <1>3 DEF GapsHold, new, more

LEMMA OneGapMore ==
    ASSUME LogShape, GapsHold, NEW s, Gaps' \subseteq Gaps \cup {s}, faults' = faults + 1
    PROVE  GapsHold'
<1>1. IsFiniteSet(Gaps) /\ Cardinality(Gaps) <= faults /\ faults \in Nat
    BY GapsFinite DEF LogShape, GapsHold
<1> DEFINE new == Gaps'
<1>2. new \in SUBSET (Gaps \cup {s})
    OBVIOUS
<1> HIDE DEF new
<1>3. Cardinality(new) <= faults + 1
    BY <1>1, <1>2, OneMoreThan
<1> QED BY <1>3 DEF GapsHold, new

\* One gap takes the place of another.
LEMMA GapMoves ==
    ASSUME LogShape, GapsHold, NEW s, NEW r, r \in Gaps, r \notin Gaps', Gaps' \subseteq Gaps \cup {s}, faults' = faults
    PROVE  GapsHold'
<1>1. IsFiniteSet(Gaps) /\ Cardinality(Gaps) \in Nat /\ faults \in Nat
    BY GapsFinite DEF LogShape
<1> DEFINE new == Gaps'
           rest == Gaps \ {r}
<1>2. IsFiniteSet(rest) /\ Cardinality(rest) = Cardinality(Gaps) - 1
    BY <1>1, FS_RemoveElement
<1>3. Cardinality(rest) \in Nat
    BY <1>2, FS_CardinalityType
<1>4. new \in SUBSET (rest \cup {s})
    OBVIOUS
<1> HIDE DEF new, rest
<1>5. faults - 1 \in Nat /\ Cardinality(rest) <= faults - 1
    BY <1>1, <1>2, <1>3 DEF GapsHold
<1>6. Cardinality(new) <= (faults - 1) + 1
    BY <1>2, <1>4, <1>5, OneMoreThan
<1>7. Cardinality(new) <= faults
    BY <1>1, <1>6
<1> QED BY <1>7 DEF GapsHold, new

\* Gaps beside a step that empties and fills no backup.
LEMMA GapsStay ==
    ASSUME LogShape, \A u \in 1 .. Backups : file'[u] = <<>> <=> file[u] = <<>>, Gone' \subseteq Gone,
           NEW s \in Gaps'
    PROVE  s \in 1 .. Backups /\ Gap(s) /\ ~Filling(s)'
<1>1. s \in 1 .. Backups /\ Gap(s)' /\ ~Filling(s)'
    BY GapsPrimed
<1>2. file'[s] = <<>> /\ (Gone' # {} \/ \E u \in Slots : u > s /\ file'[u] # <<>>)
    BY <1>1, GapsPrimed
<1>3. \A u \in Slots : u > s => u \in 1 .. Backups
    BY <1>1, SlotsAreNumbers, LogNumbers
<1>4. Gap(s)
    BY <1>1, <1>2, <1>3 DEF Gap
<1> QED BY <1>1, <1>4

\* A step after which every rotation that was under way still is.
LEMMA GapsShrink ==
    ASSUME LogShape, GapsHold, \A u \in 1 .. Backups : file'[u] = <<>> <=> file[u] = <<>>, Gone' \subseteq Gone,
           \A u \in Thread : Freed(u) => thread'[u] = thread[u], faults' \in {faults, faults + 1}
    PROVE  GapsHold'
<1>1. ASSUME NEW s \in Gaps' PROVE s \in Gaps
    <2>1. s \in 1 .. Backups /\ Gap(s) /\ ~Filling(s)'
        BY GapsStay
    <2>2. ASSUME NEW u \in Thread, Freed(u), s = Replaced(thread[u].turn) PROVE FALSE
        <3>1. thread'[u] = thread[u]
            BY <2>2
        <3>2. Freed(u)' /\ s = Replaced(thread'[u].turn)
            BY <2>2, <3>1 DEF Freed
        <3> QED BY <2>1, <3>2, GapsPrimed
    <2> QED BY <2>1, <2>2 DEF Gaps, Filling
<1>2. faults' \in Nat /\ faults' >= faults
    BY DEF LogShape
<1> QED BY <1>1, <1>2, FewerGaps

\* A fault leaves the slot that was about to be filled.
LEMMA GapLeft ==
    ASSUME LogShape, GapsHold, \A u \in 1 .. Backups : file'[u] = <<>> <=> file[u] = <<>>, Gone' \subseteq Gone,
           NEW r, \A s : Filling(s) => s = r, faults' = faults + 1
    PROVE  GapsHold'
<1>1. ASSUME NEW s \in Gaps' PROVE s \in Gaps \cup {r}
    <2>1. s \in 1 .. Backups /\ Gap(s) /\ ~Filling(s)'
        BY GapsStay
    <2> QED BY <2>1 DEF Gaps
<1> QED BY <1>1, OneGapMore

LEMMA GrownPattern ==
    ASSUME LogShape, NEW s, NEW line, Grown(s, line), s = 0 \/ file[s] # <<>>
    PROVE  \A u \in 1 .. Backups : file'[u] = <<>> <=> file[u] = <<>>
<1> TAKE u \in 1 .. Backups
<1>1. u \in Slots /\ u # 0
    BY LogNumbers, SlotsAreNumbers
<1>2. CASE u = s
    BY <1>1, <1>2, GrownNonEmpty
<1>3. CASE u # s
    BY <1>1, <1>3, GrownIs
<1> QED BY <1>2, <1>3

LEMMA RemoveGaps ==
    ASSUME LogShape, ThreadsHold, RotationHolds, OrderHolds, GapsHold, NEW t \in Thread, Remove(t)
    PROVE  GapsHold'
<1> DEFINE w == Replaced(thread[t].turn)
<1>0. w = Replaced(thread[t].turn)
    OBVIOUS
<1> HIDE DEF w
<1>1. /\ w \in 1 .. Backups /\ w \in Slots /\ file'[w] = <<>> /\ \A u \in Slots : u # w => file'[u] = file[u]
      /\ faults' = faults
    BY <1>0, RotationSteps
<1>2. thread'[t].at = "rename" /\ thread'[t].turn = thread[t].turn /\ thread[t].at = "remove"
    BY RemoveIs DEF Remove
<1>3. Gone' # {} => Gone # {} \/ (w = Backups /\ file[w] # <<>>)
    BY <1>0, RemoveOrder
<1>4. ASSUME NEW s, s = w PROVE Filling(s)'
    <2>1. Freed(t)' /\ s = Replaced(thread'[t].turn)
        BY <1>0, <1>2, <1>4 DEF Freed
    <2> QED BY <2>1, GapsPrimed
<1>5. ASSUME NEW s, Filling(s) PROVE s = w
    <2>1. PICK u \in Thread : Freed(u) /\ s = Replaced(thread[u].turn)
        BY <1>5 DEF Filling
    <2>2. u = t
        BY <1>2, <2>1, FreedIs, OneInside
    <2> QED BY <1>0, <2>1, <2>2
<1>6. ASSUME NEW s \in Gaps' PROVE s \in Gaps
    <2>1. s \in 1 .. Backups /\ Gap(s)' /\ ~Filling(s)'
        BY GapsPrimed
    <2>2. s # w /\ s \in Slots
        BY <1>4, <2>1, LogNumbers, SlotsAreNumbers
    <2>3. file'[s] = <<>> /\ (Gone' # {} \/ \E u \in Slots : u > s /\ file'[u] # <<>>)
        BY <2>1, GapsPrimed
    <2>4. file[s] = <<>>
        BY <1>1, <2>2, <2>3
    <2>5. CASE Gone # {}
        BY <1>5, <2>1, <2>2, <2>4, <2>5 DEF Gaps, Gap
    <2>6. CASE w = Backups /\ file[w] # <<>>
        <3>1. w > s
            BY <2>1, <2>2, <2>6, LogNumbers
        <3> QED BY <1>1, <1>5, <2>1, <2>2, <2>4, <2>6, <3>1 DEF Gaps, Gap
    <2>7. ASSUME NEW u \in Slots, u > s, file'[u] # <<>> PROVE s \in Gaps
        <3>1. file[u] # <<>>
            BY <1>1, <2>7
        <3> QED BY <1>5, <2>1, <2>2, <2>4, <2>7, <3>1 DEF Gaps, Gap
    <2> QED BY <1>3, <2>3, <2>5, <2>6, <2>7
<1>7. faults' \in Nat /\ faults' >= faults
    BY <1>1 DEF LogShape
<1> QED BY <1>6, <1>7, FewerGaps

LEMMA RenameGaps ==
    ASSUME LogShape, ThreadsHold, RotationHolds, OrderHolds, GapsHold, NEW t \in Thread, Rename(t)
    PROVE  GapsHold'
<1> DEFINE w == Replaced(thread[t].turn)
<1>0. w = Replaced(thread[t].turn)
    OBVIOUS
<1> HIDE DEF w
<1>1. /\ w \in 1 .. Backups /\ w \in Slots /\ w - 1 \in Slots /\ thread[t].turn \in 1 .. Backups
      /\ file'[w] = file[w - 1] /\ file'[w - 1] = <<>>
      /\ \A u \in Slots : u # w /\ u # w - 1 => file'[u] = file[u]
      /\ faults' = faults
    BY <1>0, RotationSteps
<1>2. /\ thread[t].turn < Backups => thread'[t].at = "remove" /\ thread'[t].turn = thread[t].turn + 1
      /\ thread[t].at = "rename"
    BY RenameIs DEF Rename
<1>3. Gone' = Gone
    BY RenameOrder
<1>4. file[0] # <<>>
    BY <1>2 DEF RotationHolds
<1>5. ASSUME NEW s, Filling(s) PROVE s = w
    <2>1. PICK u \in Thread : Freed(u) /\ s = Replaced(thread[u].turn)
        BY <1>5 DEF Filling
    <2>2. u = t
        BY <1>2, <2>1, FreedIs, OneInside
    <2> QED BY <1>0, <2>1, <2>2
<1>6. ASSUME NEW s \in 1 .. Backups, s = w - 1 PROVE Filling(s)'
    <2> DEFINE turn == thread[t].turn
    <2>0. w = Replaced(turn) /\ turn \in 1 .. Backups /\ w - 1 \in 1 .. Backups /\ Backups \in Nat
        BY <1>0, <1>1, <1>6, LogNumbers
    <2>1. thread[t].turn < Backups
        <3> HIDE DEF turn
        <3>1. turn < Backups
            BY <2>0 DEF Replaced
        <3> QED BY <3>1 DEF turn
    <2>2. thread'[t].at = "remove" /\ thread'[t].turn = thread[t].turn + 1
        BY <1>2, <2>1
    <2>3. Replaced(thread'[t].turn) = s
        BY <1>0, <1>1, <1>6, <2>2, ReplacedIs
    <2>4. thread'[t].turn > 1
        BY <1>1, <2>2
    <2>5. Freed(t)'
        BY <2>2, <2>4 DEF Freed
    <2> QED BY <2>3, <2>5, GapsPrimed
<1>7. w - 1 \notin Gaps'
    BY <1>6, GapsPrimed
<1>8. ASSUME NEW s \in Gaps', s # w PROVE s \in Gaps
    <2>1. s \in 1 .. Backups /\ Gap(s)'
        BY GapsPrimed
    <2>2. s \in Slots /\ s # w - 1
        BY <1>7, <2>1, LogNumbers, SlotsAreNumbers
    <2>3. file'[s] = <<>> /\ (Gone' # {} \/ \E u \in Slots : u > s /\ file'[u] # <<>>)
        BY <2>1, GapsPrimed
    <2>4. file[s] = <<>> /\ ~Filling(s)
        BY <1>1, <1>5, <1>8, <2>2, <2>3
    <2>5. CASE Gone # {}
        BY <2>1, <2>4, <2>5 DEF Gaps, Gap
    <2>6. ASSUME NEW u \in Slots, u > s, file'[u] # <<>> PROVE s \in Gaps
        <3>1. CASE u = w
            <4>1. w - 1 > s
                BY <1>1, <2>1, <2>2, <2>6, <3>1, LogNumbers
            <4>2. file[w - 1] # <<>>
                BY <1>1, <2>6, <3>1
            <4> QED BY <1>1, <2>1, <2>4, <4>1, <4>2 DEF Gaps, Gap
        <3>2. CASE u # w
            <4>1. file[u] # <<>>
                BY <1>1, <2>6, <3>2
            <4> QED BY <2>1, <2>4, <2>6, <4>1 DEF Gaps, Gap
        <3> QED BY <3>1, <3>2
    <2> QED BY <1>3, <2>3, <2>5, <2>6
<1>9. CASE w \in Gaps'
    <2>1. file'[w] = <<>> /\ (Gone' # {} \/ \E u \in Slots : u > w /\ file'[u] # <<>>)
        BY <1>9, GapsPrimed
    <2>2. file[w - 1] = <<>>
        BY <1>1, <2>1
    <2>3. w - 1 \in 1 .. Backups
        <3>1. w - 1 # 0
            BY <1>4, <2>2
        <3> QED BY <1>1, <3>1, LogNumbers
    <2>4. ~Filling(w - 1)
        <3>1. w - 1 # w
            BY <1>1
        <3> QED BY <1>5, <3>1
    <2>5. w - 1 \in Gaps
        <3>1. CASE Gone # {}
            BY <2>2, <2>3, <2>4, <3>1 DEF Gaps, Gap
        <3>2. ASSUME NEW u \in Slots, u > w, file'[u] # <<>> PROVE w - 1 \in Gaps
            <4>1. u > w - 1 /\ u # w /\ u # w - 1
                BY <1>1, <3>2, SlotsAreNumbers
            <4>2. file[u] # <<>>
                BY <1>1, <3>2, <4>1
            <4> QED BY <2>2, <2>3, <2>4, <4>1, <4>2 DEF Gaps, Gap
        <3> QED BY <1>3, <2>1, <3>1, <3>2
    <2>6. Gaps' \subseteq Gaps \cup {w}
        BY <1>8
    <2> QED BY <1>1, <1>7, <2>5, <2>6, GapMoves
<1>10. CASE w \notin Gaps'
    <2>1. Gaps' \subseteq Gaps
        BY <1>8, <1>10
    <2>2. faults' \in Nat /\ faults' >= faults
        BY <1>1 DEF LogShape
    <2> QED BY <2>1, <2>2, FewerGaps
<1> QED BY <1>9, <1>10

LEMMA GapsNext ==
    ASSUME LogShape, ThreadsHold, Numbered, RotationHolds, OrderHolds, GapsHold, [Next]_vars
    PROVE  GapsHold'
<1>1. ASSUME UNCHANGED <<file, acked, adrift>>
      PROVE  Gone' \subseteq Gone /\ \A u \in 1 .. Backups : file'[u] = <<>> <=> file[u] = <<>>
    BY <1>1, StillOrder
<1>2. ASSUME UNCHANGED <<file, acked, adrift>>, faults' \in {faults, faults + 1}, \A u \in Thread : Freed(u) => thread'[u] = thread[u] PROVE GapsHold'
    BY <1>1, <1>2, GapsShrink
<1>3. CASE UNCHANGED vars
    BY <1>2, <1>3 DEF vars
<1>4. ASSUME NEW t \in Thread, HostReports(t) \/ PlainRecords(t) PROVE GapsHold'
    <2>1. UNCHANGED <<file, acked, adrift, faults>>
        BY <1>4, ReportsOutside
    <2>2. \A u \in Thread : thread[u].at # "idle" => thread'[u] = thread[u]
        BY <1>4, ReportsOutside
    <2>3. \A u \in Thread : Freed(u) => thread'[u] = thread[u]
        BY <2>2 DEF Freed
    <2> QED BY <1>2, <2>1, <2>3
<1>5. ASSUME NEW t \in Thread, Enter(t) PROVE GapsHold'
    <2>1. UNCHANGED <<file, acked, adrift, faults>> /\ lock = Nobody
        BY <1>5 DEF Enter
    <2>2. \A u \in Thread : ~Freed(u)
        BY <2>1, ThreadsAssumption DEF Freed, ThreadsHold, ThreadHolds
    <2> QED BY <1>2, <2>1, <2>2
<1>6. ASSUME NEW t \in Thread, Remove(t) \/ Rename(t) PROVE GapsHold'
    BY <1>6, RemoveGaps, RenameGaps
<1>7. ASSUME NEW line, Grown(0, line), acked' \subseteq acked \cup {written + 1}, adrift' = adrift
      PROVE  Gone' \subseteq Gone /\ \A u \in 1 .. Backups : file'[u] = <<>> <=> file[u] = <<>>
    BY <1>7, GrownKept, GrownPattern
<1>8. ASSUME NEW t \in Thread, Write(t) PROVE GapsHold'
    <2>1. Gone' \subseteq Gone /\ \A u \in 1 .. Backups : file'[u] = <<>> <=> file[u] = <<>>
        BY <1>7, <1>8, WriteGrows, AppendNotes
    <2>2. thread[t].at = "write" /\ faults' = faults
        BY <1>8 DEF Write
    <2>3. \A u \in Thread : ~Freed(u)
        <3> SUFFICES ASSUME NEW u \in Thread, Freed(u) PROVE FALSE
            OBVIOUS
        <3>1. u # t
            BY <2>2 DEF Freed
        <3> QED BY <2>2, <3>1, OneInside DEF Freed
    <2> QED BY <2>1, <2>2, <2>3, GapsShrink
<1>9. ASSUME NEW t \in Thread, Fails(t) PROVE GapsHold'
    <2>1. thread[t].at \in {"remove", "rename", "write"} /\ faults' = faults + 1 /\ UNCHANGED <<acked, adrift>>
        BY <1>9 DEF Fails, Fault
    <2>2. Gone' \subseteq Gone /\ \A u \in 1 .. Backups : file'[u] = <<>> <=> file[u] = <<>>
        <3>1. CASE UNCHANGED <<file, written>>
            BY <1>1, <2>1, <3>1
        <3>2. CASE CutOff
            BY <1>7, <2>1, <3>2, CutOffGrows
        <3> QED BY <1>9, <3>1, <3>2 DEF Fails
    <2> DEFINE r == Replaced(thread[t].turn)
    <2>3. ASSUME NEW s, Filling(s) PROVE s = r
        <3>1. PICK u \in Thread : Freed(u) /\ s = Replaced(thread[u].turn)
            BY <2>3 DEF Filling
        <3>2. u = t
            BY <2>1, <3>1, FreedIs, OneInside
        <3> QED BY <3>1, <3>2
    <2> HIDE DEF r
    <2> QED BY <2>1, <2>2, <2>3, GapLeft
<1>10. CASE Crash
    <2>1. faults' = faults + 1 /\ UNCHANGED <<acked, adrift>>
        BY <1>10 DEF Crash, Fault
    <2>2. Gone' \subseteq Gone /\ \A u \in 1 .. Backups : file'[u] = <<>> <=> file[u] = <<>>
        <3>1. CASE UNCHANGED <<file, written>>
            BY <1>1, <2>1, <3>1
        <3>2. CASE CutOff
            BY <1>7, <2>1, <3>2, CutOffGrows
        <3> QED BY <1>10, <3>1, <3>2 DEF Crash
    <2> DEFINE r == Replaced(thread[lock].turn)
    <2>3. ASSUME NEW s, Filling(s) PROVE s = r
        <3>1. PICK u \in Thread : Freed(u) /\ s = Replaced(thread[u].turn)
            BY <2>3 DEF Filling
        <3>2. u = lock
            BY <3>1, FreedIs DEF ThreadsHold, ThreadHolds
        <3> QED BY <3>1, <3>2
    <2> HIDE DEF r
    <2> QED BY <2>1, <2>2, <2>3, GapLeft
<1>11. CASE EndsSession
    <2>1. thread' = thread /\ faults' \in {faults, faults + 1} /\ ending.at = "open"
        BY <1>11, EndsSessionIs
    <2>2. CASE UNCHANGED <<file, written, acked, adrift, raced>>
        BY <1>2, <2>1, <2>2
    <2>3. ASSUME NEW line, EndingWrites(line) PROVE GapsHold'
        <3>1. acked' \subseteq acked \cup {written + 1} /\ adrift \subseteq adrift' /\ (ending.slot # 0 => written + 1 \in adrift')
            BY <2>3 DEF EndingWrites
        <3>2. CASE Grown(ending.slot, line)
            <4>1. ending.slot \in Slots
                BY <3>2, GrownIs
            <4>2. ending.slot = 0 \/ file[ending.slot] # <<>>
                <5>1. ending.slot = 0 \/ ending.slot \in 1 .. Backups
                    BY <4>1, SlotsAreNumbers, LogNumbers
                <5> QED BY <2>1, <5>1 DEF RotationHolds
            <4>3. Gone' \subseteq Gone
                BY <3>1, <3>2, GrownKept
            <4>4. \A u \in 1 .. Backups : file'[u] = <<>> <=> file[u] = <<>>
                BY <3>2, <4>2, GrownPattern
            <4> QED BY <2>1, <4>3, <4>4, GapsShrink
        <3>3. CASE ending.slot = Backups + 1 /\ file' = file
            <4>1. ending.slot # 0
                BY <3>3, LogNumbers
            <4>2. acked' \ adrift' \subseteq acked
                BY <3>1, <4>1
            <4>3. Gone' \subseteq Gone
                BY <3>1, <3>3, <4>2, StillOrder
            <4> QED BY <2>1, <3>3, <4>3, GapsShrink
        <3> QED BY <2>3, <3>2, <3>3 DEF EndingWrites
    <2> QED BY <1>11, <2>2, <2>3, EndsSessionWrites
<1>12. CASE OpenEnding \/ StartRead \/ ReadFile \/ Tick
    <2>1. UNCHANGED <<file, acked, adrift, faults, thread>>
        BY <1>12 DEF OpenEnding, StartRead, ReadFile, Tick
    <2> QED BY <1>2, <2>1
<1> QED BY <1>3, <1>4, <1>5, <1>6, <1>8, <1>9, <1>10, <1>11, <1>12, LogSteps

\* What the gaps say of the backups between two rotations.
LEMMA GapsBetween ==
    ASSUME LogShape, ThreadsHold, GapsHold, Gone # {}, lock = Nobody
    PROVE  Cardinality({s \in 1 .. Backups : file[s] = <<>>}) <= faults
<1>1. \A u \in Thread : ~Freed(u)
    BY ThreadsAssumption DEF Freed, ThreadsHold, ThreadHolds
<1>2. {s \in 1 .. Backups : file[s] = <<>>} = Gaps
    BY <1>1 DEF Gaps, Gap, Filling
<1> QED BY <1>2 DEF GapsHold

-----------------------------------------------------------------------------
(* What a write that is cut off costs.                                     *)

\* The lines that were cut off and are still in a file.
Cut(n) == \E s \in Slots : \E i \in 1 .. Len(file[s]) : n = file[s][i].n /\ ~file[s][i].whole
Cuts == {n \in 1 .. MaxRecords : Cut(n)}

\* Every one of them is the work of a fault, and none was reported as written.
CutsHold == Cardinality(Cuts) <= faults /\ Cuts \cap acked = {}

LEMMA CutsPrimed ==
    /\ Cuts' = {n \in 1 .. MaxRecords : Cut(n)'}
    /\ \A n : Cut(n)' <=> \E s \in Slots : \E i \in 1 .. Len(file'[s]) : n = file'[s][i].n /\ ~file'[s][i].whole
BY DEF Cuts, Cut, Slots

LEMMA CutsFinite ==
    ASSUME LogShape, Numbered
    PROVE  IsFiniteSet(Cuts) /\ Cuts \subseteq 1 .. written /\ \A n : Cut(n) => n \in Cuts
<1>1. IsFiniteSet(1 .. MaxRecords)
    BY LogNumbers, FS_Interval
<1>2. Cuts \in SUBSET (1 .. MaxRecords)
    BY DEF Cuts
<1>3. \A n : Cut(n) => n \in 1 .. written
    BY DEF Cut, Numbered
<1>4. 1 .. written \subseteq 1 .. MaxRecords
    BY LogNumbers DEF LogShape
<1> QED BY <1>1, <1>2, <1>3, <1>4, FS_Subset DEF Cuts

\* No line is cut off.
LEMMA FewerCuts ==
    ASSUME LogShape, Numbered, CutsHold, \A n : Cut(n)' => Cut(n), acked' \subseteq acked \cup {written + 1},
           faults' \in Nat, faults' >= faults
    PROVE  CutsHold'
<1>1. IsFiniteSet(Cuts) /\ Cardinality(Cuts) <= faults /\ faults \in Nat /\ Cuts \subseteq 1 .. written /\ written \in Nat
    BY CutsFinite DEF LogShape, CutsHold
<1> DEFINE new == Cuts'
           more == faults'
<1>2. new \in SUBSET Cuts
    BY CutsPrimed DEF Cuts
<1>3. more \in Nat /\ faults <= more
    BY <1>1
<1>4. new \cap acked' = {}
    <2>1. written + 1 \notin Cuts
        BY <1>1
    <2>2. Cuts \cap acked = {}
        BY DEF CutsHold
    <2> HIDE DEF new
    <2> QED BY <1>2, <2>1, <2>2
<1> HIDE DEF new, more
<1>5. Cardinality(new) <= more
    BY <1>1, <1>2, <1>3, FewerThan
<1> QED BY <1>4, <1>5 DEF CutsHold, new, more

LEMMA MovedCuts ==
    ASSUME LogShape, Numbered, CutsHold, NEW org, Moved(org), acked' \subseteq acked \cup {written + 1},
           faults' \in Nat, faults' >= faults
    PROVE  CutsHold'
<1>1. ASSUME NEW n, Cut(n)' PROVE Cut(n)
    <2>1a. PICK u \in Slots : \E i \in 1 .. Len(file'[u]) : n = file'[u][i].n /\ ~file'[u][i].whole
        BY <1>1, CutsPrimed
    <2>1. PICK i \in 1 .. Len(file'[u]) : n = file'[u][i].n /\ ~file'[u][i].whole
        BY <2>1a
    <2>2. org[u] \in Slots /\ i \in 1 .. Len(file[org[u]]) /\ file'[u][i] = file[org[u]][i]
        BY MovedEntry
    <2> QED BY <2>1, <2>2 DEF Cut
<1> QED BY <1>1, FewerCuts

\* A line that was appended: the cuts are the ones there were, and perhaps this one.
LEMMA GrownCuts ==
    ASSUME LogShape, NEW s, NEW line, Grown(s, line), NEW n, Cut(n)'
    PROVE  Cut(n) \/ (n = written + 1 /\ ~line.whole)
<1>1a. PICK u \in Slots : \E i \in 1 .. Len(file'[u]) : n = file'[u][i].n /\ ~file'[u][i].whole
    BY CutsPrimed
<1>1. PICK i \in 1 .. Len(file'[u]) : n = file'[u][i].n /\ ~file'[u][i].whole
    BY <1>1a
<1>2. CASE file'[u][i] = line
    BY <1>1, <1>2, GrownIs
<1>3. CASE i \in 1 .. Len(file[u]) /\ file'[u][i] = file[u][i]
    BY <1>1, <1>3 DEF Cut
<1> QED BY <1>2, <1>3, GrownEntry

LEMMA WholeCuts ==
    ASSUME LogShape, Numbered, CutsHold, NEW s, NEW line, Grown(s, line), line.whole,
           acked' \subseteq acked \cup {written + 1}, faults' = faults
    PROVE  CutsHold'
<1>1. \A n : Cut(n)' => Cut(n)
    BY GrownCuts
<1>2. faults' \in Nat /\ faults' >= faults
    BY DEF LogShape
<1> QED BY <1>1, <1>2, FewerCuts

LEMMA OneCutMore ==
    ASSUME LogShape, Numbered, CutsHold, NEW s, NEW line, Grown(s, line), acked' = acked, faults' = faults + 1
    PROVE  CutsHold'
<1>1. IsFiniteSet(Cuts) /\ Cardinality(Cuts) <= faults /\ faults \in Nat /\ written \in Nat
    BY CutsFinite DEF LogShape, CutsHold
<1> DEFINE new == Cuts'
<1>2. new \in SUBSET (Cuts \cup {written + 1})
    <2> SUFFICES ASSUME NEW n \in Cuts', n # written + 1 PROVE n \in Cuts
        OBVIOUS
    <2>1. n \in 1 .. MaxRecords /\ Cut(n)'
        BY CutsPrimed
    <2>2. Cut(n)
        BY <2>1, GrownCuts
    <2> QED BY <2>1, <2>2 DEF Cuts
<1>3. written + 1 \notin acked
    BY <1>1 DEF Numbered
<1>4. new \cap acked' = {}
    BY <1>2, <1>3 DEF CutsHold
<1> HIDE DEF new
<1>5. Cardinality(new) <= faults + 1
    BY <1>1, <1>2, OneMoreThan
<1> QED BY <1>4, <1>5 DEF CutsHold, new

LEMMA CutsNext ==
    ASSUME LogShape, ThreadsHold, Numbered, CutsHold, [Next]_vars
    PROVE  CutsHold'
<1>0. faults \in Nat
    BY DEF LogShape
<1>1. ASSUME file' = file, acked' \subseteq acked \cup {written + 1}, faults' \in {faults, faults + 1} PROVE CutsHold'
    <2>1. faults' \in Nat /\ faults' >= faults
        BY <1>0, <1>1
    <2> QED BY <1>1, <2>1, StillIsMoved, MovedCuts
<1>2. CASE UNCHANGED vars
    BY <1>1, <1>2 DEF vars
<1>3. ASSUME NEW t \in Thread, HostReports(t) \/ PlainRecords(t) PROVE CutsHold'
    BY <1>1, <1>3, ReportsOutside
<1>4. ASSUME NEW t \in Thread, Enter(t) PROVE CutsHold'
    BY <1>1, <1>4 DEF Enter
<1>5. ASSUME NEW t \in Thread, Remove(t) \/ Rename(t) PROVE CutsHold'
    <2> DEFINE s == Replaced(thread[t].turn)
    <2>0. s = Replaced(thread[t].turn)
        OBVIOUS
    <2> HIDE DEF s
    <2>1. s \in 1 .. Backups /\ s \in Slots /\ UNCHANGED <<acked, faults>>
        BY <1>5, <2>0, RotationSteps
    <2>2. \E org : Moved(org)
        <3>1. CASE Remove(t)
            <4>1. file' = [file EXCEPT ![s] = <<>>]
                BY <2>0, <3>1 DEF Remove
            <4> QED BY <2>1, <4>1, EmptiedIsMoved
        <3>2. CASE Rename(t)
            <4>1. file' = [file EXCEPT ![s] = file[s - 1], ![s - 1] = <<>>]
                BY <2>0, <3>2 DEF Rename
            <4> QED BY <2>1, <4>1, ShiftedIsMoved
        <3> QED BY <1>5, <3>1, <3>2
    <2>3. faults' \in Nat /\ faults' >= faults
        BY <1>0, <2>1
    <2> QED BY <2>1, <2>2, <2>3, MovedCuts
<1>6. ASSUME NEW t \in Thread, Write(t) PROVE CutsHold'
    <2>1. Terminated(written + 1).whole /\ faults' = faults
        BY <1>6 DEF Terminated, Line, Write
    <2> QED BY <1>6, <2>1, WriteGrows, AppendNotes, WholeCuts
<1>7. ASSUME NEW t \in Thread, Fails(t) PROVE CutsHold'
    <2>1. acked' = acked /\ faults' = faults + 1
        BY <1>7 DEF Fails, Fault
    <2> QED BY <1>1, <1>7, <2>1, CutOffGrows, OneCutMore DEF Fails
<1>8. CASE Crash
    <2>1. acked' = acked /\ faults' = faults + 1
        BY <1>8 DEF Crash, Fault
    <2> QED BY <1>1, <1>8, <2>1, CutOffGrows, OneCutMore DEF Crash
<1>9. CASE EndsSession
    <2>1. faults' \in {faults, faults + 1}
        BY <1>9, EndsSessionIs
    <2>2. CASE UNCHANGED <<file, written, acked, adrift, raced>>
        BY <1>1, <2>1, <2>2
    <2>3. ASSUME NEW line, EndingWrites(line) PROVE CutsHold'
        <3>1. CASE file' = file
            <4>1. acked' \subseteq acked \cup {written + 1}
                BY <2>3 DEF EndingWrites
            <4> QED BY <1>1, <2>1, <3>1, <4>1
        <3>2. CASE Grown(ending.slot, line)
            <4>1. CASE acked' = acked /\ faults' = faults + 1
                BY <3>2, <4>1, OneCutMore
            <4>2. CASE line = EndingLine(written + 1) /\ acked' = acked \cup {written + 1} /\ faults' = faults
                <5>1. line.whole
                    BY <4>2 DEF EndingLine, Line
                <5> QED BY <3>2, <4>2, <5>1, WholeCuts
            <4> QED BY <2>3, <4>1, <4>2 DEF EndingWrites
        <3> QED BY <2>3, <3>1, <3>2 DEF EndingWrites
    <2> QED BY <1>9, <2>2, <2>3, EndsSessionWrites
<1>10. CASE OpenEnding \/ StartRead \/ ReadFile \/ Tick
    BY <1>1, <1>10 DEF OpenEnding, StartRead, ReadFile, Tick
<1> QED BY <1>2, <1>3, <1>4, <1>5, <1>6, <1>7, <1>8, <1>9, <1>10, LogSteps

\* A line that cannot be read although it was written follows one that was cut
\* off, and no two follow the same one.
Follower(m, n) == \E s \in Slots : \E i \in 2 .. Len(file[s]) : n = file[s][i].n /\ m = file[s][i - 1].n

LEMMA StuckFollows ==
    ASSUME LogShape, Numbered, CutsHold, NEW n \in Stuck \cap acked
    PROVE  \E m \in Cuts : Follower(m, n)
<1>1a. PICK s \in Slots : \E i \in 1 .. Len(file[s]) : n = file[s][i].n /\ ~Readable(file[s], i)
    BY DEF Stuck
<1>1. PICK i \in 1 .. Len(file[s]) : n = file[s][i].n /\ ~Readable(file[s], i)
    BY <1>1a
<1>2. file[s][i].whole
    <2> SUFFICES ASSUME ~file[s][i].whole PROVE FALSE
        OBVIOUS
    <2>1. n \in Cuts
        BY <1>1, CutsFinite DEF Cut
    <2> QED BY <2>1 DEF CutsHold
<1>3. i # 1 /\ ~file[s][i - 1].whole
    BY <1>1, <1>2 DEF Readable
<1>4. Len(file[s]) \in Nat
    BY FilesOf
<1>5. i \in 2 .. Len(file[s]) /\ i - 1 \in 1 .. Len(file[s])
    BY <1>3, <1>4
<1>6. Follower(file[s][i - 1].n, n)
    BY <1>1, <1>5 DEF Follower
<1>7. file[s][i - 1].n \in Cuts
    BY <1>3, <1>5, CutsFinite DEF Cut
<1> QED BY <1>6, <1>7

LEMMA CutsAreFew ==
    ASSUME LogShape, Numbered, Distinct, CutsHold
    PROVE  FewAreUnreadable
<1> DEFINE S == Stuck \cap acked
           f == [n \in S |-> CHOOSE m \in Cuts : Follower(m, n)]
<1>1. ASSUME NEW n \in S PROVE f[n] \in Cuts /\ Follower(f[n], n)
    <2>1. \E m \in Cuts : Follower(m, n)
        BY StuckFollows
    <2>2. f[n] = CHOOSE m \in Cuts : Follower(m, n)
        OBVIOUS
    <2> QED BY <2>1, <2>2, Zenon
<1>2. ASSUME NEW m, NEW n, NEW o, Follower(m, n), Follower(m, o) PROVE n = o
    <2>1a. PICK s \in Slots : \E i \in 2 .. Len(file[s]) : n = file[s][i].n /\ m = file[s][i - 1].n
        BY <1>2 DEF Follower
    <2>1. PICK i \in 2 .. Len(file[s]) : n = file[s][i].n /\ m = file[s][i - 1].n
        BY <2>1a
    <2>2a. PICK u \in Slots : \E j \in 2 .. Len(file[u]) : o = file[u][j].n /\ m = file[u][j - 1].n
        BY <1>2 DEF Follower
    <2>2. PICK j \in 2 .. Len(file[u]) : o = file[u][j].n /\ m = file[u][j - 1].n
        BY <2>2a
    <2>3. Len(file[s]) \in Nat /\ Len(file[u]) \in Nat
        BY FilesOf
    <2> DEFINE p == i - 1
               q == j - 1
    <2>4. p \in 1 .. Len(file[s]) /\ q \in 1 .. Len(file[u])
        BY <2>3
    <2>4a. file[s][p].n = file[u][q].n
        BY <2>1, <2>2
    <2>5. s = u /\ p = q
        <3> HIDE DEF p, q
        <3> QED BY <2>4, <2>4a DEF Distinct
    <2>6. i = j
        BY <2>3, <2>5
    <2> QED BY <2>1, <2>2, <2>5, <2>6
<1>3. IsFiniteSet(Cuts) /\ Cardinality(Cuts) <= faults /\ faults \in Nat
    BY CutsFinite DEF CutsHold, LogShape
<1>4. f \in [S -> Cuts]
    BY <1>1
<1>5. \A n, o \in S : f[n] = f[o] => n = o
    BY <1>1, <1>2
<1> HIDE DEF S, f
<1>6. f \in Injection(S, Cuts)
    BY <1>4, <1>5 DEF Injection, IsInjective
<1>7. IsFiniteSet(S) /\ Cardinality(S) <= Cardinality(Cuts)
    BY <1>3, <1>6, FS_Injection
<1>8. Cardinality(S) \in Nat /\ Cardinality(Cuts) \in Nat
    BY <1>3, <1>7, FS_CardinalityType
<1>9. Cardinality(S) <= faults
    BY <1>3, <1>7, <1>8
<1> QED BY <1>9 DEF FewAreUnreadable, S

-----------------------------------------------------------------------------
(* The throttles, and the log as a whole.                                  *)

\* No throttle remembers more than it has room for.
ThrottleHolds ==
    \A keys \in {Key, Arch} : IsFiniteSet(Known(keys)) /\ Cardinality(Known(keys)) <= ThrottleSize

\* A full throttle knows the key it stamped first.
LEMMA OldestIsKnown ==
    ASSUME LogShape, NEW keys \in {Key, Arch}, Known(keys) # {}
    PROVE  Oldest(keys) \in Known(keys)
<1>1. logger.seen \in [Failure -> Stamp] /\ Stamp \subseteq Nat /\ Known(keys) \subseteq Failure
    BY LoggerFields, LogNumbers DEF Stamp, Known
<1> DEFINE stamps == {logger.seen[k] : k \in Known(keys)}
<1>2. stamps \in SUBSET Nat /\ stamps # {}
    BY <1>1
<1>3. PICK x \in stamps : \A y \in stamps : x <= y
    BY <1>2, LeastNumber
<1>4. PICK k \in Known(keys) : x = logger.seen[k]
    BY <1>3
<1>5. \A j \in Known(keys) : logger.seen[k] <= logger.seen[j]
    BY <1>3, <1>4
<1>6. \E i \in Known(keys) : \A j \in Known(keys) : logger.seen[i] <= logger.seen[j]
    BY <1>5
<1> QED BY <1>6, Zenon DEF Oldest

\* The stamped key finds room: the throttle had some, or gave up its oldest key.
LEMMA AllowKnown ==
    ASSUME LogShape, ThrottleHolds, NEW k \in Failure, NEW keys \in {Key, Arch},
           NEW known, known = {j \in keys : Allow(k).seen[j] # Never}
    PROVE  IsFiniteSet(known) /\ Cardinality(known) <= ThrottleSize
<1>0. /\ IsFiniteSet(Known(keys)) /\ Cardinality(Known(keys)) <= ThrottleSize /\ Cardinality(Known(keys)) \in Nat
      /\ ThrottleSize \in Nat /\ keys \subseteq Failure
    BY FS_CardinalityType, LogNumbers, LoggerFields DEF ThrottleHolds
<1>1. ASSUME known \subseteq Known(keys) PROVE IsFiniteSet(known) /\ Cardinality(known) <= ThrottleSize
    BY <1>0, <1>1, FewerThan
<1>2. CASE ~Allow(k).ok
    <2>1. known = Known(keys)
        BY <1>2, AllowIs DEF Known
    <2> QED BY <1>1, <2>1
<1>3. CASE Allow(k).ok
    <2>1. \A j \in keys : j # k => Allow(k).seen[j] \in {logger.seen[j], Never}
        BY <1>0, <1>3, AllowIs
    <2>2. known \subseteq Known(keys) \cup {k}
        BY <2>1 DEF Known
    <2>3. CASE k \notin keys \/ k \in Known(keys)
        <3>1. known \subseteq Known(keys)
            BY <2>2, <2>3
        <3> QED BY <1>1, <3>1
    <2>4. CASE k \in keys /\ k \notin Known(keys)
        <3>1. keys = Fellows(k)
            BY <2>4, ThrottlesAssumption DEF Fellows
        <3>2. logger.seen[k] = Never
            BY <2>4 DEF Known
        <3>3. CASE Cardinality(Known(keys)) < ThrottleSize
            <4>1. ThrottleSize - 1 \in Nat /\ Cardinality(Known(keys)) <= ThrottleSize - 1
                BY <1>0, <3>3
            <4>2. IsFiniteSet(known) /\ Cardinality(known) <= (ThrottleSize - 1) + 1
                BY <1>0, <2>2, <4>1, OneMoreThan
            <4> QED BY <1>0, <4>2
        <3>4. CASE ~(Cardinality(Known(keys)) < ThrottleSize)
            <4>1. Cardinality(Known(keys)) >= ThrottleSize /\ Known(keys) # {}
                BY <1>0, <3>4, LogNumbers, FS_EmptySet
            <4> DEFINE o == Oldest(keys)
            <4>2. o \in Known(keys)
                BY <4>1, OldestIsKnown
            <4> HIDE DEF o
            <4>3. RoomFor(k) = [logger.seen EXCEPT ![o] = Never]
                BY <3>1, <3>2, <4>1 DEF RoomFor, o
            <4>4. Allow(k).seen = [RoomFor(k) EXCEPT ![k] = clock]
                BY <3>2 DEF Allow
            <4>5. logger.seen \in [Failure -> Stamp] /\ o # k
                BY <2>4, <4>2, LoggerFields
            <4>6. Allow(k).seen[o] = Never
                BY <1>0, <4>2, <4>3, <4>4, <4>5 DEF Known
            <4> DEFINE rest == Known(keys) \ {o}
            <4>7. known \in SUBSET (rest \cup {k})
                BY <2>2, <4>6
            <4>8. IsFiniteSet(rest) /\ Cardinality(rest) = Cardinality(Known(keys)) - 1
                BY <1>0, <4>2, FS_RemoveElement
            <4> HIDE DEF rest
            <4>9. ThrottleSize - 1 \in Nat /\ Cardinality(rest) <= ThrottleSize - 1
                BY <1>0, <4>8, LogNumbers
            <4>10. IsFiniteSet(known) /\ Cardinality(known) <= (ThrottleSize - 1) + 1
                BY <4>7, <4>8, <4>9, OneMoreThan
            <4> QED BY <1>0, <4>10
        <3> QED BY <3>3, <3>4
    <2> QED BY <2>3, <2>4
<1> QED BY <1>2, <1>3

LEMMA ThrottleNext ==
    ASSUME LogShape, ThreadsHold, ThrottleHolds, [Next]_vars
    PROVE  ThrottleHolds'
<1>1. ASSUME \/ logger'.seen = logger.seen
             \/ \E k \in Failure : logger'.seen = Allow(k).seen
             \/ logger'.seen = [k \in Failure |-> Never],
             NEW keys \in {Key, Arch}, NEW known, known = {j \in keys : logger'.seen[j] # Never}
      PROVE  IsFiniteSet(known) /\ Cardinality(known) <= ThrottleSize
    <2>1. CASE logger'.seen = logger.seen
        <3>1. known = Known(keys)
            BY <1>1, <2>1 DEF Known
        <3> QED BY <3>1 DEF ThrottleHolds
    <2>2. CASE \E k \in Failure : logger'.seen = Allow(k).seen
        <3>1. PICK k \in Failure : logger'.seen = Allow(k).seen
            BY <2>2
        <3>2. known = {j \in keys : Allow(k).seen[j] # Never}
            BY <1>1, <3>1
        <3> QED BY <3>2, AllowKnown
    <2>3. CASE logger'.seen = [k \in Failure |-> Never]
        <3>1. known = {}
            BY <1>1, <2>3, LoggerFields
        <3> QED BY <3>1, FS_EmptySet, LogNumbers
    <2> QED BY <1>1, <2>1, <2>2, <2>3
<1>2. \/ logger'.seen = logger.seen
      \/ \E k \in Failure : logger'.seen = Allow(k).seen
      \/ logger'.seen = [k \in Failure |-> Never]
    <2>1. CASE logger' = logger
        BY <2>1
    <2>2. ASSUME NEW t \in Thread, HostReports(t) PROVE logger'.seen = logger.seen \/ \E k \in Failure : logger'.seen = Allow(k).seen
        BY <2>2, HostReportsIs DEF Heeds
    <2>3. CASE Crash
        BY <2>3, CrashIs
    <2>4. CASE UNCHANGED vars
        BY <2>1, <2>4 DEF vars
    <2>5. ASSUME NEW t \in Thread, PlainRecords(t) PROVE logger' = logger
        BY <2>5, PlainRecordsIs
    <2>6. ASSUME NEW t \in Thread, Enter(t) \/ Remove(t) \/ Rename(t) PROVE logger' = logger
        BY <2>6 DEF Enter, Remove, Rename, host
    <2>7. ASSUME NEW t \in Thread, Write(t) \/ Fails(t) PROVE logger' = logger
        BY <2>7 DEF Write, Fails
    <2>8. CASE OpenEnding \/ EndsSession \/ StartRead \/ ReadFile \/ Tick
        <3>1. logger' = logger
            BY <2>8, EndsSessionIs DEF OpenEnding, StartRead, ReadFile, Tick, host
        <3> QED BY <2>1, <3>1
    <2> QED BY <2>1, <2>2, <2>3, <2>4, <2>5, <2>6, <2>7, <2>8, LogSteps
<1>3. \A keys \in {Key, Arch} : Known(keys)' = {j \in keys : logger'.seen[j] # Never}
    BY DEF Known
<1>4. \A keys \in {Key, Arch} : IsFiniteSet(Known(keys)') /\ Cardinality(Known(keys)') <= ThrottleSize
    BY <1>1, <1>2, <1>3
<1> QED BY <1>4 DEF ThrottleHolds

\* Everything that makes the files a bounded, readable tail of the records.
LogInv ==
    /\ ReaderInv
    /\ SizesHold /\ RotationHolds
    /\ OrderHolds /\ GapsHold
    /\ CutsHold /\ ThrottleHolds

LEMMA LogInvInit == Init => LogInv
<1> SUFFICES ASSUME Init PROVE LogInv
    OBVIOUS
<1>1. ReaderInv
    BY ReaderInit
<1>2. LogShape /\ ThreadsHold
    BY LogShapeInit
<1>3. /\ \A s \in Slots : file[s] = <<>>
      /\ \A t \in Thread : thread[t].at = "idle"
      /\ acked = {} /\ ending.at = "no" /\ faults = 0
    BY DEF Init, Rest
<1>4. \A s \in Slots : 1 .. Len(file[s]) = {}
    BY <1>3
<1>5. SizesHold
    <2>1. \A s \in Slots : Bytes(file[s]) <= MaxBytes
        BY <1>2, <1>3, FilesOf, FitsIs
    <2> QED BY <1>3, <2>1 DEF SizesHold
<1>6. RotationHolds
    BY <1>3 DEF RotationHolds, Freed
<1>7. Gone = {}
    BY <1>3 DEF Gone
<1>8. OrderHolds
    BY <1>4, <1>7 DEF OrderHolds, Rising, GoneAreOldest
<1>9. Gaps = {}
    BY <1>3, <1>7 DEF Gaps, Gap
<1>10. Cuts = {}
    BY <1>4 DEF Cuts, Cut
<1>11. GapsHold /\ CutsHold
    BY <1>3, <1>9, <1>10, FS_EmptySet DEF GapsHold, CutsHold
<1>12. ThrottleHolds
    <2>1. \A k \in Failure : logger.seen[k] = Never
        BY DEF Init, Empty
    <2>2. Key \subseteq Failure /\ Arch \subseteq Failure
        BY DEF Failure
    <2>3. \A keys \in {Key, Arch} : Known(keys) = {}
        BY <2>1, <2>2 DEF Known
    <2> QED BY <2>3, FS_EmptySet, LogNumbers DEF ThrottleHolds
<1> QED BY <1>1, <1>5, <1>6, <1>8, <1>11, <1>12 DEF LogInv

LEMMA LogInvNext ==
    ASSUME LogInv, [Next]_vars
    PROVE  LogInv'
<1>1. LogShape /\ ThreadsHold /\ Numbered /\ Distinct
    BY DEF LogInv, ReaderInv
<1>2. ReaderInv'
    BY ReaderNext DEF LogInv
<1>3. SizesHold'
    BY <1>1, SizesNext DEF LogInv
<1>4. RotationHolds'
    BY <1>1, RotationNext DEF LogInv
<1>5. OrderHolds'
    BY <1>1, OrderNext DEF LogInv
<1>6. GapsHold'
    BY <1>1, GapsNext DEF LogInv
<1>7. CutsHold'
    BY <1>1, CutsNext DEF LogInv
<1>8. ThrottleHolds'
    BY <1>1, ThrottleNext DEF LogInv
<1> QED BY <1>2, <1>3, <1>4, <1>5, <1>6, <1>7, <1>8 DEF LogInv

LEMMA LogIsTyped ==
    ASSUME LogShape, ThreadsHold, Numbered, ThrottleHolds
    PROVE  EventLogTypeOK
<1>1. \A s \in Slots, i \in 1 .. MaxRecords : i \in DOMAIN file[s] => file[s][i].n \in 1 .. MaxRecords
    <2> SUFFICES ASSUME NEW s \in Slots, NEW i \in DOMAIN file[s] PROVE file[s][i].n \in 1 .. MaxRecords
        OBVIOUS
    <2>1. file[s] \in Seq(LineType)
        BY FilesOf
    <2>2. i \in 1 .. Len(file[s])
        BY <2>1
    <2>3. file[s][i].n \in 1 .. written /\ written \in 0 .. MaxRecords
        BY <2>2 DEF Numbered, LogShape
    <2> QED BY <2>3, LogNumbers
<1>2. ASSUME NEW t \in Thread
      PROVE  /\ thread[t].at \in {"idle", "ready", "remove", "rename", "write"}
             /\ thread[t].turn \in 0 .. Backups
             /\ thread[t].at \in {"remove", "rename", "write"} => lock = t
    <2>1. thread[t] \in ThreadType
        BY DEF LogShape
    <2> QED BY <2>1 DEF ThreadType, Positions5, ThreadsHold, ThreadHolds
<1>3. logger.health \in Healths
    BY LoggerFields
<1>4. \A keys \in {Key, Arch} : Cardinality({k \in keys : logger.seen[k] # Never}) <= ThrottleSize
    BY DEF ThrottleHolds, Known
<1>5. ending.at \in {"no", "open", "done"} /\ ending.slot \in Slots \cup {Backups + 1}
    <2>1. ending.at \in {"no", "open", "done"} /\ ending.slot \in 0 .. Backups + 1
        BY DEF LogShape, EndingType
    <2> QED BY <2>1, LogNumbers, SlotsAreNumbers
<1>6. reader.at \in 0 .. Backups + 2
    BY DEF LogShape, ReaderType
<1>7. role \in {"host", "center"} /\ lock \in Thread \cup {Nobody} /\ clock \in 0 .. MaxTime /\ written \in 0 .. MaxRecords
    BY DEF LogShape
<1> QED BY <1>1, <1>2, <1>3, <1>4, <1>5, <1>6, <1>7 DEF EventLogTypeOK

LEMMA LogInvImplies ==
    ASSUME LogInv
    PROVE  LogInvariant
<1>1. LogShape /\ ThreadsHold /\ Numbered /\ Distinct
    BY DEF LogInv, ReaderInv
<1>2. EventLogTypeOK
    BY <1>1, LogIsTyped DEF LogInv
<1>3. NoOversizedFile
    BY DEF LogInv, SizesHold, NoOversizedFile
<1>4. OnlyTheOldestGo
    <2> SUFFICES ASSUME Gone # {}
                 PROVE  /\ \A n \in Gone, m \in Kept \ adrift : n < m
                        /\ lock = Nobody => Cardinality({s \in 1 .. Backups : file[s] = <<>>}) <= faults
        BY DEF OnlyTheOldestGo, Gone
    <2>1. \A n \in Gone, m \in Kept \ adrift : n < m
        BY DEF LogInv, OrderHolds, GoneAreOldest
    <2>2. lock = Nobody => Cardinality({s \in 1 .. Backups : file[s] = <<>>}) <= faults
        BY <1>1, GapsBetween DEF LogInv
    <2> QED BY <2>1, <2>2
<1>5. FewAreUnreadable
    BY <1>1, CutsAreFew DEF LogInv
<1> QED BY <1>2, <1>3, <1>4, <1>5 DEF LogInvariant

\* Of the log of a process that alone appends to it, the host or the control
\* center, whatever rotations, failed operations, crashes and unlocked last records
\* do to the files, for any number of threads, backups and records: no file outgrows the
\* limit unless the end of the session raced an append, rotation gives up the
\* oldest records and a fault costs it at most one backup, every fault makes at
\* most one written line unreadable, and no throttle outgrows its table (contract
\* event_log.rs append, rotate and EventThrottle, operation_log.rs).
THEOREM TheLogIsABoundedTail == Spec => []LogInvariant
<1>1. Init => LogInv
    BY LogInvInit
<1>2. LogInv /\ [Next]_vars => LogInv'
    BY LogInvNext
<1>3. LogInv => LogInvariant
    BY LogInvImplies
<1> QED BY <1>1, <1>2, <1>3, PTL DEF Spec

=============================================================================
