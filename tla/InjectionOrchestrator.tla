------------------------ MODULE InjectionOrchestrator ------------------------
(***************************************************************************)
(* The host's InjectionOrchestrator: it takes observed PIDs, has them      *)
(* validated, hands each verified identity to the fixed helper broker at   *)
(* most once, defers frozen targets and failed launches, and remembers a   *)
(* bounded number of results.                                              *)
(*                                                                         *)
(* The orchestrator is single-threaded.  What interleaves with it is the   *)
(* machine: processes start, freeze, thaw and exit, a PID is reused by a   *)
(* process with a later creation time, the operator requests a stop, and   *)
(* time passes.  One call is therefore split where the machine may move:   *)
(* validation, the launch of a helper, the helper's answer, and the        *)
(* back-off between two attempts.                                          *)
(*                                                                         *)
(* The caller is left open: any PID may be handed in whenever no call is   *)
(* in progress.  OrchestrationDriver narrows it to the service loop.       *)
(***************************************************************************)
EXTENDS Machine, Integers, Sequences, FiniteSets, SequencesExt

CONSTANTS
    Sessions,            \* interactive session ids
    SessionOf,           \* [Identities -> Sessions]
    Excluded,            \* identities the validator's rules never let through
    MaxTracked,          \* MAX_TRACKED_PROCESS_RESULTS
    MaxDeferred,         \* MAX_DEFERRED_TARGETS
    MaxAttempts,         \* RetryPolicy::max_attempts
    LaunchMaxDeferrals   \* DeferralPolicy::launch_max_deferrals

ASSUME IdentityAssumption ==
    /\ SessionOf \in [Identities -> Sessions]
    /\ Excluded \subseteq Identities
    /\ IsFiniteSet(Identities)

ASSUME PolicyAssumption ==
    /\ MaxTracked \in Nat \ {0}
    /\ MaxDeferred \in Nat \ {0}
    /\ MaxAttempts \in Nat \ {0}
    /\ LaunchMaxDeferrals \in Nat

VARIABLES
    processed,      \* the result kept for an identity, or NoRecord
    processOrder,   \* tracked identities, oldest first
    deferred,       \* the deferral kept for an identity, or NoTarget
    deferredOrder,  \* deferred identities in the order they are polled
    job,            \* the injection in progress, or NoJob
    returned        \* what the last call gave its caller, NothingYet during one

tables == <<processed, processOrder, deferred, deferredOrder>>
orchestratorVars == <<tables, job, returned, machine>>
-----------------------------------------------------------------------------
(***************************************************************************)
(* Values                                                                  *)
(***************************************************************************)
Outcomes == {"injected", "skipped", "deferred", "duplicate", "rejected",
             "retry-exhausted", "cancelled"}

\* Result codes, one per class the code tells apart.
CleanupUnknown == {"cleanup-unknown", "stop-cleanup-unknown"}
Untrusted == CleanupUnknown \cup {"integrity-unknown"}
Failures == {"rejected", "retry-exhausted"}
Codes == Untrusted \cup {"transient", "ordinary"}

NoRecord == [outcome |-> "none", code |-> "none"]
Record == [outcome: Outcomes, code: Codes]

Reasons == {"frozen", "helper-launch-failed"}
NoTarget == [reason |-> "none", deferrals |-> 0, due |-> FALSE]
Target == [reason: Reasons, deferrals: 0..LaunchMaxDeferrals, due: BOOLEAN]

NoJob == [id |-> "none", deferrals |-> 0, attempt |-> 0, phase |-> "none"]
Job == [id: Identities, deferrals: 0..LaunchMaxDeferrals,
        attempt: 1..MaxAttempts, phase: {"launch", "helper", "backoff"}]

\* What a call returns, the identity it was about, and the health verdict.
Returned(outcome, i, untrusted) == [outcome |-> outcome, id |-> i, untrusted |-> untrusted]
NothingYet == Returned("pending", "none", FALSE)

\* The keys of a table.
Keys(table, absent) == {i \in Identities : table[i] # absent}
Tracked == Keys(processed, NoRecord)
DeferredTargets == Keys(deferred, NoTarget)
-----------------------------------------------------------------------------
(***************************************************************************)
(* The two bounded tables, updated together: evicting a deferral records   *)
(* a result.  The operators map a snapshot of the tables to the next one.  *)
(***************************************************************************)
Tables == [processed |-> processed, processOrder |-> processOrder,
           deferred |-> deferred, deferredOrder |-> deferredOrder]

Install(t) ==
    /\ processed' = t.processed
    /\ processOrder' = t.processOrder
    /\ deferred' = t.deferred
    /\ deferredOrder' = t.deferredOrder

\* The while loop of record_result: a full history loses its oldest result.
MakeRoomLate(t) ==
    IF Cardinality(Keys(t.processed, NoRecord)) > MaxTracked
    THEN [t EXCEPT !.processed[Head(t.processOrder)] = NoRecord,
                   !.processOrder = Tail(t.processOrder)]
    ELSE t

MakeRoom(t) ==
    IF Cardinality(Keys(t.processed, NoRecord)) >= MaxTracked
    THEN [t EXCEPT !.processed[Head(t.processOrder)] = NoRecord,
                   !.processOrder = Tail(t.processOrder)]
    ELSE t

\* record_result: a known identity keeps its place in the order.
RecordResult(t, i, outcome, code) ==
    LET known == t.processed[i] # NoRecord
        room == IF known THEN t ELSE MakeRoom(t)
    IN  [room EXCEPT !.processed[i] = [outcome |-> outcome, code |-> code],
                     !.processOrder = IF known THEN @ ELSE Append(@, i)]

RecordSkip(t, i) == RecordResult(t, i, "skipped", "ordinary")

\* The while loop of insert_deferred: the oldest deferral is evicted and its
\* target recorded as skipped.  A key without a deferral would only be popped.
EvictSilently(t) ==
    IF Cardinality(Keys(t.deferred, NoTarget)) >= MaxDeferred
    THEN [t EXCEPT !.deferred[Head(t.deferredOrder)] = NoTarget,
                   !.deferredOrder = Tail(t.deferredOrder)]
    ELSE t

EvictDeferral(t) ==
    LET oldest == Head(t.deferredOrder)
        popped == [t EXCEPT !.deferred[oldest] = NoTarget,
                            !.deferredOrder = Tail(t.deferredOrder)]
    IN  IF Cardinality(Keys(t.deferred, NoTarget)) < MaxDeferred THEN t
        ELSE IF oldest \in Keys(t.deferred, NoTarget) THEN RecordSkip(popped, oldest)
        ELSE popped

\* VecDeque::retain: the members of s that are in keep, in the same order.
Retain(s, keep) ==
    LET kept == {n \in DOMAIN s : s[n] \in keep}
        Place(n) == Cardinality({m \in kept : m <= n})
    IN  [k \in 1..Cardinality(kept) |-> s[CHOOSE n \in kept : Place(n) = k]]

\* insert_deferred: the identity moves to the back of the polling order.
InsertDeferred(t, i, target) ==
    LET moved == [t EXCEPT !.deferredOrder = Retain(@, Identities \ {i})]
        room == IF t.deferred[i] = NoTarget THEN EvictDeferral(moved) ELSE moved
    IN  [room EXCEPT !.deferred[i] = target, !.deferredOrder = Append(@, i)]

\* The two removals at the head of poll_deferred.
RemoveDeferred(t, n) ==
    [t EXCEPT !.deferred[t.deferredOrder[n]] = NoTarget,
              !.deferredOrder = RemoveAt(@, n)]

\* handle_session_change on a session's keys (on every key after an overflow): the
\* orders keep what the tables keep.
Forget(gone) ==
    [processed |-> [i \in Identities |-> IF i \in gone THEN NoRecord ELSE processed[i]],
     processOrder |-> Retain(processOrder, Tracked \ gone),
     deferred |-> [i \in Identities |-> IF i \in gone THEN NoTarget ELSE deferred[i]],
     deferredOrder |-> Retain(deferredOrder, DeferredTargets \ gone)]
-----------------------------------------------------------------------------
(***************************************************************************)
(* The inspector.  An identity is looked up by PID, so what it answers     *)
(* depends on the process that holds the PID at that moment.  A probe may  *)
(* always fail to answer; it never proves something false.                 *)
(***************************************************************************)
Decision(kind, i) == [kind |-> kind, id |-> i]

\* ProcessTargetValidator::validate.  An excluded or exiting process and an
\* inspection that fails for the target's own sake are skips, any other failed
\* inspection is an error, and a failed lifecycle probe counts as running.
Validate(p) ==
    LET verified == LivePid(p) \ Excluded
    IN  {Decision("skipped", "none"), Decision("error", "none")}
        \cup {Decision("eligible", i) : i \in verified}
        \cup {Decision("deferred", i) : i \in {j \in verified : proc[j] = "frozen"}}

\* probe_target_lifecycle
Lifecycle(i) == {"unknown", IF Live(i) THEN proc[i] ELSE "exiting"}

\* probe_target_liveness
Liveness(i) == {"unknown", IF Live(i) THEN "alive" ELSE "vanished"}

FrozenTarget(deferrals) == [reason |-> "frozen", deferrals |-> deferrals, due |-> FALSE]
-----------------------------------------------------------------------------
OrchestratorInit ==
    /\ processed = [i \in Identities |-> NoRecord]
    /\ processOrder = <<>>
    /\ deferred = [i \in Identities |-> NoTarget]
    /\ deferredOrder = <<>>
    /\ job = NoJob
    /\ returned = NothingYet
    /\ MachineInit

Idle == job.phase = "none"

\* generation_health_error: the caller judges a failed target by the youngest
\* result of the history (most_recent_result).
Untrustworthy(t) ==
    /\ t.processOrder # <<>>
    /\ t.processed[Last(t.processOrder)].code \in Untrusted

\* A call returns: the tables become t.
Finish(t, i, outcome) ==
    /\ Install(t)
    /\ job' = NoJob
    /\ returned' = Returned(outcome, i, outcome \in Failures /\ Untrustworthy(t))

\* attempt_injection begins: the identity is handed to the broker.
StartAttempt(i, deferrals) ==
    /\ job' = [id |-> i, deferrals |-> deferrals, attempt |-> 1, phase |-> "launch"]
    /\ returned' = NothingYet

\* contains_identity
KnownResult(i) == i \in Tracked
KnownDeferral(i) == i \in DeferredTargets
Known(i) == i \in Tracked \cup DeferredTargets

\* handle_pid_at
HandlePid(p) ==
    /\ Idle
    /\ UNCHANGED machine
    /\ \E d \in Validate(p) :
         \/ /\ d.kind \in {"skipped", "error"}
            /\ returned' = Returned(d.kind, d.id, FALSE)
            /\ UNCHANGED <<tables, job>>
         \/ /\ d.kind \in {"eligible", "deferred"}
            /\ Known(d.id)
            /\ returned' = Returned("duplicate", d.id, FALSE)
            /\ UNCHANGED <<tables, job>>
         \/ /\ d.kind = "eligible"
            /\ ~Known(d.id)
            /\ StartAttempt(d.id, 0)
            /\ UNCHANGED tables
         \/ /\ d.kind = "deferred"
            /\ ~Known(d.id)
            /\ Finish(InsertDeferred(Tables, d.id, FrozenTarget(0)), d.id, "deferred")

\* The position poll_deferred picks: the first due deferral in polling order.
Due(n) == deferredOrder[n] \in DeferredTargets /\ deferred[deferredOrder[n]].due
FirstDue(n) == Due(n) /\ \A m \in 1..(n - 1) : ~Due(m)

\* revalidate_deferred: only the exact deferred identity goes on; a PID that now
\* names another process makes the deferred one a vanished target.  A validator
\* error drops the deferral and is returned.
Revalidate(i, target, t) ==
    \E d \in Validate(PidOf[i]) :
        \/ /\ d = Decision("eligible", i)
           /\ Install(t)
           /\ StartAttempt(i, target.deferrals)
        \/ /\ d = Decision("deferred", i)
           /\ Finish(InsertDeferred(t, i, FrozenTarget(target.deferrals)), i, "deferred")
        \/ /\ d.kind \in {"eligible", "deferred"}
           /\ d.id # i
           /\ Finish(RecordSkip(t, i), i, "skipped")
        \/ /\ d.kind = "skipped"
           /\ Finish(RecordSkip(t, i), i, "skipped")
        \/ /\ d.kind = "error"
           /\ Finish(t, i, "error")

\* poll_deferred
PollDeferred ==
    /\ Idle
    /\ UNCHANGED machine
    /\ \E n \in DOMAIN deferredOrder :
         LET i == deferredOrder[n]
             target == deferred[i]
             t == RemoveDeferred(Tables, n)
         IN  /\ FirstDue(n)
             /\ \/ /\ target.reason = "helper-launch-failed"
                   /\ Revalidate(i, target, t)
                \/ /\ target.reason = "frozen"
                   /\ \E state \in Lifecycle(i) :
                        \/ /\ state \in {"frozen", "unknown"}
                           /\ Finish(InsertDeferred(t, i, FrozenTarget(target.deferrals)), i, "deferred")
                        \/ /\ state = "exiting"
                           /\ Finish(RecordSkip(t, i), i, "skipped")
                        \/ /\ state = "running"
                           /\ Revalidate(i, target, t)
-----------------------------------------------------------------------------
(***************************************************************************)
(* attempt_injection, cut where the machine may move.                      *)
(***************************************************************************)
\* handle_launch_failure (the doubling delay is abstracted to "not yet due")
LaunchFailure(i, deferrals) ==
    \E alive \in Liveness(i) :
        \/ /\ alive = "vanished"
           /\ Finish(RecordSkip(Tables, i), i, "skipped")
        \/ /\ alive # "vanished"
           /\ deferrals >= LaunchMaxDeferrals
           /\ Finish(RecordResult(Tables, i, "rejected", "ordinary"), i, "rejected")
        \/ /\ alive # "vanished"
           /\ deferrals < LaunchMaxDeferrals
           /\ Finish(InsertDeferred(Tables, i,
                        [reason |-> "helper-launch-failed",
                         deferrals |-> deferrals + 1,
                         due |-> FALSE]), i, "deferred")

\* FixedHelperBroker::inject up to the resume of the helper: a target that
\* already carries the module is skipped, a requested stop cancels, and the
\* launch may fail, always so when the PID no longer names the identity.
LaunchHelper ==
    /\ job.phase = "launch"
    /\ UNCHANGED machine
    /\ \/ /\ Live(job.id)
          /\ Finish(RecordSkip(Tables, job.id), job.id, "skipped")
       \/ /\ stop
          /\ Finish(RecordResult(Tables, job.id, "cancelled", "ordinary"), job.id, "cancelled")
       \/ LaunchFailure(job.id, job.deferrals)
       \/ /\ ~stop
          /\ Live(job.id)
          /\ job' = [job EXCEPT !.phase = "helper"]
          /\ UNCHANGED <<tables, returned>>

Result(disposition, codes) == [disposition: {disposition}, code: codes]

\* What a resumed helper, or the launcher that gives up on it, comes back with.
HelperResults ==
    UNION {Result("injected", {"ordinary"}),
           Result("skipped", {"ordinary"}),
           Result("frozen", {"ordinary"}),
           Result("rejected", {"ordinary", "cleanup-unknown"}),
           Result("rejected", IF stop THEN {"stop-cleanup-unknown"} ELSE {}),
           Result("retryable", {"transient", "ordinary", "integrity-unknown"})}

\* safe_to_retry_same_identity
SafeToRetry(code) == code = "transient"

\* A retryable failure whose code is not on the allowlist is a rejection.
Disposition(result) ==
    IF result.disposition = "retryable" /\ ~SafeToRetry(result.code)
    THEN "rejected" ELSE result.disposition

\* terminal_outcome
TerminalOutcome(disposition, final) ==
    IF disposition # "retryable" THEN disposition
    ELSE IF final THEN "retry-exhausted" ELSE "retry"

\* reclassify_vanished_target: a cleanup-unknown result of a target that
\* provably vanished is a skip.
Vanished(outcome, code, alive) ==
    /\ outcome \in {"rejected", "retry-exhausted"}
    /\ code \in CleanupUnknown
    /\ alive = "vanished"

HelperAnswers ==
    /\ job.phase = "helper"
    /\ UNCHANGED machine
    /\ \E result \in HelperResults, alive \in Liveness(job.id) :
         LET outcome == TerminalOutcome(Disposition(result), job.attempt = MaxAttempts)
             vanished == Vanished(outcome, result.code, alive)
         IN  \/ /\ outcome = "frozen"
                /\ Finish(InsertDeferred(Tables, job.id, FrozenTarget(job.deferrals)),
                          job.id, "deferred")
             \/ /\ outcome = "retry"
                /\ job' = [job EXCEPT !.phase = "backoff"]
                /\ UNCHANGED <<tables, returned>>
             \/ /\ outcome \notin {"frozen", "retry"}
                /\ ~vanished
                /\ Finish(RecordResult(Tables, job.id, outcome, result.code), job.id, outcome)
             \/ /\ vanished
                /\ Finish(RecordSkip(Tables, job.id), job.id, "skipped")

\* RetryScheduler::wait: a signalled stop event or a failed wait cancels.
RetryWait ==
    /\ job.phase = "backoff"
    /\ UNCHANGED machine
    /\ \/ /\ ~stop
          /\ job' = [job EXCEPT !.phase = "launch", !.attempt = @ + 1]
          /\ UNCHANGED <<tables, returned>>
       \/ Finish(RecordResult(Tables, job.id, "cancelled", "transient"), job.id, "cancelled")
-----------------------------------------------------------------------------
\* handle_session_change: disconnect, logoff and terminate forget the session,
\* an overflow forgets everything, every other notification is ignored.
SessionForgets(gone) ==
    /\ Idle
    /\ Install(Forget(gone))
    /\ UNCHANGED <<job, returned, machine>>

SessionChange ==
    \/ SessionForgets(Identities)
    \/ \E s \in Sessions : SessionForgets({i \in Identities : SessionOf[i] = s})
-----------------------------------------------------------------------------
\* The clock passes a deferral's not_before.
BecomeDue(i) ==
    /\ i \in DeferredTargets
    /\ ~deferred[i].due
    /\ deferred' = [deferred EXCEPT ![i].due = TRUE]

World ==
    \/ /\ \/ \E i \in Identities : ProcStart(i) \/ ProcChange(i)
          \/ RequestStop
       /\ UNCHANGED <<tables, job, returned>>
    \/ /\ \E i \in Identities : BecomeDue(i)
       /\ UNCHANGED <<processed, processOrder, deferredOrder, job, returned, machine>>

OrchestratorNext ==
    \/ \E p \in Pids : HandlePid(p)
    \/ PollDeferred
    \/ LaunchHelper
    \/ HelperAnswers
    \/ RetryWait
    \/ SessionChange
    \/ World

OrchestratorSpec == OrchestratorInit /\ [][OrchestratorNext]_orchestratorVars
-----------------------------------------------------------------------------
(***************************************************************************)
(* Properties                                                              *)
(***************************************************************************)
\* Every variable has its type; the launch deferral count never passes its limit.
TypeOK ==
    /\ MachineTypeOK
    /\ processed \in [Identities -> Record \cup {NoRecord}]
    /\ processOrder \in Seq(Identities)
    /\ deferred \in [Identities -> Target \cup {NoTarget}]
    /\ deferredOrder \in Seq(Identities)
    /\ job \in Job \cup {NoJob}
    /\ returned.outcome \in Outcomes \cup {"pending", "error"}

\* Each order lists its table's keys, each once, and neither table outgrows its
\* capacity.  record_result would spin for ever on a full table with an empty
\* order, and poll_deferred and the evictions rely on the same agreement.
TablesAgree ==
    /\ Range(processOrder) = Tracked
    /\ Len(processOrder) = Cardinality(Tracked)
    /\ Len(processOrder) <= MaxTracked
    /\ Range(deferredOrder) = DeferredTargets
    /\ Len(deferredOrder) = Cardinality(DeferredTargets)
    /\ Len(deferredOrder) <= MaxDeferred

\* What every loop over the tables relies on, after any mix of observations,
\* deferrals, evictions and session changes.
TablesAreSound == TypeOK /\ TablesAgree

\* An identity has a result, or a deferral, or an injection in progress, never
\* two of them: contains_identity and poll_deferred's removal keep them apart.
OneHomePerTarget ==
    /\ Tracked \cap DeferredTargets = {}
    /\ ~Idle => ~Known(job.id)

\* The verdict a failed injection is published with is about that target: it is
\* untrusted exactly when the target's own result is.
VerdictIsAboutTheTarget ==
    ~Idle /\ Idle' /\ returned'.outcome \in Failures
       => returned'.untrusted = (processed'[returned'.id].code \in Untrusted)

\* A result leaves the history only with its session, or as the oldest of a
\* full history.
ResultsAgeOut ==
    \A i \in Tracked :
       \/ i \in Tracked'
       \/ Len(processOrder) = MaxTracked /\ Head(processOrder) = i
       \/ UNCHANGED <<job, returned>> /\ Idle

\* The history tells the truth about the targets it names, and forgets only what
\* its capacity or a session change makes it forget (record_result, and the
\* verdict attempt_injection reads back from it).
HistoryIsFaithful == [][VerdictIsAboutTheTarget /\ ResultsAgeOut]_orchestratorVars

\* The stage of each target in the caller's terms.
Stage(i) ==
    IF ~Idle /\ job.id = i THEN "injecting"
    ELSE IF processed[i] # NoRecord THEN "settled"
    ELSE IF deferred[i] # NoTarget THEN "deferred"
    ELSE "unknown"

Ledger == INSTANCE TargetLedger WITH
    LedgerIdentities <- Identities,
    ledger <- [i \in Identities |-> Stage(i)],
    reply <- returned

\* The orchestrator keeps the promises of TargetLedger: no target that was given
\* a result is injected or deferred again while it is remembered, one target is
\* injected at a time, and no deferral disappears without a trace.
KeepsTheLedger == Ledger!LedgerSpec
=============================================================================
