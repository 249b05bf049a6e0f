------------------------- MODULE OrchestrationDriver -------------------------
(***************************************************************************)
(* The service's main loop (ProcessOrchestrationDriver::run): it learns of *)
(* processes from a live source and a snapshot backlog, hands them to the  *)
(* orchestrator, recovers a failed source, publishes health and obeys the  *)
(* stop event.  The orchestrator is represented by its promises            *)
(* (TargetLedger), which InjectionOrchestrator is shown to keep.           *)
(*                                                                         *)
(* The source is either a private ETW session, whose consumer thread fills *)
(* a bounded channel and raises a flag when it has to drop a PID, or a WMI *)
(* enumerator, which may fail at any time.  A process that starts is       *)
(* announced by the kernel and delivered some time later.                  *)
(***************************************************************************)
EXTENDS Machine, TargetLedger, Integers, Sequences, FiniteSets, SequencesExt

CONSTANTS
    SourceKinds,          \* which of "etw" and "wmi" the machine will give the service
    Shells,               \* PIDs of relay roots (explorer.exe)
    ChannelCapacity,      \* PENDING_PROCESS_ID_CAPACITY
    MaxRecoveryAttempts,  \* ObserverRecoveryPolicy::max_attempts
    ToleratedFailures,    \* MAX_TOLERATED_CONSECUTIVE_HEALTH_REPORT_FAILURES
    MaxSourceFailures     \* bound: how often the WMI enumerator fails

ASSUME DriverAssumption ==
    /\ LedgerIdentities = Identities
    /\ SourceKinds \subseteq {"etw", "wmi"}
    /\ IsFiniteSet(Pids) /\ Shells \subseteq Pids
    /\ ChannelCapacity \in Nat \ {0}
    /\ MaxRecoveryAttempts \in Nat \ {0}
    /\ ToleratedFailures \in Nat
    /\ MaxSourceFailures \in Nat

VARIABLES
    pc,              \* where the service thread is
    source,          \* the live ProcessEventSource
    backlog,         \* ObserverState::snapshot_pids
    attempts,        \* resubscription attempts of this recovery
    health,          \* the last health state published
    reportFailures,  \* consecutive_health_report_failures
    result,          \* what run returned, "none" while it runs
    sourceFailures,  \* how often the enumerator has failed (bounded)
    seen,            \* history: identities that were live when their PID was handled
    taint            \* history: an untrusted result since the last success

driverVars == <<pc, source, backlog, attempts, health, reportFailures, result,
                sourceFailures, seen, taint>>
vars == <<ledgerVars, machine, driverVars>>
-----------------------------------------------------------------------------
(***************************************************************************)
(* The source.  lost: next_pid fails until the source is opened again.     *)
(* ended: the consumer thread has returned.  The session's own handle on   *)
(* the channel's sender stays alive, so next_pid only ever reports Idle.   *)
(***************************************************************************)
Source(kind, open, lost) ==
    [kind |-> kind, open |-> open, lost |-> lost, ended |-> FALSE,
     announced |-> {}, channel |-> <<>>]

\* The kernel announces a started process to an open session.
Announce(i) ==
    source' = IF source.open /\ ~source.ended
              THEN [source EXCEPT !.announced = @ \cup {i}] ELSE source

\* on_event_record: a full channel drops the PID and raises the overflow flag.
DropQuietly(i) ==
    LET delivered == [source EXCEPT !.announced = @ \ {i}]
    IN  /\ i \in source.announced
        /\ source' = IF \/ source.lost
                        \/ source.kind = "etw" /\ Len(source.channel) >= ChannelCapacity
                     THEN delivered
                     ELSE [delivered EXCEPT !.channel = Append(@, PidOf[i])]

Deliver(i) ==
    LET delivered == [source EXCEPT !.announced = @ \ {i}]
    IN  /\ i \in source.announced
        /\ source' = IF source.lost THEN delivered
                     ELSE IF source.kind = "etw" /\ Len(source.channel) >= ChannelCapacity
                     THEN [delivered EXCEPT !.lost = TRUE]
                     ELSE [delivered EXCEPT !.channel = Append(@, PidOf[i])]

\* The WMI enumerator dies; what it had not handed out is gone.
SourceFails ==
    /\ source.kind = "wmi"
    /\ source.open
    /\ ~source.lost
    /\ sourceFailures < MaxSourceFailures
    /\ sourceFailures' = sourceFailures + 1
    /\ source' = [source EXCEPT !.lost = TRUE, !.channel = <<>>]

\* ProcessTrace returns while the session is in use.
ConsumerEnds ==
    /\ source.kind = "etw"
    /\ source.open
    /\ ~source.ended
    /\ source' = [source EXCEPT !.ended = TRUE, !.announced = {}]
    /\ UNCHANGED sourceFailures

\* subscribe: a live ETW session that dropped nothing is kept.
KeepsAnySession == source.kind = "etw" /\ source.open
KeepsSession == source.kind = "etw" /\ source.open /\ ~source.lost

SubscribeSucceeds ==
    source' = IF KeepsSession THEN source ELSE Source(source.kind, TRUE, FALSE)

\* A refused ETW restart leaves no session; a refused WMI query the old enumerator.
SubscribeFails ==
    /\ ~KeepsSession
    /\ source' = IF source.kind = "etw" THEN Source("etw", FALSE, TRUE) ELSE source

\* snapshot_pids: the PIDs in the process table.  Nothing depends on the order
\* in which the table lists them, which SetToSeq chooses.
SnapshotPids == {p \in Pids : LivePid(p) # {}}

IsShell(p) == p \in Shells

\* relay_roots_first
RelayRootsFirst(pids) == SetToSeq(pids \cap Shells) \o SetToSeq(pids \ Shells)

\* The loop of resubscribe: a new shell is pushed to the front, any other new
\* PID to the back.
Fold(pids) ==
    LET new == pids \ Range(backlog)
    IN  SetToSeq(new \cap Shells) \o backlog \o SetToSeq(new \ Shells)
-----------------------------------------------------------------------------
DriverInit ==
    /\ LedgerInit
    /\ MachineInit
    /\ pc = "open"
    /\ source = Source("none", FALSE, FALSE)
    /\ backlog = <<>>
    /\ attempts = 0
    /\ health = "initializing"
    /\ reportFailures = 0
    /\ result = "none"
    /\ sourceFailures = 0
    /\ seen = {}
    /\ taint = "none"

Goto(step) == pc' = step /\ UNCHANGED result
Return(how) == pc' = "done" /\ result' = how

\* report_runtime_health, then on to the next step: only an unbroken run of
\* failures longer than the tolerance ends the loop.
Report(state, next) ==
    \/ /\ health' = state
       /\ reportFailures' = 0
       /\ Goto(next)
    \/ /\ UNCHANGED health
       /\ reportFailures' = reportFailures + 1
       /\ IF reportFailures + 1 > ToleratedFailures THEN Return("error") ELSE Goto(next)

noReport == <<health, reportFailures>>
-----------------------------------------------------------------------------
(***************************************************************************)
(* Initialization: live_process_event_source, then the subscription, then  *)
(* the snapshot.  Any failure before the loop fails the initialization.    *)
(***************************************************************************)
OpenSource ==
    /\ pc = "open"
    /\ \E kind \in SourceKinds : source' = Source(kind, kind = "etw", FALSE)
    /\ Goto("subscribe")
    /\ UNCHANGED <<ledgerVars, machine, backlog, attempts, noReport, sourceFailures, seen, taint>>

Subscribe ==
    /\ pc = "subscribe"
    /\ SubscribeSucceeds
    /\ Goto("snapshot")
    /\ UNCHANGED <<ledgerVars, machine, backlog, attempts, noReport, sourceFailures, seen, taint>>

\* The lifecycle publishes Ready before it calls run.
Snapshot ==
    /\ pc = "snapshot"
    /\ backlog' = RelayRootsFirst(SnapshotPids)
    /\ health' = "ready"
    /\ Goto("loop")
    /\ UNCHANGED <<ledgerVars, machine, source, attempts, reportFailures, sourceFailures, seen, taint>>

InitializeFails ==
    /\ pc \in {"open", "subscribe", "snapshot"}
    /\ Return("error")
    /\ UNCHANGED <<ledgerVars, machine, source, backlog, attempts, noReport, sourceFailures, seen, taint>>
-----------------------------------------------------------------------------
(***************************************************************************)
(* One round of the loop: stop, session changes, one deferral, one PID.    *)
(***************************************************************************)
roundUnchanged == <<source, backlog, attempts, noReport, sourceFailures, seen, taint>>

CheckStopElsewhere ==
    /\ pc = "loop"
    /\ Goto("drain")
    /\ UNCHANGED <<ledgerVars, machine, roundUnchanged>>

CheckStop ==
    /\ pc = "loop"
    /\ \/ stop /\ Return("ok")
       \/ ~stop /\ Goto("drain")
       \/ Return("error")
    /\ UNCHANGED <<ledgerVars, machine, roundUnchanged>>

\* take_session_change until the queue is empty; the handling commutes, so that
\* one change per round stands for several.
DrainSessionChanges ==
    /\ pc = "drain"
    /\ ForgetSession
    /\ Goto("poll")
    /\ UNCHANGED <<machine, roundUnchanged>>

\* poll_deferred: a deferral that is due is probed and decided, injected or
\* deferred again; otherwise the round goes on.
Poll ==
    /\ pc = "poll"
    /\ \/ /\ \E i \in Identities :
               /\ ledger[i] = "deferred"
               /\ Take(i) \/ \E outcome \in {"deferred", "skipped", "error"} : Answer(i, outcome)
          /\ Goto("polling")
       \/ /\ Goto("observe")
          /\ UNCHANGED ledgerVars
    /\ UNCHANGED <<machine, roundUnchanged>>

\* attempt_injection ends.
Inject ==
    /\ pc \in {"polling", "handling"}
    /\ \E i \in Identities, outcome \in Outcomes : ledger[i] = "injecting" /\ Answer(i, outcome)
    /\ UNCHANGED <<machine, driverVars>>

\* handle_pid on the process that holds the PID, if any.
Handle(p) ==
    /\ \/ PassOver /\ reply'.id \in {"none"} \cup LivePid(p)
       \/ \E i \in LivePid(p) : ledger[i] = "unknown" /\ (Take(i) \/ Answer(i, "deferred"))
    /\ seen' = seen \cup LivePid(p)
    /\ Goto("handling")

\* The PID of next_pid, or else one of the backlog, is handed to the orchestrator.
Observe ==
    /\ pc = "observe"
    /\ ~source.lost
    /\ \/ /\ source.channel # <<>>
          /\ Handle(Head(source.channel))
          /\ source' = [source EXCEPT !.channel = Tail(@)]
          /\ UNCHANGED backlog
       \/ /\ source.channel = <<>>
          /\ backlog # <<>>
          /\ Handle(Head(backlog))
          /\ backlog' = Tail(backlog)
          /\ UNCHANGED source
       \/ /\ source.channel = <<>>
          /\ backlog = <<>>
          /\ Goto("loop")
          /\ UNCHANGED <<ledgerVars, source, backlog, seen>>
    /\ UNCHANGED <<machine, attempts, noReport, sourceFailures, taint>>

\* A call's error, and a result generation_health_error finds untrustworthy,
\* degrade the published health.
Degrades == reply.outcome = "error" \/ reply.untrusted

HandleOutcome ==
    /\ Quiet
    /\ \/ pc = "handling"
       \/ pc = "polling" /\ reply.outcome # "deferred"
    /\ \/ reply.outcome = "injected" /\ Report("ready", "loop")
       \/ Degrades /\ Report("degraded", "loop")
       \/ reply.outcome = "cancelled" /\ Return("ok") /\ UNCHANGED noReport
       \/ /\ reply.outcome \notin {"injected", "cancelled"}
          /\ ~Degrades
          /\ Goto("loop")
          /\ UNCHANGED noReport
    /\ taint' = IF reply.outcome = "injected" THEN "none"
                ELSE IF reply.untrusted THEN "untrusted" ELSE taint
    /\ reply' = Pending
    /\ UNCHANGED <<ledger, machine, source, backlog, attempts, sourceFailures, seen>>

\* A poll that only deferred again does not use up the round.
PollDeferredAgain ==
    /\ pc = "polling"
    /\ Quiet
    /\ reply.outcome = "deferred"
    /\ Goto("observe")
    /\ reply' = Pending
    /\ UNCHANGED <<ledger, machine, roundUnchanged>>
-----------------------------------------------------------------------------
(***************************************************************************)
(* recover_observer                                                        *)
(***************************************************************************)
ObserverFails ==
    /\ pc = "observe"
    /\ source.lost
    /\ Report("degraded", "recover")
    /\ UNCHANGED <<ledgerVars, machine, source, backlog, attempts, sourceFailures, seen, taint>>

\* scheduler.wait: a stop, and also a wait that fails, end the run cleanly.
RecoverWait ==
    /\ pc = "recover"
    /\ attempts < MaxRecoveryAttempts
    /\ \/ ~stop /\ Goto("resubscribe")
       \/ Return("ok")
    /\ UNCHANGED <<ledgerVars, machine, roundUnchanged>>

RecoveryExhausted ==
    /\ pc = "recover"
    /\ attempts = MaxRecoveryAttempts
    /\ \/ health' = "failed" /\ reportFailures' = 0
       \/ UNCHANGED health /\ reportFailures' = reportFailures + 1
    /\ Return("error")
    /\ UNCHANGED <<ledgerVars, machine, source, backlog, attempts, sourceFailures, seen, taint>>

AttemptFails ==
    /\ attempts' = attempts + 1
    /\ Goto("recover")

Resubscribe ==
    /\ pc = "resubscribe"
    /\ \/ SubscribeSucceeds /\ Goto("resnapshot") /\ UNCHANGED attempts
       \/ SubscribeFails /\ AttemptFails
    /\ UNCHANGED <<ledgerVars, machine, backlog, noReport, sourceFailures, seen, taint>>

Resnapshot ==
    /\ pc = "resnapshot"
    /\ \/ /\ backlog' = Fold(SnapshotPids)
          /\ Report("ready", "loop")
          /\ taint' = IF taint = "untrusted" THEN "recovered" ELSE taint
          /\ attempts' = 0
       \/ /\ AttemptFails
          /\ UNCHANGED <<backlog, noReport, taint>>
    /\ UNCHANGED <<ledgerVars, machine, source, sourceFailures, seen>>
-----------------------------------------------------------------------------
DriverStep ==
    \/ OpenSource \/ Subscribe \/ Snapshot \/ InitializeFails
    \/ CheckStop \/ DrainSessionChanges \/ Poll \/ Inject
    \/ Observe \/ HandleOutcome \/ PollDeferredAgain
    \/ ObserverFails \/ RecoverWait \/ RecoveryExhausted \/ Resubscribe \/ Resnapshot

ControlUnchanged == <<pc, backlog, attempts, noReport, result, seen, taint>>

Delivery ==
    /\ \E i \in Identities : Deliver(i)
    /\ UNCHANGED <<ledgerVars, machine, ControlUnchanged, sourceFailures>>

\* The machine moves while the service runs.
Environment ==
    /\ pc # "done"
    /\ \/ /\ \E i \in Identities : ProcStart(i) /\ Announce(i)
          /\ UNCHANGED sourceFailures
       \/ /\ RequestStop \/ \E i \in Identities : ProcChange(i)
          /\ UNCHANGED <<source, sourceFailures>>
       \/ /\ SourceFails \/ ConsumerEnds
          /\ UNCHANGED machine
    /\ UNCHANGED <<ledgerVars, ControlUnchanged>>

Done == pc = "done" /\ UNCHANGED vars

DriverNext == DriverStep \/ Delivery \/ Environment \/ Done

\* The service thread runs, a helper answers within its absolute bound, and an
\* announced process is delivered within the session's flush interval.
DriverSpec ==
    /\ DriverInit
    /\ [][DriverNext]_vars
    /\ WF_vars(DriverStep)
    /\ WF_vars(Delivery)
-----------------------------------------------------------------------------
(***************************************************************************)
(* Properties                                                              *)
(***************************************************************************)
\* The type of the driver's state; the failure counter never passes the
\* tolerance while the loop is running.
DriverTypeOK ==
    /\ source.kind \in {"none", "etw", "wmi"}
    /\ source.announced \subseteq Identities
    /\ Range(source.channel) \subseteq Pids
    /\ Range(backlog) \subseteq Pids
    /\ attempts \in 0..MaxRecoveryAttempts
    /\ health \in {"initializing", "ready", "degraded", "failed"}
    /\ reportFailures \in 0..(ToleratedFailures + 1)
    /\ pc # "done" => reportFailures <= ToleratedFailures
    /\ result = "none" <=> pc # "done"

\* A process the service has not handled yet is on its way to it: announced, in
\* the channel, in the backlog, or to be found by a snapshot still to be taken.
\* Subscribing before the snapshot, and the snapshot of every recovery, is what
\* closes the gaps.  (A trace consumer that returned on its own is the one
\* exception: nothing notices it.)
NoTargetMissed ==
    \A i \in Identities :
        Live(i) /\ i \notin seen =>
            \/ i \in source.announced
            \/ PidOf[i] \in Range(source.channel) \cup Range(backlog)
            \/ source.lost \/ source.ended
            \/ pc \in {"open", "subscribe", "snapshot", "resubscribe", "resnapshot", "recover", "done"}

\* Relay roots are drained before everything else, also after a recovery.
ShellsFirst ==
    \A m, n \in DOMAIN backlog : m < n /\ IsShell(backlog[n]) => IsShell(backlog[m])

\* An untrusted result is what the published health says, until a success, an
\* observer recovery or a failed publication.
UntrustedResultIsPublished ==
    pc = "loop" /\ taint = "untrusted" /\ reportFailures = 0 => health = "degraded"

\* Through every overflow, recovery and failed report the driver loses no process,
\* keeps shells ahead of the rest and publishes what the last injection showed,
\* within its tolerance of failed reports.
DriverInvariant ==
    DriverTypeOK /\ NoTargetMissed /\ ShellsFirst /\ UntrustedResultIsPublished

\* Once the stop event is set, and nobody resets it, the loop returns, whatever
\* it was doing.
StopEndsTheRun == []<>(stop => pc = "done")

\* Every process is eventually handed to the orchestrator, unless it exits
\* first, the run ends, or the trace consumer has returned: the loop catches up
\* with the processes again and again.
EveryTargetIsHandled ==
    []<>(pc = "done" \/ source.ended \/ \A i \in Identities : Live(i) => i \in seen)
=============================================================================
