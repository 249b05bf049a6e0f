# A TLA+ model of the MacType open service and its control center

The repository ships a text renderer (the C++ MacType engine), a Windows service
that loads it into running processes, a machine setup for the service's protected
runtime, and a desktop control center. This project specifies the parts whose
correctness depends on order, failure and concurrency: the service host, the profile
store and the runtime installer of the setup, and the control center's machine
integration, hand-over from the older MacTray, preview helpers, profile editor and
run profile, with the event logs of all of them. It is written from the Rust sources
under `src/service-runtime` and `src/control-center/src-tauri`; every definition that
models code names its lines in `PROJECT.json` (`map`).

## 1. The system

| component | state | operations | hard because |
|---|---|---|---|
| injection orchestrator (`host/injection_orchestrator.rs`) | results of up to 4096 targets and up to 512 deferrals, each a map plus an order | handle a PID, poll deferrals, attempt an injection with retries, session change | processes freeze, exit and reuse PIDs between any two steps; both tables are bounded; map and order must agree |
| target validator, inspector (`target_validation.rs`, `windows_process.rs`) | none | decide what a PID is now | answers are stale as soon as they are given; a probe may not answer |
| helper broker and launcher (`helper_broker.rs`, `windows_helper_launcher.rs`) | one suspended child in a Job | verify readiness, inject one target | stop, timeout and the helper's exit race |
| orchestration driver (`orchestration_runtime.rs`) | backlog of PIDs, recovery attempts, health report failures | initialize, one loop round, recover the observer | source and snapshot must leave no gap; stop must end every wait; reports may fail |
| process event sources (`etw_observer.rs`, `windows_wmi.rs`, `platform/etw.rs`) | a trace session with a bounded channel and an overflow flag, or a WMI enumerator | subscribe, snapshot, next PID | a consumer thread fills the channel; an overflow drops PIDs; the source may die |
| session event queue (`session_event_queue.rs`) | an array of atomic slots, two cursors, an overflow flag | push (handler threads), pop (service thread) | lock-free, several producers |
| lifecycle and SCM adapter (`runtime/lifecycle.rs`, `scm.rs`, `scm/win32_adapter.rs`) | SCM status, stop event | start, run, stop, fail, panic | control handler on its own thread; each report may fail; exit code decides about a restart |
| health publishers (`file_health.rs`, `named_pipe.rs`) | `health.json`, a pipe | publish | two media, the file outlives the process |
| profile store and bridge (`setup/profile_store*`, `setup/profile_bridge*`) | profile generations, `active.json`, `previous.json`, an activation journal, `MacType.ini` beside the selected runtime | publish, roll back, synchronize, recover | five durable writes per change; any may fail, the process may die between any two, and so may the recovery |
| runtime installer and setup broker (`setup/runtime_installer*`, `setup/windows/*`) | runtime directories and receipts, `current.json`, activation and repair journals, pins, the SCM record | install, upgrade, repair, restore, start, stop, remove, uninstall, two bootstraps | the same, plus a service that others may take over and rival injectors |
| machine integration (`machine_integration/open_service`, `legacy_migration`, `publish.rs`) | migration receipt, pins, the open and the legacy service | migrate, publish, designate, remove, roll back | two injectors must never run together; every step may fail; the broker may be killed |
| tray hand-over and elevated broker (`legacy_mactray`, `open_service/broker*`, `profile_transfer`) | autostart entries, one receipt per scope, two pipes | ask MacTray to exit, take entries away and put them back, run a broker | two processes, deadlines, either may die; the user edits the entries |
| preview (`preview*`, `preview-helper/main.cpp`) | one helper process per engine behind a mutex | probe, render, restart | late answers, crashes, identifiers that wrap |
| profile editor (`profile*`) | one open document with undo and redo, profile files and their backups | open, edit, reset, undo, redo, save, duplicate, import, export | others write the same file; history against "unsaved"; two sections hold one setting |
| run profile (`execution*`, `designation.rs`) | local runtime generations, the pointer to one, the pause marker | designate, republish, start, activate, stop, tray menu | the pointer and the service are changed by separate steps, on two threads |
| event logs (`contract/event_log.rs`, `host/event_log.rs`, `setup/event_log.rs`, `diagnostics/operation_log.rs`) | a file and its backups, a throttle, counters | append, rotate, summarize, read | unlocked readers and one unlocked writer; crashes within a line; setup's log has several processes, whose append locks know nothing of each other |
| engine, native injector, user interface, packaging | | | outside this project |

The service control manager starts `service_main`, which registers the control
handler and calls `ServiceRuntime::run`. That publishes health, initializes the
source and the snapshot, and calls the driver. The driver loop asks the stop event,
drains the session queue, polls one deferral, takes one PID from the source or else
from the backlog, hands it to the orchestrator, and publishes what follows from the
outcome. The orchestrator asks the validator and hands a verified identity to the
broker. Control handler threads write the stop event and the session queue; the
trace consumer thread writes the channel.

The control center changes the machine through an elevated broker (a second process of
its own, joined by pipes), which calls the setup executable for everything that concerns
the service. Setup commands exclude one another by a machine lock and begin by
recovering what the one before left behind; only their records in the event log are
written when the lock is already dropped, or was never obtained.

`PROJECT.json` lists every component (also the ones that are not modelled) and
the hazards, each at its line with the properties that would catch it.

## 2. Modules

| module | models | state and actions |
|---|---|---|
| `Machine` | what the service observes: processes with PID reuse, and the stop event | `proc`, `stop`; `ProcStart`, `ProcChange`, `RequestStop` |
| `InjectionOrchestrator` | the orchestrator with validator and broker at its boundary | `processed`/`processOrder`, `deferred`/`deferredOrder` (the two maps and their orders), `job` (the call in progress); `HandlePid`, `PollDeferred`, `LaunchHelper`, `HelperAnswers`, `RetryWait`, `SessionChange` |
| `TargetLedger` | abstract specification of the orchestrator | `ledger` (unknown, deferred, injecting, settled) and `reply`; `PassOver`, `Take`, `Answer`, `ForgetSession` |
| `OrchestrationDriver` | the service loop and the sources, composed of `Machine` and `TargetLedger` | `pc`, `source`, `backlog`, `attempts`, `health`, `reportFailures`; one action per step of initialization, loop round and recovery |
| `SessionEventQueue` | the lock-free queue | `slots`, cursors, flag, and the place of each push and of the pop; one action per atomic operation |
| `ServiceLifecycle` | `service_main`, `ServiceRuntime::run`, control handler | `status`, `stopEvent`, `handler`, `persisted`, `live`; one action per report, publication or decision |
| `ProfileStore` | profile store and bridge, one setup process at a time | `generations`, `active`, `previous`, `journal`, `file` (`MacType.ini`), `runtime`, and the process (`step`, `request`, `unwinding`); one action per durable write, `Refuse` for a failed check, `IoError`, `Crash`, `Meddle` |
| `ProfileSwitch` | abstract specification of the store | `selected`, `request`, `reply`; `Submit`, `Serve`, `Fail` |
| `RuntimeInstaller` | the setup verbs, their recovery, the SCM record, and the host from its start to its stop | runtime directories, receipts, pointer, the two journals, pins, the service (registered image, process, and the process's state), the command in progress; one action per durable write, control or end of a wait, `Fails`, `Crash`, `Boot`, the host's own steps (`HostChecks`, `HostReports`, `HostGivesUp`, `HostStops`), and `Damage`, `Intrude`, `Rival` for others |
| `RuntimeSwitch` | abstract specification of the installer's selection | `active`, `fallback`; `Adopt`, `Settle`, `Revert`, `Uninstall` |
| `MachineIntegration` | the broker's transactions over both services | `open`, `store`, `pins`, `legacy`, `receipt`, the transaction `txn`; one action per setup call, SCM call or durable write, and the steps of the rollback |
| `TrayHandover` | client, brokers, entries, receipts, MacTray | each process with its place in the protocol, the two pipes; one action per message, file or registry change, deadline or exit |
| `PreviewHelper` | the preview manager and its helper processes | slots, queues and readers; one action per frame, timeout, start and end of a process |
| `LogFile` | what a log looks like on disk | no state: sizes, what can be read, the orders of rotation and reading |
| `EventLog` | the log of one process, the host's or the control center's: appends, rotation, reader, throttle and summaries | files as sequences of lines, places of each thread, the throttle and the counters |
| `SharedLog` | a log that several processes append to, as those of setup do | the same files, for each process its step and the file it has open, whatever its name is by now |
| `ProfileDocument` | the open profile and the profile files | `doc` (lines, unsaved keys, histories), `file`, `backup`, a save between its comparison and its replacement; one action per command |
| `RunProfile` | extends `ProfileDocument` by the run profile | `runtimes`, `active` (the pointer), `service`, `paused`, `job` (what each thread is doing); one action per staging, move of the pointer, plan, machine operation, record of the choice |
| `MC*` | instances for TLC | constants only; `MCEventLog` puts a log of one process and setup's side by side |
| `*Proofs` | theorems | see section 5 |

How the code was cut into actions. The orchestrator runs on one thread, so a
call is one action, except where the machine may move in between: a call is
split at the launch of a helper, at the helper's answer and at the back-off
(`job.phase`). A call's trailing updates (eviction, recording, reordering) are
part of its action: the two tables are updated by operators from a snapshot of
both (`Tables`) to the next one, because evicting a deferral records a result.
The queue is cut at every atomic operation, and memory orderings are taken as
sequentially consistent: all accesses to one slot are read-modify-write operations on
one atomic, and the properties speak of slots and of the flag, never of an order
between two slots. The lifecycle is cut at every call that leaves the process. The
profile store and the installer are cut at every durable write: an atomic replacement
happens or does not, while `restore_generation_after_confirmed_clear`, which writes in
place, takes two steps with a torn file in between. The checks of a step are guards of
its action, and `ChecksFail` is their failure. A control that is sent and the
confirmation of it are two actions: between them the host runs on its own, the wait may run
out (`Fails` at `awaitstop`, `awaitready`, `awaitrestart`), and the command then takes the
error path it has while the service is still starting or stopping. The host's one look at
its runtime, its profile and its rivals is a step apart from its report that it runs, so a
rival may come in between. Machine integration is cut at every call
of the setup executable and of the service control manager, the hand-over at every
message and at every look at and change of a file or registry value, the preview at every
frame, the event logs at every file operation. Editor commands are synchronous Tauri commands, which run one at a time
on the main thread: each is one action, except a save, whose comparison and replacement
are two; the run profile's operations are cut wherever the other thread, somebody else
or the end of the process may fall in between.

How the modules hang together. The driver uses `TargetLedger`, which the orchestrator
is shown (and proved) to implement. The lifecycle takes the driver as a step that
publishes and returns. `MachineIntegration` takes the setup verbs by what they leave
behind, which is `RuntimeInstaller`'s and `ProfileStore`'s subject; `TrayHandover` takes
install and migrate as succeeding or failing, `RunProfile` takes a machine publication
as one step that succeeds, fails, or fails after taking effect, both
`MachineIntegration`'s subject. `RunProfile` and `ProfileDocument` share their state.

What is abstracted. Time is reduced to "not yet due" and "due", and delays are
steps that may happen at any time; codes are one value per class the code tells
apart; an identity is a model value with a PID and a session; telemetry and wording
are left out. A probe may always answer "unknown". A result is judged
(`generation_health_error`) when the call returns, which is when the driver does it.
A process snapshot is the set of the PIDs seen: the backlog made of it has the shells
first and is otherwise in an order the model leaves open.
In the store a profile is its content, one runtime directory is modelled and its
installation (`DeployRuntime`) is one step; several directories are the installer's
subject. The shell test is a property of the PID (`Shells`): a process whose image name
cannot be read counts as an ordinary one, as in the code. `MachineAction::Start` is
dispatched as a publication, as in the code; the repair verb is only in
`RuntimeInstaller`. In `RuntimeInstaller` a service that is marked for deletion is gone (the wait for its absence
may fail all the same), what the SCM restarts after a failure is taken into account at
`Boot`, between commands, and the end of a host that had become Ready is the lifecycle's
subject. In `TrayHandover` a shortcut that is restored is staged and renamed in one step, after
the look that found it absent, and the uninstaller's `--restore` is an action of the client. In
`PreviewHelper` the stop of an engine is one step, a helper's input pipe and its queue
are one sequence, and a write to it completes or fails: `write_frame` has no deadline
(`preview/protocol.rs:67`), so a helper that has stopped reading could hold the manager under its
mutex, and `EverythingEnds` does not promise an end then. In the event logs a file is read in one step, and a record is its size. `EventLog` has one
process on each log. That is so for the host; the control center allows one instance in a
session, so two sessions of one user append to the same file: their appends, rotations and
readers are what `SharedLog` models (without the record of a session's end), their throttles are in memory.
In `ProfileDocument` a line is a section header, a key with a value, a list entry or text;
spacing, letter case, character codecs, and refused inputs (which change nothing) are left
out, and `ReplaceFileW` is one step. A generation of the run profile is named by its
profile, since the installed files that also enter its digest do not change.

## 3. Runs

| run | checks | instance |
|---|---|---|
| `orchestrator` | `TablesAreSound` (types, and each order lists its table), `OneHomePerTarget`, `HistoryIsFaithful` (`VerdictIsAboutTheTarget`, `ResultsAgeOut`), `KeepsTheLedger` (implements `TargetLedger`) | three identities, two of them on one PID (interchangeable, so symmetric: every property here is safety), two sessions; history of 2, one deferral, 2 attempts, 1 launch deferral |
| `driver` | `DriverInvariant` (types, `NoTargetMissed`, `ShellsFirst`, `UntrustedResultIsPublished`), `StopEndsTheRun`, `EveryTargetIsHandled` | a shell and an application, ETW or WMI, a channel of one PID, one recovery attempt, one tolerated report failure, one WMI failure, consumer may end |
| `session_queue` | `NothingLost`, `DeliveredOnce`, `NoneMeansDrained`, `EveryEventArrives` | 2 slots, 5 concurrent pushes, one not encodable; no symmetry, since one property is liveness |
| `lifecycle` | `HealthIsHonest` (`RunningHealthIsOurs`, `StoppedIsNotReady`), `WindDownIsClean`, `StopIsAnswered` | two stop controls |
| `profile_store` | `FileFollowsSelection`, `CopyIsRespected` (types, `SelectionIsInPlace`, `ForeignFileSurvives`), `KeepsTheSelection` (implements `ProfileSwitch`), `RecoveryConverges` | three profiles, three failed writes or crashes, others delete or replace `MacType.ini` at any time |
| `runtime_installer` | `InstallerInvariant` (types, `RunsTheSelected`, `BoundToTheSelected`, `RecoveryIsExact`), `MachineIsKept` (`NeededSurvive`, `CallerKeepsState`, `ForeignUntouched`), `RefinesSwitch` (implements `RuntimeSwitch`), `RecordOutlivesProcess` | two versions (symmetric), one profile, two crashes, failures, waits that run out, damages or intrusions, commands without bound |
| `machine_integration` | `IntegrationInvariant` (types, `MigratedMeansReplaced`, `RetiredStaysRetired`, `PinnedRuntimesSurvive`, `FailedPublishKeepsProfile`), `NoSilentDoubleInjection`, `RollbackIsExact`, `RemovalIsVerified` | two profiles (symmetric), two transactions, two failures or outside events |
| `tray_handover` | `HandoverInvariant` (types, `OneBroker`, `FailedActionRestores`), `ReceiptCoversRemoved`, `UserKeepsControl` (`NeverOverwritesUserEdits`, `ExitOnlyTheNamed`), `ClientAnswers` | two entries of the user, one of them there at first, and one of the machine; two actions, two brokers at a time, two failures or outside events |
| `preview` | `ManagerInvariant` (types, `AnswerIsOurs`, `EventsAreUnsolicited`, `FailureIsFresh`), `NoHelperLeaks`, `EverythingEnds` (every command, and every helper after the application) | one root or none, six identifiers, four helper processes, two commands, one crash or change of the root |
| `event_log` | `LogInvariant` (types, `NoOversizedFile`, `OnlyTheOldestGo`, `FewAreUnreadable`), `ReaderSeesOnce`, `LoggerIsHonest` (`SummariesAddUp`, `FailureIsHeard`), `SetupLogIsSound` (`OutgrowthIsBounded`, `OnlyTheOldestGo`, `FewAreUnreadable`, `ReaderSeesOnce` of setup's log) | two threads beside the host, two backups, files of two lines, a throttle of one key, seven records, three results, one fault; or two setup processes (symmetric), seven records, one fault |
| `run_profile` | `RunInvariant` (types, `CleanMeansSaved`, `ShownIsWritten`), `ServiceFollowsTheUser` (`PublishedMeansServed`, `StopIsRemembered`, `DesignationKeepsRuntime`), `EditsAreFaithful` (`EditIsLocal`, `ListIsReplaced`, `NothingUnseenIsLost`) | an installed, a personal and an external file, one setting that stands in two sections, one list; a history of 2; the main thread and one tray thread; four commands, failures or outside events |
| `setup_stuck` | `PendingActivationRecovers`, which TLC refutes | the installer with one profile and one interruption |

A property with names in brackets is the conjunction of those parts, each defined and
commented on its own. What they say is in the comment above each of them. In short: the host loses
no target and forgets no result (`orchestrator`, `driver`, `session_queue`), answers
every stop and never shows another generation's health (`lifecycle`); the two durable
selections behave as atomic switches through any crash (`profile_store`,
`runtime_installer`); what runs is what is selected, what a way back needs is not
deleted, what belongs to others is not touched, and no registration moves away from under a
process that still exists (`runtime_installer`); two
injectors never run together unnoticed, and a migration that says it went back did
(`machine_integration`); no autostart entry is lost without a receipt
(`tray_handover`) and every action is answered; an answer belongs to its request and no helper is left behind
(`preview`); records are lost only from the old end, and
setup processes that rotate under each other still leave a readable log of about its size (`event_log`); the editor writes what
it shows, and what the control center says about the run profile is so (`run_profile`).

Why the bounds are enough. The tables' limits matter only when they are reached:
with three identities, a history of two and one deferral slot, both evictions and
the eviction that causes an eviction occur. Two identities on one PID give every
PID-reuse race between two steps. Two attempts give a first, a last and the
back-off between them; one launch deferral gives both sides of the limit. A channel
of one PID overflows with two processes. One recovery attempt gives success,
failure and exhaustion. Two slots and five pushes make both cursors wrap
twice and leave pushers without a slot. Three profiles tell the new, the
displaced and the one before apart, and three interruptions hit a request, its
recovery, and the recovery of that. Two versions give an upgrade, a way back and a
reinstallation; two troubles interrupt a command and its recovery, or pair an
interruption with damage. Two transactions give a migration followed by the removal,
the retry or the publication that meets what it left. Two brokers give the abandoned
one and its successor. Four helper processes and two commands give a restart within
each command; six identifiers wrap within a run. Three entries are one that is changed,
one beside it, and one that only the elevated broker may touch. Two backups and files of two lines give
a rotation over a full chain and over one with a hole; three results are a failed injection, one whose failure takes its place in the throttle,
and the first again; seven records of two setup processes fill the chain
and let two rotations, or a rotation and a write, meet anywhere in it. One profile and none tell a copy that
follows the selection from one that does not. In `run_profile` an
opened document, three edits, and a history of two reach the limit; four events give an
edit and a save followed by a designation, or a start, an outside change, a republish and
a failure of it; thread steps that succeed are not counted. The bounds named `Max*`,
`Pieces`, `Slot`, `Found` and `Originals` cap what the environment may do; they bound
events, not the program.

Deadlock is checked where the program is meant to go on or to finish explicitly: in
`orchestrator`, `driver`, `session_queue`, `lifecycle` and `profile_store`, whose finished states have a
stuttering step. In the others the environment is bounded and nothing need happen once
it has stopped, so `CHECK_DEADLOCK` is off; that a command in progress does not get
stuck is `ClientAnswers` and `EverythingEnds`.

Every property has a mutant in `PROJECT.json`: a plausible slip in one definition
(an eviction one entry late, an overflow that is not remembered, a flag swapped and
ignored, a receipt that covers too little, a history kept across a save, ...) under
which TLC refutes the property.

### Where the code and its documentation differ

`setup_stuck` is a run: after `remove`, which keeps the runtime and its pointer, an install
that is interrupted while its activation is a candidate leaves a journal that names a
previous runtime beside an absent service; `recover_activation`
(`runtime_installer/journal/recovery.rs:133`) accepts neither combination, and every
setup command begins with that recovery.

The following were met while modelling and are part of the model; where a property
would be refuted by one, its comment names the exception.

Service host and profile store:

- `docs/control-center-architecture.md:39`: an unknown cleanup "degrades the generation
  until a later verified success"; `recover_observer` publishes Ready after every
  resubscription (`orchestration_runtime.rs:191`).
- `docs/open-service-contract.md:28`: a confirmed termination on stop "is classified as
  cancellation"; `wait_for_helper` returns `Interrupted` after the resume, which the broker
  turns into a rejection with unknown cleanup (`helper_broker.rs:289`).
- `docs/service-maintenance.md:17`: "a requested stop must never report a nonzero exit
  code"; the stop is consulted only for an error of the driver (`lifecycle.rs:94`).
- `etw_observer.rs:19`: a consumer that stopped on its own "takes the same recovery path";
  `ProcessStartTrace` itself holds the channel's sender, so the receiver never
  disconnects (`platform/etw.rs:153`).
- `setup/tests/profile_store.rs:351` promises the exact bytes after an interrupted rollback;
  the restoration writes `MacType.ini` in place (`profile_bridge/cleanup.rs:120`), and a
  recovery interrupted there leaves torn bytes that every later one rejects as foreign.
  `RecoveryConverges` shows that this is the only way to get stuck.

Setup and machine integration:

- `docs/service-maintenance.md:56` says that `repair` "preserves the caller's running/stopped state".
  It sends the stop and returns with `?` when that fails (`setup/windows/broker/service.rs:126`), before
  the part whose error path restarts the service; a stop that was accepted and whose wait then ran out
  (`scm/lifecycle.rs:326`) is such a failure, and the service that ran is stopped afterwards. The
  bootstrap has the same order (`installer/transaction.rs:28`). `CallerKeepsState` excepts this
  case and no other.
- `open_service/migration.rs:225` says that "restarting the legacy service would
  double-inject", but `rollback_migration_failure` (line 178) restores and starts the
  legacy service also when the stop of the new one has just failed
  (`windows/rollback.rs:26`); the user is told of an unknown state
  (`NoSilentDoubleInjection`).
- A publication into a stopped service whose start fails takes back a profile that was
  selected before it, since "changed" is judged by the live digest (`publish.rs:45`).
- A completed rollback of a migration removes the new runtime directory and leaves its
  receipt, over which a later uninstall stumbles (`uninstall.rs:194`); from a machine without
  a service root it is always reported as failed.
- A broker killed in a migration leaves the legacy service parked and a pin that nothing
  removes; with a changed profile copy the pin cannot be verified any more.
- A completed rollback is exact up to two things (`RollbackIsExact`): a service whose
  registration an earlier failed rollback had left apart from the pointer is bound to the
  pointer, and one that is started again has its copy of the profile synchronized with the
  active profile (`windows/rollback.rs:38`).
- An administrator who runs setup himself while a migration is under way ends up with both
  services; nothing in the control center reports that (`OtherSetup` counts it as known to
  the one who did it).
- The removal of the new directory of an undone repair goes file by file (`journal/repair/receipt.rs:201`);
  one that is interrupted leaves a directory no recovery accepts, and every later command fails.
- The host looks for rivals once (`windows_runtime.rs:30`) and becomes Ready several calls later; one
  that comes in between, or afterwards, runs beside it. No property denies it.
- The upgrade stops a running service before it inspects the current runtime
  (`setup/windows/broker/service.rs:81`); an uninstall that dies half-way blocks every verb.
- The wait for a broker's answer looks at its process before the transfer
  (`platform/src/pipe.rs:524`): a success may be taken for a failure, and autostart entries
  come back beside the installed service.
- An autostart entry is compared and then deleted, or found absent and then written
  (`tray_startup/windows.rs:230` and `242`, `257` and `265`, `294` and `301`, `324` and `331`, the last with
  the staging and a replacing rename in between): what the user does to that entry in one of these windows
  is lost. `UserKeepsControl` excepts exactly the edits that fall into one.
- An abandoned broker may race its successor on the machine receipt; a receipt stays
  pending after a successful migration.

Control center:

- The file's last line may lack its line ending; a section or key added behind it is
  saved as one line with it (`profile/mutation.rs:177`, `:245`), although
  `docs/control-center-architecture.md:19` calls the document line-preserving.
- A list section that occurs twice is read from both places and rewritten in the first
  (`profile/mutation.rs:318`).
- The status "published" compares the designated file with this user's pointer
  (`execution.rs:222`), which a designation moves before the machine step: it also says so
  when that step failed or was put off.
- A generation that lost a file is never staged again (`execution/runtime.rs:171`): each
  later designation of that profile fails after moving the pointer, and the next start
  silently takes the default profile (`execution.rs:444`).
- An apply from the tray menu that was planned while the service ran starts it again after
  a Stop that fell in between, and removes the marker of that Stop (`execution.rs:496`).
- A duplicate that cannot be written leaves a partial file (`profile/storage.rs:34`).
- The record of a session's end is appended without the lock and may push a file over the
  limit, above which readers skip it whole (`operation_log.rs:217`, `contract/event_log.rs:213`);
  an append behind a torn line is acknowledged and unreadable.
- Setup's log is appended to by several processes (`setup/lib.rs:43` and `81` record after the machine lock
  is dropped, and a command that timed out on it records while its holder works), and `APPEND_LOCK`
  (`contract/event_log.rs:13`) is local to a process. Two that meet may push a file over the limit by
  one record of each other process, and may remove a backup that is not the oldest: `OutgrowthIsBounded` states
  the first bound, `OnlyTheOldestGo` holds of processes that do not meet (`crowded` is false).

## 4. Fairness

`DriverSpec` assumes weak fairness of the service thread as a whole (it is a
thread the system schedules, every wait in it has a time limit, and a helper is
killed after its absolute bound) and of `Delivery` (the trace session
flushes on a timer). Nothing is assumed of processes, failures, the operator or
the success of any call. `QueueSpec` assumes that the loop keeps popping; a pusher
may stall for ever. `LifecycleSpec` assumes that both threads run and that the
driver returns once the stop event is set, which is `StopEndsTheRun` of the
driver; without a stop the driver need not return. `StoreSpec` assumes that a
setup process runs on unless it is interrupted, and that some request is made again
(every one recovers first); interruptions are bounded. `TrayHandover` assumes that the
client's thread runs on (each of its waits has a deadline) and nothing of brokers.
`PreviewHelper` assumes the same of the manager, and that a helper whose input was closed
comes to read it; nothing is assumed of answers. The other modules state safety only.

## 5. Proofs

TLAPS checks the following for every value of the constants that satisfies the
`ASSUME`s of the modules: sets of identities, PIDs and profiles are finite, limits and
capacities are positive, an identity has one PID and one session, the value that
stands for "none" differs from every real one, the sections of settings, lists and fonts
have different names and a plain setting is not also a structured one, and a profile file read as lines lacks at
most its last line ending. The bounds `Max*` on what the environment
may do are arbitrary natural numbers.

In each proof the property is not inductive as it stands. What is added says, for each
place a process can be at, what it has already done and what it still has to undo. Then
there is one step per action, and under it one per part the action can disturb. The
provers have no induction over data. Where a definition is recursive (the size and the
reading of a log file, a sequence of settings written one after the other) the fact is
stated of a set of numbers that would be nonempty if it failed, and the least element of
that set is led to a contradiction.

`ServiceHostProofs`, the queue. `NothingIsLost`, `NothingIsDeliveredTwice`,
`DrainIsComplete` and `QueueIsTyped`, for any capacity and any number of pushers.
The invariant adds: a slot holds an event only if its
push has stored it (so that a stored event is in exactly one place), a covered event's push has returned,
and, for the drain, that an event that was present when the scan began and is still
there lies in a slot the scan has not passed, which needs that the scan's indices
`start .. start + offset` modulo the capacity are pairwise distinct.

`InjectionOrchestratorProofs`. `HomesInv` says that the tables are functions of the
right type, that no identity has both a result and a deferral, that the identity
being injected has neither, and that a back-off is only entered with an attempt
left. `HomesInvariant` proves it, `OneHome` is its consequence.
`OrchestratorKeepsTheLedger` proves the refinement: the initial state maps to the
ledger's, and each action to a step of `TargetLedger` or to a stutter. The lemmas
before it say what `RecordResult`, `InsertDeferred` and the removal do to the stage
of the identity they are about and of any other one. `TablesStaySound` and
`HistoryStaysFaithful` add `OrderInv`: each order is a sequence without repetitions whose
members are the keys of its table. A result that is new is appended, so it is the youngest when the
verdict is read; each update evicts at most once, and only from a full table. The lemmas
on orders say what `pop_front`, `push_back`, `remove` and `retain` do to such a list;
`retain` is defined by the places of the members that stay (`Retain`), which needs
no induction.

`OrchestrationDriverProofs`. `NoTargetIsMissed` and `DriverStaysSound`, for any
processes, channel and number of recoveries. `DriverInv` adds to the two properties that
from the first snapshot on there is a source that listens or one that is known to have
failed (`Listening`), that a recovery that goes on has an attempt left, and that the
health rule holds at every step of a round. The lemmas before it say that sorting a
snapshot keeps its members and puts shells first, and what the channel, the head and the
tail of the backlog have to do with its members.

`ServiceHostProofs`, the lifecycle. `HealthStaysHonest` and `WindDownStaysClean`. `LifecycleInv`
adds that `health.json` is this process's own from `initialize` on, that every way out
replaces an active report unless a publication was refused, that no error code was
reported while the run can still end well, and that the stop event stays set until the
run's error has been judged.

`ServiceHostProofs`, the event log. All properties of the run `event_log`, for a log that one process
appends to and any threads, backups, file sizes, windows, faults and crashes. `TheLoggerIsHonest`: `LoggerInv` adds what each
appending thread holds (only the owner of the lock rotates or writes) and that the throttle
remembers when each failure was last tried; every report is first shown to be one of a
few kinds of step. `NothingIsReadTwice`: `ReaderInv` says that every line on disk has
a number of its own, also in the middle of a rotation, and that what the reader
has taken lies in no file it has still to open, because a rotation moves lines only towards
files the reader passes first. `TheLogIsABoundedTail`: `LogInv` adds the sizes (who is about to
write has room, unless the end of the session wrote beside it), that a rotation keeps one
slot free for its next rename, that along the slots the records are in the order they were
written and what is gone is older than what is left, that there are no more empty slots inside
the log than faults, that each line that cannot be read stands for one that a fault has cut off
and that was never acknowledged, and that a throttle
does not outgrow its size. It needs that keys and architectures do not
share a name and that a window is positive.

`ProfileStoreProofs`. `StoreKeepsTheSelection` proves that the store implements
`ProfileSwitch`, `FileIsTheSelected` that `MacType.ini` follows the selection, and
`CopyStaysRespected` that it is exactly the selected profile until somebody else touches
it and that a foreign file survives, for
any set of profiles and any bound on interruptions. The refinement
mapping takes the selection from the journal while there is one, so the only
visible step is the removal of the journal after success. That the removal at the end of
a recovery is a stutter needs `StoreInv`: at each step, which request it belongs to
(`StepOfRequest`), which journal there is (`StepOfJournal`), which pointers have been
written or put back (`StepOfPointers`) and what the file may be (`StepOfFile`);
`CopyOfStep` adds where the copy is exact as long as nobody touched it.

`RuntimeInstallerProofs`. `ActivationIsAtomic` proves that the installer implements
`RuntimeSwitch`; `SetupKeepsTheSelection`, `CommandsKeepTheMachine` and
`ProcessKeepsItsRecord` prove the other three properties of its run, for any versions and
any number of crashes, failures and intrusions. `InstallerInv` is built as `StoreInv` is:
which verb a step belongs to, which of the two journals there is (never both), how far the
pointer and the registration are from what the journal names, and that the candidate of a
pending activation gets no further than its host's check. The service may be starting or stopping at
any step: a step that binds or deletes its registration is shown to be reached only when the
SCM reported it stopped. On top of it are that retention's victim is nobody's
way back and what `repair` and the installer remember of the caller's state.

`MachineIntegrationProofs`. `NeverUnnoticedTwo`, `RollbackStaysExact`,
`OperationsAreHonest` and `RemovalStaysVerified`: all properties of that run, for any
profiles, transactions and failures. The invariant `MI` has a base (where a transaction
is, whether it has a snapshot, has failed, or has failed to undo; what the receipt says of
the legacy service at that place; that a machine whose next boot would start both
services is one where a migration is under way or somebody was told) and four parts that need the base
only: the pin of a migration keeps the runtimes of its snapshot, what a migration has
verified, what a publication has made of the active profile, and what the rollback has
already put back. The setup verbs have several outcomes each; `VerbKeeps` says what all of
them keep, and one lemma per action (`...Row`) what that action does, so that the
parts are proved from these rows and not from the definitions.

`TrayHandoverProofs`. `RemovedIsCovered`, `HandoverKeepsItsWord` and
`UserStaysInControl`, for any entries, brokers, deaths and edits. The difficulty is that two
processes share the receipts: their scopes never meet, and while no broker was left running
(`~loose`) the one the client listens to is the only one. `HandoverInv` says for each step
of a procedure what the receipt on disk and the missing entries have to do with what the
worker holds in memory (so that a recheck, a removal and a restoration may each be cut off),
and for each place of client and broker which scopes are whole. A look at an entry and the
call that follows it are two steps; what somebody did in between is the one edit that `late` excepts.

`ControlCenterProofs`, the preview. `NoHelperIsForgotten` rests on `ControlInv`: for each
step of a command which helper the manager holds, which one it has just taken off and still
has to end, and that no other one lives. `NoAnswerIsDiverted` and `CommandsAreServed` add `FramesHold`
(which answers lie in the channel of a helper, for which requests, in which order) and
`DoneHolds` (what a command that has succeeded has seen). Request identifiers are a 64 bit counter
that wraps, so an answer that stayed in a channel while the counter went all the way round would be
taken for a new one; `CommandsAreServed` therefore assumes `NoLap`, and `SessionsAreServed`
replaces the assumption by counting: a command draws at most eight identifiers, so a session
of fewer than `IdSpace` / 8 commands never laps.

`ControlCenterProofs`, the run profile. `TheServiceFollows` is for any profiles, files, tray
threads and outside events. `RunInv` says at which steps each operation can be (`Placed`),
what an operation that has met no other one knows of the pointer and the service
(`Fits`), that pointer and service agree whenever nothing is half done (`CalmHolds`), and that
after the user has stopped the service only operations go on that do not start it
(`Harmless`). The proof did not go through at first: the histories that
`PublishedMeansServed` excepts did not cover a process that dies while a republication and
an apply from the tray menu overlap. TLC confirmed the state with six outside events, and
`Dies` now marks it.

`ControlCenterProofs`, the editor. `TheTextIsTrustworthy` proves `RunInvariant`: types, that a clean document is
what was last saved, that what is shown is what is written, and the types of the run profile. An edit
`Keeps` the endings of lines: all it adds is ended, and what it leaves is in the same order, so a document
has at most one line without ending, and none unless its file had one (`SoundDocument`). The histories
need the same of every revision in them, and that a revision that says "clean" is the saved one
(`SoundRevision`, `SoundHistory`); that undo and redo together stay within the limit follows because
only an edit lengthens them and an edit empties redo. A reset that finds every setting at its factory
value notes nothing and changes nothing. `CargoInv` says what a thread carries from one step to the
next: a text that some document or file had, and a pointer only to what was staged.

`EditsStayFaithful` proves `EditsAreFaithful` for every file, with settings and sections repeated
in any order. The argument is about places: an edit maps the lines that stay, in their order and with every
header, into the new text (`Embeds`), so each of them stays in its section (`SectionMoves`) and the
last line that holds a setting is still the last (`LatestMoves`). If every line that is lost or new is
`Foreign` to a setting or a list, the two texts `Agree` on it (`EmbedsAgree`). There are four kinds of
edit to place: a section added at the end (`AddedSection`), a line put in after the last of its section
(`InsertEmbeds`), a value changed where it stands (`ValueIsChanged`), and the entries of a section
replaced (`SpliceEmbeds`); for the last one the section must occur once, which is the condition the
property states, because the code replaces the first occurrence and reads all of them.

Only model-checked: what is stated under fairness (`StopEndsTheRun`, `EveryTargetIsHandled`, `EveryEventArrives`,
`StopIsAnswered`, `RecoveryConverges`, `ClientAnswers`, `EverythingEnds`), which is out of
the prover's reach, and the properties of `SharedLog`.

## 6. Not modelled

- the staged replacement of `health.json` and the readers that combine file and pipe;
- the inspection of installed packages, path protection and access control lists: each is
  a check without state, an outcome of the step that calls it;
- the character codecs and input validation of profiles, and the parsing of helper output:
  text transformations, whose cases depend on characters;
- session targets, the launch of programs and the autostart value of the control center:
  single reads and writes of one file or value;
- the wrappers over single Win32 calls, except where their order of checks matters
  (pipe transfers, the trace session): they keep no state of their own;
- the C++ engine (numeric and graphical), the native injector (represented by its
  results), the user interface and packaging.

Services of Windows are modelled from how the code uses them and marked external in the map.
