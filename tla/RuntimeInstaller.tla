-------------------------- MODULE RuntimeInstaller --------------------------
(***************************************************************************)
(* Machine setup: the commands that install, upgrade, repair, restore,     *)
(* start, stop, remove and uninstall the service runtime, one at a time    *)
(* under the machine lock, and what a crash between two of their durable   *)
(* writes leaves for the next command to recover.                          *)
(*                                                                         *)
(* A runtime generation is a directory below bin\ with a receipt; current  *)
(* .json selects one; the SCM record of the service names one; an          *)
(* activation journal and a repair journal make the two multi-step changes *)
(* recoverable.  Every step of a command that writes one of these is an    *)
(* action of its own, so that Crash and Fails fall between any two.        *)
(***************************************************************************)
EXTENDS Naturals, FiniteSets

CONSTANTS
    Version,        \* versions a setup executable may carry
    None,           \* no version: an absent file, service or process
    Foreign,        \* the image of a service this program does not own
    MaxProfile,     \* how many profiles are ever published
    MaxTrouble      \* bound on crashes, failures, damage, drift and intruders

ASSUME InstallerAssumption ==
    /\ None \notin Version /\ Foreign \notin Version /\ None # Foreign
    /\ MaxProfile \in Nat \ {0} /\ MaxTrouble \in Nat

VARIABLES
    bin,        \* [Version -> state of the generation's directory]
    copy,       \* [Version -> profile its MacType.ini holds, 0 for none]
    receipts,   \* versions with a receipt in runtime-receipts
    pointer,    \* current.json
    prior,      \* previous-runtime.json
    journal,    \* runtime-activation.json
    repair,     \* runtime-repair.json
    aside,      \* the .repair-new and .repair-old directories of that repair
    litter,     \* a staging directory no journal names is left in bin
    pins,       \* migration-runtime-pins: <<version, profile of its copy>>
    profile,    \* the published profile, 0 before the first
    service,    \* the SCM record, the process it runs and that process's state
    rival,      \* another injector: AppInit, the legacy service or its tray
    op,         \* the command that holds the machine lock
    trouble     \* trouble met so far

files == <<bin, copy, receipts, pointer, prior, journal, repair, aside, litter,
           pins, profile>>
outside == <<rival, trouble>>
vars == <<bin, copy, receipts, pointer, prior, journal, repair, aside, litter,
          pins, profile, service, rival, op, trouble>>

Verbs == {"install", "upgrade", "repair", "bootstrap", "preserve", "remove",
          "start", "stop", "restore", "publish", "uninstall"}
Phases == {"Candidate", "Committed", "RollbackRequired"}
RepairPhases == {"Prepared", "OldMoved", "NewPlacedUnverified", "NewVerified"}
Steps == {"recover", "clear", "unbind", "plan", "halt", "awaitstop", "inspect",
          "stage", "staged", "receipt", "swap", "old", "moved", "placed", "check",
          "checked", "cleaned", "journal", "switch", "materialize", "prepare",
          "commit", "health", "awaitready", "require", "finalize", "retain",
          "sweep", "swept", "unreceipt", "sync", "rebind", "restart",
          "awaitrestart", "delete", "erase", "forget", "settle"}
Rivals == {"appinit", "legacy", "tray"}
Images == Version \cup {None, Foreign}

NoJournal == [phase |-> "none", previous |-> None, activated |-> None]
NoRepair == [phase |-> "none", version |-> None]
NoAside == [new |-> "absent", old |-> "absent"]

\* A process of the service is starting until its host has checked the machine,
\* and stopping from an accepted stop until it is gone.
ServiceStates == {"stopped", "starting", "checked", "running", "stopping"}
NoService == [image |-> None, process |-> None, state |-> "stopped"]
NoOp == [verb |-> "none", bundled |-> None, step |-> "idle", was |-> FALSE,
         present |-> FALSE, before |-> None, undo |-> FALSE, published |-> FALSE,
         victim |-> None, outcome |-> "none"]

InstallerTypeOK ==
    /\ bin \in [Version -> {"absent", "good", "damaged", "headless"}]
    /\ copy \in [Version -> 0 .. MaxProfile]
    /\ receipts \subseteq Version
    /\ pointer \in Version \cup {None}
    /\ prior \in Version \cup {None}
    /\ journal \in [phase : Phases \cup {"none"}, previous : Version \cup {None},
                    activated : Version \cup {None}]
    /\ repair \in [phase : RepairPhases \cup {"none"}, version : Version \cup {None}]
    /\ aside \in [new : {"absent", "good", "torn"}, old : {"absent", "damaged", "headless"}]
    /\ litter \in BOOLEAN
    /\ pins \subseteq Version \X (0 .. MaxProfile)
    /\ profile \in 0 .. MaxProfile
    /\ service \in [image : Images, process : Version \cup {None}, state : ServiceStates]
    /\ op \in [verb : Verbs \cup {"none"}, bundled : Version \cup {None},
               step : Steps \cup {"idle"}, was : BOOLEAN, present : BOOLEAN,
               before : Version \cup {None}, undo : BOOLEAN, published : BOOLEAN,
               victim : Version \cup {None},
               outcome : {"none", "ok", "failed", "refused", "blocked", "unrestored"}]
    /\ rival \in Rivals \cup {"none"}
    /\ trouble \in 0 .. MaxTrouble

InstallerInit ==
    /\ bin = [v \in Version |-> "absent"] /\ copy = [v \in Version |-> 0]
    /\ receipts = {} /\ pointer = None /\ prior = None
    /\ journal = NoJournal /\ repair = NoRepair /\ aside = NoAside
    /\ litter = FALSE /\ pins = {} /\ profile = 0
    /\ service = NoService /\ rival = "none" /\ op = NoOp /\ trouble = 0

-----------------------------------------------------------------------------
(* What the code reads of the disk and of the SCM.                         *)

\* A directory that matches its receipt: exactly the fixed files, each with
\* the recorded digest.
Verified(v) == bin[v] = "good" /\ v \in receipts

\* current() finds the selected generation's service binary, or no selection.
CurrentReadable == pointer = None \/ bin[pointer] \in {"good", "damaged"}

\* No transaction is pending and the selected generation matches its receipt.
CurrentStable ==
    /\ journal = NoJournal /\ repair = NoRepair
    /\ pointer # None => Verified(pointer)

\* Every migration pin names a runtime that is exactly as it was pinned.
PinsVerified == \A p \in pins : bin[p[1]] = "good" /\ copy[p[1]] = p[2]
Pinned == {p[1] : p \in pins}

Owned == service.image \in Version
Running == service.state = "running"
Stopped == service.state = "stopped"

\* The states in which setup classifies the service as unknown.
Transitional == ~Running /\ ~Stopped

\* What the host checks once while it initializes: no pending activation but a
\* committed one of the selected runtime, the complete file set, the
\* published profile beside the DLLs, an SCM image that is its own, and
\* neither an enabled AppInit entry nor a running legacy service.
CommittedActivation ==
    \/ journal = NoJournal
    \/ journal.phase = "Committed" /\ journal.activated = pointer
ResolvedGeneration == pointer # None /\ bin[pointer] \in {"good", "damaged"}
ProfileInPlace == profile # 0 /\ copy[pointer] = profile
ImageOwned == service.image = pointer
AppInitEnabled == rival = "appinit"
LegacyRunning == rival = "legacy"
TrayFound == rival = "tray"
NoRival == ~AppInitEnabled /\ ~LegacyRunning
HostAdmitted ==
    CommittedActivation /\ ResolvedGeneration /\ ProfileInPlace /\ ImageOwned /\ NoRival

\* The uninstaller removes nothing unless everything below the service root is
\* a file it knows and every generation and receipt belong together.
OnDisk == {v \in Version : bin[v] # "absent"}
RemovalPlanned ==
    /\ journal = NoJournal /\ repair = NoRepair /\ aside = NoAside /\ ~litter
    /\ OnDisk = receipts /\ \A v \in OnDisk : Verified(v)
    /\ {pointer, prior} \subseteq OnDisk \cup {None}
    /\ PinsVerified

-----------------------------------------------------------------------------
(* What the SCM makes of the service.                                      *)

Bound(v) == [service EXCEPT !.image = v]
Launched == [service EXCEPT !.process = service.image, !.state = "starting"]
StopRequested == [service EXCEPT !.state = "stopping"]
StoppedService == [service EXCEPT !.process = None, !.state = "stopped"]

-----------------------------------------------------------------------------
(* The course of a command.                                                *)

At(step) == op.step = step
Go(step) == op' = [op EXCEPT !.step = step]
Done(outcome) == op' = [NoOp EXCEPT !.verb = op.verb, !.was = op.was, !.outcome = outcome]

Deploying == {"install", "upgrade", "repair", "bootstrap", "preserve"}
Activating == {"materialize", "prepare", "commit", "health", "awaitready"}
RecoverySteps == {"recover", "clear", "unbind"}
DeploySteps == {"stage", "staged", "receipt", "swap", "old", "moved", "placed",
                "check", "checked", "cleaned", "journal", "switch", "require",
                "finalize"}

\* Where an error goes: an activation that already switched the pointer first
\* records that it must be rolled back; a failed deployment is recovered by its
\* command; anything before it, and the other verbs, simply return.
Errs ==
    IF op.undo THEN Done("unrestored")
    ELSE IF op.step \in RecoverySteps THEN Done("blocked")
    ELSE IF op.step \in Activating THEN Go("require")
    ELSE IF \/ op.verb \in Deploying /\ op.step \in DeploySteps
            \/ op.verb = "repair" /\ op.step \in {"sync", "restart", "awaitrestart"}
    THEN op' = [op EXCEPT !.step = "recover", !.undo = TRUE]
    ELSE Done("failed")

\* The broker and the installer take the machine lock and recover first.
Begin(verb, bundled) ==
    /\ At("idle")
    /\ op' = [NoOp EXCEPT !.verb = verb, !.bundled = bundled, !.step = "recover"]
    /\ UNCHANGED <<files, service, outside>>

\* After recovery: the verb itself, or, when it failed, its caller's state.
Recovered == IF op.undo THEN Go("settle") ELSE Go("plan")

-----------------------------------------------------------------------------
(* Recovery of an interrupted repair, one rename or removal at a time.  The *)
(* unused new directory goes file by file and only as a whole one; the old  *)
(* one of a verified repair may be found half removed and still goes.       *)

\* runtime_directory_matches: the directory is the new one of the repair.
HoldsTheNew == bin[repair.version] = "good"

RepairMoves ==
    LET dest == bin[repair.version]
        restored == [dest |-> aside.old, new |-> aside.new, old |-> "absent"]
        cleaned == [dest |-> dest, new |-> "torn", old |-> aside.old]
        quarantined == [dest |-> "absent", new |-> "good", old |-> aside.old]
        dropped == [dest |-> dest, new |-> "absent", old |-> "absent"]
        hasOld == aside.old # "absent"
        hasNew == aside.new # "absent"
    IN  {m \in {restored, cleaned, quarantined, dropped} :
            \/ /\ repair.phase # "NewVerified"
               /\ \/ m = restored /\ dest = "absent" /\ hasOld
                  \/ m = cleaned /\ dest # "absent" /\ ~hasOld /\ aside.new = "good"
            \/ /\ repair.phase \in {"OldMoved", "NewPlacedUnverified"}
               /\ m = quarantined /\ HoldsTheNew /\ hasOld /\ ~hasNew
            \/ /\ repair.phase = "NewVerified"
               /\ m = dropped /\ HoldsTheNew /\ hasOld /\ ~hasNew}

RepairSettled ==
    /\ aside = NoAside
    /\ IF repair.phase = "NewVerified" THEN HoldsTheNew
                                       ELSE bin[repair.version] # "absent"

\* Anything else is a state no repair leaves: nothing is touched.
RecoverRepair ==
    /\ At("recover") /\ repair # NoRepair
    /\ \/ \E m \in RepairMoves :
            /\ bin' = [bin EXCEPT ![repair.version] = m.dest]
            /\ aside' = [new |-> m.new, old |-> m.old]
            /\ IF m.new = "torn" THEN Go("clear") ELSE UNCHANGED op
            /\ UNCHANGED repair
       \/ RepairSettled /\ repair' = NoRepair /\ UNCHANGED <<bin, aside, op>>
       \/ RepairMoves = {} /\ ~RepairSettled /\ Errs /\ UNCHANGED <<bin, aside, repair>>
    /\ UNCHANGED <<copy, receipts, pointer, prior, journal, litter, pins, profile,
                   service, outside>>

\* The last file of the unused new directory, and the directory itself.
ClearNew ==
    /\ At("clear") /\ aside' = [aside EXCEPT !.new = "absent"] /\ Go("recover")
    /\ UNCHANGED <<bin, copy, receipts, pointer, prior, journal, repair, litter, pins,
                   profile, service, outside>>

-----------------------------------------------------------------------------
(* Recovery of an interrupted activation with the service it is bound to.  *)

PairVerified == /\ Verified(journal.activated)
                /\ journal.previous # None => Verified(journal.previous)

Recovering == At("recover") /\ repair = NoRepair

NothingToRecover ==
    /\ Recovering /\ journal = NoJournal
    /\ IF CurrentReadable THEN Recovered ELSE Errs
    /\ UNCHANGED <<files, service, outside>>

\* The candidate is bound although it was not committed: stop it, then give the
\* service its previous image, or remove it when there was none.
MustRebind == /\ journal.phase \in {"Candidate", "RollbackRequired"} /\ PairVerified
              /\ service.image = journal.activated
              /\ journal.activated # journal.previous

Unbound == IF journal.previous = None THEN NoService
           ELSE Bound(journal.previous)

\* A rollback that gives back the image under a running candidate.
RestoreBindingLive ==
    /\ Recovering /\ MustRebind /\ ~Transitional
    /\ service' = Unbound
    /\ UNCHANGED <<files, op, outside>>

RestoreBinding ==
    /\ Recovering /\ MustRebind /\ ~Transitional
    /\ IF Running THEN service' = StopRequested /\ Go("unbind")
                  ELSE service' = Unbound /\ UNCHANGED op
    /\ UNCHANGED <<files, outside>>

\* The stop of the rollback was confirmed.
RestoreStopped ==
    /\ At("unbind") /\ Stopped
    /\ service' = Unbound /\ Go("recover")
    /\ UNCHANGED <<files, outside>>

\* The binding is exactly the previous one; only then may the pointer follow.
MayRestorePointer ==
    /\ journal.phase \in {"Candidate", "RollbackRequired"} /\ PairVerified
    /\ service.image = journal.previous /\ ~Transitional
    /\ pointer \in {journal.previous, journal.activated, None}

RestorePointer ==
    /\ Recovering /\ MayRestorePointer /\ pointer # journal.previous
    /\ pointer' = journal.previous
    /\ UNCHANGED <<bin, copy, receipts, prior, journal, repair, aside, litter, pins,
                   profile, service, op, outside>>

\* A committed activation is finished forward, never rolled back.
MayFinish ==
    \/ MayRestorePointer /\ pointer = journal.previous
    \/ /\ journal.phase = "Committed" /\ PairVerified
       /\ pointer = journal.activated /\ service.image = journal.activated
       /\ ~Transitional

FinishRecovery ==
    /\ Recovering /\ MayFinish
    /\ copy' = IF pointer = None THEN copy ELSE [copy EXCEPT ![pointer] = profile]
    /\ journal' = NoJournal
    /\ Recovered
    /\ UNCHANGED <<bin, receipts, pointer, prior, repair, aside, litter, pins, profile,
                   service, outside>>

\* A service between two states can be classified at another time.
RecoveryUnknown ==
    /\ Recovering /\ journal # NoJournal
    /\ ~(MustRebind /\ ~Transitional) /\ ~MayRestorePointer /\ ~MayFinish
    /\ IF Transitional /\ ~op.undo THEN Done("failed") ELSE Errs
    /\ UNCHANGED <<files, service, outside>>

-----------------------------------------------------------------------------
(* The verbs' own first steps.                                             *)

Keep == UNCHANGED <<files, service, outside>>

\* is_running refuses an absent or foreign service and one between two states.
PlanOwned ==
    /\ At("plan") /\ op.verb \in {"upgrade", "repair", "restore"}
    /\ IF Owned /\ ~Transitional
                THEN op' = [op EXCEPT !.was = Running, !.present = TRUE,
                            !.step = IF Running THEN "halt" ELSE "inspect"]
                ELSE Errs
    /\ Keep

PlanInstall == At("plan") /\ op.verb = "install" /\ Go("stage") /\ Keep

\* The installer's preflight: anything foreign, unknown or inconsistent stops
\* it before it changes anything.
Preflight ==
    /\ CurrentStable /\ service.image \in {None, pointer} /\ ~Transitional
    /\ pointer = None => ~Owned
    /\ Running => profile # 0
    /\ NoRival /\ ~TrayFound

PlanBootstrap ==
    /\ At("plan") /\ op.verb \in {"bootstrap", "preserve"}
    /\ IF Preflight
       THEN op' = [op EXCEPT !.was = Running, !.present = Owned, !.before = pointer,
                   !.step = IF Running THEN "halt" ELSE "stage"]
       ELSE Done("refused")
    /\ Keep

AfterStop ==
    CASE op.verb \in {"remove", "uninstall"} -> Go("delete")
      [] op.verb = "stop" -> Done("ok")
      [] op.verb \in {"bootstrap", "preserve"} -> Go("stage")
      [] OTHER -> Go("inspect")

\* A stop that is sent and not waited for.
HaltUnconfirmed ==
    /\ At("halt")
    /\ CASE Stopped -> AfterStop /\ UNCHANGED service
         [] Running -> service' = StopRequested /\ AfterStop
         [] OTHER -> Errs /\ UNCHANGED service
    /\ UNCHANGED <<files, outside>>

\* stop: only a running service accepts the control.
Halt ==
    /\ At("halt")
    /\ CASE Stopped -> AfterStop /\ UNCHANGED service
         [] Running -> service' = StopRequested /\ Go("awaitstop")
         [] OTHER -> Errs /\ UNCHANGED service
    /\ UNCHANGED <<files, outside>>

\* The service is stopped and the captured process has exited; a wait that runs
\* out before is an error of the command (Fails), with the stop under way.
StopConfirmed == At("awaitstop") /\ Stopped /\ AfterStop /\ Keep

\* What an upgrade replaces, what a repair must match, what a restore needs.
Inspect ==
    /\ At("inspect")
    /\ CASE op.verb = "upgrade" ->
              IF CurrentStable /\ pointer # None
              THEN op' = [op EXCEPT !.step = "stage", !.before = pointer]
              ELSE Done("failed")
         [] op.verb = "repair" ->
              IF CurrentReadable /\ pointer = op.bundled
              THEN op' = [op EXCEPT !.step = "stage", !.before = pointer]
              ELSE op' = [op EXCEPT !.step = "recover", !.undo = TRUE]
         [] op.verb = "restore" ->
              IF CurrentReadable /\ pointer \in Pinned /\ PinsVerified
              THEN Go("rebind") ELSE Done("failed")
    /\ Keep

PlanStart ==
    /\ At("plan") /\ op.verb = "start"
    /\ IF pointer # None THEN Go("sync") ELSE Errs
    /\ Keep

PlanStop ==
    /\ At("plan") /\ op.verb \in {"stop", "remove"}
    /\ CASE service.image = None -> Done("ok")
         [] service.image = Foreign -> Errs
         [] OTHER -> Go("halt")
    /\ Keep

PlanUninstall ==
    /\ At("plan") /\ op.verb = "uninstall"
    /\ CASE service.image = Foreign \/ Transitional -> Done("refused")
         [] RemovalPlanned /\ Owned /\ ~Transitional -> Go("halt")
         [] RemovalPlanned /\ service.image = None -> Go("delete")
         [] OTHER -> Errs
    /\ Keep

-----------------------------------------------------------------------------
(* Staging the bundled payload, and replacing a damaged generation.        *)

Place(v, state) == bin' = [bin EXCEPT ![v] = state]

\* verify_existing_payload: exactly the files of the bundled payload.
PayloadInPlace == bin[op.bundled] = "good"

\* A valid directory is reused; only a repair replaces an invalid one.
Stage ==
    /\ At("stage")
    /\ IF journal # NoJournal \/ repair # NoRepair THEN Errs
       ELSE CASE PayloadInPlace -> Go("receipt")
              [] bin[op.bundled] = "absent" -> Go("staged")
              [] OTHER -> IF op.verb = "repair" THEN Go("swap") ELSE Errs
    /\ Keep

\* The staging directory, complete and synced, becomes the generation.
Rename ==
    /\ At("staged") /\ Place(op.bundled, "good") /\ Go("receipt")
    /\ copy' = [copy EXCEPT ![op.bundled] = 0]
    /\ UNCHANGED <<receipts, pointer, prior, journal, repair, aside, litter, pins,
                   profile, service, outside>>

WriteReceipt ==
    /\ At("receipt") /\ receipts' = receipts \cup {op.bundled} /\ Go("journal")
    /\ UNCHANGED <<bin, copy, pointer, prior, journal, repair, aside, litter, pins,
                   profile, service, outside>>

Swapping(phase, new, old, dest, step) ==
    /\ repair' = [phase |-> phase, version |-> op.bundled]
    /\ aside' = [new |-> new, old |-> old]
    /\ Place(op.bundled, dest) /\ Go(step)
    /\ UNCHANGED <<receipts, pointer, prior, journal, litter, pins, profile, service,
                   outside>>

\* replace_runtime_payload: each rename is journalled after it happened.
PrepareSwap == /\ At("swap") /\ UNCHANGED copy
               /\ Swapping("Prepared", "good", "absent", bin[op.bundled], "old")
MoveOld == /\ At("old") /\ UNCHANGED copy
           /\ Swapping("Prepared", "good", bin[op.bundled], "absent", "moved")
NoteMoved == /\ At("moved") /\ UNCHANGED copy
             /\ Swapping("OldMoved", "good", aside.old, "absent", "placed")
PlaceNew == /\ At("placed") /\ copy' = [copy EXCEPT ![op.bundled] = 0]
            /\ Swapping("OldMoved", "absent", aside.old, "good", "check")
NotePlaced == /\ At("check") /\ UNCHANGED copy
              /\ Swapping("NewPlacedUnverified", "absent", aside.old, "good", "checked")
NoteVerified == /\ At("checked") /\ UNCHANGED copy
                /\ Swapping("NewVerified", "absent", aside.old, "good", "cleaned")
DropOld ==
    /\ At("cleaned")
    /\ IF aside.old # "absent" THEN aside' = NoAside /\ UNCHANGED <<repair, op>>
       ELSE repair' = NoRepair /\ Go("receipt") /\ UNCHANGED aside
    /\ UNCHANGED <<bin, copy, receipts, pointer, prior, journal, litter, pins, profile,
                   service, outside>>

-----------------------------------------------------------------------------
(* The activation transaction.                                             *)

WriteJournal ==
    /\ At("journal") /\ op' = [op EXCEPT !.step = "switch", !.before = pointer]
    /\ journal' = [phase |-> "Candidate", previous |-> pointer, activated |-> op.bundled]
    /\ UNCHANGED <<bin, copy, receipts, pointer, prior, repair, aside, litter, pins,
                   profile, service, outside>>

SwitchPointer ==
    /\ At("switch") /\ pointer' = op.bundled /\ Go("materialize")
    /\ UNCHANGED <<bin, copy, receipts, prior, journal, repair, aside, litter, pins,
                   profile, service, outside>>

\* The published profile becomes MacType.ini of the selected generation; the
\* installer publishes the bundled default when it will start the service.
Publishes == op.verb \in {"bootstrap"} /\ profile = 0

Materialize ==
    /\ At("materialize") /\ Go("prepare")
    /\ copy' = [copy EXCEPT ![pointer] = profile]
    /\ UNCHANGED <<bin, receipts, pointer, prior, journal, repair, aside, litter, pins,
                   profile, service, outside>>

PublishDefault ==
    /\ At("prepare") /\ Publishes
    /\ profile' = 1 /\ copy' = [copy EXCEPT ![pointer] = 1]
    /\ op' = [op EXCEPT !.published = TRUE]
    /\ UNCHANGED <<bin, receipts, pointer, prior, journal, repair, aside, litter, pins,
                   service, outside>>

\* The service is registered for the candidate, or an owned one reconfigured.
Registers == \/ op.verb = "install"
             \/ op.verb \in {"bootstrap", "preserve"} /\ ~op.present

Bindable == IF Registers THEN service.image = None ELSE Owned

Prepare ==
    /\ At("prepare") /\ ~Publishes
    /\ IF Bindable
       THEN /\ service' = Bound(op.bundled)
            /\ Go("commit")
       ELSE Errs /\ UNCHANGED service
    /\ UNCHANGED <<files, outside>>

Commit ==
    /\ At("commit")
    /\ IF journal.phase = "Candidate" /\ pointer = journal.activated
       THEN journal' = [journal EXCEPT !.phase = "Committed"] /\ Go("health")
       ELSE Errs /\ UNCHANGED journal
    /\ UNCHANGED <<bin, copy, receipts, pointer, prior, repair, aside, litter, pins,
                   profile, service, outside>>

StartsService == \/ op.verb = "bootstrap"
                 \/ op.verb \in {"upgrade", "preserve"} /\ op.was

\* start_and_wait_ready: the owned service is started, which is no error when it
\* is not stopped, and then its state is waited for.
Startable == Owned /\ (Stopped => bin[service.image] \in {"good", "damaged"})

SendStart(step) ==
    IF Startable THEN Go(step) /\ service' = IF Stopped THEN Launched ELSE service
                 ELSE Errs /\ UNCHANGED service

Health ==
    /\ At("health")
    /\ IF StartsService THEN SendStart("awaitready") ELSE Go("finalize") /\ UNCHANGED service
    /\ UNCHANGED <<files, outside>>

\* The host reports Running and its health Ready, or the service stops; a wait
\* that runs out before is an error of the command (Fails).
AwaitReady ==
    /\ op.step \in {"awaitready", "awaitrestart"} /\ ~Transitional
    /\ CASE Stopped -> Errs
         [] Running /\ At("awaitready") -> Go("finalize")
         [] OTHER -> Done(IF op.undo THEN "failed" ELSE "ok")
    /\ Keep

\* A failed activation whose journal is thrown away.
RequireNothing ==
    /\ At("require") /\ journal' = NoJournal
    /\ op' = [op EXCEPT !.step = "recover", !.undo = TRUE]
    /\ UNCHANGED <<bin, copy, receipts, pointer, prior, repair, aside, litter, pins,
                   profile, service, outside>>

\* The failed activation is marked before anything is undone.
RequireRollback ==
    /\ At("require")
    /\ journal' = [journal EXCEPT !.phase = "RollbackRequired"]
    /\ op' = [op EXCEPT !.step = "recover", !.undo = TRUE]
    /\ UNCHANGED <<bin, copy, receipts, pointer, prior, repair, aside, litter, pins,
                   profile, service, outside>>

\* A receipt that cannot be removed stays committed, and the command succeeds.
Finalize ==
    /\ At("finalize")
    /\ \/ journal' = NoJournal /\ Go("retain") /\ UNCHANGED trouble
       \/ /\ trouble < MaxTrouble /\ trouble' = trouble + 1 /\ UNCHANGED journal
          /\ Go(IF op.verb = "repair" THEN "sync" ELSE "settle")
    /\ UNCHANGED <<bin, copy, receipts, pointer, prior, repair, aside, litter, pins,
                   profile, service, rival>>

-----------------------------------------------------------------------------
(* Retention: the selected, the previous and the pinned generations stay.  *)

AfterRetention == IF op.verb = "repair" THEN "sync" ELSE "settle"

Retain ==
    /\ At("retain")
    /\ prior' = IF op.before \notin {None, op.bundled} THEN op.before ELSE prior
    /\ Go(IF PinsVerified THEN "sweep" ELSE AfterRetention)
    /\ UNCHANGED <<bin, copy, receipts, pointer, journal, repair, aside, litter, pins,
                   profile, service, outside>>

\* Retention that forgets the previous runtime.
RetainedWithoutPrior == {op.bundled} \cup Pinned

Retained == {op.bundled, prior} \cup Pinned
Stale == {v \in Version \ Retained : Verified(v)}

\* A stale generation goes file by file, then its directory, then its receipt.
Sweep ==
    /\ At("sweep")
    /\ \/ \E v \in Stale : Place(v, "headless")
                           /\ op' = [op EXCEPT !.step = "swept", !.victim = v]
       \/ Stale = {} /\ Go(AfterRetention) /\ UNCHANGED bin
    /\ UNCHANGED <<copy, receipts, pointer, prior, journal, repair, aside, litter, pins,
                   profile, service, outside>>

RemoveDirectory ==
    /\ At("swept") /\ Place(op.victim, "absent") /\ Go("unreceipt")
    /\ copy' = [copy EXCEPT ![op.victim] = 0]
    /\ UNCHANGED <<receipts, pointer, prior, journal, repair, aside, litter, pins,
                   profile, service, outside>>

RemoveReceipt ==
    /\ At("unreceipt") /\ receipts' = receipts \ {op.victim}
    /\ op' = [op EXCEPT !.victim = None,
              !.step = IF op.verb = "uninstall" THEN "erase" ELSE "sweep"]
    /\ UNCHANGED <<bin, copy, pointer, prior, journal, repair, aside, litter, pins,
                   profile, service, outside>>

-----------------------------------------------------------------------------
(* The last steps of the verbs, and the caller's state after a failure.    *)

\* synchronize_active_runtime: MacType.ini is made the published profile.
Synchronize ==
    /\ At("sync") /\ copy' = [copy EXCEPT ![pointer] = profile]
    /\ CASE op.verb = "start" -> Go("rebind")
         [] op.verb = "repair" /\ op.was -> Go("restart")
         [] OTHER -> Done("ok")
    /\ UNCHANGED <<bin, receipts, pointer, prior, journal, repair, aside, litter, pins,
                   profile, service, outside>>

Rebind ==
    /\ At("rebind")
    /\ IF Owned
       THEN /\ service' = Bound(pointer)
            /\ IF op.verb = "start" THEN Go("restart") ELSE Done("ok")
       ELSE Errs /\ UNCHANGED service
    /\ UNCHANGED <<files, outside>>

Restart == At("restart") /\ SendStart("awaitrestart") /\ UNCHANGED <<files, outside>>

\* A finished deployment reports; a failed one that was recovered gives the
\* caller back what it had, if the recovered runtime is exactly that.
Settle ==
    /\ At("settle")
    /\ IF ~op.undo THEN Done("ok") /\ UNCHANGED <<profile, copy>>
       ELSE IF op.verb \in {"upgrade", "bootstrap", "preserve"} /\ pointer # op.before
       THEN Errs /\ UNCHANGED <<profile, copy>>
       ELSE /\ IF op.was THEN Go("restart") ELSE Done("failed")
            /\ IF op.published
               THEN profile' = 0 /\ copy' = [v \in Version |-> IF v = pointer THEN 0 ELSE copy[v]]
               ELSE UNCHANGED <<profile, copy>>
    /\ UNCHANGED <<bin, receipts, pointer, prior, journal, repair, aside, litter, pins,
                   service, outside>>

\* The record goes only if it is still the owned one that was inspected.
Delete ==
    /\ At("delete")
    /\ IF service.image = Foreign THEN Errs /\ UNCHANGED service
       ELSE /\ service' = NoService
            /\ IF op.verb = "remove" THEN Done("ok")
               ELSE IF RemovalPlanned THEN Go("erase") ELSE Errs
    /\ UNCHANGED <<files, outside>>

Erase ==
    /\ At("erase")
    /\ \/ \E v \in OnDisk : Place(v, "headless")
                            /\ op' = [op EXCEPT !.step = "swept", !.victim = v]
       \/ OnDisk = {} /\ Go("forget") /\ UNCHANGED bin
    /\ UNCHANGED <<copy, receipts, pointer, prior, journal, repair, aside, litter, pins,
                   profile, service, outside>>

\* Pins first, then current.json, then previous-runtime.json.
Forget ==
    /\ At("forget")
    /\ pins' = {}
    /\ pointer' = IF pins = {} THEN None ELSE pointer
    /\ prior' = IF pins = {} /\ pointer = None THEN None ELSE prior
    /\ IF pins = {} /\ pointer = None THEN Done("ok") ELSE UNCHANGED op
    /\ UNCHANGED <<bin, copy, receipts, journal, repair, aside, litter, profile, service,
                   outside>>

\* The profile store's own transaction (ProfileStore) as one step: a new
\* profile is published and copied to the selected generation.
PublishProfile ==
    /\ At("plan") /\ op.verb = "publish"
    /\ IF profile < MaxProfile
       THEN /\ profile' = profile + 1
            /\ copy' = IF pointer = None THEN copy ELSE [copy EXCEPT ![pointer] = profile + 1]
       ELSE UNCHANGED <<profile, copy>>
    /\ Done("ok")
    /\ UNCHANGED <<bin, receipts, pointer, prior, journal, repair, aside, litter, pins,
                   service, outside>>

-----------------------------------------------------------------------------
(* What happens around the commands.                                       *)

Trouble == trouble < MaxTrouble /\ trouble' = trouble + 1

\* What an SCM call that is reported as failed may have done all the same: an
\* image set before the rest of the configuration, a record deleted but still
\* held open by somebody.
Rebinding == Stopped /\ (At("unbind") \/ (Recovering /\ MustRebind))
Attempted ==
    CASE At("prepare") /\ ~Publishes /\ Bindable -> {Bound(op.bundled)}
      [] At("rebind") /\ Owned -> {Bound(pointer)}
      [] At("delete") /\ service.image # Foreign -> {NoService}
      [] Rebinding -> {Unbound}
      [] OTHER -> {}

\* Any write, rename, verification or SCM call may fail, and any wait run out.
Fails ==
    /\ ~At("idle") /\ op.step \notin {"plan", "inspect", "finalize", "settle"}
    /\ Trouble
    /\ IF op.step \in {"retain", "sweep", "swept", "unreceipt"} /\ op.verb # "uninstall"
       THEN Go(AfterRetention)
       ELSE IF op.step \in RecoverySteps /\ ~op.undo THEN Done("failed") ELSE Errs
    /\ service' \in {service} \cup Attempted
    /\ UNCHANGED <<files, rival>>

\* The setup process dies, or the machine loses power and the service too.
Crash ==
    /\ ~At("idle") /\ Trouble
    /\ op' = NoOp
    /\ litter' = (litter \/ op.step \in {"staged", "swap"})
    /\ service' \in {service, StoppedService}
    /\ UNCHANGED <<bin, copy, receipts, pointer, prior, journal, repair, aside, pins,
                   profile, rival>>

\* The SCM starts the service at boot.
Boot ==
    /\ At("idle") /\ Owned /\ Stopped /\ Startable
    /\ service' = Launched
    /\ UNCHANGED <<files, op, outside>>

\* The host's one look at the machine, and, after it has opened its event source,
\* the report that it is Running and Ready; it may give up until then.
HostChecks ==
    /\ service.state = "starting"
    /\ service' = IF HostAdmitted THEN [service EXCEPT !.state = "checked"]
                                  ELSE StoppedService
    /\ UNCHANGED <<files, op, outside>>

HostReports ==
    /\ service.state = "checked" /\ service' = [service EXCEPT !.state = "running"]
    /\ UNCHANGED <<files, op, outside>>

HostGivesUp ==
    /\ service.state \in {"starting", "checked"} /\ Trouble
    /\ service' = StoppedService
    /\ UNCHANGED <<files, op, rival>>

HostStops ==
    /\ service.state = "stopping" /\ service' = StoppedService
    /\ UNCHANGED <<files, op, outside>>

\* A file of a generation is changed, or its service binary quarantined.
Damage(v) ==
    /\ At("idle") /\ bin[v] = "good" /\ Trouble
    /\ \E state \in {"damaged", "headless"} : Place(v, state)
    /\ UNCHANGED <<copy, receipts, pointer, prior, journal, repair, aside, litter, pins,
                   profile, service, rival, op>>

\* Another program takes the service's name.
Intrude ==
    /\ service.image = None /\ Trouble
    /\ service' = [service EXCEPT !.image = Foreign] /\ UNCHANGED <<files, rival, op>>

\* AppInit is enabled, the legacy service installed and started, or the tray
\* registered, at any time; or taken away again.
Rival ==
    /\ \/ rival = "none" /\ rival' \in Rivals /\ Trouble
       \/ rival # "none" /\ rival' = "none" /\ UNCHANGED trouble
    /\ UNCHANGED <<files, service, op>>

\* A migration pins the selected runtime with its copy, and later lets go.
Pin ==
    /\ At("idle")
    /\ pins' = IF pins = {} /\ pointer # None /\ CurrentStable
               THEN {<<pointer, copy[pointer]>>} ELSE {}
    /\ pins' # pins
    /\ UNCHANGED <<bin, copy, receipts, pointer, prior, journal, repair, aside, litter,
                   profile, service, op, outside>>

Step ==
    \/ RecoverRepair \/ ClearNew \/ NothingToRecover \/ RestoreBinding
    \/ RestoreStopped \/ RestorePointer \/ FinishRecovery \/ RecoveryUnknown
    \/ PlanOwned \/ PlanInstall \/ PlanBootstrap \/ PlanStart \/ PlanStop
    \/ PlanUninstall \/ Halt \/ StopConfirmed \/ Inspect
    \/ Stage \/ Rename \/ WriteReceipt
    \/ PrepareSwap \/ MoveOld \/ NoteMoved \/ PlaceNew \/ NotePlaced \/ NoteVerified
    \/ DropOld
    \/ WriteJournal \/ SwitchPointer \/ Materialize \/ PublishDefault \/ Prepare
    \/ Commit \/ Health \/ AwaitReady \/ RequireRollback \/ Finalize
    \/ Retain \/ Sweep \/ RemoveDirectory \/ RemoveReceipt
    \/ Synchronize \/ Rebind \/ Restart \/ Settle \/ Delete \/ Erase \/ Forget
    \/ PublishProfile

Environment ==
    \/ Fails \/ Crash \/ Boot \/ HostChecks \/ HostReports \/ HostGivesUp \/ HostStops
    \/ Rival \/ Intrude \/ Pin
    \/ \E v \in Version : Damage(v)

InstallerNext ==
    \/ \E verb \in Verbs, v \in Version : Begin(verb, v)
    \/ Step
    \/ Environment

InstallerSpec == InstallerInit /\ [][InstallerNext]_vars

-----------------------------------------------------------------------------
(* Properties.                                                             *)

\* A runtime that is only a candidate never gets past its host's check.  Whatever
\* command was interrupted wherever, a process beyond that check, also one whose
\* stop is still pending, is of the selected runtime; of the previous one while
\* an activation is a candidate (install switches the pointer under a running
\* service before it finds the name taken); of the activated one once it is
\* committed; of either while it is rolled back.
MayRun ==
    CASE journal.phase = "none" -> {pointer}
      [] journal.phase = "Candidate" -> {journal.previous}
      [] journal.phase = "Committed" -> {journal.activated}
      [] journal.phase = "RollbackRequired" -> {journal.previous, journal.activated}
Admitted == service.state \in {"checked", "running", "stopping"}
RunsTheSelected == Admitted => service.process \in MayRun

\* With no transaction pending and no command running, an owned service is
\* registered for the selected runtime, so the next boot starts that one.
BoundToTheSelected ==
    At("idle") /\ journal = NoJournal /\ repair = NoRepair /\ Owned
        => service.image = pointer

\* Recovery gives up on a pending activation only when a generation it needs
\* was damaged or the service name was taken, or when the service of the
\* previous runtime had been removed before.
RecoveryIsExact ==
    op.outcome = "blocked" /\ journal # NoJournal
        => \/ ~PairVerified
           \/ service.image = Foreign
           \/ service.image = None /\ journal.previous # None

\* After any sequence of commands, crashes and recoveries the selected runtime is
\* the one that runs and the one that is registered, and a pending activation
\* that cannot be settled has a cause outside setup.
InstallerInvariant ==
    InstallerTypeOK /\ RunsTheSelected /\ BoundToTheSelected /\ RecoveryIsExact

\* Setup restores the previous pointer and configuration before the next
\* operation: intact generations and an own service name are enough.
PendingActivationRecovers ==
    op.outcome = "blocked" /\ journal # NoJournal
        => ~PairVerified \/ service.image = Foreign

\* A generation that the pointer, the previous pointer, a pending journal or a
\* pin names is not removed by any command but uninstall; a repair may move it
\* away while its own journal accounts for it.
Needed == ({pointer, prior, journal.previous} \cup Pinned) \ {None, repair.version}
NeededSurvive ==
    op.verb # "uninstall" =>
       \A v \in Needed : bin[v] = "absent" \/ bin'[v] # "absent" \/ repair' # NoRepair

\* A repair or an update of the installer returns, having found out whether the
\* service ran, with success or with a failure that it could undo.
Returns ==
    /\ ~At("idle") /\ op'.step = "idle" /\ op'.outcome \in {"ok", "failed"}
    /\ op.verb \in {"repair", "preserve"} /\ ~At("plan")
    /\ op.step \in RecoverySteps => op.undo
HandsBack == service'.state = IF op.was THEN "running" ELSE "stopped"

\* They hand the machine back as they found it: the service runs exactly if it
\* ran before.  Only a command that gives up waiting for its own stop returns
\* at once and leaves a service that is stopping, or stopped.
CallerKeepsState == Returns /\ ~At("awaitstop") => HandsBack

\* A service that is not ours is never changed by a command.
ForeignUntouched ==
    service.image = Foreign => service' = service

\* No command, finished, failed or undone, costs what it must be able to hand
\* back: the generations of the way back, the running state of its caller, and a
\* service that belongs to somebody else.
MachineIsKept == [][NeededSurvive /\ CallerKeepsState /\ ForeignUntouched]_vars

\* Each crash, failure and recovery implements a step of the atomic switch.
Switch == INSTANCE RuntimeSwitch
    WITH Runtime <- Version, Nothing <- None,
         active <- IF journal = NoJournal THEN pointer
                   ELSE IF journal.phase = "Committed" THEN journal.activated
                   ELSE journal.previous,
         fallback <- IF journal = NoJournal THEN pointer ELSE journal.previous
RefinesSwitch == Switch!SwitchSpec

\* Registration never moves away from under a process: while one of the service
\* exists, starting, running or still stopping, no command gives the record
\* another image or deletes it, whatever stop or start timed out before, so
\* what the SCM restarts is always what it last ran.
RecordOutlivesProcess ==
    [][service.process # None => /\ service'.image = service.image
                                 /\ service'.process \in {service.process, None}]_vars
=============================================================================
