------------------------- MODULE MachineIntegration -------------------------
(***************************************************************************)
(* The machine integration of the control center: what the elevated broker *)
(* does to a machine that may hold two injectors, the legacy "MacType"     *)
(* service and the open service of this repository.  One transaction runs  *)
(* at a time; it calls the setup broker for every change of the open       *)
(* service and the SCM for every change of the legacy one.  Any call may   *)
(* fail, the broker may be killed after any of them (the client gives up   *)
(* after its timeout and closes the job), the machine may reboot, and      *)
(* somebody else may publish a profile or start and stop the services.     *)
(*                                                                         *)
(* The setup verbs are abstracted to what they leave behind;               *)
(* RuntimeInstaller and ProfileStore model their steps.                    *)
(***************************************************************************)
EXTENDS Naturals, FiniteSets

CONSTANTS
    None,          \* no profile, no version, no receipt
    Profile,       \* profile contents, named by their digest
    MaxBegun,      \* bound: transactions
    MaxTrouble     \* bound: failures and outside events

VARIABLES
    open,       \* SCM entry of the open service, and what its process loaded
    store,      \* protected runtime and profile files
    pins,       \* migration-runtime-pins: [by, runtimes]
    legacy,     \* SCM entry of the legacy service, and its MacType.ini
    receipt,    \* the current legacy migration receipt
    env,        \* another injection mode: "clear", "appinit" or "tray"
    txn,        \* the transaction of the elevated broker
    known,      \* the user was told that both injectors may meet
    begun, trouble

machine == <<open, store, pins, legacy, receipt, env>>
vars == <<open, store, pins, legacy, receipt, env, txn, known, begun, trouble>>

ASSUME ProfileAssumption == None \notin Profile /\ IsFiniteSet(Profile)
ASSUME BoundAssumption == MaxBegun \in Nat /\ MaxTrouble \in Nat

-----------------------------------------------------------------------------
(* State.                                                                  *)

Version == {"old", "new"}
Bundled == "new"
Optional(S) == S \cup {None}
Files == {"pointer", "active", "previous", "gens", "profiles", "copy"}
Unnoted == "unnoted"
NoNote == [f \in Files |-> IF f \in {"gens", "profiles"} THEN {} ELSE Unnoted]
Idle == [kind |-> "none", at |-> "idle", want |-> None, snap |-> None,
         note |-> NoNote, bad |-> FALSE, fault |-> {}, meddled |-> FALSE]

Store ==
    [pointer : Optional(Version), active : Optional(Profile),
     previous : Optional(Profile), gens : SUBSET Version,
     receipts : SUBSET Version, profiles : SUBSET Profile,
     copy : [Version -> Optional(Profile)], root : BOOLEAN]
Open == [image : Version \cup {None, "foreign"},
         run : {"stopped", "pending", "running", "ready"}, loaded : Optional(Profile)]
Legacy == [here : BOOLEAN, run : {"stopped", "running"}, start : {"auto", "disabled"},
           ini : {None, "one", "two"}]
Stages == {"prepared", "stopped", "removed", "undone"}
Receipt == [stage : Stages, run : {"stopped", "running"}, start : {"auto", "disabled"},
            ini : {None, "one", "two"}]
Snap == [inst : {"absent", "current", "outdated"}, image : Optional(Version), run : BOOLEAN,
         loaded : Optional(Profile), store : Store]
ASSUME NoneAssumption == None \notin Version \cup {"foreign", "one", "two"} \cup Receipt \cup Snap
Kinds == {"migrate", "removeLegacy", "publish", "designate", "install", "upgrade",
          "remove", "stop", "rollback"}
Steps == {"idle", "consent", "backup", "capture", "stopLegacy", "park", "noteStop",
          "publishCheck", "publishStop", "publish", "publishNote", "activateCheck",
          "activate", "start", "startNote", "ready", "smoke", "complete",
          "undoOpen", "undoStop", "undoRemove", "pointer", "active", "previous", "gens", "profiles",
          "copy", "undoRuntime",
          "undoStart", "undoPin", "undoRoots", "undoLegacy", "undoPark", "undoIni",
          "undoConfig", "undoTray", "undoRun", "undoNote",
          "verify", "again", "delete", "noteRemoved",
          "pubRead", "pubStop", "pub", "pubRestart", "pubActivate", "pubStart",
          "pubWait", "pubUndoStop", "pubUndoProfile", "pubUndoLast", "hold", "verb",
          "done"}

\* Every variable has its type, and a transaction past its snapshot has one.
IntegrationTypeOK ==
    /\ open \in Open /\ store \in Store /\ legacy \in Legacy
    /\ open.run \in {"running", "ready"} => open.image # None
    /\ \A pin \in pins : pin.by \in 1 .. begun /\ DOMAIN pin.runtimes \subseteq Version
    /\ receipt # None => receipt \in Receipt
    /\ txn.snap # None => txn.snap \in Snap
    /\ env \in {"clear", "appinit", "tray"}
    /\ txn.kind \in Kinds \cup {"none"} /\ txn.at \in Steps
    /\ txn.fault \subseteq {"open", "legacy"}
    /\ known \in BOOLEAN /\ begun \in 0 .. MaxBegun /\ trouble \in 0 .. MaxTrouble

\* What the running code could find: a legacy service that is enabled, retired
\* or gone, and an open service that was never installed, was removed with its
\* files left, or is installed with some profile active.
Init ==
    /\ legacy \in {l \in Legacy : /\ ~l.here => l.run = "stopped" /\ l.start = "disabled"
                                  /\ l.start = "disabled" => l.run = "stopped"
                                  /\ l.ini # "two"}
    /\ \E image \in Optional(Version), pointer \in Optional(Version),
          active \in Optional(Profile), run \in {"stopped", "ready"} :
         /\ image # None => image = pointer
         /\ run = "ready" => /\ image # None /\ active # None
                             /\ legacy.run = "stopped"
         /\ open = [image |-> image, run |-> run,
                    loaded |-> IF run = "ready" THEN active ELSE None]
         /\ \E previous \in Optional(Profile) :
              /\ previous # None => active # None /\ previous # active
              /\ store = [pointer |-> pointer, active |-> active, previous |-> previous,
                          gens |-> {pointer} \ {None}, receipts |-> {pointer} \ {None},
                          profiles |-> {active, previous} \ {None},
                          copy |-> [v \in Version |-> IF v = pointer THEN active ELSE None],
                          root |-> pointer # None]
    /\ pins = {} /\ receipt = None /\ env = "clear" /\ txn = Idle
    /\ known = (open.image # None /\ legacy.start = "auto")
    /\ begun = 0 /\ trouble = 0

-----------------------------------------------------------------------------
(* Observations.                                                           *)

OpenRuns == open.run \in {"running", "ready"}
BothInject == OpenRuns /\ legacy.run = "running"

\* query() with classify_owned_installation.
Installation ==
    CASE open.image = None -> "absent"
      [] open.image = "foreign" -> "invalid"
      [] open.image = Bundled /\ store.pointer = Bundled -> "current"
      [] OTHER -> "outdated"
Installed == Installation \in {"current", "outdated"}
Stable == open.run # "pending"
SafeInstallation == Installation \in {"absent", "current", "outdated"} /\ Stable

\* The digest the health pipe reports, known of a live service only.
LiveDigest == IF OpenRuns THEN open.loaded ELSE None
StrictReady(p) == Installation = "current" /\ open.run = "ready" /\ LiveDigest = p

\* legacy_service_blocks_activation: stopped and disabled is retired.
Retired == legacy.run = "stopped" /\ legacy.start = "disabled"
LegacyBlocks == legacy.here /\ ~Retired

\* current_receipt(): a profile that was absent at the backup still is.
BackupValid == receipt # None /\ (receipt.ini = None => legacy.ini = None)

\* The pinned generations, and whether every pin still describes its runtimes.
Pinned == UNION {DOMAIN pin.runtimes : pin \in pins}
PinsVerified ==
    \A pin \in pins : \A v \in DOMAIN pin.runtimes :
        v \in store.gens /\ store.copy[v] = pin.runtimes[v]

-----------------------------------------------------------------------------
(* The setup verbs: each is the set of <<open, store>> it can succeed with. *)

Halted == [open EXCEPT !.run = "stopped", !.loaded = None]
Owned == open.image \in Version

StopVerb == IF open.image = "foreign" THEN {} ELSE {<<Halted, store>>}

\* A profile becomes active; the adjacent copy follows in the selected runtime.
Activated(p) ==
    [store EXCEPT !.active = p,
                  !.previous = IF p = store.active THEN @ ELSE store.active,
                  !.profiles = @ \cup {p},
                  !.copy = [v \in Version |-> IF v = store.pointer THEN p ELSE @[v]]]
PublishVerb(p) == {<<open, Activated(p)>>}

RollbackVerb ==
    IF store.active = None THEN {}
    ELSE {<<open, [store EXCEPT !.active = store.previous,
                    !.previous = IF store.previous = None THEN None ELSE store.active,
                    !.copy = [v \in Version |-> IF v = store.pointer
                                                THEN store.previous ELSE @[v]]]>>}

\* The bundled generation is staged; retention then keeps the selected, the
\* previous and the pinned ones, and sweeps only when every pin verifies.
Staged == [store EXCEPT !.gens = @ \cup {Bundled}, !.receipts = @ \cup {Bundled},
                        !.root = TRUE]
KeptBesides(v) == {Bundled, v} \cup Pinned
Deployed ==
    LET swept == IF PinsVerified THEN store.gens \ KeptBesides(store.pointer) ELSE {}
    IN [Staged EXCEPT !.pointer = Bundled, !.gens = @ \ swept, !.receipts = @ \ swept,
                      !.copy = [v \in Version |-> CASE v = Bundled -> store.active
                                                   [] v \in swept -> None
                                                   [] OTHER -> @[v]]]
InstallVerb ==
    IF open.image # None THEN {}
    ELSE {<<[Halted EXCEPT !.image = Bundled], Deployed>>}
UpgradeVerb ==
    IF ~Owned \/ store.pointer = None \/ ~Stable THEN {}
    ELSE {<<[open EXCEPT !.image = Bundled, !.loaded = IF OpenRuns THEN store.active ELSE None],
            Deployed>>}

\* The copy is synchronized, the service bound to the selected runtime and
\* started; its host refuses to become ready beside AppInit or a running legacy
\* service.  A service that already runs is only waited for.
Synchronized == [store EXCEPT !.copy[store.pointer] = store.active]
StartBesideLegacy ==
    IF ~Owned \/ store.pointer \notin store.gens \/ store.active = None \/ env = "appinit" THEN {}
    ELSE {<<[image |-> store.pointer, run |-> "ready",
             loaded |-> IF OpenRuns THEN open.loaded ELSE store.active], Synchronized>>}
StartVerb ==
    IF ~Owned \/ store.pointer \notin store.gens \/ store.active = None
       \/ legacy.run = "running" \/ env = "appinit" THEN {}
    ELSE {<<[image |-> store.pointer, run |-> "ready",
             loaded |-> IF OpenRuns THEN open.loaded ELSE store.active], Synchronized>>}

RemoveVerb == IF open.image = "foreign" THEN {} ELSE {<<[Halted EXCEPT !.image = None], store>>}

RestoreVerb ==
    IF ~Owned \/ store.pointer \notin Pinned \/ ~PinsVerified THEN {}
    ELSE {<<[Halted EXCEPT !.image = store.pointer], store>>}

\* What a verb that fails may have done all the same.
Broken(verb, p) ==
    CASE verb = "publish" -> {<<open, store>>} \cup PublishVerb(p)
      [] verb = "stop" -> {<<open, store>>, <<[open EXCEPT !.run = "pending"], store>>}
      [] verb \in {"install", "upgrade"} -> {<<open, store>>, <<open, Staged>>}
      [] verb = "start" /\ StartVerb # {} ->
            {<<open, store>>, <<[image |-> store.pointer, run |-> "running",
                                 loaded |-> store.active], Synchronized>>}
      [] OTHER -> {<<open, store>>}

Succeeds(verb, p) ==
    CASE verb = "stop" -> StopVerb
      [] verb = "publish" -> PublishVerb(p)
      [] verb = "rollback" -> RollbackVerb
      [] verb = "install" -> InstallVerb
      [] verb = "upgrade" -> UpgradeVerb
      [] verb = "start" -> StartVerb
      [] verb = "remove" -> RemoveVerb
      [] verb = "restore" -> RestoreVerb

-----------------------------------------------------------------------------
(* Steps of a transaction.                                                 *)

At(l) == txn.at = l
Go(l) == txn' = [txn EXCEPT !.at = l]
\* The transaction is over: with success, with an error, or with an error after
\* its own rollback.
Ends == txn' = [txn EXCEPT !.at = "done"]
Refuses == txn' = [txn EXCEPT !.at = "done", !.bad = TRUE]
\* A part of a rollback failed; l is where the rollback goes on.
Faults(part, l) == txn' = [txn EXCEPT !.at = l, !.bad = TRUE, !.fault = @ \cup {part}]
\* The migration failed: both services are put back, the open one first.
Undoes == txn' = [txn EXCEPT !.at = "undoOpen", !.bad = TRUE]

Quiet == UNCHANGED <<known, begun>>
Trouble == trouble < MaxTrouble /\ trouble' = trouble + 1

\* A setup verb succeeds, or fails: refused by its own checks, or in trouble.
Setup(verb, good, bad) ==
    /\ \/ \E r \in Succeeds(verb, txn.want) :
             open' = r[1] /\ store' = r[2] /\ good /\ UNCHANGED trouble
       \/ Succeeds(verb, txn.want) = {} /\ bad /\ UNCHANGED <<open, store, trouble>>
       \/ \E r \in Broken(verb, txn.want) : open' = r[1] /\ store' = r[2] /\ bad /\ Trouble
    /\ UNCHANGED <<pins, legacy, receipt, env>> /\ Quiet

\* A check that decides where to go and changes nothing.
Check(ok, good, bad) ==
    /\ IF ok THEN good ELSE bad
    /\ UNCHANGED <<machine, trouble>> /\ Quiet

\* A change of the legacy service, its receipt or the pins, which may fail.
Touch(change, good, bad) ==
    /\ \/ change /\ good /\ UNCHANGED trouble
       \/ UNCHANGED <<pins, legacy, receipt>> /\ bad /\ Trouble
    /\ UNCHANGED <<open, store, env>> /\ Quiet

-----------------------------------------------------------------------------
(* The request: the unelevated gates, then consent, then the broker's own. *)

ClientAllows(kind) ==
    /\ kind \notin {"rollback", "stop"} => env = "clear"
    /\ CASE kind = "install" -> open.image = None
         [] kind = "upgrade" -> Stable /\ Installation = "outdated"
         [] kind = "remove" -> Stable /\ Installed
         [] kind = "stop" -> OpenRuns /\ Installed
         [] kind = "rollback" -> TRUE
         [] OTHER -> SafeInstallation
    /\ kind \in {"install", "publish"} => ~LegacyBlocks

Request(kind, p) ==
    /\ At("idle") /\ begun < MaxBegun /\ ClientAllows(kind)
    /\ (p = None) = (kind \notin {"migrate", "removeLegacy", "publish", "designate"})
    /\ txn' = [Idle EXCEPT !.kind = kind, !.want = p, !.at = "consent"]
    /\ begun' = begun + 1
    /\ UNCHANGED <<machine, known, trouble>>

\* refuse_conflicting_environment_for_activation and its sisters: the consent
\* window is long, so the elevated broker looks again.
BrokerAllows ==
    /\ txn.kind \in {"install", "publish", "designate"} => env # "appinit"
    /\ txn.kind = "install" => env # "tray"
    /\ txn.kind \in {"install", "publish"} => ~LegacyBlocks

Entry == CASE txn.kind = "migrate" -> "backup"
           [] txn.kind = "removeLegacy" -> "verify"
           [] txn.kind = "publish" -> "pubRead"
           [] txn.kind = "designate" -> "hold"
           [] OTHER -> "verb"
Elevate == At("consent") /\ Check(BrokerAllows, Go(Entry), Refuses)

\* A verb that the broker hands on to setup as it is.
PlainVerb == At("verb") /\ Setup(txn.kind, Ends, Refuses)

Finish ==
    /\ At("done")
    /\ known' = (known \/ txn.fault # {}) /\ txn' = Idle
    /\ UNCHANGED <<machine, begun, trouble>>

-----------------------------------------------------------------------------
(* Migration: back up, retire the legacy service, bring up the open one.   *)

\* prepare_backup: an owned, stable legacy service and its profile.  A receipt of
\* a disabled service does not validate, so the current one stays: what a parked
\* service was before is never overwritten.
Backable == legacy.here /\ env # "appinit" /\ legacy.start = "auto"
PrepareBackup ==
    /\ At("backup")
    /\ IF Backable
       THEN Touch(/\ receipt' = [stage |-> "prepared", run |-> legacy.run,
                                start |-> legacy.start, ini |-> legacy.ini]
                  /\ UNCHANGED <<pins, legacy>>,
                  Go("capture"), Refuses)
       ELSE Check(FALSE, Refuses, Refuses)

\* capture_open_service: the files, the service and a pin on every runtime.
Pin == [by |-> begun, runtimes |-> [v \in store.gens |-> store.copy[v]]]
Snapshot == [inst |-> Installation, image |-> open.image, run |-> OpenRuns,
             loaded |-> LiveDigest, store |-> store]
Capture ==
    /\ At("capture")
    /\ IF BackupValid /\ SafeInstallation
       THEN Touch(/\ pins' = IF store.gens = {} THEN pins ELSE pins \cup {Pin}
                  /\ UNCHANGED <<legacy, receipt>>,
                  txn' = [txn EXCEPT !.at = "stopLegacy", !.snap = Snapshot], Refuses)
       ELSE Check(FALSE, Refuses, Refuses)

\* stop_legacy: stopped, parked disabled so that no boot starts it, recorded.
StopLegacy ==
    /\ At("stopLegacy")
    /\ IF BackupValid /\ legacy.here /\ env # "appinit"
       THEN Touch(legacy' = [legacy EXCEPT !.run = "stopped"] /\ UNCHANGED <<pins, receipt>>,
                  Go("park"), Undoes)
       ELSE Check(FALSE, Undoes, Undoes)
ParkNothing ==
    /\ At("park") /\ Go("noteStop") /\ UNCHANGED <<machine, trouble>> /\ Quiet
Park ==
    /\ At("park")
    /\ Touch(legacy' = [legacy EXCEPT !.start = "disabled"] /\ UNCHANGED <<pins, receipt>>,
             Go("noteStop"), Undoes)

\* A stop that cannot be recorded is taken back at once, if that works.
Returned == [legacy EXCEPT !.start = receipt.start, !.run = receipt.run]
NoteStop ==
    /\ At("noteStop")
    /\ \/ receipt' = [receipt EXCEPT !.stage = "stopped"] /\ Go("publishCheck")
          /\ UNCHANGED <<legacy, trouble>>
       \/ legacy' \in {legacy, Returned} /\ Undoes /\ Trouble /\ UNCHANGED receipt
    /\ UNCHANGED <<open, store, pins, env>> /\ Quiet

\* ensure_open_service_unchanged, before each of the two changes.
Unchanged ==
    /\ Installation = txn.snap.inst
    /\ txn.snap.inst # "absent" => Stable /\ open.image = txn.snap.image

PublishCheck ==
    /\ At("publishCheck")
    /\ Check(Unchanged, Go(IF OpenRuns THEN "publishStop" ELSE "publish"), Undoes)
PublishStop ==
    /\ At("publishStop")
    /\ Setup("stop", Go("publish"), txn' = [txn EXCEPT !.at = "publishNote", !.bad = TRUE])
Publish ==
    /\ At("publish")
    /\ Setup("publish", Go("publishNote"),
             txn' = [txn EXCEPT !.at = "publishNote", !.bad = TRUE])

\* record_protected_mutations: what differs from the snapshot is noted as this
\* transaction's own, once; a generation it cannot have made is an error.
FileNow(f) == IF f = "copy" /\ txn.snap.store.pointer # None
              THEN store.copy[txn.snap.store.pointer] ELSE store[f]
FileThen(f) == IF f = "copy" /\ txn.snap.store.pointer # None
               THEN txn.snap.store.copy[txn.snap.store.pointer] ELSE txn.snap.store[f]
Single == {"pointer", "active", "previous"}
              \cup (IF txn.snap.store.pointer = None THEN {} ELSE {"copy"})
Recordable ==
    /\ \A f \in Single : \/ FileNow(f) = FileThen(f)
                         \/ txn.note[f] \in {Unnoted, FileNow(f)}
    /\ store.gens \ txn.snap.store.gens \subseteq {Bundled}
    /\ store.profiles \ txn.snap.store.profiles \subseteq {txn.want}
Noted == [f \in Files |->
            CASE f \in Single -> IF FileNow(f) = FileThen(f) THEN txn.note[f] ELSE FileNow(f)
              [] f = "gens" -> store.gens \ txn.snap.store.gens
              [] f = "profiles" -> store.profiles \ txn.snap.store.profiles
              [] OTHER -> Unnoted]
\* The note is taken whether the operation worked or not.
Record(next) ==
    /\ IF Recordable
       THEN txn' = [txn EXCEPT !.note = Noted,
                               !.at = IF txn.bad THEN "undoOpen" ELSE next]
       ELSE Undoes
    /\ UNCHANGED <<machine, trouble>> /\ Quiet
RecordPublish == At("publishNote") /\ Record("activateCheck")

ActivateCheck ==
    /\ At("activateCheck")
    /\ Check(Unchanged, Go(IF txn.snap.inst = "current" THEN "start" ELSE "activate"), Undoes)
Activate ==
    /\ At("activate")
    /\ Setup(IF txn.snap.inst = "absent" THEN "install" ELSE "upgrade",
             Go("start"), txn' = [txn EXCEPT !.at = "startNote", !.bad = TRUE])
Start ==
    /\ At("start")
    /\ Setup("start", Go("startNote"), txn' = [txn EXCEPT !.at = "startNote", !.bad = TRUE])
RecordStart == At("startNote") /\ Record("ready")

\* wait_for_strict_ready, then a marker process of each architecture.
WaitReady == At("ready") /\ Check(StrictReady(txn.want), Go("smoke"), Undoes)
Smoke ==
    /\ At("smoke")
    /\ IF open.run = "ready"
       THEN Touch(UNCHANGED <<pins, legacy, receipt>>, Go("complete"), Undoes)
       ELSE Check(FALSE, Undoes, Undoes)
OwnPins == {pin \in pins : pin.by = begun}
Complete ==
    /\ At("complete")
    /\ Touch(pins' = pins \ OwnPins /\ UNCHANGED <<legacy, receipt>>, Ends, Undoes)

-----------------------------------------------------------------------------
(* rollback_open_service_snapshot: its first error leaves the rest undone, *)
(* and the legacy service is put back whatever it reported.                *)

OpenFails == Faults("open", "undoLegacy")

UndoOpen ==
    /\ At("undoOpen")
    /\ Check(Installation # "invalid" /\ Stable,
             Go(IF OpenRuns THEN "undoStop" ELSE "undoRemove"), OpenFails)
UndoStop == At("undoStop") /\ Setup("stop", Go("undoRemove"), OpenFails)
UndoRemove ==
    /\ At("undoRemove")
    /\ IF txn.snap.inst = "absent" /\ open.image # None
       THEN Setup("remove", Go("pointer"), OpenFails)
       ELSE Check(TRUE, Go("pointer"), OpenFails)

\* plan_file_rollback and plan_generation_cleanup: only what this transaction
\* noted is put back; anything else is somebody else's and ends the rollback.
MayRestore(f) ==
    IF f \in Single THEN FileNow(f) \in {FileThen(f), txn.note[f]}
    ELSE f # "copy" => store[f] \ txn.snap.store[f] \subseteq txn.note[f]
PutBackPointers(f) ==
    IF f \in {"pointer", "active", "previous"} THEN [store EXCEPT ![f] = txn.snap.store[f]]
    ELSE store
PutBack(f) ==
    LET then == txn.snap.store
    IN CASE f \in {"pointer", "active", "previous"} -> [store EXCEPT ![f] = then[f]]
         [] f = "profiles" -> [store EXCEPT !.profiles = @ \cap then.profiles]
         [] f = "gens" -> [store EXCEPT !.gens = @ \cap then.gens,
                              !.copy = [v \in Version |-> IF v \in store.gens \ then.gens
                                                          THEN None ELSE @[v]]]
         [] OTHER -> [store EXCEPT !.copy = [v \in Version |-> IF v = then.pointer
                                                               THEN then.copy[v] ELSE @[v]]]
AfterFile(f) ==
    CASE f = "pointer" -> "active" [] f = "active" -> "previous" [] f = "previous" -> "gens"
      [] f = "gens" -> "profiles" [] f = "profiles" -> "copy" [] f = "copy" -> "undoRuntime"
UndoFile(f) ==
    /\ At(f)
    /\ \/ MayRestore(f) /\ store' = PutBack(f) /\ Go(AfterFile(f)) /\ UNCHANGED trouble
       \/ ~MayRestore(f) /\ OpenFails /\ UNCHANGED <<store, trouble>>
       \/ OpenFails /\ Trouble /\ UNCHANGED store
    /\ UNCHANGED <<open, pins, legacy, receipt, env>> /\ Quiet

UndoRuntime ==
    /\ At("undoRuntime")
    /\ IF txn.snap.inst = "absent" THEN Check(TRUE, Go("undoPin"), OpenFails)
       ELSE Setup("restore", Go(IF txn.snap.run THEN "undoStart" ELSE "undoPin"), OpenFails)
UndoStart == At("undoStart") /\ Setup("start", Go("undoPin"), OpenFails)
UndoPin ==
    /\ At("undoPin")
    /\ Touch(pins' = pins \ OwnPins /\ UNCHANGED <<legacy, receipt>>, Go("undoRoots"), OpenFails)
\* A service root that this migration created still holds its receipts and
\* journals, so it is never empty.
UndoRoots ==
    /\ At("undoRoots")
    /\ Check(store.root => txn.snap.store.root, Go("undoLegacy"), OpenFails)

-----------------------------------------------------------------------------
(* legacy_migration::rollback: stopped and parked first, then the files,   *)
(* the configuration, the tray's autostart, and at last the running state. *)

LegacyFails == Faults("legacy", "done")
ChangesLegacy(l) == legacy' = l /\ UNCHANGED <<pins, receipt>>

UndoLegacy ==
    /\ At("undoLegacy")
    /\ IF ~BackupValid \/ env = "appinit" THEN Check(FALSE, LegacyFails, LegacyFails)
       ELSE IF ~legacy.here THEN Check(TRUE, Go("undoIni"), LegacyFails)
       ELSE Touch(ChangesLegacy([legacy EXCEPT !.run = "stopped"]), Go("undoPark"), LegacyFails)
UndoPark ==
    /\ At("undoPark")
    /\ Touch(ChangesLegacy([legacy EXCEPT !.start = "disabled"]), Go("undoIni"), LegacyFails)
\* ensure_absent_restore_target: a profile that was absent is never deleted.
UndoIni ==
    /\ At("undoIni")
    /\ IF receipt.ini = None /\ legacy.ini # None
       THEN Check(FALSE, LegacyFails, LegacyFails)
       ELSE Touch(ChangesLegacy([legacy EXCEPT !.ini = receipt.ini]), Go("undoConfig"), LegacyFails)
UndoConfig ==
    /\ At("undoConfig")
    /\ Touch(ChangesLegacy([legacy EXCEPT !.here = TRUE, !.run = "stopped", !.start = receipt.start]),
             Go("undoTray"), LegacyFails)
UndoTray ==
    At("undoTray") /\ Touch(UNCHANGED <<pins, legacy, receipt>>, Go("undoRun"), LegacyFails)
UndoRun ==
    /\ At("undoRun")
    /\ IF legacy.here THEN Touch(ChangesLegacy(Returned), Go("undoNote"), LegacyFails)
       ELSE Check(FALSE, LegacyFails, LegacyFails)
UndoNote ==
    /\ At("undoNote")
    /\ Touch(receipt' = [receipt EXCEPT !.stage = "undone"] /\ UNCHANGED <<pins, legacy>>,
             Ends, LegacyFails)

-----------------------------------------------------------------------------
(* remove_legacy_after_verification: verified twice, never rolled back.    *)

Verify ==
    /\ At("verify")
    /\ IF BackupValid /\ StrictReady(txn.want)
       THEN Touch(UNCHANGED <<pins, legacy, receipt>>, Go("again"), Refuses)
       ELSE Check(FALSE, Refuses, Refuses)
VerifyUnstaged ==
    At("again") /\ Check(StrictReady(txn.want) /\ BackupValid, Go("delete"), Refuses)
VerifyAgain ==
    /\ At("again")
    /\ Check(/\ StrictReady(txn.want) /\ BackupValid
             /\ receipt.stage \in {"stopped", "removed"}
             /\ receipt.stage = "stopped" => /\ legacy.here /\ env # "appinit"
                                             /\ legacy.run = "stopped",
             Go(IF receipt.stage = "removed" THEN "done" ELSE "delete"), Refuses)
Delete ==
    /\ At("delete")
    /\ IF legacy.here /\ legacy.run = "stopped"
       THEN Touch(ChangesLegacy([legacy EXCEPT !.here = FALSE, !.start = "disabled"]),
                  Go("noteRemoved"), Refuses)
       ELSE Check(FALSE, Refuses, Refuses)
NoteRemoved ==
    /\ At("noteRemoved")
    /\ Touch(receipt' = [receipt EXCEPT !.stage = "removed"] /\ UNCHANGED <<pins, legacy>>,
             Ends, Refuses)

-----------------------------------------------------------------------------
(* publish_profile_transaction_with and designate_profile_transaction_with. *)

\* Publishing live, for the next start, or not at all.
Hold ==
    /\ At("hold")
    /\ IF OpenRuns THEN Check(~LegacyBlocks, Go("pubRead"), Refuses)
       ELSE IF Installed /\ Stable /\ env = "clear" THEN Setup("publish", Ends, Refuses)
       ELSE Check(TRUE, Ends, Refuses)
PubRead ==
    /\ At("pubRead")
    /\ Check(SafeInstallation,
             txn' = [txn EXCEPT !.snap = Snapshot, !.at = IF OpenRuns THEN "pubStop" ELSE "pub"],
             Refuses)
PubStop == At("pubStop") /\ Setup("stop", Go("pub"), Refuses)
\* A publication that setup could not take back is reported as such.
Pub ==
    /\ At("pub")
    /\ Setup("publish", Go(IF txn.snap.inst = "current" THEN "pubStart" ELSE "pubActivate"),
             txn' = [txn EXCEPT !.at = IF txn.snap.run THEN "pubRestart" ELSE "done",
                                !.bad = TRUE,
                                !.fault = IF store' = store THEN @ ELSE @ \cup {"open"}])
PubRestart == At("pubRestart") /\ Setup("start", Ends, Faults("open", "done"))

PubUndoes == txn' = [txn EXCEPT !.at = "pubUndoStop", !.bad = TRUE]
PubActivate ==
    /\ At("pubActivate")
    /\ Setup(IF txn.snap.inst = "absent" THEN "install" ELSE "upgrade", Go("pubStart"), PubUndoes)
PubStart == At("pubStart") /\ Setup("start", Go("pubWait"), PubUndoes)
PubWait == At("pubWait") /\ Check(StrictReady(txn.want), Ends, PubUndoes)

\* rollback_published_profile: every step is tried, the faults are collected.
\* The profile counts as changed unless the live service reported it before.
ProfileChanged == txn.snap.loaded # txn.want
PubUndoStop ==
    LET next == IF ProfileChanged THEN "pubUndoProfile" ELSE "pubUndoLast"
    IN At("pubUndoStop") /\ Setup("stop", Go(next), Faults("open", next))
PubUndoProfile ==
    /\ At("pubUndoProfile")
    /\ Setup("rollback", Go("pubUndoLast"), Faults("open", "pubUndoLast"))
PubUndoLast ==
    /\ At("pubUndoLast")
    /\ CASE txn.snap.inst = "absent" -> Setup("remove", Ends, Faults("open", "done"))
         [] txn.snap.inst # "absent" /\ txn.snap.run ->
              Setup("start", Ends, Faults("open", "done"))
         [] OTHER -> Check(TRUE, Ends, Refuses)

-----------------------------------------------------------------------------
(* What happens outside the transaction.                                   *)

Busy == ~At("idle")
Meddled == txn' = [txn EXCEPT !.meddled = Busy]
Apart == UNCHANGED <<begun, receipt, pins>>

\* The client gives up after its timeout, or its user cancels: the job object
\* kills the broker, and the user is told that the outcome is unknown.
Crash ==
    /\ Busy /\ Trouble /\ txn' = Idle /\ known' = (known \/ ~At("consent"))
    /\ UNCHANGED <<machine, begun>>

\* The host starts when nothing else injects; the legacy service never looks.
HostStarts == /\ Owned /\ store.pointer \in store.gens /\ store.active # None
              /\ env # "appinit"
Boot ==
    /\ Trouble /\ txn' = Idle
    /\ LET late == legacy.here /\ legacy.start = "auto"
       IN \E openFirst \in BOOLEAN :
            /\ legacy' = [legacy EXCEPT !.run = IF late THEN "running" ELSE "stopped"]
            /\ open' = IF HostStarts /\ (late => openFirst)
                       THEN [open EXCEPT !.run = "ready", !.loaded = store.active]
                       ELSE Halted
    /\ known' = (known \/ (Busy /\ ~At("consent")))
    /\ UNCHANGED <<store, env>> /\ Apart

OpenDies ==
    /\ OpenRuns /\ Trouble /\ open' = Halted /\ Meddled
    /\ UNCHANGED <<store, legacy, env, known>> /\ Apart
LegacyStarts ==
    /\ legacy.here /\ legacy.start = "auto" /\ legacy.run = "stopped" /\ ~OpenRuns
    /\ Trouble /\ legacy' = [legacy EXCEPT !.run = "running"] /\ Meddled
    /\ UNCHANGED <<open, store, env, known>> /\ Apart
EditIni ==
    /\ Trouble /\ legacy' = [legacy EXCEPT !.ini = "two"] /\ legacy.ini # "two" /\ Meddled
    /\ UNCHANGED <<open, store, env, known>> /\ Apart
OtherMode ==
    /\ env = "clear" /\ Trouble /\ env' \in {"appinit", "tray"} /\ Meddled
    /\ UNCHANGED <<open, store, legacy, known>> /\ Apart
\* Another administrator runs a setup verb, past the gates of the control center;
\* one who does so beside a legacy service that is enabled or being migrated knows.
OtherSetup(p) ==
    /\ \E r \in PublishVerb(p) \cup InstallVerb \cup UpgradeVerb :
          r # <<open, store>> /\ open' = r[1] /\ store' = r[2]
    /\ known' = (known \/ LegacyBlocks \/ txn.kind = "migrate")
    /\ Trouble /\ Meddled
    /\ UNCHANGED <<legacy, env>> /\ Apart
Hijack ==
    /\ open.image = None /\ Trouble /\ open' = [open EXCEPT !.image = "foreign"] /\ Meddled
    /\ UNCHANGED <<store, legacy, env, known>> /\ Apart

-----------------------------------------------------------------------------

Migrate ==
    \/ PrepareBackup \/ Capture \/ StopLegacy \/ Park \/ NoteStop
    \/ PublishCheck \/ PublishStop \/ Publish \/ RecordPublish
    \/ ActivateCheck \/ Activate \/ Start \/ RecordStart \/ WaitReady \/ Smoke \/ Complete
Undo ==
    \/ UndoOpen \/ UndoStop \/ UndoRemove \/ (\E f \in Files : UndoFile(f)) \/ UndoRuntime
    \/ UndoStart \/ UndoPin \/ UndoRoots
    \/ UndoLegacy \/ UndoPark \/ UndoIni \/ UndoConfig \/ UndoTray \/ UndoRun \/ UndoNote
RemoveLegacy == Verify \/ VerifyAgain \/ Delete \/ NoteRemoved
PublishProfile ==
    \/ Hold \/ PubRead \/ PubStop \/ Pub \/ PubRestart \/ PubActivate \/ PubStart \/ PubWait
    \/ PubUndoStop \/ PubUndoProfile \/ PubUndoLast
Outside ==
    \/ Crash \/ Boot \/ OpenDies \/ LegacyStarts \/ EditIni \/ OtherMode \/ Hijack
    \/ \E p \in Profile : OtherSetup(p)

Next ==
    \/ \E kind \in Kinds, p \in Optional(Profile) : Request(kind, p)
    \/ Elevate \/ PlainVerb \/ Finish
    \/ Migrate \/ Undo \/ RemoveLegacy \/ PublishProfile \/ Outside

Spec == Init /\ [][Next]_vars

-----------------------------------------------------------------------------
(* Properties.                                                             *)

Undoing == txn.at \in {"undoLegacy", "undoPark", "undoIni", "undoConfig", "undoTray",
                       "undoRun", "undoNote"}

\* Both injectors run only when the user has been told, or is about to be, that
\* an operation left the machine in an unknown state.
NoSilentDoubleInjection == BothInject => known \/ txn.fault # {}

\* A failed migration that reports a completed rollback has put the open service,
\* its protected files and the legacy service back as they were.  Two things come
\* back better than they were: a service whose registration an earlier, failed
\* rollback had left apart from the pointer is registered for the pointer, and
\* starting a service that ran gives the selected runtime the active profile.
RollbackIsExact ==
    At("done") /\ txn.kind = "migrate" /\ txn.bad /\ txn.fault = {} /\ ~txn.meddled
        /\ txn.snap # None =>
    LET then == txn.snap.store
    IN  /\ open.image = IF txn.snap.image = None THEN None ELSE then.pointer
        /\ OpenRuns = txn.snap.run
        /\ \A f \in {"pointer", "active", "previous", "gens", "profiles", "root"} : store[f] = then[f]
        /\ then.pointer # None =>
             store.copy[then.pointer] = IF OpenRuns THEN then.active ELSE then.copy[then.pointer]
        /\ legacy.run = receipt.run /\ legacy.start = receipt.start /\ legacy.ini = receipt.ini
        /\ OwnPins = {}

\* A migration that reports success has the new service injecting the profile it
\* was given, the legacy service parked and its own pin released.
MigratedMeansReplaced ==
    At("done") /\ txn.kind = "migrate" /\ ~txn.bad /\ ~txn.meddled =>
    StrictReady(txn.want) /\ Retired /\ OwnPins = {} /\ receipt.stage = "stopped"

\* Once the stop is recorded, the legacy service stays disabled across crashes and
\* reboots, unless a rollback was told to bring it back; it also stays stopped,
\* unless somebody started it before it was disabled, and then only until the
\* migration has failed over it.
RetiredStaysRetired ==
    receipt # None /\ receipt.stage = "stopped" /\ ~Undoing /\ ~known /\ txn.fault = {} =>
    legacy.start = "disabled" /\ (legacy.run = "stopped" \/ txn.meddled)

\* The runtimes a migration may have to go back to are not swept, by its own
\* activation or by another setup, before the open service is settled.
PinnedRuntimesSurvive ==
    txn.kind = "migrate" /\ txn.snap # None /\ ~Undoing /\ txn.at \notin {"undoRoots", "done"} =>
    txn.snap.store.gens \subseteq store.gens

\* A publication that fails and reports no cleanup fault leaves the profile that
\* the running service had selected.
FailedPublishKeepsProfile ==
    At("done") /\ txn.kind \in {"publish", "designate"} /\ txn.bad /\ txn.fault = {} /\ ~txn.meddled
        /\ txn.snap # None /\ txn.snap.run /\ txn.snap.loaded = txn.snap.store.active =>
    store.active = txn.snap.store.active /\ (OpenRuns => open.loaded = txn.snap.loaded)

\* What an operation reports is what it left: a migration has replaced the legacy
\* service, which stays retired, a failed publication changed no profile, and
\* the runtimes an unfinished migration may go back to are all there.
IntegrationInvariant ==
    /\ IntegrationTypeOK
    /\ MigratedMeansReplaced /\ RetiredStaysRetired
    /\ PinnedRuntimesSurvive /\ FailedPublishKeepsProfile

\* The legacy service is deleted only while it is retired, its stop is on record,
\* and the new service is the verified injector of the requested profile.
RemovalIsVerified ==
    [][legacy.here /\ ~legacy'.here =>
         /\ ~LegacyBlocks \/ known
         /\ receipt.stage = "stopped"
         /\ StrictReady(txn.want) \/ txn.meddled]_vars
=============================================================================
