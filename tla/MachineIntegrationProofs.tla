----------------------- MODULE MachineIntegrationProofs -----------------------
(***************************************************************************)
(* Proofs about MachineIntegration, for every set of profiles and any      *)
(* number of transactions, failures and outside events: two injectors do   *)
(* not meet unless the user has been told, a rollback that reports no      *)
(* fault is exact, what an operation reports is what it left, and the      *)
(* legacy service is deleted only when the new one is verified.            *)
(*                                                                         *)
(* The invariant says, for each step of a transaction, what has already    *)
(* been done to the two services and what still can be put back.           *)
(***************************************************************************)
EXTENDS MachineIntegration, TLAPS

-----------------------------------------------------------------------------
(***************************************************************************)
(* The inductive invariant                                                 *)
(***************************************************************************)
\* The phases of a transaction.
Parking == {"stopLegacy", "park"}
Replacing == {"publishCheck", "publishStop", "publish", "publishNote", "activateCheck",
              "activate", "start", "startNote", "ready", "smoke", "complete"}
UndoesOpen == {"undoOpen", "undoStop", "undoRemove", "undoRuntime", "undoStart", "undoPin",
               "undoRoots"} \cup Files
UndoesLegacy == {"undoLegacy", "undoPark", "undoIni", "undoConfig", "undoTray", "undoRun",
                 "undoNote"}
Migrating == Parking \cup {"noteStop"} \cup Replacing \cup UndoesOpen \cup UndoesLegacy
Removing == {"verify", "again", "delete", "noteRemoved"}
Publishing == {"pubStop", "pub", "pubRestart", "pubActivate", "pubStart", "pubWait",
               "pubUndoStop", "pubUndoProfile", "pubUndoLast"}
Unsnapped == {"idle", "consent", "backup", "capture", "hold", "pubRead", "verb"} \cup Removing
Plain == {"install", "upgrade", "remove", "stop", "rollback"}
Given == {"migrate", "removeLegacy", "publish", "designate"}

\* Types.
TxnOK ==
    /\ DOMAIN txn = {"kind", "at", "want", "snap", "note", "bad", "fault", "meddled"}
    /\ txn.kind \in Kinds \cup {"none"} /\ txn.at \in Steps
    /\ txn.bad \in BOOLEAN /\ txn.meddled \in BOOLEAN
    /\ txn.fault \subseteq {"open", "legacy"}
    /\ txn.want \in Optional(Profile)
PinsOK == \A pin \in pins : pin.by \in 1 .. begun /\ DOMAIN pin.runtimes \subseteq Version
MachineOK ==
    /\ open \in Open /\ store \in Store /\ legacy \in Legacy
    /\ receipt # None => receipt \in Receipt
    /\ PinsOK
    /\ OpenRuns => Owned
CountOK ==
    /\ env \in {"clear", "appinit", "tray"}
    /\ known \in BOOLEAN /\ begun \in 0 .. MaxBegun /\ trouble \in 0 .. MaxTrouble
    /\ txn.at # "idle" => begun # 0

\* The step says which transaction it belongs to, whether it has a snapshot,
\* whether it has failed and whether its rollback has.
PlaceInv ==
    /\ txn.at = "idle" <=> txn.kind = "none"
    /\ txn.at \in {"backup", "capture"} \cup Migrating => txn.kind = "migrate"
    /\ txn.at \in Removing => txn.kind = "removeLegacy"
    /\ txn.at = "hold" => txn.kind = "designate"
    /\ txn.at \in Publishing \cup {"pubRead"} => txn.kind \in {"publish", "designate"}
    /\ txn.at = "verb" => txn.kind \in Plain
    /\ txn.kind \in Given => txn.want \in Profile
FaultInv ==
    /\ txn.fault # {} =>
         txn.at \in UndoesLegacy \cup {"done", "pubRestart", "pubUndoProfile", "pubUndoLast"}
    /\ txn.kind = "removeLegacy" => txn.fault = {}
    /\ txn.at = "idle" => ~txn.meddled
SnapInv ==
    /\ txn.snap # None =>
         /\ txn.snap \in Snap
         /\ txn.snap.inst = "absent" <=> txn.snap.image = None
         /\ txn.snap.run => txn.snap.inst # "absent"
    /\ txn.at \in Unsnapped => txn.snap = None
    /\ txn.at \in Migrating \cup Publishing => txn.snap # None
BadInv ==
    /\ txn.at \in UndoesOpen \cup UndoesLegacy => txn.bad
    /\ txn.kind = "migrate" /\ ~(txn.at \in UndoesOpen \cup UndoesLegacy \cup
                                   {"done", "publishNote", "startNote"}) => ~txn.bad
ControlInv == TxnOK /\ PlaceInv /\ FaultInv /\ SnapInv /\ BadInv

\* What the receipt says about the legacy service, at each step.
ReceiptInv ==
    /\ txn.at \in Migrating \cup {"capture"} => receipt # None
    /\ txn.at \in {"capture", "noteStop"} \cup Parking => receipt.stage = "prepared"
    /\ txn.at \in {"capture"} \cup Parking => legacy.here /\ legacy.start = "auto"
    /\ txn.at \in Replacing => receipt.stage = "stopped"
    /\ txn.at \in Replacing \cup {"noteStop"} => legacy.start = "disabled"
    /\ txn.at \in UndoesOpen /\ receipt.stage = "stopped" => legacy.start = "disabled"
    /\ txn.at \in {"delete", "noteRemoved"} => receipt # None /\ receipt.stage = "stopped"

\* The next boot may start both services, which nobody but a migration under way
\* may leave so without telling.
Exposed == Owned /\ legacy.here /\ legacy.start = "auto"
Told == known \/ txn.fault # {}
ExposedInv ==
    /\ Exposed /\ ~(txn.at \in Migrating) => Told
    /\ txn.kind \in {"install", "publish", "designate"}
         /\ txn.at \in {"verb", "pubRead"} \cup Publishing => ~(legacy.here /\ legacy.start = "auto")
    /\ txn.kind = "migrate" /\ txn.snap # None /\ txn.snap.inst # "absent" => known
    /\ txn.at \in Parking \cup {"noteStop", "undoRuntime", "undoStart", "undoPin", "undoRoots"}
                    \cup Files \cup UndoesLegacy
         /\ txn.snap.inst = "absent" /\ Owned => Told

\* A legacy service whose stop is on record stays parked.
RetiredInv ==
    /\ receipt # None /\ receipt.stage = "stopped" /\ ~(txn.at \in UndoesLegacy) /\ ~Told =>
         /\ legacy.start = "disabled"
         /\ \/ legacy.run = "stopped"
            \/ txn.meddled /\ txn.at \in Replacing \cup UndoesOpen
    /\ txn.at \in {"park", "noteStop"} => legacy.run = "stopped" \/ txn.meddled
    /\ txn.at \in {"startNote", "ready", "smoke", "complete"} /\ ~txn.bad =>
          legacy.run = "stopped"
LegacyInv == ReceiptInv /\ ExposedInv /\ RetiredInv /\ NoSilentDoubleInjection

\* What a migration that reaches its end has verified, and a removal.
MigratedInv ==
    /\ txn.at \in {"smoke", "complete"} /\ ~txn.meddled => StrictReady(txn.want)
    /\ txn.at = "done" /\ txn.kind = "migrate" /\ ~txn.bad =>
         /\ Retired /\ OwnPins = {} /\ receipt # None /\ receipt.stage = "stopped"
         /\ ~txn.meddled => StrictReady(txn.want)
    /\ txn.at = "delete" => StrictReady(txn.want) \/ txn.meddled

\* The pin of a migration under way keeps the runtimes of its snapshot.
PinInv ==
    /\ txn.at \in Migrating \ (UndoesLegacy \cup {"undoRoots"}) =>
         /\ txn.snap.store.gens \subseteq store.gens
         /\ txn.snap.store.gens # {} =>
              \E pin \in pins : pin.by = begun /\ DOMAIN pin.runtimes = txn.snap.store.gens
    /\ txn.at \in Migrating \ UndoesLegacy =>
         /\ txn.snap.store.profiles \subseteq store.profiles
         /\ txn.snap.store.root => store.root

\* What a publication under way has made of the active profile.
Held == store.active = txn.snap.store.active
Made == /\ store.active = txn.want
        /\ txn.want # txn.snap.store.active => store.previous = txn.snap.store.active
AsLoaded == OpenRuns => open.loaded = txn.snap.loaded
Unfailed == {"consent", "hold", "pubRead", "pubStop", "pub", "pubActivate", "pubStart", "pubWait"}
PublishesOver ==
    /\ txn.kind \in {"publish", "designate"} /\ txn.snap # None /\ ~txn.meddled
    /\ txn.snap.run /\ txn.snap.loaded = txn.snap.store.active
ProfileHeld ==
    /\ txn.at = "pubStop" => Held /\ AsLoaded
    /\ txn.at = "pub" => Held /\ ~OpenRuns
    /\ txn.at = "pubRestart" /\ txn.fault = {} => Held /\ ~OpenRuns
    /\ txn.at \in {"pubActivate", "pubStart", "pubWait", "pubUndoStop"} => Made
    /\ txn.at = "pubUndoProfile" => Made /\ ProfileChanged /\ (txn.fault = {} => ~OpenRuns)
    /\ txn.at = "pubUndoLast" /\ txn.fault = {} => Held /\ ~OpenRuns
    /\ txn.at = "done" /\ txn.bad /\ txn.fault = {} => Held /\ AsLoaded
PublishInv ==
    /\ txn.at \in Unfailed => ~txn.bad
    /\ PublishesOver => ProfileHeld

\* What the rollback of a migration has put back, at each of its steps.
Over == txn.at = "done" /\ txn.bad
Past(S) == txn.at \in S \cup UndoesLegacy \/ Over
LastUndo == {"undoPin", "undoRoots"}
RuntimeUndo == {"undoRuntime", "undoStart"} \cup LastUndo
FilesBack ==
    /\ Past((Files \ {"pointer"}) \cup RuntimeUndo) => store.pointer = txn.snap.store.pointer
    /\ Past({"previous", "gens", "profiles", "copy"} \cup RuntimeUndo) =>
          store.active = txn.snap.store.active
    /\ Past({"gens", "profiles", "copy"} \cup RuntimeUndo) =>
          store.previous = txn.snap.store.previous
    /\ Past({"profiles", "copy"} \cup RuntimeUndo) => store.gens = txn.snap.store.gens
    /\ Past({"copy"} \cup RuntimeUndo) => store.profiles = txn.snap.store.profiles
    /\ txn.at \in {"undoRuntime", "undoStart"} /\ txn.snap.store.pointer # None =>
          store.copy[txn.snap.store.pointer] = txn.snap.store.copy[txn.snap.store.pointer]
    /\ Past({}) => store.root = txn.snap.store.root
ServiceBack ==
    /\ txn.at \in {"undoRemove", "undoRuntime", "undoStart"} \cup Files => ~OpenRuns
    /\ txn.at = "undoStart" => txn.snap.run
    /\ Past(Files \cup RuntimeUndo) /\ txn.snap.inst = "absent" => open.image = None
    /\ Past({"undoStart"} \cup LastUndo) /\ txn.snap.inst # "absent" =>
          open.image = txn.snap.store.pointer
    /\ Past(LastUndo) =>
         /\ OpenRuns = txn.snap.run
         /\ txn.snap.store.pointer # None =>
              store.copy[txn.snap.store.pointer] =
                 IF txn.snap.run THEN txn.snap.store.active
                 ELSE txn.snap.store.copy[txn.snap.store.pointer]
    /\ Past({"undoRoots"}) => OwnPins = {}
LegacyBack ==
    /\ txn.at \in {"undoConfig", "undoTray", "undoRun", "undoNote"} \/ Over =>
          legacy.ini = receipt.ini
    /\ txn.at = "undoNote" \/ Over => legacy.run = receipt.run /\ legacy.start = receipt.start
Rolls == txn.kind = "migrate" /\ txn.snap # None /\ txn.fault = {} /\ ~txn.meddled
RollbackInv == Rolls => FilesBack /\ ServiceBack /\ LegacyBack

-----------------------------------------------------------------------------
(***************************************************************************)
(* What a setup verb does, whether it works or breaks                      *)
(***************************************************************************)
Works(verb, p) == \E r \in Succeeds(verb, p) : open' = r[1] /\ store' = r[2]
Breaks(verb, p) == \E r \in Broken(verb, p) : open' = r[1] /\ store' = r[2]
Verbs == {"stop", "publish", "rollback", "install", "upgrade", "start", "remove", "restore"}

\* A verb either leaves the machine as it was or changes it in its own way.
LEMMA StopWorks ==
    ASSUME NEW p, Works("stop", p)
    PROVE  open.image # "foreign" /\ open' = Halted /\ store' = store
  BY DEF Works, Succeeds, StopVerb
LEMMA PublishWorks ==
    ASSUME NEW p, Works("publish", p) PROVE open' = open /\ store' = Activated(p)
  BY DEF Works, Succeeds, PublishVerb
LEMMA RollbackWorks ==
    ASSUME NEW p, Works("rollback", p)
    PROVE  /\ open' = open
           /\ store' = [store EXCEPT !.active = store.previous,
                    !.previous = IF store.previous = None THEN None ELSE store.active,
                    !.copy = [v \in Version |-> IF v = store.pointer
                                                THEN store.previous ELSE @[v]]]
  BY DEF Works, Succeeds, RollbackVerb
LEMMA InstallWorks ==
    ASSUME NEW p, Works("install", p)
    PROVE  open.image = None /\ open' = [Halted EXCEPT !.image = Bundled] /\ store' = Deployed
  BY DEF Works, Succeeds, InstallVerb
LEMMA UpgradeWorks ==
    ASSUME NEW p, Works("upgrade", p)
    PROVE  /\ Owned /\ store' = Deployed
           /\ open' = [open EXCEPT !.image = Bundled,
                                   !.loaded = IF OpenRuns THEN store.active ELSE None]
  BY DEF Works, Succeeds, UpgradeVerb
LEMMA StartWorks ==
    ASSUME NEW p, Works("start", p)
    PROVE  /\ Owned /\ store.pointer \in store.gens /\ store.active # None
           /\ legacy.run # "running" /\ store' = Synchronized
           /\ open' = [image |-> store.pointer, run |-> "ready",
                       loaded |-> IF OpenRuns THEN open.loaded ELSE store.active]
  BY DEF Works, Succeeds, StartVerb
LEMMA RemoveWorks ==
    ASSUME NEW p, Works("remove", p)
    PROVE  open' = [Halted EXCEPT !.image = None] /\ store' = store
  BY DEF Works, Succeeds, RemoveVerb
LEMMA RestoreWorks ==
    ASSUME NEW p, Works("restore", p)
    PROVE  /\ Owned /\ store.pointer \in Pinned
           /\ open' = [Halted EXCEPT !.image = store.pointer] /\ store' = store
  BY DEF Works, Succeeds, RestoreVerb

LEMMA PublishBreaks ==
    ASSUME NEW p, Breaks("publish", p)
    PROVE  open' = open /\ store' \in {store, Activated(p)}
  BY DEF Breaks, Broken, PublishVerb
LEMMA StopBreaks ==
    ASSUME NEW p, Breaks("stop", p)
    PROVE  store' = store /\ open' \in {open, [open EXCEPT !.run = "pending"]}
  BY DEF Breaks, Broken
LEMMA DeployBreaks ==
    ASSUME NEW p, NEW verb \in {"install", "upgrade"}, Breaks(verb, p)
    PROVE  open' = open /\ store' \in {store, Staged}
  BY DEF Breaks, Broken
LEMMA StartBreaks ==
    ASSUME NEW p, Breaks("start", p)
    PROVE  \/ open' = open /\ store' = store
           \/ /\ Owned /\ store.pointer \in store.gens /\ store.active # None
              /\ legacy.run # "running" /\ store' = Synchronized
              /\ open' = [image |-> store.pointer, run |-> "running", loaded |-> store.active]
<1>1. CASE StartVerb # {} BY <1>1 DEF Breaks, Broken, StartVerb
<1>2. CASE StartVerb = {} BY <1>2 DEF Breaks, Broken
<1> QED BY <1>1, <1>2
LEMMA OthersBreak ==
    ASSUME NEW p, NEW verb \in {"rollback", "remove", "restore"}, Breaks(verb, p)
    PROVE  open' = open /\ store' = store
  BY DEF Breaks, Broken

\* The files of the result, one by one.
LEMMA ActivatedFiles ==
    ASSUME store \in Store, NEW p \in Profile
    PROVE  LET s == Activated(p)
           IN /\ s \in Store
              /\ s.pointer = store.pointer /\ s.gens = store.gens /\ s.root = store.root
              /\ s.profiles = store.profiles \cup {p}
              /\ s.active = p
              /\ s.previous = IF p = store.active THEN store.previous ELSE store.active
  BY DEF Store, Activated, Optional
LEMMA StagedFiles ==
    ASSUME store \in Store
    PROVE  /\ Staged \in Store
           /\ Staged.pointer = store.pointer /\ Staged.gens = store.gens \cup {Bundled}
           /\ Staged.profiles = store.profiles /\ Staged.active = store.active
           /\ Staged.previous = store.previous /\ Staged.root = TRUE
           /\ Staged.copy = store.copy /\ Staged.receipts = store.receipts \cup {Bundled}
  BY DEF Store, Staged, Bundled, Version
LEMMA DeployedFiles ==
    ASSUME store \in Store
    PROVE  /\ Deployed \in Store
           /\ Deployed.pointer = Bundled /\ Deployed.active = store.active
           /\ Deployed.previous = store.previous /\ Deployed.root = TRUE
           /\ Deployed.profiles = store.profiles
           /\ store.gens \cap Pinned \subseteq Deployed.gens
<1> DEFINE swept == IF PinsVerified THEN store.gens \ KeptBesides(store.pointer) ELSE {}
           copies == [v \in Version |-> CASE v = Bundled -> store.active
                                          [] v \in swept -> None
                                          [] OTHER -> Staged.copy[v]]
<1>1. swept \cap Pinned = {} /\ swept \subseteq Version BY DEF KeptBesides, Store
<1>2. Deployed = [Staged EXCEPT !.pointer = Bundled, !.gens = @ \ swept,
                                !.receipts = @ \ swept, !.copy = copies]
  BY DEF Deployed
<1>3. copies \in [Version -> Optional(Profile)]
  <2>1. store.active \in Optional(Profile) /\ store.copy \in [Version -> Optional(Profile)]
    BY DEF Store
  <2> QED BY <2>1, StagedFiles DEF Optional
<1>4. Bundled \in Version BY DEF Bundled, Version
<1> HIDE DEF swept, copies
<1> QED BY <1>1, <1>2, <1>3, <1>4, StagedFiles DEF Store, Optional
LEMMA SynchronizedFiles ==
    ASSUME store \in Store
    PROVE  /\ Synchronized \in Store
           /\ Synchronized.pointer = store.pointer /\ Synchronized.gens = store.gens
           /\ Synchronized.profiles = store.profiles /\ Synchronized.active = store.active
           /\ Synchronized.previous = store.previous /\ Synchronized.root = store.root
           /\ store.pointer \in Version => Synchronized.copy[store.pointer] = store.active
  BY DEF Store, Synchronized, Optional
LEMMA RevertedFiles ==
    ASSUME store \in Store, NEW p, Works("rollback", p)
    PROVE  /\ store' \in Store
           /\ store'.pointer = store.pointer /\ store'.gens = store.gens
           /\ store'.root = store.root /\ store'.profiles = store.profiles
           /\ store'.active = store.previous
<1> DEFINE copies == [v \in Version |-> IF v = store.pointer THEN store.previous ELSE store.copy[v]]
           prev == IF store.previous = None THEN None ELSE store.active
<1>1. store' = [store EXCEPT !.active = store.previous, !.previous = prev, !.copy = copies]
  BY RollbackWorks
<1>2. copies \in [Version -> Optional(Profile)] /\ prev \in Optional(Profile) BY DEF Store, Optional
<1> HIDE DEF copies, prev
<1> QED BY <1>1, <1>2 DEF Store
LEMMA HaltedService ==
    ASSUME open \in Open
    PROVE  /\ Halted \in Open /\ Halted.image = open.image /\ Halted.run = "stopped"
           /\ \A i \in Version \cup {None, "foreign"} :
                /\ [Halted EXCEPT !.image = i] \in Open
                /\ [Halted EXCEPT !.image = i].image = i
                /\ [Halted EXCEPT !.image = i].run = "stopped"
  BY DEF Open, Halted, Optional

\* What every verb leaves alone.
VerbKeeps(verb) ==
    /\ open' \in Open /\ store' \in Store
    /\ OpenRuns' => Owned'
    /\ OpenRuns' => OpenRuns \/ (verb = "start" /\ legacy.run = "stopped")
    /\ Owned' => Owned \/ verb = "install"
    /\ store.profiles \subseteq store'.profiles
    /\ store.root => store'.root
    /\ store.gens \cap Pinned \subseteq store'.gens
    /\ verb \notin {"publish", "rollback"} =>
         store'.active = store.active /\ store'.previous = store.previous
    /\ verb \notin {"install", "upgrade"} =>
         /\ store'.gens = store.gens /\ store'.pointer = store.pointer
         /\ store'.root = store.root
    /\ verb # "publish" => store'.profiles = store.profiles

LEMMA VerbEffect ==
    ASSUME MachineOK, NEW verb \in Verbs, NEW p, verb = "publish" => p \in Profile,
           Works(verb, p) \/ Breaks(verb, p)
    PROVE  VerbKeeps(verb)
<1> USE DEF VerbKeeps, MachineOK, OpenRuns, Owned
<1>0. None \notin Version /\ Bundled \in Version /\ legacy.run \in {"stopped", "running"}
      /\ store.gens \subseteq Version /\ store.active \in Optional(Profile)
      /\ open.loaded \in Optional(Profile) /\ Pinned \subseteq Version
  BY NoneAssumption DEF Bundled, Version, Legacy, Store, Open, Pinned, PinsOK
<1>1. CASE open' = open /\ store' = store BY <1>1
<1>2. CASE verb = "stop" /\ Works(verb, p) BY <1>2, StopWorks, HaltedService
<1>3. CASE verb = "publish" /\ Works(verb, p) BY <1>3, PublishWorks, ActivatedFiles
<1>4. CASE verb = "rollback" /\ Works(verb, p)
  BY <1>4, RollbackWorks, RevertedFiles
<1>5. CASE verb = "install" /\ Works(verb, p)
  BY <1>0, <1>5, InstallWorks, HaltedService, DeployedFiles
<1>6. CASE verb = "upgrade" /\ Works(verb, p)
  <2>1. /\ Owned /\ store' = Deployed
        /\ open' = [open EXCEPT !.image = Bundled,
                                !.loaded = IF OpenRuns THEN store.active ELSE None]
    BY <1>6, UpgradeWorks
  <2>2. open' \in Open /\ open'.image = Bundled /\ open'.run = open.run
    BY <1>0, <2>1 DEF Open, Optional
  <2> QED BY <1>0, <1>6, <2>1, <2>2, DeployedFiles
<1>7. CASE verb = "start" /\ Works(verb, p)
  <2>1. /\ open'.image \in Version /\ store' = Synchronized /\ legacy.run = "stopped"
        /\ open' \in Open
    BY <1>0, <1>7, StartWorks DEF Open
  <2> QED BY <1>0, <1>7, <2>1, StartWorks, SynchronizedFiles
<1>8. CASE verb = "remove" /\ Works(verb, p)
  <2>1. /\ open' \in Open /\ open'.image = None /\ open'.run = "stopped" /\ store' = store
    BY <1>8, RemoveWorks, HaltedService
  <2> QED BY <1>0, <1>8, <2>1
<1>9. CASE verb = "restore" /\ Works(verb, p) BY <1>0, <1>9, RestoreWorks, HaltedService
<1>10. CASE verb = "publish" /\ Breaks(verb, p) BY <1>1, <1>10, PublishBreaks, ActivatedFiles
<1>11. CASE verb = "stop" /\ Breaks(verb, p)
  <2>1. CASE open' = [open EXCEPT !.run = "pending"]
    <3>1. open' \in Open /\ open'.image = open.image /\ open'.run = "pending" BY <2>1 DEF Open
    <3> QED BY <1>11, <3>1, StopBreaks
  <2> QED BY <1>1, <1>11, <2>1, StopBreaks
<1>12. CASE verb \in {"install", "upgrade"} /\ Breaks(verb, p)
  BY <1>1, <1>12, DeployBreaks, StagedFiles
<1>13. CASE verb = "start" /\ Breaks(verb, p)
  <2>1. CASE ~(open' = open /\ store' = store)
    <3>1. /\ open'.image \in Version /\ store' = Synchronized /\ legacy.run = "stopped"
          /\ open' \in Open /\ Owned
      BY <1>0, <1>13, <2>1, StartBreaks DEF Open
    <3> QED BY <1>0, <1>13, <3>1, SynchronizedFiles
  <2> QED BY <1>1, <2>1
<1>14. CASE verb \in {"rollback", "remove", "restore"} /\ Breaks(verb, p)
  BY <1>1, <1>14, OthersBreak
<1> QED BY <1>2, <1>3, <1>4, <1>5, <1>6, <1>7, <1>8, <1>9, <1>10, <1>11, <1>12, <1>13, <1>14
        DEF Verbs

-----------------------------------------------------------------------------
(***************************************************************************)
(* What each step does                                                     *)
(***************************************************************************)
\* The transaction goes on at l; b, f and s are its new failure mark, faults and
\* snapshot.
Becomes(l, b, f, s) ==
    /\ DOMAIN txn' = DOMAIN txn
    /\ txn'.kind = txn.kind /\ txn'.want = txn.want /\ txn'.meddled = txn.meddled
    /\ txn'.at = l /\ txn'.bad = b /\ txn'.fault = f /\ txn'.snap = s
GoesOn(l) == Becomes(l, txn.bad, txn.fault, txn.snap)
FailsTo(l) == Becomes(l, TRUE, txn.fault, txn.snap)
FaultsTo(part, l) == Becomes(l, TRUE, txn.fault \cup {part}, txn.snap)

Outer == UNCHANGED <<pins, legacy, receipt, env, known, begun>>
Inner == UNCHANGED <<open, store, env, known, begun>>
Nothing == UNCHANGED <<machine, known, begun>>
SetupRow(verb, l, m) ==
    /\ Outer
    /\ \/ Works(verb, txn.want) /\ GoesOn(l)
       \/ Breaks(verb, txn.want) /\ FailsTo(m)
FaultRow(verb, l, m) ==
    /\ Outer
    /\ \/ Works(verb, txn.want) /\ GoesOn(l)
       \/ Breaks(verb, txn.want) /\ FaultsTo("open", m)

\* A verb that does not work may leave everything as it was.
LEMMA BreaksNothing ==
    ASSUME NEW verb, NEW p, UNCHANGED <<open, store>> PROVE Breaks(verb, p)
<1>1. <<open, store>> \in Broken(verb, p) BY DEF Broken
<1> QED BY <1>1 DEF Breaks

LEMMA SetupSplits ==
    ASSUME NEW verb, NEW ACTION good, NEW ACTION bad, Setup(verb, good, bad)
    PROVE  Outer /\ ((Works(verb, txn.want) /\ good) \/ (Breaks(verb, txn.want) /\ bad))
<1>1. CASE UNCHANGED <<open, store>> /\ bad
  BY <1>1, BreaksNothing DEF Setup, Outer, Quiet
<1> QED BY <1>1 DEF Setup, Outer, Quiet, Works, Breaks

USE DEF TxnOK, At, Go, Ends, Refuses, Faults, Undoes, Becomes, GoesOn, FailsTo, FaultsTo,
        SetupRow, FaultRow, Check, Touch, Inner, Nothing, Quiet, machine

\* Consent, and a verb that setup runs as it is.
LEMMA ElevateRow ==
    ASSUME TxnOK, Elevate
    PROVE  /\ At("consent") /\ Nothing
           /\ (BrokerAllows /\ GoesOn(Entry)) \/ FailsTo("done")
  BY DEF Elevate, Check
LEMMA PlainVerbRow ==
    ASSUME TxnOK, PlainVerb PROVE At("verb") /\ SetupRow(txn.kind, "done", "done")
<1>1. Outer /\ ((Works(txn.kind, txn.want) /\ Ends) \/ (Breaks(txn.kind, txn.want) /\ Refuses))
  BY SetupSplits DEF PlainVerb
<1> QED BY <1>1 DEF PlainVerb

\* Migration.
LEMMA PrepareBackupRow ==
    ASSUME TxnOK, PrepareBackup
    PROVE  /\ At("backup") /\ Inner
           /\ \/ /\ Backable /\ GoesOn("capture") /\ UNCHANGED <<pins, legacy>>
                 /\ receipt' = [stage |-> "prepared", run |-> legacy.run,
                                start |-> legacy.start, ini |-> legacy.ini]
              \/ FailsTo("done") /\ UNCHANGED <<pins, legacy, receipt>>
  BY DEF PrepareBackup
LEMMA CaptureRow ==
    ASSUME TxnOK, Capture
    PROVE  /\ At("capture") /\ Inner /\ UNCHANGED <<legacy, receipt>>
           /\ \/ /\ BackupValid /\ SafeInstallation
                 /\ pins' = IF store.gens = {} THEN pins ELSE pins \cup {Pin}
                 /\ Becomes("stopLegacy", txn.bad, txn.fault, Snapshot)
              \/ FailsTo("done") /\ UNCHANGED pins
  BY DEF Capture
LEMMA StopLegacyRow ==
    ASSUME TxnOK, StopLegacy
    PROVE  /\ At("stopLegacy") /\ Inner /\ UNCHANGED <<pins, receipt>>
           /\ \/ legacy' = [legacy EXCEPT !.run = "stopped"] /\ GoesOn("park")
              \/ legacy' = legacy /\ FailsTo("undoOpen")
  BY DEF StopLegacy
LEMMA ParkRow ==
    ASSUME TxnOK, Park
    PROVE  /\ At("park") /\ Inner /\ UNCHANGED <<pins, receipt>>
           /\ \/ legacy' = [legacy EXCEPT !.start = "disabled"] /\ GoesOn("noteStop")
              \/ legacy' = legacy /\ FailsTo("undoOpen")
  BY DEF Park
LEMMA NoteStopRow ==
    ASSUME TxnOK, NoteStop
    PROVE  /\ At("noteStop") /\ Inner /\ UNCHANGED pins
           /\ \/ /\ receipt' = [receipt EXCEPT !.stage = "stopped"] /\ legacy' = legacy
                 /\ GoesOn("publishCheck")
              \/ receipt' = receipt /\ legacy' \in {legacy, Returned} /\ FailsTo("undoOpen")
  BY DEF NoteStop
LEMMA PublishCheckRow ==
    ASSUME TxnOK, PublishCheck
    PROVE  /\ At("publishCheck") /\ Nothing
           /\ \/ GoesOn("publishStop") \/ GoesOn("publish") \/ FailsTo("undoOpen")
  BY DEF PublishCheck
LEMMA PublishStopRow ==
    ASSUME TxnOK, PublishStop PROVE At("publishStop") /\ SetupRow("stop", "publish", "publishNote")
<1>1. /\ Outer
      /\ \/ Works("stop", txn.want) /\ Go("publish")
         \/ Breaks("stop", txn.want) /\ txn' = [txn EXCEPT !.at = "publishNote", !.bad = TRUE]
  BY SetupSplits DEF PublishStop
<1> QED BY <1>1 DEF PublishStop
LEMMA PublishRow ==
    ASSUME TxnOK, Publish PROVE At("publish") /\ SetupRow("publish", "publishNote", "publishNote")
<1>1. /\ Outer
      /\ \/ Works("publish", txn.want) /\ Go("publishNote")
         \/ Breaks("publish", txn.want) /\ txn' = [txn EXCEPT !.at = "publishNote", !.bad = TRUE]
  BY SetupSplits DEF Publish
<1> QED BY <1>1 DEF Publish
LEMMA RecordPublishRow ==
    ASSUME TxnOK, RecordPublish
    PROVE  /\ At("publishNote") /\ Nothing
           /\ GoesOn(IF txn.bad THEN "undoOpen" ELSE "activateCheck") \/ FailsTo("undoOpen")
  BY DEF RecordPublish, Record
LEMMA ActivateCheckRow ==
    ASSUME TxnOK, ActivateCheck
    PROVE  /\ At("activateCheck") /\ Nothing
           /\ \/ GoesOn("start") \/ GoesOn("activate") \/ FailsTo("undoOpen")
  BY DEF ActivateCheck
LEMMA ActivateRow ==
    ASSUME TxnOK, Activate
    PROVE  /\ At("activate")
           /\ \/ txn.snap.inst = "absent" /\ SetupRow("install", "start", "startNote")
              \/ txn.snap.inst # "absent" /\ SetupRow("upgrade", "start", "startNote")
<1>1. CASE txn.snap.inst = "absent"
  <2>1. /\ Outer
        /\ \/ Works("install", txn.want) /\ Go("start")
           \/ Breaks("install", txn.want) /\ txn' = [txn EXCEPT !.at = "startNote", !.bad = TRUE]
    BY <1>1, SetupSplits DEF Activate
  <2> QED BY <1>1, <2>1 DEF Activate
<1>2. CASE txn.snap.inst # "absent"
  <2>1. /\ Outer
        /\ \/ Works("upgrade", txn.want) /\ Go("start")
           \/ Breaks("upgrade", txn.want) /\ txn' = [txn EXCEPT !.at = "startNote", !.bad = TRUE]
    BY <1>2, SetupSplits DEF Activate
  <2> QED BY <1>2, <2>1 DEF Activate
<1> QED BY <1>1, <1>2
LEMMA StartRow ==
    ASSUME TxnOK, Start PROVE At("start") /\ SetupRow("start", "startNote", "startNote")
<1>1. /\ Outer
      /\ \/ Works("start", txn.want) /\ Go("startNote")
         \/ Breaks("start", txn.want) /\ txn' = [txn EXCEPT !.at = "startNote", !.bad = TRUE]
  BY SetupSplits DEF Start
<1> QED BY <1>1 DEF Start
LEMMA RecordStartRow ==
    ASSUME TxnOK, RecordStart
    PROVE  /\ At("startNote") /\ Nothing
           /\ GoesOn(IF txn.bad THEN "undoOpen" ELSE "ready") \/ FailsTo("undoOpen")
  BY DEF RecordStart, Record
LEMMA WaitReadyRow ==
    ASSUME TxnOK, WaitReady
    PROVE  /\ At("ready") /\ Nothing
           /\ (StrictReady(txn.want) /\ GoesOn("smoke")) \/ FailsTo("undoOpen")
  BY DEF WaitReady
LEMMA SmokeRow ==
    ASSUME TxnOK, Smoke
    PROVE  /\ At("smoke") /\ Nothing
           /\ GoesOn("complete") \/ FailsTo("undoOpen")
  BY DEF Smoke
LEMMA CompleteRow ==
    ASSUME TxnOK, Complete
    PROVE  /\ At("complete") /\ Inner /\ UNCHANGED <<legacy, receipt>>
           /\ \/ pins' = pins \ OwnPins /\ GoesOn("done")
              \/ pins' = pins /\ FailsTo("undoOpen")
  BY DEF Complete

\* The rollback of the open service.
LEMMA UndoOpenRow ==
    ASSUME TxnOK, UndoOpen
    PROVE  /\ At("undoOpen") /\ Nothing
           /\ \/ OpenRuns /\ GoesOn("undoStop")
              \/ ~OpenRuns /\ GoesOn("undoRemove")
              \/ FaultsTo("open", "undoLegacy")
  BY DEF UndoOpen, OpenFails
LEMMA UndoStopRow ==
    ASSUME TxnOK, UndoStop PROVE At("undoStop") /\ FaultRow("stop", "undoRemove", "undoLegacy")
<1>1. /\ Outer
      /\ \/ Works("stop", txn.want) /\ Go("undoRemove")
         \/ Breaks("stop", txn.want) /\ Faults("open", "undoLegacy")
  BY SetupSplits DEF UndoStop, OpenFails
<1> QED BY <1>1 DEF UndoStop, OpenFails
LEMMA UndoRemoveRow ==
    ASSUME TxnOK, UndoRemove
    PROVE  /\ At("undoRemove")
           /\ \/ /\ txn.snap.inst = "absent" /\ open.image # None
                 /\ FaultRow("remove", "pointer", "undoLegacy")
              \/ /\ txn.snap.inst = "absent" => open.image = None
                 /\ Nothing /\ GoesOn("pointer")
<1>1. CASE txn.snap.inst = "absent" /\ open.image # None
  <2>1. /\ Outer
        /\ \/ Works("remove", txn.want) /\ Go("pointer")
           \/ Breaks("remove", txn.want) /\ Faults("open", "undoLegacy")
    BY <1>1, SetupSplits DEF UndoRemove, OpenFails
  <2> QED BY <1>1, <2>1 DEF UndoRemove, OpenFails
<1>2. CASE ~(txn.snap.inst = "absent" /\ open.image # None) BY <1>2 DEF UndoRemove, OpenFails
<1> QED BY <1>1, <1>2
LEMMA UndoFileRow ==
    ASSUME TxnOK, NEW f \in Files, UndoFile(f)
    PROVE  /\ At(f) /\ Outer /\ open' = open
           /\ \/ MayRestore(f) /\ store' = PutBack(f) /\ GoesOn(AfterFile(f))
              \/ store' = store /\ FaultsTo("open", "undoLegacy")
  BY DEF UndoFile, OpenFails, Outer
LEMMA UndoRuntimeRow ==
    ASSUME TxnOK, UndoRuntime
    PROVE  /\ At("undoRuntime")
           /\ \/ txn.snap.inst = "absent" /\ Nothing /\ GoesOn("undoPin")
              \/ /\ txn.snap.inst # "absent"
                 /\ FaultRow("restore", IF txn.snap.run THEN "undoStart" ELSE "undoPin", "undoLegacy")
<1>1. CASE txn.snap.inst = "absent" BY <1>1 DEF UndoRuntime, OpenFails
<1>2. CASE txn.snap.inst # "absent"
  <2>1. /\ Outer
        /\ \/ Works("restore", txn.want) /\ Go(IF txn.snap.run THEN "undoStart" ELSE "undoPin")
           \/ Breaks("restore", txn.want) /\ Faults("open", "undoLegacy")
    BY <1>2, SetupSplits DEF UndoRuntime, OpenFails
  <2> QED BY <1>2, <2>1 DEF UndoRuntime, OpenFails
<1> QED BY <1>1, <1>2
LEMMA UndoStartRow ==
    ASSUME TxnOK, UndoStart PROVE At("undoStart") /\ FaultRow("start", "undoPin", "undoLegacy")
<1>1. /\ Outer
      /\ \/ Works("start", txn.want) /\ Go("undoPin")
         \/ Breaks("start", txn.want) /\ Faults("open", "undoLegacy")
  BY SetupSplits DEF UndoStart, OpenFails
<1> QED BY <1>1 DEF UndoStart, OpenFails
LEMMA UndoPinRow ==
    ASSUME TxnOK, UndoPin
    PROVE  /\ At("undoPin") /\ Inner /\ UNCHANGED <<legacy, receipt>>
           /\ \/ pins' = pins \ OwnPins /\ GoesOn("undoRoots")
              \/ pins' = pins /\ FaultsTo("open", "undoLegacy")
  BY DEF UndoPin, OpenFails
LEMMA UndoRootsRow ==
    ASSUME TxnOK, UndoRoots
    PROVE  /\ At("undoRoots") /\ Nothing
           /\ \/ (store.root => txn.snap.store.root) /\ GoesOn("undoLegacy")
              \/ FaultsTo("open", "undoLegacy")
  BY DEF UndoRoots, OpenFails

\* The rollback of the legacy service.
LEMMA UndoLegacyRow ==
    ASSUME TxnOK, UndoLegacy
    PROVE  /\ At("undoLegacy") /\ Inner /\ UNCHANGED <<pins, receipt>>
           /\ \/ legacy' = [legacy EXCEPT !.run = "stopped"] /\ GoesOn("undoPark")
              \/ legacy' = legacy /\ GoesOn("undoIni")
              \/ legacy' = legacy /\ FaultsTo("legacy", "done")
  BY DEF UndoLegacy, LegacyFails, ChangesLegacy
LEMMA UndoParkRow ==
    ASSUME TxnOK, UndoPark
    PROVE  /\ At("undoPark") /\ Inner /\ UNCHANGED <<pins, receipt>>
           /\ \/ legacy' = [legacy EXCEPT !.start = "disabled"] /\ GoesOn("undoIni")
              \/ legacy' = legacy /\ FaultsTo("legacy", "done")
  BY DEF UndoPark, LegacyFails, ChangesLegacy
LEMMA UndoIniRow ==
    ASSUME TxnOK, UndoIni
    PROVE  /\ At("undoIni") /\ Inner /\ UNCHANGED <<pins, receipt>>
           /\ \/ legacy' = [legacy EXCEPT !.ini = receipt.ini] /\ GoesOn("undoConfig")
              \/ legacy' = legacy /\ FaultsTo("legacy", "done")
  BY DEF UndoIni, LegacyFails, ChangesLegacy
LEMMA UndoConfigRow ==
    ASSUME TxnOK, UndoConfig
    PROVE  /\ At("undoConfig") /\ Inner /\ UNCHANGED <<pins, receipt>>
           /\ \/ /\ legacy' = [legacy EXCEPT !.here = TRUE, !.run = "stopped", !.start = receipt.start]
                 /\ GoesOn("undoTray")
              \/ legacy' = legacy /\ FaultsTo("legacy", "done")
  BY DEF UndoConfig, LegacyFails, ChangesLegacy
LEMMA UndoTrayRow ==
    ASSUME TxnOK, UndoTray
    PROVE  /\ At("undoTray") /\ Inner /\ UNCHANGED <<pins, receipt>>
           /\ \/ legacy' = legacy /\ GoesOn("undoRun")
              \/ legacy' = legacy /\ FaultsTo("legacy", "done")
  BY DEF UndoTray, LegacyFails, ChangesLegacy
LEMMA UndoRunRow ==
    ASSUME TxnOK, UndoRun
    PROVE  /\ At("undoRun") /\ Inner /\ UNCHANGED <<pins, receipt>>
           /\ \/ legacy' = Returned /\ GoesOn("undoNote")
              \/ legacy' = legacy /\ FaultsTo("legacy", "done")
  BY DEF UndoRun, LegacyFails, ChangesLegacy
LEMMA UndoNoteRow ==
    ASSUME TxnOK, UndoNote
    PROVE  /\ At("undoNote") /\ Inner /\ UNCHANGED <<pins, legacy>>
           /\ \/ receipt' = [receipt EXCEPT !.stage = "undone"] /\ GoesOn("done")
              \/ receipt' = receipt /\ FaultsTo("legacy", "done")
  BY DEF UndoNote, LegacyFails

\* The removal of the legacy service.
LEMMA VerifyRow ==
    ASSUME TxnOK, Verify
    PROVE  /\ At("verify") /\ Nothing
           /\ GoesOn("again") \/ FailsTo("done")
  BY DEF Verify
LEMMA VerifyAgainRow ==
    ASSUME TxnOK, VerifyAgain
    PROVE  /\ At("again") /\ Nothing
           /\ \/ /\ StrictReady(txn.want) /\ BackupValid /\ receipt.stage = "stopped"
                 /\ legacy.run = "stopped" /\ GoesOn("delete")
              \/ GoesOn("done") \/ FailsTo("done")
  BY DEF VerifyAgain
LEMMA DeleteRow ==
    ASSUME TxnOK, Delete
    PROVE  /\ At("delete") /\ Inner /\ UNCHANGED <<pins, receipt>>
           /\ \/ /\ legacy.here /\ legacy.run = "stopped"
                 /\ legacy' = [legacy EXCEPT !.here = FALSE, !.start = "disabled"]
                 /\ GoesOn("noteRemoved")
              \/ legacy' = legacy /\ FailsTo("done")
  BY DEF Delete, ChangesLegacy
LEMMA NoteRemovedRow ==
    ASSUME TxnOK, NoteRemoved
    PROVE  /\ At("noteRemoved") /\ Inner /\ UNCHANGED <<pins, legacy>>
           /\ \/ receipt' = [receipt EXCEPT !.stage = "removed"] /\ GoesOn("done")
              \/ receipt' = receipt /\ FailsTo("done")
  BY DEF NoteRemoved

\* The publication of a profile.
LEMMA HoldRow ==
    ASSUME TxnOK, Hold
    PROVE  /\ At("hold")
           /\ \/ Nothing /\ ~LegacyBlocks /\ OpenRuns /\ GoesOn("pubRead")
              \/ SetupRow("publish", "done", "done")
              \/ Nothing /\ (GoesOn("done") \/ FailsTo("done"))
<1>1. CASE OpenRuns BY <1>1 DEF Hold
<1>2. CASE ~OpenRuns /\ Installed /\ Stable /\ env = "clear"
  <2>1. /\ Outer
        /\ \/ Works("publish", txn.want) /\ Ends
           \/ Breaks("publish", txn.want) /\ Refuses
    BY <1>2, SetupSplits DEF Hold
  <2> QED BY <1>2, <2>1 DEF Hold
<1>3. CASE ~OpenRuns /\ ~(Installed /\ Stable /\ env = "clear") BY <1>3 DEF Hold
<1> QED BY <1>1, <1>2, <1>3
LEMMA PubReadRow ==
    ASSUME TxnOK, PubRead
    PROVE  /\ At("pubRead") /\ Nothing
           /\ \/ /\ SafeInstallation
                 /\ Becomes(IF OpenRuns THEN "pubStop" ELSE "pub", txn.bad, txn.fault, Snapshot)
              \/ FailsTo("done")
  BY DEF PubRead
LEMMA PubStopRow ==
    ASSUME TxnOK, PubStop PROVE At("pubStop") /\ SetupRow("stop", "pub", "done")
<1>1. /\ Outer
      /\ \/ Works("stop", txn.want) /\ Go("pub")
         \/ Breaks("stop", txn.want) /\ Refuses
  BY SetupSplits DEF PubStop
<1> QED BY <1>1 DEF PubStop
LEMMA PubRow ==
    ASSUME TxnOK, Pub
    PROVE  /\ At("pub") /\ Outer
           /\ \/ /\ Works("publish", txn.want)
                 /\ (GoesOn("pubStart") \/ GoesOn("pubActivate"))
              \/ /\ Breaks("publish", txn.want)
                 /\ Becomes(IF txn.snap.run THEN "pubRestart" ELSE "done", TRUE,
                            IF store' = store THEN txn.fault ELSE txn.fault \cup {"open"}, txn.snap)
<1> DEFINE next == IF txn.snap.inst = "current" THEN "pubStart" ELSE "pubActivate"
           failed == txn' = [txn EXCEPT !.at = IF txn.snap.run THEN "pubRestart" ELSE "done",
                                        !.bad = TRUE,
                                        !.fault = IF store' = store THEN @ ELSE @ \cup {"open"}]
<1>1. /\ Outer
      /\ \/ Works("publish", txn.want) /\ Go(next)
         \/ Breaks("publish", txn.want) /\ failed
  BY SetupSplits DEF Pub
<1> QED BY <1>1 DEF Pub
LEMMA PubRestartRow ==
    ASSUME TxnOK, PubRestart PROVE At("pubRestart") /\ FaultRow("start", "done", "done")
<1>1. /\ Outer
      /\ \/ Works("start", txn.want) /\ Ends
         \/ Breaks("start", txn.want) /\ Faults("open", "done")
  BY SetupSplits DEF PubRestart
<1> QED BY <1>1 DEF PubRestart
LEMMA PubActivateRow ==
    ASSUME TxnOK, PubActivate
    PROVE  /\ At("pubActivate")
           /\ \/ SetupRow("install", "pubStart", "pubUndoStop")
              \/ SetupRow("upgrade", "pubStart", "pubUndoStop")
<1>1. CASE txn.snap.inst = "absent"
  <2>1. /\ Outer
        /\ \/ Works("install", txn.want) /\ Go("pubStart")
           \/ Breaks("install", txn.want) /\ txn' = [txn EXCEPT !.at = "pubUndoStop", !.bad = TRUE]
    BY <1>1, SetupSplits DEF PubActivate, PubUndoes
  <2> QED BY <1>1, <2>1 DEF PubActivate, PubUndoes
<1>2. CASE txn.snap.inst # "absent"
  <2>1. /\ Outer
        /\ \/ Works("upgrade", txn.want) /\ Go("pubStart")
           \/ Breaks("upgrade", txn.want) /\ txn' = [txn EXCEPT !.at = "pubUndoStop", !.bad = TRUE]
    BY <1>2, SetupSplits DEF PubActivate, PubUndoes
  <2> QED BY <1>2, <2>1 DEF PubActivate, PubUndoes
<1> QED BY <1>1, <1>2
LEMMA PubStartRow ==
    ASSUME TxnOK, PubStart PROVE At("pubStart") /\ SetupRow("start", "pubWait", "pubUndoStop")
<1>1. /\ Outer
      /\ \/ Works("start", txn.want) /\ Go("pubWait")
         \/ Breaks("start", txn.want) /\ txn' = [txn EXCEPT !.at = "pubUndoStop", !.bad = TRUE]
  BY SetupSplits DEF PubStart, PubUndoes
<1> QED BY <1>1 DEF PubStart, PubUndoes
LEMMA PubWaitRow ==
    ASSUME TxnOK, PubWait
    PROVE  /\ At("pubWait") /\ Nothing
           /\ GoesOn("done") \/ FailsTo("pubUndoStop")
  BY DEF PubWait, PubUndoes
LEMMA PubUndoStopRow ==
    ASSUME TxnOK, PubUndoStop
    PROVE  /\ At("pubUndoStop")
           /\ \/ ProfileChanged /\ FaultRow("stop", "pubUndoProfile", "pubUndoProfile")
              \/ ~ProfileChanged /\ FaultRow("stop", "pubUndoLast", "pubUndoLast")
<1>1. CASE ProfileChanged
  <2>1. /\ Outer
        /\ \/ Works("stop", txn.want) /\ Go("pubUndoProfile")
           \/ Breaks("stop", txn.want) /\ Faults("open", "pubUndoProfile")
    BY <1>1, SetupSplits DEF PubUndoStop
  <2> QED BY <1>1, <2>1 DEF PubUndoStop
<1>2. CASE ~ProfileChanged
  <2>1. /\ Outer
        /\ \/ Works("stop", txn.want) /\ Go("pubUndoLast")
           \/ Breaks("stop", txn.want) /\ Faults("open", "pubUndoLast")
    BY <1>2, SetupSplits DEF PubUndoStop
  <2> QED BY <1>2, <2>1 DEF PubUndoStop
<1> QED BY <1>1, <1>2
LEMMA PubUndoProfileRow ==
    ASSUME TxnOK, PubUndoProfile
    PROVE  At("pubUndoProfile") /\ FaultRow("rollback", "pubUndoLast", "pubUndoLast")
<1>1. /\ Outer
      /\ \/ Works("rollback", txn.want) /\ Go("pubUndoLast")
         \/ Breaks("rollback", txn.want) /\ Faults("open", "pubUndoLast")
  BY SetupSplits DEF PubUndoProfile
<1> QED BY <1>1 DEF PubUndoProfile
LEMMA PubUndoLastRow ==
    ASSUME TxnOK, PubUndoLast
    PROVE  /\ At("pubUndoLast")
           /\ \/ txn.snap.inst = "absent" /\ FaultRow("remove", "done", "done")
              \/ txn.snap.inst # "absent" /\ txn.snap.run /\ FaultRow("start", "done", "done")
              \/ ~txn.snap.run /\ Nothing /\ GoesOn("done")
<1>1. CASE txn.snap.inst = "absent"
  <2>1. /\ Outer
        /\ \/ Works("remove", txn.want) /\ Ends
           \/ Breaks("remove", txn.want) /\ Faults("open", "done")
    BY <1>1, SetupSplits DEF PubUndoLast
  <2> QED BY <1>1, <2>1 DEF PubUndoLast
<1>2. CASE txn.snap.inst # "absent" /\ txn.snap.run
  <2>1. /\ Outer
        /\ \/ Works("start", txn.want) /\ Ends
           \/ Breaks("start", txn.want) /\ Faults("open", "done")
    BY <1>2, SetupSplits DEF PubUndoLast
  <2> QED BY <1>2, <2>1 DEF PubUndoLast
<1>3. CASE txn.snap.inst # "absent" /\ ~txn.snap.run BY <1>3 DEF PubUndoLast
<1> QED BY <1>1, <1>2, <1>3

HIDE DEF TxnOK, At, Go, Ends, Refuses, Faults, Undoes, Becomes, GoesOn, FailsTo, FaultsTo,
         SetupRow, FaultRow, Check, Touch, Inner, Nothing, Quiet, machine

-----------------------------------------------------------------------------
(***************************************************************************)
(* The place of a transaction                                              *)
(***************************************************************************)
\* What is captured is a snapshot.
LEMMA SnapshotIsSnap ==
    ASSUME MachineOK, SafeInstallation
    PROVE  /\ Snapshot \in Snap /\ Snapshot # None
           /\ Snapshot.inst = "absent" <=> Snapshot.image = None
           /\ Snapshot.run => Snapshot.inst # "absent"
           /\ Snapshot.store = store /\ Snapshot.run = OpenRuns /\ Snapshot.loaded = LiveDigest
           /\ Snapshot.inst = Installation /\ Snapshot.image = open.image
<1>1. /\ Installation \in {"absent", "current", "outdated"} /\ open.image \in Optional(Version)
      /\ Installation = "absent" <=> open.image = None
  BY NoneAssumption DEF SafeInstallation, Installation, MachineOK, Open, Optional, Version, Bundled
<1>2. LiveDigest \in Optional(Profile) BY DEF LiveDigest, MachineOK, Open, Optional
<1>3. OpenRuns \in BOOLEAN BY DEF OpenRuns
<1>4. OpenRuns => Installation # "absent"
  BY <1>1, NoneAssumption DEF MachineOK, Owned, Version
<1>5. Snapshot \in Snap BY <1>1, <1>2, <1>3 DEF Snapshot, Snap, MachineOK
<1> QED BY <1>1, <1>4, <1>5, NoneAssumption DEF Snapshot

\* The ways a transaction moves on.
Carried == /\ DOMAIN txn' = DOMAIN txn
           /\ txn'.kind = txn.kind /\ txn'.want = txn.want /\ txn'.meddled = txn.meddled
           /\ txn'.bad \in BOOLEAN /\ txn'.fault \subseteq {"open", "legacy"}
MigrationMove ==
    /\ Carried /\ txn.at \in Migrating /\ txn'.at \in Migrating \cup {"done"}
    /\ txn'.snap = txn.snap
    /\ txn'.at \in UndoesOpen \cup UndoesLegacy => txn'.bad
    /\ txn'.bad => txn'.at \in UndoesOpen \cup UndoesLegacy \cup {"done", "publishNote", "startNote"}
    /\ txn'.fault # {} => txn'.at \in UndoesLegacy \cup {"done"}
RemovalMove ==
    /\ Carried /\ txn.at \in Removing /\ txn'.at \in Removing \cup {"done"}
    /\ txn'.snap = txn.snap /\ txn'.fault = txn.fault
PublicationMove ==
    /\ Carried /\ txn.at \in Publishing /\ txn'.at \in Publishing \cup {"done"}
    /\ txn'.snap = txn.snap
    /\ txn'.fault # {} => txn'.at \in {"done", "pubRestart", "pubUndoProfile", "pubUndoLast"}
EndingMove ==
    /\ Carried /\ txn.at # "idle" /\ txn'.at = "done"
    /\ txn'.snap = txn.snap /\ txn'.fault = txn.fault

USE DEF Parking, Replacing, UndoesOpen, UndoesLegacy, Migrating, Removing, Publishing, Unsnapped,
        Plain, Given, Kinds, Files, Carried

\* A migration.
LEMMA MigrationMoveKeeps ==
    ASSUME ControlInv, MigrationMove PROVE ControlInv'
<1>1. TxnOK' BY DEF ControlInv, MigrationMove, TxnOK, Steps
<1>2. PlaceInv' BY DEF ControlInv, MigrationMove, PlaceInv
<1>3. FaultInv' BY DEF ControlInv, MigrationMove, PlaceInv, FaultInv
<1>4. SnapInv' BY DEF ControlInv, MigrationMove, SnapInv
<1>5. BadInv' BY DEF ControlInv, MigrationMove, PlaceInv, BadInv
<1> QED BY <1>1, <1>2, <1>3, <1>4, <1>5 DEF ControlInv

\* A removal.
LEMMA RemovalMoveKeeps ==
    ASSUME ControlInv, RemovalMove PROVE ControlInv'
<1>1. TxnOK' BY DEF ControlInv, RemovalMove, TxnOK, Steps
<1>2. PlaceInv' BY DEF ControlInv, RemovalMove, PlaceInv
<1>3. FaultInv' BY DEF ControlInv, RemovalMove, PlaceInv, FaultInv
<1>4. SnapInv' BY DEF ControlInv, RemovalMove, SnapInv
<1>5. BadInv' BY DEF ControlInv, RemovalMove, PlaceInv, BadInv
<1> QED BY <1>1, <1>2, <1>3, <1>4, <1>5 DEF ControlInv

\* A publication.
LEMMA PublicationMoveKeeps ==
    ASSUME ControlInv, PublicationMove PROVE ControlInv'
<1>1. TxnOK' BY DEF ControlInv, PublicationMove, TxnOK, Steps
<1>2. PlaceInv' BY DEF ControlInv, PublicationMove, PlaceInv
<1>3. FaultInv' BY DEF ControlInv, PublicationMove, PlaceInv, FaultInv
<1>4. SnapInv' BY DEF ControlInv, PublicationMove, SnapInv
<1>5. BadInv' BY DEF ControlInv, PublicationMove, PlaceInv, BadInv
<1> QED BY <1>1, <1>2, <1>3, <1>4, <1>5 DEF ControlInv

\* Any of them, at its end.
LEMMA EndingMoveKeeps ==
    ASSUME ControlInv, EndingMove PROVE ControlInv'
<1>1. TxnOK' BY DEF ControlInv, EndingMove, TxnOK, Steps
<1>2. PlaceInv' BY DEF ControlInv, EndingMove, PlaceInv
<1>3. FaultInv' BY DEF ControlInv, EndingMove, PlaceInv, FaultInv
<1>4. SnapInv' BY DEF ControlInv, EndingMove, SnapInv
<1>5. BadInv' BY DEF ControlInv, EndingMove, PlaceInv, BadInv
<1> QED BY <1>1, <1>2, <1>3, <1>4, <1>5 DEF ControlInv

\* After each file comes another one, and then the runtime.
LEMMA NextFile ==
    ASSUME NEW f \in Files PROVE AfterFile(f) \in (Files \ {"pointer"}) \cup {"undoRuntime"}
  BY DEF AfterFile

USE DEF TxnOK, Becomes, GoesOn, FailsTo, FaultsTo, SetupRow, FaultRow, At

\* The steps, one by one.
Forward ==
    \/ StopLegacy \/ Park \/ NoteStop \/ PublishCheck \/ PublishStop \/ Publish
    \/ RecordPublish \/ ActivateCheck \/ Activate \/ Start \/ RecordStart \/ WaitReady
    \/ Smoke \/ Complete

LEMMA MarksOfMigration ==
    ASSUME ControlInv
    PROVE  /\ TxnOK
           /\ txn.fault # {} => txn.at \in UndoesLegacy \cup {"done", "pubRestart", "pubUndoProfile", "pubUndoLast"}
           /\ txn.at \in UndoesOpen \cup UndoesLegacy => txn.bad
           /\ txn.at \in Parking \cup {"noteStop"} \cup (Replacing \ {"publishNote", "startNote"}) => ~txn.bad
  BY DEF ControlInv, PlaceInv, FaultInv, BadInv

LEMMA ForwardMoves ==
    ASSUME ControlInv, Forward
    PROVE  MigrationMove
<1> USE MarksOfMigration DEF MigrationMove
<1>1. CASE StopLegacy BY <1>1, StopLegacyRow
<1>2. CASE Park BY <1>2, ParkRow
<1>3. CASE NoteStop BY <1>3, NoteStopRow
<1>4. CASE PublishCheck BY <1>4, PublishCheckRow
<1>5. CASE PublishStop BY <1>5, PublishStopRow
<1>6. CASE Publish BY <1>6, PublishRow
<1>7. CASE RecordPublish BY <1>7, RecordPublishRow
<1>8. CASE ActivateCheck BY <1>8, ActivateCheckRow
<1>9. CASE Activate BY <1>9, ActivateRow
<1>10. CASE Start BY <1>10, StartRow
<1>11. CASE RecordStart BY <1>11, RecordStartRow
<1>12. CASE WaitReady BY <1>12, WaitReadyRow
<1>13. CASE Smoke BY <1>13, SmokeRow
<1>14. CASE Complete BY <1>14, CompleteRow
<1> QED BY <1>1, <1>2, <1>3, <1>4, <1>5, <1>6, <1>7, <1>8, <1>9, <1>10, <1>11, <1>12, <1>13, <1>14
           DEF Forward

LEMMA UndoMoves ==
    ASSUME ControlInv, Undo
    PROVE  MigrationMove
<1> USE MarksOfMigration DEF MigrationMove
<1>1. CASE UndoOpen BY <1>1, UndoOpenRow
<1>2. CASE UndoStop BY <1>2, UndoStopRow
<1>3. CASE UndoRemove BY <1>3, UndoRemoveRow
<1>4. ASSUME NEW f \in Files, UndoFile(f) PROVE MigrationMove
  <2>1. /\ txn.at = f /\ Carried /\ txn'.snap = txn.snap /\ txn'.bad
        /\ \/ txn'.at = AfterFile(f) /\ txn'.fault = txn.fault
           \/ txn'.at = "undoLegacy"
    BY <1>4, UndoFileRow
  <2>2. txn.fault = {} BY <2>1
  <2> QED BY <2>1, <2>2, NextFile
<1>5. CASE UndoRuntime BY <1>5, UndoRuntimeRow
<1>6. CASE UndoStart BY <1>6, UndoStartRow
<1>7. CASE UndoPin BY <1>7, UndoPinRow
<1>8. CASE UndoRoots BY <1>8, UndoRootsRow
<1>9. CASE UndoLegacy BY <1>9, UndoLegacyRow
<1>10. CASE UndoPark BY <1>10, UndoParkRow
<1>11. CASE UndoIni BY <1>11, UndoIniRow
<1>12. CASE UndoConfig BY <1>12, UndoConfigRow
<1>13. CASE UndoTray BY <1>13, UndoTrayRow
<1>14. CASE UndoRun BY <1>14, UndoRunRow
<1>15. CASE UndoNote BY <1>15, UndoNoteRow
<1> QED BY <1>1, <1>2, <1>3, <1>4, <1>5, <1>6, <1>7, <1>8, <1>9, <1>10, <1>11, <1>12, <1>13, <1>14, <1>15
           DEF Undo

LEMMA RemovalMoves ==
    ASSUME ControlInv, RemoveLegacy
    PROVE  RemovalMove
<1> USE MarksOfMigration DEF RemovalMove
<1>1. CASE Verify BY <1>1, VerifyRow
<1>2. CASE VerifyAgain BY <1>2, VerifyAgainRow
<1>3. CASE Delete BY <1>3, DeleteRow
<1>4. CASE NoteRemoved BY <1>4, NoteRemovedRow
<1> QED BY <1>1, <1>2, <1>3, <1>4 DEF RemoveLegacy

Republish ==
    \/ PubStop \/ Pub \/ PubRestart \/ PubActivate \/ PubStart \/ PubWait
    \/ PubUndoStop \/ PubUndoProfile \/ PubUndoLast

LEMMA PublicationMoves ==
    ASSUME ControlInv, Republish
    PROVE  PublicationMove
<1> USE MarksOfMigration DEF PublicationMove
<1>1. CASE PubStop BY <1>1, PubStopRow
<1>2. CASE Pub BY <1>2, PubRow
<1>3. CASE PubRestart BY <1>3, PubRestartRow
<1>4. CASE PubActivate BY <1>4, PubActivateRow
<1>5. CASE PubStart BY <1>5, PubStartRow
<1>6. CASE PubWait BY <1>6, PubWaitRow
<1>7. CASE PubUndoStop BY <1>7, PubUndoStopRow
<1>8. CASE PubUndoProfile BY <1>8, PubUndoProfileRow
<1>9. CASE PubUndoLast BY <1>9, PubUndoLastRow
<1> QED BY <1>1, <1>2, <1>3, <1>4, <1>5, <1>6, <1>7, <1>8, <1>9 DEF Republish

HIDE DEF Parking, Replacing, UndoesOpen, UndoesLegacy, Migrating, Removing, Publishing, Unsnapped,
        Plain, Given, Kinds, Files, Carried, TxnOK, Becomes, GoesOn, FailsTo, FaultsTo, SetupRow,
        FaultRow, At

\* The steps that enter a phase, or leave the transaction.
USE DEF Parking, Replacing, UndoesOpen, UndoesLegacy, Migrating, Removing, Publishing, Unsnapped,
        Plain, Given, Kinds, Files, Becomes, GoesOn, FailsTo, SetupRow, At

LEMMA ElevateControl ==
    ASSUME ControlInv, Elevate PROVE ControlInv'
<1> USE DEF TxnOK
<1>0. Entry \in {"backup", "verify", "pubRead", "hold", "verb"} BY DEF Entry
<1>1. TxnOK'
  <2>1. Carried /\ txn'.snap = txn.snap /\ txn'.fault = txn.fault
    BY ElevateRow DEF ControlInv, Carried
  <2>2. txn'.at \in {"backup", "verify", "pubRead", "hold", "verb", "done"}
    BY <1>0, ElevateRow DEF ControlInv
  <2> QED BY <2>1, <2>2 DEF ControlInv, Carried, Steps
<1>e. /\ txn.at = "consent" /\ txn'.kind = txn.kind /\ txn'.want = txn.want /\ txn'.snap = txn.snap
      /\ txn'.fault = txn.fault /\ txn'.meddled = txn.meddled
      /\ (txn'.at = Entry /\ txn'.bad = txn.bad) \/ txn'.at = "done"
  BY ElevateRow DEF ControlInv
<1>k. /\ Entry = "backup" => txn.kind = "migrate"
      /\ Entry = "verify" => txn.kind = "removeLegacy"
      /\ Entry \in {"pubRead", "hold"} => txn.kind \in {"publish", "designate"}
      /\ Entry = "hold" => txn.kind = "designate"
      /\ Entry = "verb" => txn.kind \notin {"migrate", "removeLegacy", "publish", "designate"}
  BY DEF Entry
<1>2. PlaceInv' BY <1>0, <1>e, <1>k DEF ControlInv, PlaceInv
<1>3. FaultInv' BY <1>0, <1>e, <1>k DEF ControlInv, PlaceInv, FaultInv
<1>4. SnapInv' BY <1>0, <1>e DEF ControlInv, SnapInv
<1>5. BadInv' BY <1>0, <1>e DEF ControlInv, PlaceInv, BadInv
<1> QED BY <1>1, <1>2, <1>3, <1>4, <1>5 DEF ControlInv

LEMMA PlainVerbControl ==
    ASSUME ControlInv, PlainVerb PROVE ControlInv'
<1> USE DEF TxnOK
<1>1. TxnOK' BY PlainVerbRow DEF ControlInv, Steps
<1>2. PlaceInv' BY PlainVerbRow DEF ControlInv, PlaceInv
<1>3. FaultInv' BY PlainVerbRow DEF ControlInv, PlaceInv, FaultInv
<1>4. SnapInv' BY PlainVerbRow DEF ControlInv, SnapInv
<1>5. BadInv' BY PlainVerbRow DEF ControlInv, PlaceInv, BadInv
<1> QED BY <1>1, <1>2, <1>3, <1>4, <1>5 DEF ControlInv

LEMMA PrepareBackupControl ==
    ASSUME ControlInv, PrepareBackup PROVE ControlInv'
<1> USE DEF TxnOK
<1>1. TxnOK' BY PrepareBackupRow DEF ControlInv, Steps
<1>2. PlaceInv' BY PrepareBackupRow DEF ControlInv, PlaceInv
<1>3. FaultInv' BY PrepareBackupRow DEF ControlInv, PlaceInv, FaultInv
<1>4. SnapInv' BY PrepareBackupRow DEF ControlInv, SnapInv
<1>5. BadInv' BY PrepareBackupRow DEF ControlInv, PlaceInv, BadInv
<1> QED BY <1>1, <1>2, <1>3, <1>4, <1>5 DEF ControlInv

LEMMA CaptureControl ==
    ASSUME MachineOK, ControlInv, Capture PROVE ControlInv'
<1> USE DEF TxnOK
<1>1. TxnOK' BY CaptureRow DEF ControlInv, Steps
<1>2. PlaceInv' BY CaptureRow DEF ControlInv, PlaceInv
<1>3. FaultInv' BY CaptureRow DEF ControlInv, PlaceInv, FaultInv
<1>4. SnapInv' BY CaptureRow, SnapshotIsSnap DEF ControlInv, SnapInv
<1>5. BadInv' BY CaptureRow DEF ControlInv, PlaceInv, BadInv
<1> QED BY <1>1, <1>2, <1>3, <1>4, <1>5 DEF ControlInv

LEMMA PubReadControl ==
    ASSUME MachineOK, ControlInv, PubRead PROVE ControlInv'
<1> USE DEF TxnOK
<1>1. TxnOK' BY PubReadRow DEF ControlInv, Steps
<1>2. PlaceInv' BY PubReadRow DEF ControlInv, PlaceInv
<1>3. FaultInv' BY PubReadRow DEF ControlInv, PlaceInv, FaultInv
<1>4. SnapInv' BY PubReadRow, SnapshotIsSnap DEF ControlInv, SnapInv
<1>5. BadInv' BY PubReadRow DEF ControlInv, PlaceInv, BadInv
<1> QED BY <1>1, <1>2, <1>3, <1>4, <1>5 DEF ControlInv

LEMMA HoldControl ==
    ASSUME ControlInv, Hold PROVE ControlInv'
<1> USE DEF TxnOK
<1>1. TxnOK' BY HoldRow DEF ControlInv, Steps
<1>2. PlaceInv' BY HoldRow DEF ControlInv, PlaceInv
<1>3. FaultInv' BY HoldRow DEF ControlInv, PlaceInv, FaultInv
<1>4. SnapInv' BY HoldRow DEF ControlInv, SnapInv
<1>5. BadInv' BY HoldRow DEF ControlInv, PlaceInv, BadInv
<1> QED BY <1>1, <1>2, <1>3, <1>4, <1>5 DEF ControlInv

LEMMA RequestControl ==
    ASSUME ControlInv, NEW kind \in Kinds, NEW p \in Optional(Profile), Request(kind, p)
    PROVE  /\ ControlInv'
           /\ At("idle") /\ txn'.at = "consent" /\ txn'.kind = kind /\ txn'.want = p
           /\ txn'.snap = None /\ txn'.fault = {} /\ ~txn'.meddled /\ ~txn'.bad
  BY ProfileAssumption
     DEF Request, Idle, Optional, ControlInv, TxnOK, PlaceInv, FaultInv, SnapInv, BadInv, Steps
LEMMA IdleControl ==
    ASSUME txn' = Idle
    PROVE  /\ ControlInv'
           /\ txn'.at = "idle" /\ txn'.kind = "none" /\ txn'.snap = None
           /\ txn'.fault = {} /\ ~txn'.meddled
  BY DEF Idle, Optional, ControlInv, TxnOK, PlaceInv, FaultInv, SnapInv, BadInv, Steps

\* Outside events that meddle with a transaction.
Same == /\ DOMAIN txn' = DOMAIN txn
        /\ txn'.kind = txn.kind /\ txn'.want = txn.want /\ txn'.at = txn.at
        /\ txn'.bad = txn.bad /\ txn'.fault = txn.fault /\ txn'.snap = txn.snap
LEMMA MeddledControl ==
    ASSUME ControlInv, Meddled
    PROVE  /\ ControlInv' /\ Same
           /\ txn.at # "idle" => txn'.meddled
<1>0. /\ Same /\ txn'.meddled \in BOOLEAN
      /\ txn.at # "idle" => txn'.meddled
      /\ txn.at = "idle" => ~txn'.meddled
  BY DEF Meddled, Busy, Same, ControlInv, TxnOK

<1>1. TxnOK' BY <1>0 DEF ControlInv, TxnOK, Steps, Same
<1>2. PlaceInv' BY <1>0 DEF ControlInv, TxnOK, PlaceInv, Same
<1>3. FaultInv' BY <1>0 DEF ControlInv, TxnOK, PlaceInv, FaultInv, Same
<1>4. SnapInv' BY <1>0 DEF ControlInv, TxnOK, SnapInv, Same
<1>5. BadInv' BY <1>0 DEF ControlInv, TxnOK, PlaceInv, BadInv, Same
<1> QED BY <1>0, <1>1, <1>2, <1>3, <1>4, <1>5 DEF ControlInv

HIDE DEF Parking, Replacing, UndoesOpen, UndoesLegacy, Migrating, Removing, Publishing, Unsnapped,
        Plain, Given, Kinds, Files, Becomes, GoesOn, FailsTo, SetupRow, At

-----------------------------------------------------------------------------
(***************************************************************************)
(* Types of the machine                                                    *)
(***************************************************************************)
LEMMA VerbMachine ==
    ASSUME MachineOK, NEW verb, VerbKeeps(verb), Outer PROVE MachineOK'
  BY DEF MachineOK, VerbKeeps, Outer, PinsOK
LEMMA NothingMachine ==
    ASSUME MachineOK, Nothing PROVE MachineOK'
  BY DEF MachineOK, Nothing, machine, PinsOK, OpenRuns, Owned
LEMMA InnerMachine ==
    ASSUME MachineOK, Inner, pins' \subseteq pins, legacy' \in Legacy,
           receipt' # None => receipt' \in Receipt
    PROVE  MachineOK'
  BY DEF MachineOK, Inner, PinsOK, OpenRuns, Owned

\* What a step does with setup, put together.
LEMMA SetupKeeps ==
    ASSUME MachineOK, NEW verb \in Verbs, NEW l, NEW m, verb = "publish" => txn.want \in Profile,
           SetupRow(verb, l, m) \/ FaultRow(verb, l, m)
    PROVE  VerbKeeps(verb) /\ MachineOK'
<1>1. Outer /\ (Works(verb, txn.want) \/ Breaks(verb, txn.want)) BY DEF SetupRow, FaultRow
<1>2. VerbKeeps(verb) BY <1>1, VerbEffect
<1> QED BY <1>1, <1>2, VerbMachine

\* The legacy service and its receipt, field by field.
LEMMA LegacyFields ==
    ASSUME legacy \in Legacy
    PROVE  /\ \A r \in {"stopped", "running"} :
                LET l == [legacy EXCEPT !.run = r]
                IN l \in Legacy /\ l.run = r /\ l.start = legacy.start
                   /\ l.here = legacy.here /\ l.ini = legacy.ini
           /\ \A s \in {"auto", "disabled"} :
                LET l == [legacy EXCEPT !.start = s]
                IN l \in Legacy /\ l.start = s /\ l.run = legacy.run
                   /\ l.here = legacy.here /\ l.ini = legacy.ini
           /\ \A i \in {None, "one", "two"} :
                LET l == [legacy EXCEPT !.ini = i]
                IN l \in Legacy /\ l.ini = i /\ l.run = legacy.run /\ l.start = legacy.start
                   /\ l.here = legacy.here
           /\ LET l == [legacy EXCEPT !.here = FALSE, !.start = "disabled"]
              IN l \in Legacy /\ ~l.here /\ l.start = "disabled" /\ l.run = legacy.run
                 /\ l.ini = legacy.ini
           /\ \A s \in {"auto", "disabled"} :
                LET l == [legacy EXCEPT !.here = TRUE, !.run = "stopped", !.start = s]
                IN l \in Legacy /\ l.here /\ l.start = s /\ l.run = "stopped"
                   /\ l.ini = legacy.ini
  BY DEF Legacy
LEMMA ReceiptFields ==
    ASSUME receipt \in Receipt
    PROVE  /\ receipt.run \in {"stopped", "running"} /\ receipt.start \in {"auto", "disabled"}
           /\ receipt.ini \in {None, "one", "two"} /\ receipt # None
           /\ \A s \in Stages :
                LET r == [receipt EXCEPT !.stage = s]
                IN r \in Receipt /\ r.stage = s /\ r.run = receipt.run /\ r.start = receipt.start
                   /\ r.ini = receipt.ini /\ r # None
  BY NoneAssumption DEF Receipt
LEMMA ReturnedFields ==
    ASSUME legacy \in Legacy, receipt \in Receipt
    PROVE  /\ Returned \in Legacy /\ Returned.start = receipt.start /\ Returned.run = receipt.run
           /\ Returned.ini = legacy.ini /\ Returned.here = legacy.here
  BY ReceiptFields DEF Legacy, Returned
LEMMA PreparedFields ==
    ASSUME legacy \in Legacy
    PROVE  LET r == [stage |-> "prepared", run |-> legacy.run, start |-> legacy.start,
                     ini |-> legacy.ini]
           IN r \in Receipt /\ r.stage = "prepared" /\ r # None
  BY NoneAssumption DEF Legacy, Receipt, Stages

\* The files that the rollback puts back.
LEMMA PutBackFiles ==
    ASSUME store \in Store, txn.snap \in Snap, NEW f \in Files
    PROVE  /\ PutBack(f) \in Store
           /\ PutBack(f).root = store.root /\ PutBack(f).receipts = store.receipts
           /\ \A g \in {"pointer", "active", "previous"} :
                PutBack(f)[g] = IF f = g THEN txn.snap.store[g] ELSE store[g]
           /\ PutBack(f).profiles = IF f = "profiles" THEN store.profiles \cap txn.snap.store.profiles
                                    ELSE store.profiles
           /\ PutBack(f).gens = IF f = "gens" THEN store.gens \cap txn.snap.store.gens
                                ELSE store.gens
           /\ f = "copy" => \A v \in Version : v = txn.snap.store.pointer =>
                               PutBack(f).copy[v] = txn.snap.store.copy[v]
<1>0. txn.snap.store \in Store /\ Files = {"pointer", "active", "previous", "gens", "profiles", "copy"}
  BY DEF Snap, Files
<1>1. CASE f \in {"pointer", "active", "previous"} BY <1>0, <1>1 DEF Store, PutBack
<1>2. CASE f = "profiles" BY <1>0, <1>2 DEF Store, PutBack
<1>3. CASE f = "gens"
  <2> DEFINE copies == [v \in Version |-> IF v \in store.gens \ txn.snap.store.gens
                                         THEN None ELSE store.copy[v]]
  <2>1. copies \in [Version -> Optional(Profile)] BY DEF Store, Optional
  <2>2. PutBack(f) = [store EXCEPT !.gens = store.gens \cap txn.snap.store.gens, !.copy = copies]
    BY <1>3 DEF PutBack, Store
  <2> HIDE DEF copies
  <2>3. PutBack(f) \in Store
    <3>1. store.gens \cap txn.snap.store.gens \in SUBSET Version BY DEF Store
    <3> QED BY <2>1, <2>2, <3>1 DEF Store
  <2> QED BY <1>0, <1>3, <2>2, <2>3 DEF Store
<1>4. CASE f = "copy"
  <2> DEFINE copies == [v \in Version |-> IF v = txn.snap.store.pointer
                                         THEN txn.snap.store.copy[v] ELSE store.copy[v]]
  <2>1. copies \in [Version -> Optional(Profile)] BY <1>0 DEF Store, Optional
  <2>2. PutBack(f) = [store EXCEPT !.copy = copies] BY <1>4 DEF PutBack, Store
  <2>3. \A v \in Version : v = txn.snap.store.pointer => copies[v] = txn.snap.store.copy[v] OBVIOUS
  <2> HIDE DEF copies
  <2> QED BY <1>0, <1>4, <2>1, <2>2, <2>3 DEF Store
<1> QED BY <1>0, <1>1, <1>2, <1>3, <1>4

\* The profile of a transaction that was given one, and the receipt of a migration.
LEMMA GivenProfile ==
    ASSUME ControlInv
    PROVE  /\ txn.at \in Migrating \cup Publishing \cup {"hold", "pubRead"} => txn.want \in Profile
           /\ txn.at = "verb" => txn.kind \in Plain
           /\ txn.at \in Migrating \cup Publishing => txn.snap \in Snap
           /\ TxnOK
  BY DEF ControlInv, PlaceInv, SnapInv, Given
LEMMA KeptReceipt ==
    ASSUME MachineOK, ReceiptInv
    PROVE  /\ txn.at \in Migrating \cup {"delete", "noteRemoved"} => receipt \in Receipt
           /\ legacy \in Legacy /\ store \in Store /\ open \in Open
           /\ receipt # None => receipt \in Receipt
  BY DEF MachineOK, ReceiptInv

USE DEF Verbs, Publishing, Migrating, Replacing, Parking, UndoesOpen, UndoesLegacy, Stages

\* A migration keeps the types.
LEMMA ForwardMachine ==
    ASSUME MachineOK, ControlInv, ReceiptInv, Forward
    PROVE  MachineOK'
<1> USE GivenProfile, KeptReceipt DEF At
<1>1. CASE StopLegacy
  BY <1>1, StopLegacyRow, InnerMachine, LegacyFields, ReceiptFields, ReturnedFields
<1>2. CASE Park
  BY <1>2, ParkRow, InnerMachine, LegacyFields, ReceiptFields, ReturnedFields
<1>3. CASE NoteStop
  BY <1>3, NoteStopRow, InnerMachine, LegacyFields, ReceiptFields, ReturnedFields
<1>4. CASE PublishCheck BY <1>4, PublishCheckRow, NothingMachine
<1>5. CASE PublishStop BY <1>5, PublishStopRow, SetupKeeps
<1>6. CASE Publish BY <1>6, PublishRow, SetupKeeps
<1>7. CASE RecordPublish BY <1>7, RecordPublishRow, NothingMachine
<1>8. CASE ActivateCheck BY <1>8, ActivateCheckRow, NothingMachine
<1>9. CASE Activate BY <1>9, ActivateRow, SetupKeeps
<1>10. CASE Start BY <1>10, StartRow, SetupKeeps
<1>11. CASE RecordStart BY <1>11, RecordStartRow, NothingMachine
<1>12. CASE WaitReady BY <1>12, WaitReadyRow, NothingMachine
<1>13. CASE Smoke BY <1>13, SmokeRow, NothingMachine
<1>14. CASE Complete
  BY <1>14, CompleteRow, InnerMachine, LegacyFields, ReceiptFields, ReturnedFields
<1> QED BY <1>1, <1>2, <1>3, <1>4, <1>5, <1>6, <1>7, <1>8, <1>9, <1>10, <1>11, <1>12, <1>13, <1>14
           DEF Forward

\* Its rollback too.
LEMMA UndoMachine ==
    ASSUME MachineOK, ControlInv, ReceiptInv, Undo
    PROVE  MachineOK'
<1> USE GivenProfile, KeptReceipt DEF At
<1>1. CASE UndoOpen BY <1>1, UndoOpenRow, NothingMachine
<1>2. CASE UndoStop BY <1>2, UndoStopRow, SetupKeeps
<1>3. CASE UndoRemove BY <1>3, UndoRemoveRow, SetupKeeps, NothingMachine
<1>4. ASSUME NEW f \in Files, UndoFile(f) PROVE MachineOK'
  <2>1. store' \in Store BY <1>4, UndoFileRow, PutBackFiles DEF UndoesOpen, Migrating
  <2> QED BY <1>4, <2>1, UndoFileRow DEF MachineOK, Outer, PinsOK, OpenRuns, Owned
<1>5. CASE UndoRuntime BY <1>5, UndoRuntimeRow, SetupKeeps, NothingMachine
<1>6. CASE UndoStart BY <1>6, UndoStartRow, SetupKeeps
<1>7. CASE UndoPin
  BY <1>7, UndoPinRow, InnerMachine, LegacyFields, ReceiptFields, ReturnedFields
<1>8. CASE UndoRoots BY <1>8, UndoRootsRow, NothingMachine
<1>9. CASE UndoLegacy
  BY <1>9, UndoLegacyRow, InnerMachine, LegacyFields, ReceiptFields, ReturnedFields
<1>10. CASE UndoPark
  BY <1>10, UndoParkRow, InnerMachine, LegacyFields, ReceiptFields, ReturnedFields
<1>11. CASE UndoIni
  BY <1>11, UndoIniRow, InnerMachine, LegacyFields, ReceiptFields, ReturnedFields
<1>12. CASE UndoConfig
  BY <1>12, UndoConfigRow, InnerMachine, LegacyFields, ReceiptFields, ReturnedFields
<1>13. CASE UndoTray
  BY <1>13, UndoTrayRow, InnerMachine, LegacyFields, ReceiptFields, ReturnedFields
<1>14. CASE UndoRun
  BY <1>14, UndoRunRow, InnerMachine, LegacyFields, ReceiptFields, ReturnedFields
<1>15. CASE UndoNote
  BY <1>15, UndoNoteRow, InnerMachine, LegacyFields, ReceiptFields, ReturnedFields
<1> QED BY <1>1, <1>2, <1>3, <1>4, <1>5, <1>6, <1>7, <1>8, <1>9, <1>10, <1>11, <1>12, <1>13, <1>14, <1>15
           DEF Undo

\* The removal.
LEMMA RemovalMachine ==
    ASSUME MachineOK, ControlInv, ReceiptInv, RemoveLegacy
    PROVE  MachineOK'
<1> USE GivenProfile, KeptReceipt DEF At
<1>1. CASE Verify BY <1>1, VerifyRow, NothingMachine
<1>2. CASE VerifyAgain BY <1>2, VerifyAgainRow, NothingMachine
<1>3. CASE Delete
  BY <1>3, DeleteRow, InnerMachine, LegacyFields, ReceiptFields, ReturnedFields
<1>4. CASE NoteRemoved
  BY <1>4, NoteRemovedRow, InnerMachine, LegacyFields, ReceiptFields, ReturnedFields
<1> QED BY <1>1, <1>2, <1>3, <1>4 DEF RemoveLegacy

\* The publication.
LEMMA PublicationMachine ==
    ASSUME MachineOK, ControlInv, ReceiptInv, Republish
    PROVE  MachineOK'
<1> USE GivenProfile, KeptReceipt DEF At
<1>1. CASE PubStop BY <1>1, PubStopRow, SetupKeeps
<1>2. CASE Pub
  BY <1>2, PubRow, VerbEffect, VerbMachine DEF Verbs
<1>3. CASE PubRestart BY <1>3, PubRestartRow, SetupKeeps
<1>4. CASE PubActivate BY <1>4, PubActivateRow, SetupKeeps
<1>5. CASE PubStart BY <1>5, PubStartRow, SetupKeeps
<1>6. CASE PubWait BY <1>6, PubWaitRow, NothingMachine
<1>7. CASE PubUndoStop BY <1>7, PubUndoStopRow, SetupKeeps
<1>8. CASE PubUndoProfile BY <1>8, PubUndoProfileRow, SetupKeeps
<1>9. CASE PubUndoLast BY <1>9, PubUndoLastRow, SetupKeeps, NothingMachine
<1> QED BY <1>1, <1>2, <1>3, <1>4, <1>5, <1>6, <1>7, <1>8, <1>9 DEF Republish

HIDE DEF Publishing, Migrating, Replacing, Parking, UndoesOpen, UndoesLegacy, Stages
\* The steps that enter a phase.
Entering == Elevate \/ PlainVerb \/ PrepareBackup \/ Capture \/ Hold \/ PubRead
LEMMA EntryMachine ==
    ASSUME MachineOK, ControlInv, ReceiptInv, CountOK,
           Entering
    PROVE  MachineOK'
<1> USE GivenProfile, KeptReceipt DEF At, Verbs
<1>1. CASE Elevate BY <1>1, ElevateRow, NothingMachine
<1>2. CASE PlainVerb BY <1>2, PlainVerbRow, SetupKeeps DEF Plain
<1>3. CASE PrepareBackup BY <1>3, PrepareBackupRow, InnerMachine, PreparedFields
<1>4. CASE Capture
  <2>1. CASE pins' \subseteq pins BY <1>4, <2>1, CaptureRow, InnerMachine
  <2>2. CASE pins' = pins \cup {Pin}
    <3>1. store.gens \subseteq Version BY DEF MachineOK, Store
    <3>2. begun \in Nat /\ begun # 0 BY <1>4, CaptureRow, BoundAssumption DEF CountOK
    <3>3. Pin.by \in 1 .. begun /\ DOMAIN Pin.runtimes \subseteq Version BY <3>1, <3>2 DEF Pin
    <3> QED BY <1>4, <2>2, <3>3, CaptureRow DEF MachineOK, Inner, PinsOK, OpenRuns, Owned
  <2> QED BY <1>4, <2>1, <2>2, CaptureRow
<1>5. CASE Hold BY <1>5, HoldRow, SetupKeeps, NothingMachine
<1>6. CASE PubRead BY <1>6, PubReadRow, NothingMachine
<1> QED BY <1>1, <1>2, <1>3, <1>4, <1>5, <1>6 DEF Entering
HIDE DEF Verbs

-----------------------------------------------------------------------------
(***************************************************************************)
(* The counters                                                            *)
(***************************************************************************)
Tick == /\ trouble' = trouble \/ Trouble
        /\ UNCHANGED <<known, begun, env>>
LEMMA TickCounts ==
    ASSUME CountOK, Tick, txn.at # "idle" PROVE CountOK'
  BY BoundAssumption DEF CountOK, Tick, Trouble

LEMMA ForwardTicks ==
    ASSUME Forward PROVE Tick /\ txn.at # "idle"
<1> USE DEF Tick, Setup, Check, Touch, Record, Quiet, At, machine
<1>1. CASE StopLegacy BY <1>1 DEF StopLegacy
<1>2. CASE Park BY <1>2 DEF Park
<1>3. CASE NoteStop BY <1>3 DEF NoteStop
<1>4. CASE PublishCheck BY <1>4 DEF PublishCheck
<1>5. CASE PublishStop BY <1>5 DEF PublishStop
<1>6. CASE Publish BY <1>6 DEF Publish
<1>7. CASE RecordPublish BY <1>7 DEF RecordPublish
<1>8. CASE ActivateCheck BY <1>8 DEF ActivateCheck
<1>9. CASE Activate BY <1>9 DEF Activate
<1>10. CASE Start BY <1>10 DEF Start
<1>11. CASE RecordStart BY <1>11 DEF RecordStart
<1>12. CASE WaitReady BY <1>12 DEF WaitReady
<1>13. CASE Smoke BY <1>13 DEF Smoke
<1>14. CASE Complete BY <1>14 DEF Complete
<1> QED BY <1>1, <1>2, <1>3, <1>4, <1>5, <1>6, <1>7, <1>8, <1>9, <1>10, <1>11, <1>12, <1>13, <1>14
           DEF Forward

LEMMA UndoTicks ==
    ASSUME Undo PROVE Tick /\ txn.at # "idle"
<1> USE DEF Tick, Setup, Check, Touch, Record, Quiet, At, machine
<1>1. CASE UndoOpen BY <1>1 DEF UndoOpen
<1>2. CASE UndoStop BY <1>2 DEF UndoStop
<1>3. CASE UndoRemove BY <1>3 DEF UndoRemove
<1>4. ASSUME NEW f \in Files, UndoFile(f) PROVE Tick /\ txn.at # "idle" BY <1>4 DEF UndoFile, Files
<1>5. CASE UndoRuntime BY <1>5 DEF UndoRuntime
<1>6. CASE UndoStart BY <1>6 DEF UndoStart
<1>7. CASE UndoPin BY <1>7 DEF UndoPin
<1>8. CASE UndoRoots BY <1>8 DEF UndoRoots
<1>9. CASE UndoLegacy BY <1>9 DEF UndoLegacy
<1>10. CASE UndoPark BY <1>10 DEF UndoPark
<1>11. CASE UndoIni BY <1>11 DEF UndoIni
<1>12. CASE UndoConfig BY <1>12 DEF UndoConfig
<1>13. CASE UndoTray BY <1>13 DEF UndoTray
<1>14. CASE UndoRun BY <1>14 DEF UndoRun
<1>15. CASE UndoNote BY <1>15 DEF UndoNote
<1> QED BY <1>1, <1>2, <1>3, <1>4, <1>5, <1>6, <1>7, <1>8, <1>9, <1>10, <1>11, <1>12, <1>13, <1>14, <1>15
           DEF Undo

LEMMA RemovalTicks ==
    ASSUME RemoveLegacy PROVE Tick /\ txn.at # "idle"
<1> USE DEF Tick, Setup, Check, Touch, Record, Quiet, At, machine
<1>1. CASE Verify BY <1>1 DEF Verify
<1>2. CASE VerifyAgain BY <1>2 DEF VerifyAgain
<1>3. CASE Delete BY <1>3 DEF Delete
<1>4. CASE NoteRemoved BY <1>4 DEF NoteRemoved
<1> QED BY <1>1, <1>2, <1>3, <1>4 DEF RemoveLegacy

LEMMA PublicationTicks ==
    ASSUME Republish PROVE Tick /\ txn.at # "idle"
<1> USE DEF Tick, Setup, Check, Touch, Record, Quiet, At, machine
<1>1. CASE PubStop BY <1>1 DEF PubStop
<1>2. CASE Pub BY <1>2 DEF Pub
<1>3. CASE PubRestart BY <1>3 DEF PubRestart
<1>4. CASE PubActivate BY <1>4 DEF PubActivate
<1>5. CASE PubStart BY <1>5 DEF PubStart
<1>6. CASE PubWait BY <1>6 DEF PubWait
<1>7. CASE PubUndoStop BY <1>7 DEF PubUndoStop
<1>8. CASE PubUndoProfile BY <1>8 DEF PubUndoProfile
<1>9. CASE PubUndoLast BY <1>9 DEF PubUndoLast
<1> QED BY <1>1, <1>2, <1>3, <1>4, <1>5, <1>6, <1>7, <1>8, <1>9 DEF Republish

LEMMA EntryTicks ==
    ASSUME Entering PROVE Tick /\ txn.at # "idle"
<1> USE DEF Tick, Setup, Check, Touch, Record, Quiet, At, machine
<1>1. CASE Elevate BY <1>1 DEF Elevate
<1>2. CASE PlainVerb BY <1>2 DEF PlainVerb
<1>3. CASE PrepareBackup BY <1>3 DEF PrepareBackup
<1>4. CASE Capture BY <1>4 DEF Capture
<1>5. CASE Hold BY <1>5 DEF Hold
<1>6. CASE PubRead BY <1>6 DEF PubRead
<1> QED BY <1>1, <1>2, <1>3, <1>4, <1>5, <1>6 DEF Entering

-----------------------------------------------------------------------------
(***************************************************************************)
(* The legacy service                                                      *)
(***************************************************************************)
\* The open service does not come up beside a running legacy service, nor does it
\* come to be installed.
NotBeside == OpenRuns' => OpenRuns \/ legacy.run = "stopped"
Untouched == UNCHANGED <<legacy, receipt, known>>
StartsAfter == {"startNote", "ready", "smoke", "complete"}
Late == Parking \cup {"noteStop", "undoRuntime", "undoStart", "undoPin", "undoRoots"}
          \cup Files \cup UndoesLegacy

\* Where the steps of a phase lie.
LEMMA Places ==
    /\ \A l \in Replacing : l \in Migrating /\ l \notin Late /\ l \notin UndoesOpen /\ l \notin Removing
         /\ l \notin Parking
         /\ l \notin {"capture", "noteStop", "delete", "noteRemoved",
                        "park", "verb", "pubRead", "done", "idle"}
         /\ l \notin Publishing
    /\ \A l \in UndoesOpen : l \in Migrating /\ l \notin Replacing /\ l \notin UndoesLegacy /\ l \notin Removing
         /\ l \notin Parking
         /\ l \notin {"capture", "noteStop", "delete", "noteRemoved",
                        "park", "verb", "pubRead", "done", "idle"}
         /\ l \notin Publishing
    /\ \A l \in UndoesLegacy : l \in Migrating /\ l \in Late /\ l \notin Replacing /\ l \notin UndoesOpen
         /\ l \notin Parking
         /\ l \notin {"capture", "noteStop", "delete", "noteRemoved",
                        "park", "verb", "pubRead", "done", "idle"}
         /\ l \notin Publishing
    /\ \A l \in Migrating : \/ l \in Parking \/ l = "noteStop" \/ l \in Replacing
                            \/ l \in UndoesOpen \/ l \in UndoesLegacy
    /\ StartsAfter \subseteq Replacing
    /\ "undoOpen" \in UndoesOpen /\ "undoOpen" \notin Late
  BY DEF Replacing, Migrating, Late, UndoesOpen, UndoesLegacy, Removing, Parking, Publishing,
         StartsAfter, Files

\* While the open service is brought up.
LEMMA ReplacingLegacy ==
    ASSUME ControlInv, LegacyInv, Carried, Untouched, NotBeside,
           txn.at \in Replacing, txn'.at \in Replacing \cup {"undoOpen"},
           txn'.snap = txn.snap, txn'.fault = txn.fault,
           txn'.at \in StartsAfter /\ ~txn'.bad => legacy.run = "stopped"
    PROVE  LegacyInv'
<1>0. txn.kind = "migrate" BY Places DEF ControlInv, PlaceInv
<1>1. ReceiptInv' BY Places DEF LegacyInv, ReceiptInv, Untouched
<1>2. ExposedInv' BY <1>0, Places DEF LegacyInv, ExposedInv, Untouched, Carried, Late
<1>3. RetiredInv'
  BY Places DEF LegacyInv, RetiredInv, Untouched, Carried, Told, StartsAfter
<1>4. NoSilentDoubleInjection'
  BY DEF LegacyInv, NoSilentDoubleInjection, BothInject, Untouched, NotBeside
<1> QED BY <1>1, <1>2, <1>3, <1>4 DEF LegacyInv

\* While the open service is put back.
LEMMA UndoOpenLegacy ==
    ASSUME ControlInv, LegacyInv, Carried, Untouched, NotBeside,
           txn.at \in UndoesOpen, txn'.at \in UndoesOpen \cup {"undoLegacy"},
           txn'.snap = txn.snap, txn.fault \subseteq txn'.fault,
           txn'.at \in Late /\ txn.snap.inst = "absent" /\ Owned' => Told'
    PROVE  LegacyInv'
<1>0. txn.kind = "migrate" /\ "undoLegacy" \in UndoesLegacy
  BY Places DEF ControlInv, PlaceInv, UndoesLegacy
<1>1. ReceiptInv' BY <1>0, Places DEF LegacyInv, ReceiptInv, Untouched
<1>2. ExposedInv' BY <1>0, Places DEF LegacyInv, ExposedInv, Untouched, Carried, Late
<1>3. RetiredInv'
  BY <1>0, Places DEF LegacyInv, RetiredInv, Untouched, Carried, Told, StartsAfter
<1>4. NoSilentDoubleInjection'
  BY DEF LegacyInv, NoSilentDoubleInjection, BothInject, Untouched, NotBeside
<1> QED BY <1>1, <1>2, <1>3, <1>4 DEF LegacyInv

\* While the legacy service is put back.
LEMMA UndoLegacyLegacy ==
    ASSUME MachineOK, ControlInv, LegacyInv, Carried, UNCHANGED <<open, known>>,
           txn.at \in UndoesLegacy, txn'.at \in UndoesLegacy \cup {"done"},
           txn'.snap = txn.snap, txn.fault \subseteq txn'.fault, receipt' # None,
           txn'.at = "done" => txn'.fault # {} \/ receipt'.stage # "stopped"
    PROVE  LegacyInv'
<1>0. txn.kind = "migrate" /\ txn.snap # None BY Places DEF ControlInv, PlaceInv, SnapInv
<1>5. Owned => Told BY <1>0, Places DEF LegacyInv, ExposedInv, Late, Told
<1>6. Told => Told' BY DEF Told
<1>7. Owned' = Owned /\ OpenRuns' = OpenRuns BY DEF Owned, OpenRuns
<1>8. "done" \notin Migrating \cup Parking \cup Replacing \cup Publishing \cup UndoesOpen \cup Late
  BY DEF Replacing, Migrating, Late, UndoesOpen, UndoesLegacy, Parking, Publishing, Files
<1>1. ReceiptInv' BY <1>8, Places DEF LegacyInv, ReceiptInv
<1>2. ExposedInv' BY <1>0, <1>5, <1>6, <1>7, <1>8, Places
                     DEF LegacyInv, ExposedInv, Exposed, Carried, Late
<1>3. RetiredInv'
  BY <1>0, <1>8, Places DEF LegacyInv, RetiredInv, Told, StartsAfter
<1>4. NoSilentDoubleInjection'
  BY <1>5, <1>6, <1>7 DEF NoSilentDoubleInjection, BothInject, Told, MachineOK
<1> QED BY <1>1, <1>2, <1>3, <1>4 DEF LegacyInv

\* While nothing is migrated or removed.
Elsewhere == {"consent", "hold", "pubRead", "verb", "backup", "verify", "again", "done"} \cup Publishing
LEMMA ElsewhereLegacy ==
    ASSUME MachineOK, ControlInv, LegacyInv, Carried, Untouched, NotBeside,
           txn.at \in Elsewhere, txn'.at \in Elsewhere, txn.fault \subseteq txn'.fault,
           txn.kind = "migrate" => txn'.snap = txn.snap,
           Owned' => Owned \/ ~(legacy.here /\ legacy.start = "auto"),
           txn'.kind \in {"install", "publish", "designate"}
             /\ txn'.at \in {"verb", "pubRead"} \cup Publishing => ~(legacy.here /\ legacy.start = "auto")
    PROVE  LegacyInv'
<1>0. \A l \in Elsewhere : /\ l \notin Migrating /\ l \notin Replacing /\ l \notin UndoesOpen /\ l \notin UndoesLegacy
        /\ l \notin Parking /\ l \notin {"capture", "noteStop", "delete", "noteRemoved", "park"}
        /\ l \notin Late /\ l \notin StartsAfter
  BY
     DEF Replacing, Migrating, Late, UndoesOpen, UndoesLegacy, Parking, Publishing, Files, Elsewhere, StartsAfter
<1>6. Told => Told' BY DEF Told, Untouched
<1>1. ReceiptInv' BY <1>0 DEF LegacyInv, ReceiptInv
<1>2. ExposedInv' BY <1>0, <1>6 DEF LegacyInv, ExposedInv, Exposed, Carried, Late, Untouched
<1>3. RetiredInv'
  BY <1>0, <1>6 DEF LegacyInv, RetiredInv, StartsAfter, Untouched
<1>4. NoSilentDoubleInjection'
  BY <1>6 DEF LegacyInv, NoSilentDoubleInjection, BothInject, Told, NotBeside, Untouched
<1> QED BY <1>1, <1>2, <1>3, <1>4 DEF LegacyInv

\* What setup and a check mean for the legacy service.
LEMMA NothingBeside ==
    ASSUME Nothing PROVE Untouched /\ NotBeside /\ Owned' = Owned
  BY DEF Nothing, machine, Untouched, NotBeside, OpenRuns, Owned
LEMMA VerbBeside ==
    ASSUME NEW verb, VerbKeeps(verb), Outer
    PROVE  Untouched /\ NotBeside /\ (Owned' => Owned \/ verb = "install")
  BY DEF VerbKeeps, Outer, Untouched, NotBeside
LEMMA RowOuter ==
    ASSUME NEW verb, NEW l, NEW m, SetupRow(verb, l, m) \/ FaultRow(verb, l, m)
    PROVE  Outer
  BY DEF SetupRow, FaultRow
LEMMA SetupBeside ==
    ASSUME MachineOK, NEW verb \in Verbs, NEW l, NEW m, verb = "publish" => txn.want \in Profile,
           SetupRow(verb, l, m) \/ FaultRow(verb, l, m)
    PROVE  Untouched /\ NotBeside /\ (Owned' => Owned \/ verb = "install")
  BY RowOuter, SetupKeeps, VerbBeside

\* The migration, before the open service is touched.
LEMMA ParkingLegacy ==
    ASSUME MachineOK, ControlInv, LegacyInv, StopLegacy \/ Park \/ NoteStop
    PROVE  LegacyInv'
<1>0. /\ txn.kind = "migrate" /\ txn.snap # None /\ legacy \in Legacy /\ receipt \in Receipt
      /\ receipt.stage = "prepared" /\ txn.at \in Late /\ TxnOK
  BY StopLegacyRow, ParkRow, NoteStopRow, GivenProfile
     DEF ControlInv, PlaceInv, SnapInv, MachineOK, LegacyInv, ReceiptInv, Migrating, Parking, At, Late
<1>5. Owned => Told BY <1>0 DEF LegacyInv, ExposedInv, Late, Told
<1>6. /\ Inner /\ txn'.kind = txn.kind /\ txn'.snap = txn.snap /\ txn'.meddled = txn.meddled
      /\ txn'.fault = txn.fault
      /\ txn'.at \in {"park", "noteStop", "publishCheck", "undoOpen"}
      /\ txn'.at = "park" => At("stopLegacy") /\ receipt' = receipt /\ legacy'.here = legacy.here
                             /\ legacy'.start = legacy.start /\ legacy'.run = "stopped"
      /\ txn'.at = "noteStop" => At("park") /\ receipt' = receipt
                             /\ legacy'.start = "disabled" /\ legacy'.run = legacy.run
      /\ txn'.at = "publishCheck" => At("noteStop") /\ receipt'.stage = "stopped" /\ receipt' # None
                             /\ legacy' = legacy
      /\ txn'.at = "undoOpen" => receipt' = receipt
  <2> USE DEF GoesOn, FailsTo, Becomes
  <2>1. CASE StopLegacy
    <3>1. LET l == [legacy EXCEPT !.run = "stopped"]
          IN l.run = "stopped" /\ l.start = legacy.start /\ l.here = legacy.here
      BY <1>0 DEF Legacy
    <3> QED BY <1>0, <2>1, <3>1, StopLegacyRow
  <2>2. CASE Park BY <1>0, <2>2, ParkRow, LegacyFields
  <2>3. CASE NoteStop
    <3>1. LET r == [receipt EXCEPT !.stage = "stopped"] IN r.stage = "stopped" /\ r # None
      BY <1>0, ReceiptFields DEF Stages
    <3> QED BY <1>0, <2>3, <3>1, NoteStopRow
  <2> QED BY <2>1, <2>2, <2>3
<1>7. Owned' = Owned /\ OpenRuns' = OpenRuns /\ (Told => Told')
  BY <1>6 DEF Inner, Owned, OpenRuns, Told
<1> USE DEF At, Parking, Replacing, UndoesOpen, UndoesLegacy, Migrating, Publishing, Files
<1>1. ReceiptInv'
  <2>1. CASE txn'.at \in {"park", "noteStop"} BY <1>0, <1>6, <2>1 DEF LegacyInv, ReceiptInv
  <2>2. CASE txn'.at = "publishCheck" BY <1>0, <1>6, <2>2 DEF LegacyInv, ReceiptInv
  <2>3. CASE txn'.at = "undoOpen"
    <3>1. receipt' # None /\ receipt'.stage # "stopped" BY <1>0, <1>6, <2>3, ReceiptFields
    <3> QED BY <2>3, <3>1 DEF ReceiptInv
  <2> QED BY <1>6, <2>1, <2>2, <2>3
<1>2. ExposedInv' BY <1>0, <1>5, <1>6, <1>7 DEF LegacyInv, ExposedInv, Inner
<1>3. RetiredInv' BY <1>0, <1>6 DEF LegacyInv, ReceiptInv, RetiredInv
<1>4. NoSilentDoubleInjection'
  BY <1>5, <1>7 DEF NoSilentDoubleInjection, BothInject, Told, MachineOK
<1> QED BY <1>1, <1>2, <1>3, <1>4 DEF LegacyInv

\* The migration, from the stop of the legacy service to its end.
LEMMA ForwardLegacy ==
    ASSUME MachineOK, ControlInv, LegacyInv, Forward
    PROVE  LegacyInv'
<1> DEFINE Goal == /\ Untouched /\ NotBeside
                   /\ txn.at \in Replacing /\ txn'.at \in Replacing \cup {"undoOpen"}
                   /\ txn'.fault = txn.fault
                   /\ txn'.at \in StartsAfter /\ ~txn'.bad => legacy.run = "stopped"
<1>0. /\ txn.at \in Replacing => txn.want \in Profile
      /\ txn.at \in StartsAfter /\ ~txn.bad => legacy.run = "stopped"
      /\ legacy.run \in {"stopped", "running"} /\ TxnOK
  BY GivenProfile, Places DEF LegacyInv, RetiredInv, StartsAfter, MachineOK, Legacy
<1> USE DEF Verbs, At, Replacing, StartsAfter, GoesOn, FailsTo, Becomes
<1>1. ASSUME PublishCheck PROVE Goal BY <1>0, <1>1, PublishCheckRow, NothingBeside
<1>2. ASSUME PublishStop PROVE Goal
  <2>1. Untouched /\ NotBeside BY <1>0, <1>2, PublishStopRow, SetupBeside
  <2> QED BY <1>0, <1>2, <2>1, PublishStopRow DEF SetupRow
<1>3. ASSUME Publish PROVE Goal
  <2>1. Untouched /\ NotBeside BY <1>0, <1>3, PublishRow, SetupBeside
  <2> QED BY <1>0, <1>3, <2>1, PublishRow DEF SetupRow
<1>4. ASSUME RecordPublish PROVE Goal BY <1>0, <1>4, RecordPublishRow, NothingBeside
<1>5. ASSUME ActivateCheck PROVE Goal BY <1>0, <1>5, ActivateCheckRow, NothingBeside
<1>6. ASSUME Activate PROVE Goal
  <2>1. Untouched /\ NotBeside BY <1>0, <1>6, ActivateRow, SetupBeside
  <2> QED BY <1>0, <1>6, <2>1, ActivateRow DEF SetupRow
<1>7. ASSUME Start PROVE Goal
  <2>1. Untouched /\ NotBeside BY <1>0, <1>7, StartRow, SetupBeside
  <2> QED BY <1>0, <1>7, <2>1, StartRow, StartWorks DEF SetupRow
<1>8. ASSUME RecordStart PROVE Goal BY <1>0, <1>8, RecordStartRow, NothingBeside
<1>9. ASSUME WaitReady PROVE Goal BY <1>0, <1>9, WaitReadyRow, NothingBeside
<1>10. ASSUME Smoke PROVE Goal BY <1>0, <1>10, SmokeRow, NothingBeside
<1>11. CASE Complete
  <2>1. CASE txn'.at = "undoOpen"
    <3>1. Untouched /\ NotBeside /\ txn'.fault = txn.fault
      BY <1>0, <1>11, <2>1, CompleteRow DEF Inner, Untouched, NotBeside, OpenRuns
    <3> QED BY <1>0, <1>11, <2>1, <3>1, CompleteRow, ForwardMoves, ReplacingLegacy
       DEF MigrationMove, Forward
  <2>2. CASE txn'.at # "undoOpen"
    <3>1. /\ Untouched /\ Owned' = Owned /\ OpenRuns' = OpenRuns
          /\ txn'.at = "done" /\ txn'.kind = txn.kind /\ txn'.snap = txn.snap
          /\ txn'.fault = txn.fault
      BY <1>0, <1>11, <2>2, CompleteRow DEF Inner, Untouched, OpenRuns, Owned
    <3>2. legacy.start = "disabled" /\ legacy.run = "stopped" /\ txn.at = "complete" /\ ~txn.bad
          /\ txn.kind = "migrate"
      BY <1>0, <1>11, CompleteRow
         DEF LegacyInv, ReceiptInv, ControlInv, BadInv, PlaceInv, Migrating, UndoesOpen, UndoesLegacy,
             Files
    <3> USE DEF Parking, UndoesOpen, UndoesLegacy, Migrating, Publishing, Files
    <3>3. ReceiptInv' BY <3>1 DEF ReceiptInv
    <3>4. ExposedInv' BY <3>1, <3>2 DEF LegacyInv, ExposedInv, Exposed, Untouched
    <3>5. RetiredInv' BY <3>1, <3>2 DEF RetiredInv, Untouched
    <3>6. NoSilentDoubleInjection' BY <3>1, <3>2 DEF NoSilentDoubleInjection, BothInject, Untouched
    <3> QED BY <3>3, <3>4, <3>5, <3>6 DEF LegacyInv
  <2> QED BY <2>1, <2>2
<1> HIDE DEF Goal
<1>12. CASE Goal BY <1>12, ForwardMoves, ReplacingLegacy DEF Goal, MigrationMove
<1> QED BY <1>1, <1>2, <1>3, <1>4, <1>5, <1>6, <1>7, <1>8, <1>9, <1>10, <1>11, <1>12, ParkingLegacy
        DEF Forward

\* The rollback of the open service, step by step.
LEMMA UndoOpenSteps ==
    ASSUME MachineOK, ControlInv, LegacyInv, Undo, txn.at \in UndoesOpen
    PROVE  LegacyInv'
<1> DEFINE Goal == /\ Untouched /\ NotBeside
                   /\ txn'.at \in UndoesOpen \cup {"undoLegacy"} /\ txn.fault \subseteq txn'.fault
                   /\ txn'.at \in Late /\ txn.snap.inst = "absent" /\ Owned' => Told'
<1>0. /\ txn.want \in Profile /\ TxnOK
      /\ txn.at \in Late /\ txn.snap.inst = "absent" /\ Owned => Told
  BY GivenProfile, Places DEF LegacyInv, ExposedInv, Late
<1>t. /\ txn.fault \subseteq txn'.fault /\ known' = known => (Told => Told')
      /\ txn'.fault = txn.fault \cup {"open"} => Told'
  BY DEF Told
<1> USE DEF Verbs, At, GoesOn, FaultsTo, Becomes
<1>1. ASSUME UndoOpen PROVE Goal
  BY <1>0, <1>t, <1>1, UndoOpenRow, NothingBeside DEF UndoesOpen, Late, Parking, Files, UndoesLegacy
<1>2. ASSUME UndoStop PROVE Goal
  <2>1. Untouched /\ NotBeside BY <1>0, <1>2, UndoStopRow, SetupBeside
  <2> QED BY <1>0, <1>t, <1>2, <2>1, UndoStopRow
          DEF FaultRow, UndoesOpen, Late, Parking, Files, UndoesLegacy
<1>3. ASSUME UndoRemove PROVE Goal
  <2>1. CASE Nothing /\ (txn.snap.inst = "absent" => open.image = None) /\ GoesOn("pointer")
    <3>1. Untouched /\ NotBeside /\ (txn.snap.inst = "absent" => ~Owned')
      BY <2>1, NothingBeside, NoneAssumption DEF Owned
    <3> QED BY <1>0, <2>1, <3>1 DEF UndoesOpen, Files
  <2>2. CASE FaultRow("remove", "pointer", "undoLegacy")
    <3>1. Untouched /\ NotBeside BY <1>0, <2>2, SetupBeside
    <3>2. Works("remove", txn.want) => ~Owned'
      BY RemoveWorks, HaltedService, NoneAssumption DEF Owned, MachineOK
    <3> QED BY <1>0, <1>t, <2>2, <3>1, <3>2 DEF FaultRow, UndoesOpen, Files
  <2> QED BY <1>0, <1>3, <2>1, <2>2, UndoRemoveRow
<1>4. ASSUME NEW f \in Files, UndoFile(f) PROVE Goal
  <2>1. Untouched /\ NotBeside /\ Owned' = Owned
    BY <1>0, <1>4, UndoFileRow DEF Outer, Untouched, NotBeside, OpenRuns, Owned
  <2>2. f \in Late BY DEF Late
  <2>3. known' = known BY <2>1 DEF Untouched
  <2> QED BY <1>0, <1>t, <1>4, <2>1, <2>2, <2>3, UndoFileRow, NextFile DEF UndoesOpen
<1>5. ASSUME UndoRuntime PROVE Goal
  <2>1. Untouched /\ NotBeside /\ (Owned' => Owned)
    BY <1>0, <1>5, UndoRuntimeRow, SetupBeside, NothingBeside
  <2>2. txn.at \in Late /\ known' = known BY <1>0, <1>5, <2>1, UndoRuntimeRow DEF Late, Untouched
  <2> QED BY <1>0, <1>t, <1>5, <2>1, <2>2, UndoRuntimeRow DEF FaultRow, UndoesOpen
<1>6. ASSUME UndoStart PROVE Goal
  <2>1. Untouched /\ NotBeside /\ (Owned' => Owned) BY <1>0, <1>6, UndoStartRow, SetupBeside
  <2>2. txn.at \in Late /\ known' = known BY <1>0, <1>6, <2>1, UndoStartRow DEF Late, Untouched
  <2> QED BY <1>0, <1>t, <1>6, <2>1, <2>2, UndoStartRow DEF FaultRow, UndoesOpen
<1>7. ASSUME UndoPin PROVE Goal
  <2>1. Untouched /\ NotBeside /\ (Owned' => Owned)
    BY <1>0, <1>7, UndoPinRow DEF Inner, Untouched, NotBeside, OpenRuns, Owned
  <2>2. txn.at \in Late /\ known' = known BY <1>0, <1>7, <2>1, UndoPinRow DEF Late, Untouched
  <2> QED BY <1>0, <1>t, <1>7, <2>1, <2>2, UndoPinRow DEF UndoesOpen
<1>8. ASSUME UndoRoots PROVE Goal
  <2>1. Untouched /\ NotBeside /\ Owned' = Owned BY <1>0, <1>8, UndoRootsRow, NothingBeside
  <2>2. txn.at \in Late /\ known' = known BY <1>0, <1>8, <2>1, UndoRootsRow DEF Late, Untouched
  <2> QED BY <1>0, <1>t, <1>8, <2>1, <2>2, UndoRootsRow DEF UndoesOpen
<1> HIDE DEF Goal
<1>9. CASE Goal BY <1>9, UndoMoves, UndoOpenLegacy DEF Goal, MigrationMove
<1>10. ~(UndoLegacy \/ UndoPark \/ UndoIni \/ UndoConfig \/ UndoTray \/ UndoRun \/ UndoNote)
  BY DEF UndoLegacy, UndoPark, UndoIni, UndoConfig, UndoTray, UndoRun, UndoNote, UndoesOpen, Files
<1> QED BY <1>1, <1>2, <1>3, <1>4, <1>5, <1>6, <1>7, <1>8, <1>9, <1>10 DEF Undo

\* The rollback of the legacy service, step by step.
LEMMA UndoLegacySteps ==
    ASSUME MachineOK, ControlInv, LegacyInv, Undo, txn.at \in UndoesLegacy
    PROVE  LegacyInv'
<1> DEFINE Goal == /\ UNCHANGED <<open, known>>
                   /\ txn'.at \in UndoesLegacy \cup {"done"} /\ txn.fault \subseteq txn'.fault
                   /\ receipt' # None
                   /\ txn'.at = "done" => txn'.fault # {} \/ receipt'.stage # "stopped"
<1>0. TxnOK /\ receipt \in Receipt /\ receipt # None
  BY GivenProfile, Places, KeptReceipt, ReceiptFields DEF LegacyInv
<1> USE DEF At, GoesOn, FaultsTo, Becomes, UndoesLegacy, Inner
<1>1. ASSUME UndoLegacy PROVE Goal BY <1>0, <1>1, UndoLegacyRow
<1>2. ASSUME UndoPark PROVE Goal BY <1>0, <1>2, UndoParkRow
<1>3. ASSUME UndoIni PROVE Goal BY <1>0, <1>3, UndoIniRow
<1>4. ASSUME UndoConfig PROVE Goal BY <1>0, <1>4, UndoConfigRow
<1>5. ASSUME UndoTray PROVE Goal BY <1>0, <1>5, UndoTrayRow
<1>6. ASSUME UndoRun PROVE Goal BY <1>0, <1>6, UndoRunRow
<1>7. ASSUME UndoNote PROVE Goal BY <1>0, <1>7, UndoNoteRow, ReceiptFields DEF Stages
<1> HIDE DEF Goal
<1>8. CASE Goal BY <1>8, UndoMoves, UndoLegacyLegacy DEF Goal, MigrationMove
<1>9. ~(UndoOpen \/ UndoStop \/ UndoRemove \/ (\E f \in Files : UndoFile(f)) \/ UndoRuntime
        \/ UndoStart \/ UndoPin \/ UndoRoots)
  BY DEF UndoOpen, UndoStop, UndoRemove, UndoFile, UndoRuntime, UndoStart, UndoPin, UndoRoots, Files
<1> QED BY <1>1, <1>2, <1>3, <1>4, <1>5, <1>6, <1>7, <1>8, <1>9 DEF Undo

\* The removal.
LEMMA RemovalLegacy ==
    ASSUME MachineOK, ControlInv, LegacyInv, RemoveLegacy
    PROVE  LegacyInv'
<1>0. TxnOK /\ txn.at \in Removing /\ txn'.at \in Removing \cup {"done"} /\ txn.kind = "removeLegacy"
      /\ txn'.kind = txn.kind /\ txn'.fault = txn.fault /\ Carried
  BY GivenProfile, RemovalMoves DEF RemovalMove, Carried, ControlInv, PlaceInv
<1> USE DEF At, GoesOn, FailsTo, Becomes
<1>1. /\ Owned' = Owned /\ OpenRuns' = OpenRuns /\ known' = known
      /\ \/ legacy' = legacy
         \/ ~legacy'.here /\ legacy'.start = "disabled" /\ legacy'.run = legacy.run
      /\ \/ receipt' = receipt
         \/ receipt' # None /\ receipt'.stage = "removed"
      /\ txn'.at \in {"delete", "noteRemoved"} => receipt' # None /\ receipt'.stage = "stopped"
  <2> USE DEF Owned, OpenRuns, Nothing, Inner, machine
  <2>1. CASE Verify BY <1>0, <2>1, VerifyRow
  <2>2. CASE VerifyAgain BY <1>0, <2>2, VerifyAgainRow DEF BackupValid
  <2>3. CASE Delete
    <3>1. receipt # None /\ receipt.stage = "stopped"
      BY <1>0, <2>3, DeleteRow DEF LegacyInv, ReceiptInv
    <3>2. LET l == [legacy EXCEPT !.here = FALSE, !.start = "disabled"]
          IN ~l.here /\ l.start = "disabled" /\ l.run = legacy.run
      BY DEF MachineOK, Legacy
    <3> QED BY <1>0, <2>3, <3>1, <3>2, DeleteRow
  <2>4. CASE NoteRemoved
    <3>1. receipt \in Receipt
      BY <1>0, <2>4, NoteRemovedRow, KeptReceipt DEF LegacyInv, ReceiptInv
    <3>2. LET r == [receipt EXCEPT !.stage = "removed"] IN r # None /\ r.stage = "removed"
      BY <3>1, ReceiptFields DEF Stages
    <3> QED BY <1>0, <2>4, <3>2, NoteRemovedRow
  <2> QED BY <2>1, <2>2, <2>3, <2>4 DEF RemoveLegacy
<1>2. \A l \in Removing \cup {"done"} :
        /\ l \notin Migrating /\ l \notin Replacing /\ l \notin UndoesOpen /\ l \notin UndoesLegacy
        /\ l \notin Parking /\ l \notin {"capture", "noteStop", "park"} /\ l \notin StartsAfter
        /\ l \notin Late /\ l \notin Publishing
  BY DEF Replacing, Migrating, Late, UndoesOpen, UndoesLegacy, Parking, Publishing, Files, Removing,
         StartsAfter
<1>3. ReceiptInv' BY <1>0, <1>1, <1>2 DEF ReceiptInv
<1>4. ExposedInv' BY <1>0, <1>1, <1>2 DEF LegacyInv, ExposedInv, Exposed, Told, Late
<1>5. RetiredInv' BY <1>0, <1>1, <1>2 DEF LegacyInv, RetiredInv, Told, StartsAfter
<1>6. NoSilentDoubleInjection' BY <1>0, <1>1 DEF LegacyInv, NoSilentDoubleInjection, BothInject
<1> QED BY <1>3, <1>4, <1>5, <1>6 DEF LegacyInv

\* The publication.
LEMMA PublicationLegacy ==
    ASSUME MachineOK, ControlInv, LegacyInv, Republish
    PROVE  LegacyInv'
<1> DEFINE Goal == /\ Untouched /\ NotBeside /\ (Owned' => Owned \/ ~(legacy.here /\ legacy.start = "auto"))
                   /\ txn.fault \subseteq txn'.fault
<1>0. /\ txn.at \in Publishing => txn.want \in Profile
      /\ txn.at \in Publishing => ~(legacy.here /\ legacy.start = "auto")
      /\ TxnOK
  BY GivenProfile DEF LegacyInv, ExposedInv, ControlInv, PlaceInv
<1> USE DEF At, GoesOn, FailsTo, FaultsTo, Becomes, Verbs, Publishing
<1>1. ASSUME PubStop PROVE Goal BY <1>0, <1>1, PubStopRow, SetupBeside DEF SetupRow
<1>2. ASSUME Pub PROVE Goal
  BY <1>0, <1>2, PubRow, VerbEffect, VerbBeside
<1>3. ASSUME PubRestart PROVE Goal BY <1>0, <1>3, PubRestartRow, SetupBeside DEF FaultRow
<1>4. ASSUME PubActivate PROVE Goal BY <1>0, <1>4, PubActivateRow, SetupBeside DEF SetupRow
<1>5. ASSUME PubStart PROVE Goal BY <1>0, <1>5, PubStartRow, SetupBeside DEF SetupRow
<1>6. ASSUME PubWait PROVE Goal BY <1>0, <1>6, PubWaitRow, NothingBeside
<1>7. ASSUME PubUndoStop PROVE Goal BY <1>0, <1>7, PubUndoStopRow, SetupBeside DEF FaultRow
<1>8. ASSUME PubUndoProfile PROVE Goal BY <1>0, <1>8, PubUndoProfileRow, SetupBeside DEF FaultRow
<1>9. ASSUME PubUndoLast PROVE Goal
  BY <1>0, <1>9, PubUndoLastRow, SetupBeside, NothingBeside DEF FaultRow
<1> HIDE DEF Goal
<1>10. CASE Goal
  <2>1. /\ Carried /\ txn.at \in Elsewhere /\ txn'.at \in Elsewhere /\ txn'.snap = txn.snap
        /\ txn.at \in Publishing
    BY PublicationMoves DEF PublicationMove, Elsewhere
  <2> QED BY <1>0, <1>10, <2>1, ElsewhereLegacy DEF Goal
<1> QED BY <1>1, <1>2, <1>3, <1>4, <1>5, <1>6, <1>7, <1>8, <1>9, <1>10 DEF Republish

\* The steps that enter a phase.
LEMMA EntryLegacy ==
    ASSUME MachineOK, ControlInv, LegacyInv, Entering
    PROVE  LegacyInv'
<1> DEFINE Free == ~(legacy.here /\ legacy.start = "auto")
           Goal == /\ Carried /\ Untouched /\ NotBeside /\ (Owned' => Owned \/ Free)
                   /\ txn.at \in Elsewhere /\ txn'.at \in Elsewhere /\ txn'.fault = txn.fault
                   /\ txn.kind = "migrate" => txn'.snap = txn.snap
                   /\ txn'.kind \in {"install", "publish", "designate"}
                        /\ txn'.at \in {"verb", "pubRead"} \cup Publishing => Free
<1>0. /\ TxnOK /\ legacy \in Legacy
      /\ txn.at \in {"hold", "pubRead"} => txn.want \in Profile
      /\ txn.at = "verb" => txn.kind \in Plain
      /\ txn.kind \in {"install", "publish", "designate"} /\ txn.at \in {"verb", "pubRead"} => Free
      /\ txn.at \in {"backup", "capture"} => txn.kind = "migrate"
      /\ txn.at \in {"hold", "pubRead"} => txn.kind \in {"publish", "designate"}
  BY GivenProfile, KeptReceipt DEF LegacyInv, ExposedInv, ControlInv, PlaceInv
<1>f. ~LegacyBlocks => Free BY DEF LegacyBlocks, Retired
<1> USE DEF At, GoesOn, FailsTo, Becomes, Carried
<1>1. ASSUME Elevate PROVE Goal
  <2>1. Entry \in {"backup", "verify", "pubRead", "hold", "verb"} BY DEF Entry
  <2>2. /\ Entry = "pubRead" => txn.kind = "publish"
        /\ Entry = "verb" => txn.kind \notin {"publish", "designate"}
    BY DEF Entry
  <2>3. BrokerAllows /\ txn.kind \in {"install", "publish"} => Free BY <1>f DEF BrokerAllows
  <2> HIDE DEF Free
  <2>4. /\ txn.at = "consent" /\ Nothing /\ Carried /\ txn'.fault = txn.fault /\ txn'.snap = txn.snap
        /\ (BrokerAllows /\ txn'.at = Entry) \/ txn'.at = "done"
    BY <1>0, <1>1, ElevateRow DEF TxnOK
  <2> QED BY <2>1, <2>2, <2>3, <2>4, NothingBeside DEF Elsewhere, Publishing
<1>2. ASSUME PlainVerb PROVE Goal
  <2>1. Untouched /\ NotBeside /\ (Owned' => Owned \/ txn.kind = "install")
    BY <1>0, <1>2, PlainVerbRow, SetupBeside DEF Plain, Verbs
  <2> QED BY <1>0, <1>2, <2>1, PlainVerbRow DEF SetupRow, Elsewhere, Publishing, TxnOK
<1>3. ASSUME PrepareBackup, txn'.at # "capture" PROVE Goal
  BY <1>0, <1>3, PrepareBackupRow
     DEF Inner, Untouched, NotBeside, OpenRuns, Owned, Elsewhere, Publishing, TxnOK
<1>4. ASSUME Hold PROVE Goal
  <2>1. CASE SetupRow("publish", "done", "done")
    <3>1. Untouched /\ NotBeside /\ (Owned' => Owned)
      BY <1>0, <1>4, <2>1, HoldRow, SetupBeside DEF Verbs
    <3> QED BY <1>0, <1>4, <2>1, <3>1, HoldRow DEF SetupRow, Elsewhere, Publishing, TxnOK
  <2>2. CASE ~SetupRow("publish", "done", "done")
    <3>1. /\ Nothing /\ txn.at = "hold" /\ (txn'.at = "done" \/ (txn'.at = "pubRead" /\ ~LegacyBlocks))
          /\ Carried /\ txn'.fault = txn.fault /\ txn'.snap = txn.snap
      BY <1>0, <1>4, <2>2, HoldRow DEF TxnOK
    <3> HIDE DEF Free
    <3> QED BY <1>f, <3>1, NothingBeside DEF Elsewhere, Publishing
  <2> QED BY <2>1, <2>2
<1>5. ASSUME PubRead PROVE Goal
  BY <1>0, <1>5, PubReadRow, NothingBeside DEF Elsewhere, Publishing, TxnOK
<1>6. CASE PrepareBackup /\ txn'.at = "capture"
  <2>1. /\ Inner /\ Backable /\ receipt' # None /\ receipt'.stage = "prepared" /\ legacy' = legacy
        /\ Carried /\ txn'.fault = txn.fault /\ txn'.snap = txn.snap /\ txn.at = "backup"
    BY <1>0, <1>6, PrepareBackupRow, PreparedFields DEF TxnOK
  <2>2. Owned' = Owned /\ OpenRuns' = OpenRuns /\ known' = known BY <2>1 DEF Inner, Owned, OpenRuns
  <2>3. legacy.here /\ legacy.start = "auto" BY <2>1 DEF Backable
  <2>4. /\ "capture" \notin Migrating \cup Replacing \cup UndoesOpen \cup UndoesLegacy \cup Publishing
        /\ "backup" \notin Migrating /\ "capture" \notin Late
    BY DEF Migrating, Replacing, Parking, UndoesOpen, UndoesLegacy, Publishing, Files, Late
  <2>5. ReceiptInv' BY <1>6, <2>1, <2>3, <2>4 DEF ReceiptInv, Migrating
  <2>6. ExposedInv' BY <1>0, <1>6, <2>1, <2>2, <2>4 DEF LegacyInv, ExposedInv, Exposed, Told, Late
  <2>7. RetiredInv' BY <1>6, <2>1 DEF RetiredInv
  <2>8. NoSilentDoubleInjection' BY <2>1, <2>2 DEF LegacyInv, NoSilentDoubleInjection, BothInject
  <2> QED BY <2>5, <2>6, <2>7, <2>8 DEF LegacyInv
<1>7. CASE Capture
  <2>1. /\ Inner /\ legacy' = legacy /\ receipt' = receipt /\ Carried /\ txn'.fault = txn.fault
        /\ txn.at = "capture"
        /\ \/ txn'.at = "stopLegacy" /\ txn'.snap = Snapshot /\ SafeInstallation
           \/ txn'.at = "done" /\ txn'.snap = txn.snap
    BY <1>0, <1>7, CaptureRow DEF TxnOK
  <2>2. Owned' = Owned /\ OpenRuns' = OpenRuns /\ known' = known BY <2>1 DEF Inner, Owned, OpenRuns
  <2>3. /\ receipt # None /\ receipt.stage = "prepared" /\ legacy.here /\ legacy.start = "auto"
        /\ txn.kind = "migrate" /\ txn.fault = {}
    BY <1>0, <2>1 DEF LegacyInv, ReceiptInv, ControlInv, FaultInv, UndoesLegacy
  <2>4. "capture" \notin Migrating
    BY DEF Migrating, Replacing, Parking, UndoesOpen, UndoesLegacy, Files
  <2>5. Owned => known BY <2>1, <2>3, <2>4 DEF LegacyInv, ExposedInv, Exposed, Told
  <2>6. SafeInstallation => /\ Snapshot.inst # "absent" => Owned
                            /\ Snapshot.inst = "absent" => ~Owned
    <3>1. SafeInstallation => Installation = "absent" <=> ~Owned
      BY NoneAssumption DEF SafeInstallation, Installation, Owned, MachineOK, Open, Version, Bundled
    <3> QED BY <3>1, SnapshotIsSnap
  <2>7. /\ "done" \notin Migrating \cup Replacing \cup UndoesOpen \cup Parking \cup Late \cup Publishing
        /\ "stopLegacy" \notin Replacing \cup UndoesOpen \cup Publishing /\ "stopLegacy" \in Migrating
    BY DEF Migrating, Replacing, Parking, UndoesOpen, UndoesLegacy, Publishing, Files, Late
  <2>8. ReceiptInv' BY <2>1, <2>3, <2>7 DEF ReceiptInv
  <2>9. ExposedInv'
    BY <2>1, <2>2, <2>3, <2>5, <2>6, <2>7 DEF LegacyInv, ExposedInv, Exposed, Told, Late
  <2>10. RetiredInv' BY <2>1, <2>3 DEF RetiredInv
  <2>11. NoSilentDoubleInjection' BY <2>1, <2>2 DEF LegacyInv, NoSilentDoubleInjection, BothInject
  <2> QED BY <2>8, <2>9, <2>10, <2>11 DEF LegacyInv
<1> HIDE DEF Goal
<1>8. CASE Goal BY <1>8, ElsewhereLegacy DEF Goal
<1> QED BY <1>1, <1>2, <1>3, <1>4, <1>5, <1>6, <1>7, <1>8 DEF Entering

\* A request.
LEMMA RequestLegacy ==
    ASSUME ControlInv, LegacyInv, NEW kind \in Kinds, NEW p \in Optional(Profile), Request(kind, p)
    PROVE  LegacyInv'
<1>1. /\ txn.at = "idle" /\ txn'.at = "consent" /\ txn'.snap = None /\ txn'.fault = {}
      /\ UNCHANGED <<open, legacy, receipt, known>>
  BY RequestControl DEF Request, machine, At
<1>2. txn.fault = {} BY <1>1 DEF ControlInv, FaultInv, UndoesLegacy
<1>3. Owned' = Owned /\ OpenRuns' = OpenRuns BY <1>1 DEF Owned, OpenRuns
<1> USE DEF Migrating, Replacing, Parking, UndoesOpen, UndoesLegacy, Publishing, Files
<1>4. ReceiptInv' BY <1>1 DEF ReceiptInv
<1>5. ExposedInv' BY <1>1, <1>2, <1>3 DEF LegacyInv, ExposedInv, Exposed, Told
<1>6. RetiredInv' BY <1>1, <1>2 DEF LegacyInv, RetiredInv, Told
<1>7. NoSilentDoubleInjection'
  BY <1>1, <1>2, <1>3 DEF LegacyInv, NoSilentDoubleInjection, BothInject
<1> QED BY <1>4, <1>5, <1>6, <1>7 DEF LegacyInv

\* Nothing is under way any more.
LEMMA IdleLegacy ==
    ASSUME txn' = Idle,
           Exposed' => known',
           BothInject' => known',
           receipt' # None /\ receipt'.stage = "stopped" /\ ~known' =>
              legacy'.start = "disabled" /\ legacy'.run = "stopped"
    PROVE  LegacyInv'
<1>1. /\ txn'.at = "idle" /\ txn'.snap = None /\ txn'.kind = "none" BY IdleControl
<1> USE DEF Migrating, Replacing, Parking, UndoesOpen, UndoesLegacy, Publishing, Files
<1>2. ReceiptInv' BY <1>1 DEF ReceiptInv
<1>3. ExposedInv' BY <1>1 DEF ExposedInv, Told
<1>4. RetiredInv' BY <1>1 DEF RetiredInv, Told
<1>5. NoSilentDoubleInjection' BY DEF NoSilentDoubleInjection
<1> QED BY <1>2, <1>3, <1>4, <1>5 DEF LegacyInv

\* The end of a transaction.
LEMMA FinishLegacy ==
    ASSUME MachineOK, ControlInv, LegacyInv, Finish
    PROVE  LegacyInv'
<1>1. /\ txn.at = "done" /\ txn' = Idle /\ UNCHANGED <<open, legacy, receipt>> /\ known' = Told
  BY DEF Finish, machine, At, Told
<1>2. "done" \notin Migrating \cup UndoesLegacy \cup Replacing \cup UndoesOpen
  BY DEF Migrating, Replacing, Parking, UndoesOpen, UndoesLegacy, Files
<1>3. Exposed' = Exposed /\ BothInject' = BothInject
  BY <1>1 DEF Exposed, BothInject, Owned, OpenRuns
<1>4. Exposed => Told BY <1>1, <1>2 DEF LegacyInv, ExposedInv
<1>5. receipt # None /\ receipt.stage = "stopped" /\ ~Told =>
         legacy.start = "disabled" /\ legacy.run = "stopped"
  BY <1>1, <1>2 DEF LegacyInv, RetiredInv
<1> QED BY <1>1, <1>3, <1>4, <1>5, IdleLegacy DEF LegacyInv, NoSilentDoubleInjection, Told

\* What holds while the user has not been told of anything.
LEMMA Untold ==
    ASSUME ControlInv, LegacyInv, txn.at \in {"idle", "consent"}, ~known
    PROVE  /\ ~Exposed /\ ~BothInject
           /\ receipt # None /\ receipt.stage = "stopped" =>
                 legacy.start = "disabled" /\ legacy.run = "stopped"
<1>1. txn.fault = {} BY DEF ControlInv, FaultInv, UndoesLegacy
<1> QED BY <1>1
        DEF LegacyInv, ExposedInv, RetiredInv, NoSilentDoubleInjection, Told, Migrating, Replacing,
            Parking, UndoesOpen, UndoesLegacy, Files

\* The broker is killed.
LEMMA CrashLegacy ==
    ASSUME ControlInv, LegacyInv, Crash
    PROVE  LegacyInv'
<1>1. /\ txn' = Idle /\ UNCHANGED <<open, legacy, receipt>>
      /\ ~known' => ~known /\ txn.at \in {"idle", "consent"}
  BY DEF Crash, machine, At
<1>2. Exposed' = Exposed /\ BothInject' = BothInject
  BY <1>1 DEF Exposed, BothInject, Owned, OpenRuns
<1> QED BY <1>1, <1>2, Untold, IdleLegacy

\* The machine starts again, and with it whatever is enabled.
LEMMA BootFacts ==
    ASSUME MachineOK, Boot
    PROVE  /\ txn' = Idle /\ UNCHANGED <<store, env, begun, receipt, pins>> /\ Trouble
           /\ legacy' \in Legacy /\ legacy'.here = legacy.here /\ legacy'.start = legacy.start
           /\ legacy'.run = "running" <=> legacy.here /\ legacy.start = "auto"
           /\ open' \in Open /\ open'.image = open.image
           /\ open'.run \in {"running", "ready"} => Owned
           /\ known' = (known \/ (Busy /\ ~At("consent")))
<1>1. PICK first \in BOOLEAN :
        LET late == legacy.here /\ legacy.start = "auto"
        IN /\ legacy' = [legacy EXCEPT !.run = IF late THEN "running" ELSE "stopped"]
           /\ open' = IF HostStarts /\ (late => first)
                      THEN [open EXCEPT !.run = "ready", !.loaded = store.active] ELSE Halted
  BY DEF Boot
<1>2. /\ legacy' \in Legacy /\ legacy'.here = legacy.here /\ legacy'.start = legacy.start
      /\ legacy'.run = "running" <=> legacy.here /\ legacy.start = "auto"
  BY <1>1 DEF MachineOK, Legacy
<1>3. /\ open' \in Open /\ open'.image = open.image
      /\ open'.run \in {"running", "ready"} => Owned
  <2>1. CASE open' = Halted BY <2>1, HaltedService DEF MachineOK
  <2>2. CASE HostStarts /\ open' = [open EXCEPT !.run = "ready", !.loaded = store.active]
    BY <2>2 DEF HostStarts, MachineOK, Open, Store
  <2> QED BY <1>1, <2>1, <2>2
<1> QED BY <1>2, <1>3 DEF Boot, Apart
LEMMA BootLegacy ==
    ASSUME MachineOK, ControlInv, LegacyInv, Boot
    PROVE  LegacyInv'
<1>1. ~known' => ~known /\ txn.at \in {"idle", "consent"} BY BootFacts DEF Busy, At
<1>2. /\ Exposed' = Exposed
      /\ BothInject' => Exposed
      /\ legacy'.run = "stopped" \/ legacy'.start = "auto"
  BY BootFacts DEF Exposed, BothInject, Owned, OpenRuns, Legacy
<1> QED BY <1>1, <1>2, BootFacts, Untold, IdleLegacy

\* Outside events while a transaction goes on.
Meddling == OpenDies \/ EditIni \/ OtherMode \/ Hijack
LEMMA MeddlingFacts ==
    ASSUME MachineOK, CountOK, Meddling
    PROVE  /\ MachineOK' /\ Meddled /\ Trouble /\ env' \in {"clear", "appinit", "tray"}
           /\ UNCHANGED <<store, begun, receipt, pins, known>>
           /\ legacy'.here = legacy.here /\ legacy'.start = legacy.start /\ legacy'.run = legacy.run
           /\ Owned' => Owned
           /\ OpenRuns' => OpenRuns
<1>1. CASE OpenDies
  BY <1>1, HaltedService DEF OpenDies, Apart, MachineOK, PinsOK, Owned, OpenRuns, CountOK
<1>2. CASE EditIni
  <2>1. legacy \in Legacy BY DEF MachineOK
  <2>2. LET l == [legacy EXCEPT !.ini = "two"]
        IN l \in Legacy /\ l.here = legacy.here /\ l.start = legacy.start /\ l.run = legacy.run
    BY <2>1 DEF Legacy
  <2> QED BY <1>2, <2>2 DEF EditIni, Apart, MachineOK, PinsOK, Owned, OpenRuns, CountOK
<1>3. CASE OtherMode BY <1>3 DEF OtherMode, Apart, MachineOK, PinsOK, Owned, OpenRuns
<1>4. CASE Hijack
  <2>1. open' = [open EXCEPT !.image = "foreign"] /\ open.image = None BY <1>4 DEF Hijack
  <2>2. open' \in Open /\ open'.image = "foreign" /\ open'.run = open.run
    BY <2>1 DEF MachineOK, Open
  <2>3. ~Owned BY <2>1, NoneAssumption DEF Owned
  <2> QED BY <1>4, <2>2, <2>3
             DEF Hijack, Apart, MachineOK, PinsOK, Owned, OpenRuns, Version, CountOK
<1> QED BY <1>1, <1>2, <1>3, <1>4 DEF Meddling

LEMMA OtherSetupFacts ==
    ASSUME MachineOK, NEW p \in Profile, OtherSetup(p)
    PROVE  /\ MachineOK' /\ Meddled /\ Trouble
           /\ \E verb \in {"publish", "install", "upgrade"} : VerbKeeps(verb)
           /\ UNCHANGED <<legacy, env, begun, receipt, pins>>
           /\ known' = (known \/ LegacyBlocks \/ txn.kind = "migrate")
<1>1. \E verb \in {"publish", "install", "upgrade"} : Works(verb, p)
  BY DEF OtherSetup, Works, Succeeds
<1>2. PICK verb \in {"publish", "install", "upgrade"} : Works(verb, p) BY <1>1
<1>3. VerbKeeps(verb) BY <1>2, VerbEffect DEF Verbs
<1>4. MachineOK' BY <1>3 DEF OtherSetup, Apart, MachineOK, VerbKeeps, PinsOK
<1> QED BY <1>3, <1>4 DEF OtherSetup, Apart

LEMMA LegacyStartsFacts ==
    ASSUME MachineOK, LegacyStarts
    PROVE  /\ MachineOK' /\ Meddled /\ Trouble
           /\ UNCHANGED <<open, store, env, known, begun, receipt, pins>>
           /\ legacy'.here = legacy.here /\ legacy'.start = legacy.start
           /\ legacy'.run = "running" /\ legacy.start = "auto" /\ ~OpenRuns
<1>1. legacy \in Legacy BY DEF MachineOK
<1>2. LET l == [legacy EXCEPT !.run = "running"]
      IN l \in Legacy /\ l.here = legacy.here /\ l.start = legacy.start /\ l.run = "running"
  BY <1>1 DEF Legacy
<1> QED BY <1>2 DEF LegacyStarts, Apart, MachineOK, PinsOK, Owned, OpenRuns

\* A change that leaves the legacy service as it is and does not start the open one.
LEMMA MeddledLegacy ==
    ASSUME ControlInv, LegacyInv, Meddled, receipt' = receipt, known => known',
           legacy'.here = legacy.here, legacy'.start = legacy.start, legacy'.run = legacy.run,
           OpenRuns' => OpenRuns,
           Owned' => Owned \/ known' \/ (txn.kind # "migrate" /\ ~(legacy.here /\ legacy.start = "auto"))
    PROVE  LegacyInv'
<1>0. Same /\ (txn.at # "idle" => txn'.meddled) BY MeddledControl
<1>1. Told => Told' BY <1>0 DEF Told, Same
<1>5. /\ "idle" \notin Migrating \cup Replacing \cup UndoesOpen \cup UndoesLegacy \cup Late \cup StartsAfter
      /\ Late \subseteq Migrating
  BY DEF Migrating, Replacing, Parking, UndoesOpen, UndoesLegacy, Files, Late, StartsAfter
<1>6. txn.at \in Migrating => txn.kind = "migrate" BY DEF ControlInv, PlaceInv
<1>2. ReceiptInv' BY <1>0 DEF LegacyInv, ReceiptInv, Same
<1>3. ExposedInv'
  <2>1. (Exposed /\ ~(txn.at \in Migrating) => Told)'
    BY <1>0, <1>1 DEF LegacyInv, ExposedInv, Exposed, Told, Same
  <2>2. txn'.kind = "migrate" /\ txn'.snap # None /\ txn'.snap.inst # "absent" => known'
    BY <1>0 DEF LegacyInv, ExposedInv, Same
  <2>3. (txn.at \in Late /\ txn.snap.inst = "absent" /\ Owned => Told)'
    BY <1>0, <1>1, <1>5, <1>6 DEF LegacyInv, ExposedInv, Told, Same, Late
  <2> QED BY <1>0, <2>1, <2>2, <2>3 DEF LegacyInv, ExposedInv, Same, Late
<1>4. RetiredInv' BY <1>0, <1>1, <1>5 DEF LegacyInv, RetiredInv, Same, StartsAfter
<1>7. NoSilentDoubleInjection'
  BY <1>0, <1>1 DEF LegacyInv, NoSilentDoubleInjection, BothInject, Told, Same
<1> QED BY <1>2, <1>3, <1>4, <1>7 DEF LegacyInv

LEMMA OutsideLegacy ==
    ASSUME MachineOK, CountOK, ControlInv, LegacyInv, Outside
    PROVE  LegacyInv'
<1>1. CASE Crash BY <1>1, CrashLegacy
<1>2. CASE Boot BY <1>2, BootLegacy
<1>3. CASE Meddling BY <1>3, MeddlingFacts, MeddledLegacy
<1>4. ASSUME NEW p \in Profile, OtherSetup(p) PROVE LegacyInv'
  <2>1. /\ OpenRuns' => OpenRuns
        /\ known' = (known \/ LegacyBlocks \/ txn.kind = "migrate")
    BY <1>4, OtherSetupFacts DEF VerbKeeps
  <2>2. legacy.here /\ legacy.start = "auto" => LegacyBlocks BY DEF LegacyBlocks, Retired
  <2> QED BY <1>4, <2>1, <2>2, OtherSetupFacts, MeddledLegacy
<1>5. CASE LegacyStarts
  <2>0. Same /\ (txn.at # "idle" => txn'.meddled) BY <1>5, LegacyStartsFacts, MeddledControl
  <2>1. Told' = Told /\ Owned' = Owned /\ OpenRuns' = OpenRuns
    BY <1>5, <2>0, LegacyStartsFacts DEF Told, Same, Owned, OpenRuns
  <2>2. ReceiptInv' BY <1>5, <2>0, LegacyStartsFacts DEF LegacyInv, ReceiptInv, Same
  <2>3. ExposedInv' BY <1>5, <2>0, <2>1, LegacyStartsFacts DEF LegacyInv, ExposedInv, Exposed, Same
  <2>4. txn.at \notin StartsAfter
    BY <1>5, LegacyStartsFacts DEF LegacyInv, ReceiptInv, StartsAfter, Replacing
  <2>5. RetiredInv'
    BY <1>5, <2>0, <2>1, <2>4, LegacyStartsFacts DEF LegacyInv, RetiredInv, Same, StartsAfter
  <2>6. NoSilentDoubleInjection'
    BY <1>5, <2>1, LegacyStartsFacts DEF NoSilentDoubleInjection, BothInject
  <2> QED BY <2>2, <2>3, <2>5, <2>6 DEF LegacyInv
<1> QED BY <1>1, <1>2, <1>3, <1>4, <1>5 DEF Outside, Meddling

-----------------------------------------------------------------------------
(***************************************************************************)
(* Types, places and the legacy service, over every step                   *)
(***************************************************************************)
BaseInv == MachineOK /\ CountOK /\ ControlInv /\ LegacyInv

\* A step of a transaction that has begun.
Within == Entering \/ Forward \/ Undo \/ RemoveLegacy \/ Republish
LEMMA WithinKeeps ==
    ASSUME BaseInv, Within PROVE BaseInv' /\ Tick /\ txn.at # "idle"
<1>0. MachineOK /\ CountOK /\ ControlInv /\ LegacyInv /\ ReceiptInv BY DEF BaseInv, LegacyInv
<1>1. CASE Entering
  <2>1. ControlInv'
    BY <1>0, <1>1, ElevateControl, PlainVerbControl, PrepareBackupControl, CaptureControl,
       HoldControl, PubReadControl DEF Entering
  <2>2. MachineOK' BY <1>0, <1>1, EntryMachine
  <2>3. CountOK' /\ Tick /\ txn.at # "idle" BY <1>0, <1>1, EntryTicks, TickCounts
  <2>4. LegacyInv' BY <1>0, <1>1, EntryLegacy
  <2> QED BY <2>1, <2>2, <2>3, <2>4 DEF BaseInv
<1>2. CASE Forward
  <2>1. ControlInv' BY <1>0, <1>2, ForwardMoves, MigrationMoveKeeps
  <2>2. MachineOK' BY <1>0, <1>2, ForwardMachine
  <2>3. CountOK' /\ Tick /\ txn.at # "idle" BY <1>0, <1>2, ForwardTicks, TickCounts
  <2>4. LegacyInv' BY <1>0, <1>2, ForwardLegacy
  <2> QED BY <2>1, <2>2, <2>3, <2>4 DEF BaseInv
<1>3. CASE Undo
  <2>1. ControlInv' BY <1>0, <1>3, UndoMoves, MigrationMoveKeeps
  <2>2. MachineOK' BY <1>0, <1>3, UndoMachine
  <2>3. CountOK' /\ Tick /\ txn.at # "idle" BY <1>0, <1>3, UndoTicks, TickCounts
  <2>4. txn.at \in UndoesOpen \cup UndoesLegacy
    <3> USE DEF At, UndoesOpen, UndoesLegacy
    <3>1. ASSUME NEW f \in Files, UndoFile(f) PROVE txn.at \in UndoesOpen BY <3>1 DEF UndoFile
    <3> QED BY <1>3, <3>1
          DEF Undo, UndoOpen, UndoStop, UndoRemove, UndoRuntime, UndoStart, UndoPin, UndoRoots,
              UndoLegacy, UndoPark, UndoIni, UndoConfig, UndoTray, UndoRun, UndoNote
  <2>5. LegacyInv' BY <1>0, <1>3, <2>4, UndoOpenSteps, UndoLegacySteps
  <2> QED BY <2>1, <2>2, <2>3, <2>5 DEF BaseInv
<1>4. CASE RemoveLegacy
  <2>1. ControlInv' BY <1>0, <1>4, RemovalMoves, RemovalMoveKeeps
  <2>2. MachineOK' BY <1>0, <1>4, RemovalMachine
  <2>3. CountOK' /\ Tick /\ txn.at # "idle" BY <1>0, <1>4, RemovalTicks, TickCounts
  <2>4. LegacyInv' BY <1>0, <1>4, RemovalLegacy
  <2> QED BY <2>1, <2>2, <2>3, <2>4 DEF BaseInv
<1>5. CASE Republish
  <2>1. ControlInv' BY <1>0, <1>5, PublicationMoves, PublicationMoveKeeps
  <2>2. MachineOK' BY <1>0, <1>5, PublicationMachine
  <2>3. CountOK' /\ Tick /\ txn.at # "idle" BY <1>0, <1>5, PublicationTicks, TickCounts
  <2>4. LegacyInv' BY <1>0, <1>5, PublicationLegacy
  <2> QED BY <2>1, <2>2, <2>3, <2>4 DEF BaseInv
<1> QED BY <1>1, <1>2, <1>3, <1>4, <1>5 DEF Within

\* A transaction begins.
LEMMA RequestKeeps ==
    ASSUME BaseInv, NEW kind \in Kinds, NEW p \in Optional(Profile), Request(kind, p)
    PROVE  BaseInv'
<1>1. UNCHANGED <<open, store, pins, legacy, receipt, env, known, trouble>> /\ begun' = begun + 1
      /\ begun < MaxBegun
  BY DEF Request, machine
<1>2. begun \in Nat BY BoundAssumption DEF BaseInv, CountOK
<1>3. MachineOK'
  <2>1. \A pin \in pins : pin.by \in 1 .. (begun + 1)
    BY <1>2 DEF BaseInv, MachineOK, PinsOK
  <2> QED BY <1>1, <2>1 DEF BaseInv, MachineOK, PinsOK, OpenRuns, Owned
<1>4. CountOK' BY <1>1, <1>2, BoundAssumption DEF BaseInv, CountOK
<1>5. ControlInv' BY RequestControl DEF BaseInv
<1>6. LegacyInv' BY RequestLegacy DEF BaseInv
<1> QED BY <1>3, <1>4, <1>5, <1>6 DEF BaseInv

\* A transaction ends, or is cut short.
Stopping == Finish \/ Crash \/ Boot
LEMMA StoppingKeeps ==
    ASSUME BaseInv, Stopping PROVE BaseInv' /\ txn' = Idle
<1>0. MachineOK /\ CountOK /\ ControlInv /\ LegacyInv BY DEF BaseInv
<1>1. txn' = Idle BY DEF Stopping, Finish, Crash, Boot
<1>2. ControlInv' /\ txn'.at = "idle" BY <1>1, IdleControl
<1>3. LegacyInv' BY <1>0, FinishLegacy, CrashLegacy, BootLegacy DEF Stopping
<1>4. CASE Finish \/ Crash
  <2>1. /\ UNCHANGED <<open, store, pins, legacy, receipt, env, begun>> /\ known' \in BOOLEAN
        /\ trouble' = trouble \/ Trouble
    BY <1>4 DEF Finish, Crash, machine
  <2>2. MachineOK' BY <1>0, <2>1 DEF MachineOK, PinsOK, OpenRuns, Owned
  <2>3. CountOK' BY <1>0, <1>2, <2>1, BoundAssumption DEF CountOK, Trouble
  <2> QED BY <1>1, <1>2, <1>3, <2>2, <2>3 DEF BaseInv
<1>5. CASE Boot
  <2>1. /\ UNCHANGED <<store, env, begun, receipt, pins>> /\ Trouble /\ known' \in BOOLEAN
        /\ legacy' \in Legacy /\ open' \in Open /\ open'.image = open.image
        /\ open'.run \in {"running", "ready"} => Owned
    BY <1>0, <1>5, BootFacts
  <2>2. MachineOK' BY <1>0, <2>1 DEF MachineOK, PinsOK, OpenRuns, Owned
  <2>3. CountOK' BY <1>0, <1>2, <2>1, BoundAssumption DEF CountOK, Trouble
  <2> QED BY <1>1, <1>2, <1>3, <2>2, <2>3 DEF BaseInv
<1> QED BY <1>4, <1>5 DEF Stopping

\* Somebody meddles.
Disturbing == Meddling \/ LegacyStarts \/ \E p \in Profile : OtherSetup(p)
LEMMA DisturbingKeeps ==
    ASSUME BaseInv, Disturbing
    PROVE  /\ BaseInv' /\ Same /\ UNCHANGED <<begun, receipt, pins>>
           /\ txn.at # "idle" => txn'.meddled
           /\ store' = store \/ \E verb \in {"publish", "install", "upgrade"} : VerbKeeps(verb)
           /\ legacy'.here = legacy.here /\ legacy'.start = legacy.start
           /\ legacy'.run = legacy.run \/ legacy.start = "auto"
<1>0. MachineOK /\ CountOK /\ ControlInv /\ LegacyInv BY DEF BaseInv
<1>1. /\ MachineOK' /\ Meddled /\ Trouble /\ env' \in {"clear", "appinit", "tray"}
      /\ UNCHANGED <<begun, receipt, pins>> /\ known' \in BOOLEAN
      /\ store' = store \/ \E verb \in {"publish", "install", "upgrade"} : VerbKeeps(verb)
      /\ legacy'.here = legacy.here /\ legacy'.start = legacy.start
      /\ legacy'.run = legacy.run \/ legacy.start = "auto"
  <2>1. CASE Meddling BY <1>0, <2>1, MeddlingFacts DEF CountOK
  <2>2. CASE LegacyStarts BY <1>0, <2>2, LegacyStartsFacts DEF CountOK
  <2>3. ASSUME NEW p \in Profile, OtherSetup(p)
        PROVE  /\ MachineOK' /\ Meddled /\ Trouble /\ env' \in {"clear", "appinit", "tray"}
               /\ UNCHANGED <<begun, receipt, pins, legacy>> /\ known' \in BOOLEAN
               /\ \E verb \in {"publish", "install", "upgrade"} : VerbKeeps(verb)
    BY <1>0, <2>3, OtherSetupFacts DEF CountOK
  <2> QED BY <2>1, <2>2, <2>3 DEF Disturbing
<1>2. ControlInv' /\ Same /\ (txn.at # "idle" => txn'.meddled) BY <1>0, <1>1, MeddledControl
<1>3. CountOK' BY <1>0, <1>1, <1>2, BoundAssumption DEF CountOK, Trouble, Same
<1>4. LegacyInv' BY <1>0, OutsideLegacy DEF Disturbing, Meddling, Outside
<1> QED BY <1>1, <1>2, <1>3, <1>4 DEF BaseInv

\* Every step is one of these.
LEMMA StepsAre ==
    ASSUME Next
    PROVE  \/ Within \/ Stopping \/ Disturbing
           \/ \E kind \in Kinds, p \in Optional(Profile) : Request(kind, p)
  BY DEF Next, Within, Stopping, Disturbing, Migrate, PublishProfile, Outside, Entering, Forward,
         Republish, Meddling
LEMMA BaseStep ==
    ASSUME BaseInv, [Next]_vars PROVE BaseInv'
<1>1. CASE UNCHANGED vars
  BY <1>1
     DEF vars, BaseInv, MachineOK, PinsOK, CountOK, ControlInv, TxnOK, PlaceInv, FaultInv, SnapInv,
          BadInv, LegacyInv, ReceiptInv, ExposedInv, RetiredInv, NoSilentDoubleInjection, BothInject,
          Exposed, Told, OpenRuns, Owned
<1>2. CASE Next BY <1>2, StepsAre, WithinKeeps, RequestKeeps, StoppingKeeps, DisturbingKeeps
<1> QED BY <1>1, <1>2
LEMMA BaseInit ==
    ASSUME Init PROVE BaseInv
<1> USE DEF Init
<1>0. txn = Idle OBVIOUS
<1>t. txn.at = "idle" /\ txn.kind = "none" /\ txn.snap = None /\ txn.fault = {} /\ ~txn.meddled
  BY <1>0 DEF Idle
<1>1. PICK image \in Optional(Version), pointer \in Optional(Version),
           active \in Optional(Profile), run \in {"stopped", "ready"} :
         /\ image # None => image = pointer
         /\ run = "ready" => /\ image # None /\ active # None
                             /\ legacy.run = "stopped"
         /\ open = [image |-> image, run |-> run,
                    loaded |-> IF run = "ready" THEN active ELSE None]
         /\ \E previous \in Optional(Profile) :
              /\ previous # None => active # None /\ previous # active
              /\ store = [pointer |-> pointer, active |-> active, previous |-> previous,
                          gens |-> {pointer} \ {None}, receipts |-> {pointer} \ {None},
                          profiles |-> {active, previous} \ {None},
                          copy |-> [v \in Version |-> IF v = pointer THEN active ELSE None],
                          root |-> pointer # None]
  BY Zenon
<1>2. open \in Open /\ (OpenRuns => Owned /\ legacy.run = "stopped")
  BY <1>1 DEF Open, OpenRuns, Owned, Optional
<1>3. store \in Store
  <2>1. PICK previous \in Optional(Profile) :
              store = [pointer |-> pointer, active |-> active, previous |-> previous,
                       gens |-> {pointer} \ {None}, receipts |-> {pointer} \ {None},
                       profiles |-> {active, previous} \ {None},
                       copy |-> [v \in Version |-> IF v = pointer THEN active ELSE None],
                       root |-> pointer # None]
    BY <1>1
  <2>2. /\ {pointer} \ {None} \in SUBSET Version /\ {active, previous} \ {None} \in SUBSET Profile
        /\ [v \in Version |-> IF v = pointer THEN active ELSE None] \in [Version -> Optional(Profile)]
        /\ (pointer # None) \in BOOLEAN
    BY DEF Optional
  <2> QED BY <2>1, <2>2 DEF Store
<1>4. MachineOK BY <1>2, <1>3 DEF MachineOK, PinsOK
<1>5. CountOK BY <1>t, BoundAssumption DEF CountOK
<1>6. ControlInv
  BY <1>0 DEF Idle, Optional, ControlInv, TxnOK, PlaceInv, FaultInv, SnapInv, BadInv, Steps,
     Kinds, Migrating, Replacing, Parking, UndoesOpen, UndoesLegacy, Publishing, Files, Removing, Given
<1>7. LegacyInv
  <2> USE DEF Migrating, Replacing, Parking, UndoesOpen, UndoesLegacy, Publishing, Files
  <2>1. ReceiptInv BY <1>t DEF ReceiptInv
  <2>2. Owned => open.image # None BY NoneAssumption DEF Owned
  <2>3. ExposedInv BY <1>t, <2>2 DEF ExposedInv, Exposed, Told
  <2>4. RetiredInv BY <1>t DEF RetiredInv
  <2>5. NoSilentDoubleInjection BY <1>2 DEF NoSilentDoubleInjection, BothInject
  <2> QED BY <2>1, <2>3, <2>4, <2>5 DEF LegacyInv
<1> QED BY <1>4, <1>5, <1>6, <1>7 DEF BaseInv

-----------------------------------------------------------------------------
(***************************************************************************)
(* The pin of a migration                                                  *)
(***************************************************************************)
\* Where the pin still holds the runtimes, and where the files are still there.
PinHeld == Migrating \ (UndoesLegacy \cup {"undoRoots"})
RootHeld == Migrating \ UndoesLegacy
\* A step that drops none of the pinned files.
Spares ==
    /\ store.gens \cap Pinned \cap txn.snap.store.gens \subseteq store'.gens
    /\ store.profiles \cap txn.snap.store.profiles \subseteq store'.profiles
    /\ store.root => store'.root

LEMMA SparesNothing == ASSUME store' = store PROVE Spares
  BY DEF Spares
LEMMA SparesVerb == ASSUME NEW verb, VerbKeeps(verb) PROVE Spares
  BY DEF Spares, VerbKeeps
LEMMA SparesSetup ==
    ASSUME MachineOK, NEW verb \in Verbs, NEW l, NEW m, verb = "publish" => txn.want \in Profile,
           SetupRow(verb, l, m) \/ FaultRow(verb, l, m)
    PROVE  Spares
  BY SetupKeeps, SparesVerb

\* A migration keeps its pin until its rollback has settled the open service.
LEMMA PinKept ==
    ASSUME PinInv, txn'.snap = txn.snap, begun' = begun, Spares,
           txn'.at \in PinHeld => txn.at \in PinHeld /\ pins' = pins,
           txn'.at \in RootHeld => txn.at \in RootHeld
    PROVE  PinInv'
<1>1. txn.at \in PinHeld => txn.snap.store.gens \subseteq store.gens \cap Pinned
  BY DEF PinInv, PinHeld, Pinned
<1>2. txn'.at \in PinHeld =>
        /\ txn.snap.store.gens \subseteq store'.gens
        /\ txn.snap.store.gens # {} =>
              \E pin \in pins' : pin.by = begun /\ DOMAIN pin.runtimes = txn.snap.store.gens
  BY <1>1 DEF Spares, PinInv, PinHeld
<1>3. txn'.at \in RootHeld =>
        /\ txn.snap.store.profiles \subseteq store'.profiles
        /\ txn.snap.store.root => store'.root
  BY DEF Spares, PinInv, RootHeld
<1> QED BY <1>2, <1>3 DEF PinInv, PinHeld, RootHeld
LEMMA PinElsewhere ==
    ASSUME txn'.at \notin Migrating PROVE PinInv'
  BY DEF PinInv

LEMMA ForwardPin ==
    ASSUME BaseInv, PinInv, Forward PROVE PinInv'
<1> DEFINE Goal == /\ Spares
                   /\ txn'.at \in PinHeld => txn.at \in PinHeld /\ pins' = pins
                   /\ txn'.at \in RootHeld => txn.at \in RootHeld
<1>0. /\ TxnOK /\ MachineOK /\ ControlInv
      /\ txn.at \in Replacing => txn.want \in Profile
  BY GivenProfile, Places DEF BaseInv
<1>h. /\ Parking \cup {"noteStop"} \cup Replacing \subseteq PinHeld
      /\ Parking \cup {"noteStop"} \cup Replacing \subseteq RootHeld
      /\ "done" \notin PinHeld /\ "done" \notin RootHeld
  BY DEF Parking, Replacing, PinHeld, RootHeld, Migrating, UndoesOpen, UndoesLegacy, Files
<1> USE DEF Verbs, At, Parking, Replacing, GoesOn, FailsTo, Becomes, Inner, Nothing, machine
<1>1. ASSUME StopLegacy PROVE Goal BY <1>0, <1>h, <1>1, StopLegacyRow, SparesNothing
<1>2. ASSUME Park PROVE Goal BY <1>0, <1>h, <1>2, ParkRow, SparesNothing
<1>3. ASSUME NoteStop PROVE Goal BY <1>0, <1>h, <1>3, NoteStopRow, SparesNothing
<1>4. ASSUME PublishCheck PROVE Goal BY <1>0, <1>h, <1>4, PublishCheckRow, SparesNothing
<1>5. ASSUME PublishStop PROVE Goal
  BY <1>0, <1>h, <1>5, PublishStopRow, SparesSetup DEF SetupRow, Outer
<1>6. ASSUME Publish PROVE Goal BY <1>0, <1>h, <1>6, PublishRow, SparesSetup DEF SetupRow, Outer
<1>7. ASSUME RecordPublish PROVE Goal BY <1>0, <1>h, <1>7, RecordPublishRow, SparesNothing
<1>8. ASSUME ActivateCheck PROVE Goal BY <1>0, <1>h, <1>8, ActivateCheckRow, SparesNothing
<1>9. ASSUME Activate PROVE Goal BY <1>0, <1>h, <1>9, ActivateRow, SparesSetup DEF SetupRow, Outer
<1>10. ASSUME Start PROVE Goal BY <1>0, <1>h, <1>10, StartRow, SparesSetup DEF SetupRow, Outer
<1>11. ASSUME RecordStart PROVE Goal BY <1>0, <1>h, <1>11, RecordStartRow, SparesNothing
<1>12. ASSUME WaitReady PROVE Goal BY <1>0, <1>h, <1>12, WaitReadyRow, SparesNothing
<1>13. ASSUME Smoke PROVE Goal BY <1>0, <1>h, <1>13, SmokeRow, SparesNothing
<1>14. ASSUME Complete PROVE Goal BY <1>0, <1>h, <1>14, CompleteRow, SparesNothing
<1> HIDE DEF Goal
<1>15. CASE Goal BY <1>0, <1>15, ForwardMoves, ForwardTicks, PinKept DEF Goal, MigrationMove, Tick
<1> QED BY <1>1, <1>2, <1>3, <1>4, <1>5, <1>6, <1>7, <1>8, <1>9, <1>10, <1>11, <1>12, <1>13, <1>14,
           <1>15 DEF Forward

LEMMA UndoPins ==
    ASSUME BaseInv, PinInv, Undo PROVE PinInv'
<1> DEFINE Goal == /\ Spares
                   /\ txn'.at \in PinHeld => txn.at \in PinHeld /\ pins' = pins
                   /\ txn'.at \in RootHeld => txn.at \in RootHeld
<1>0. TxnOK /\ MachineOK /\ ControlInv /\ store \in Store
  BY GivenProfile DEF BaseInv, MachineOK
<1>h. /\ UndoesOpen \ {"undoRoots"} \subseteq PinHeld /\ UndoesOpen \subseteq RootHeld
      /\ \A l \in UndoesLegacy \cup {"done"} : l \notin PinHeld /\ l \notin RootHeld
      /\ "undoRoots" \notin PinHeld
  BY DEF Parking, Replacing, PinHeld, RootHeld, Migrating, UndoesOpen, UndoesLegacy, Files
<1> USE DEF Verbs, At, GoesOn, FaultsTo, Becomes, Inner, Nothing, machine, UndoesOpen
<1>1. ASSUME UndoOpen PROVE Goal BY <1>0, <1>h, <1>1, UndoOpenRow, SparesNothing
<1>2. ASSUME UndoStop PROVE Goal
  BY <1>0, <1>h, <1>2, UndoStopRow, SparesSetup DEF FaultRow, Outer
<1>3. ASSUME UndoRemove PROVE Goal
  BY <1>0, <1>h, <1>3, UndoRemoveRow, SparesSetup, SparesNothing DEF FaultRow, Outer
<1>4. ASSUME NEW f \in Files, UndoFile(f) PROVE Goal
  <2>1. txn.snap \in Snap BY <1>0, <1>4, UndoFileRow, GivenProfile DEF Migrating
  <2>2. CASE store' = PutBack(f)
    <3>1. Spares BY <1>0, <2>1, <2>2, PutBackFiles DEF Spares
    <3> QED BY <1>0, <1>h, <1>4, <3>1, UndoFileRow, NextFile DEF Outer, Files
  <2>3. CASE store' = store
    BY <1>0, <1>h, <1>4, <2>3, UndoFileRow, NextFile, SparesNothing DEF Outer, Files
  <2> QED BY <1>0, <1>4, <2>2, <2>3, UndoFileRow
<1>5. ASSUME UndoRuntime PROVE Goal
  BY <1>0, <1>h, <1>5, UndoRuntimeRow, SparesSetup, SparesNothing DEF FaultRow, Outer
<1>6. ASSUME UndoStart PROVE Goal
  BY <1>0, <1>h, <1>6, UndoStartRow, SparesSetup DEF FaultRow, Outer
<1>7. ASSUME UndoPin PROVE Goal BY <1>0, <1>h, <1>7, UndoPinRow, SparesNothing
<1>8. ASSUME UndoRoots PROVE Goal
  BY <1>0, <1>h, <1>8, UndoRootsRow, SparesNothing DEF UndoesLegacy
<1>9. ASSUME UndoLegacy \/ UndoPark \/ UndoIni \/ UndoConfig \/ UndoTray \/ UndoRun \/ UndoNote
      PROVE  Goal
  <2>1. store' = store /\ txn'.at \in UndoesLegacy \cup {"done"}
    BY <1>0, <1>9, UndoLegacyRow, UndoParkRow, UndoIniRow, UndoConfigRow, UndoTrayRow, UndoRunRow,
       UndoNoteRow DEF UndoesLegacy
  <2> QED BY <1>h, <2>1, SparesNothing
<1> HIDE DEF Goal
<1>10. CASE Goal BY <1>0, <1>10, UndoMoves, UndoTicks, PinKept DEF Goal, MigrationMove, Tick
<1> QED BY <1>1, <1>2, <1>3, <1>4, <1>5, <1>6, <1>7, <1>8, <1>9, <1>10 DEF Undo

LEMMA CapturePins ==
    ASSUME BaseInv, Capture PROVE PinInv'
<1>0. TxnOK BY GivenProfile DEF BaseInv
<1>1. CASE txn'.at = "done"
  BY <1>1, PinElsewhere DEF Migrating, Replacing, Parking, UndoesOpen, UndoesLegacy, Files
<1>2. CASE txn'.at # "done"
  <2>1. /\ txn'.snap = Snapshot /\ store' = store /\ begun' = begun
        /\ pins' = IF store.gens = {} THEN pins ELSE pins \cup {Pin}
    BY <1>0, <1>2, CaptureRow DEF Becomes, FailsTo, Inner
  <2>2. Snapshot.store = store BY DEF Snapshot
  <2>3. Pin.by = begun /\ DOMAIN Pin.runtimes = store.gens BY DEF Pin
  <2> QED BY <2>1, <2>2, <2>3 DEF PinInv
<1> QED BY <1>1, <1>2

LEMMA PinStep ==
    ASSUME BaseInv, PinInv, Next PROVE PinInv'
<1>0. ControlInv /\ TxnOK /\ MachineOK BY GivenProfile DEF BaseInv
<1>1. CASE Entering /\ ~Capture
  <2>1. Entry \in {"backup", "verify", "pubRead", "hold", "verb"} BY DEF Entry
  <2>2. txn'.at \in {"backup", "verify", "pubRead", "hold", "verb", "capture", "done", "pub", "pubStop"}
    BY <1>0, <1>1, <2>1, ElevateRow, PlainVerbRow, PrepareBackupRow, HoldRow, PubReadRow
       DEF Entering, GoesOn, FailsTo, Becomes, SetupRow
  <2> QED BY <2>2, PinElsewhere DEF Migrating, Replacing, Parking, UndoesOpen, UndoesLegacy, Files
<1>2. CASE RemoveLegacy \/ Republish
  BY <1>0, <1>2, RemovalMoves, PublicationMoves, PinElsewhere
     DEF RemovalMove, PublicationMove, Removing, Publishing, Migrating, Replacing, Parking,
         UndoesOpen, UndoesLegacy, Files
<1>3. CASE Stopping
  BY <1>3, StoppingKeeps, IdleControl, PinElsewhere
     DEF Migrating, Replacing, Parking, UndoesOpen, UndoesLegacy, Files
<1>4. ASSUME NEW kind \in Kinds, NEW p \in Optional(Profile), Request(kind, p) PROVE PinInv'
  BY <1>0, <1>4, RequestControl, PinElsewhere
     DEF Migrating, Replacing, Parking, UndoesOpen, UndoesLegacy, Files
<1>5. CASE Disturbing
  <2>1. Spares BY <1>5, DisturbingKeeps, SparesNothing, SparesVerb
  <2> QED BY <1>5, <2>1, DisturbingKeeps, PinKept DEF Same
<1> QED BY <1>1, <1>2, <1>3, <1>4, <1>5, StepsAre, CapturePins, ForwardPin, UndoPins DEF Within

-----------------------------------------------------------------------------
(***************************************************************************)
(* What a migration and a removal have verified                            *)
(***************************************************************************)
LEMMA ReadyKept ==
    ASSUME UNCHANGED <<open, store>>, txn'.want = txn.want
    PROVE  StrictReady(txn.want) => StrictReady(txn.want)'
  BY DEF StrictReady, Installation, LiveDigest, OpenRuns

\* Steps that reach no verified place.
LEMMA MigratedElsewhere ==
    ASSUME txn'.at \notin {"smoke", "complete", "delete"},
           txn'.at = "done" /\ txn'.kind = "migrate" => txn'.bad
    PROVE  MigratedInv'
  BY DEF MigratedInv

LEMMA ForwardMigrated ==
    ASSUME BaseInv, MigratedInv, Forward PROVE MigratedInv'
<1>0. TxnOK /\ MachineOK /\ ControlInv /\ LegacyInv BY GivenProfile DEF BaseInv
<1> USE DEF At, GoesOn, FailsTo, Becomes, Nothing, Inner, machine
<1>1. CASE WaitReady
  BY <1>0, <1>1, WaitReadyRow, ReadyKept DEF MigratedInv
<1>2. CASE Smoke BY <1>0, <1>2, SmokeRow, ReadyKept DEF MigratedInv
<1>3. CASE Complete
  <2>1. CASE txn'.at = "undoOpen" BY <2>1, MigratedElsewhere
  <2>2. CASE txn'.at # "undoOpen"
    <3>1. /\ txn.at = "complete" /\ txn'.at = "done" /\ pins' = pins \ OwnPins /\ begun' = begun
          /\ UNCHANGED <<open, store, legacy, receipt>> /\ txn'.meddled = txn.meddled
          /\ txn'.want = txn.want
      BY <1>0, <1>3, <2>2, CompleteRow
    <3>2. ~txn.bad /\ legacy.start = "disabled" /\ receipt # None /\ receipt.stage = "stopped"
      BY <1>0, <3>1, MarksOfMigration DEF LegacyInv, ReceiptInv, Replacing, Migrating
    <3>3. legacy.run = "stopped" BY <1>0, <3>1, <3>2 DEF LegacyInv, RetiredInv
    <3>4. OwnPins' = {} BY <3>1 DEF OwnPins
    <3> QED BY <3>1, <3>2, <3>3, <3>4, ReadyKept DEF MigratedInv, Retired
  <2> QED BY <2>1, <2>2
<1>4. CASE Forward /\ ~WaitReady /\ ~Smoke /\ ~Complete
  <2>1. txn'.at \notin {"smoke", "complete", "delete", "done"}
    BY <1>0, <1>4, StopLegacyRow, ParkRow, NoteStopRow, PublishCheckRow, PublishStopRow, PublishRow,
       RecordPublishRow, ActivateCheckRow, ActivateRow, StartRow, RecordStartRow
       DEF Forward, SetupRow
  <2> QED BY <2>1, MigratedElsewhere
<1> QED BY <1>1, <1>2, <1>3, <1>4

LEMMA MigratedStep ==
    ASSUME BaseInv, MigratedInv, Next PROVE MigratedInv'
<1>0. ControlInv /\ TxnOK /\ MachineOK /\ LegacyInv BY GivenProfile DEF BaseInv
<1>1. CASE Entering
  <2>1. Entry \in {"backup", "verify", "pubRead", "hold", "verb"} BY DEF Entry
  <2>2. /\ txn'.at \notin {"smoke", "complete", "delete"}
        /\ txn'.at = "done" => txn'.bad \/ txn.at \in {"verb", "hold"}
        /\ txn'.kind = txn.kind
    BY <1>0, <1>1, <2>1, ElevateRow, PlainVerbRow, PrepareBackupRow, CaptureRow, HoldRow, PubReadRow
       DEF Entering, GoesOn, FailsTo, Becomes, SetupRow, At
  <2>3. txn.at \in {"verb", "hold"} => txn.kind # "migrate"
    BY <1>0 DEF ControlInv, PlaceInv, Plain
  <2> QED BY <2>2, <2>3, MigratedElsewhere
<1>2. CASE Undo
  <2>1. txn'.at \in UndoesOpen \cup UndoesLegacy \cup {"done"} /\ txn'.bad
    <3>1. txn.bad /\ txn.at \in UndoesOpen \cup UndoesLegacy
      <4>1. txn.at \in UndoesOpen \cup UndoesLegacy
        <5> USE DEF At, UndoesOpen, UndoesLegacy
        <5>1. ASSUME NEW f \in Files, UndoFile(f) PROVE txn.at \in UndoesOpen BY <5>1 DEF UndoFile
        <5> QED BY <1>2, <5>1
              DEF Undo, UndoOpen, UndoStop, UndoRemove, UndoRuntime, UndoStart, UndoPin, UndoRoots,
                  UndoLegacy, UndoPark, UndoIni, UndoConfig, UndoTray, UndoRun, UndoNote
      <4> QED BY <1>0, <4>1, MarksOfMigration
    <3> USE DEF GoesOn, FaultsTo, Becomes, FaultRow, UndoesOpen, UndoesLegacy
    <3>2. ASSUME NEW f \in Files, UndoFile(f)
          PROVE txn'.at \in UndoesOpen \cup UndoesLegacy \cup {"done"} /\ txn'.bad
      BY <1>0, <3>1, <3>2, UndoFileRow, NextFile
    <3>3. CASE UndoOpen \/ UndoStop \/ UndoRemove
      BY <1>0, <3>1, <3>3, UndoOpenRow, UndoStopRow, UndoRemoveRow DEF Files
    <3>4. CASE UndoRuntime \/ UndoStart \/ UndoPin \/ UndoRoots
      BY <1>0, <3>1, <3>4, UndoRuntimeRow, UndoStartRow, UndoPinRow, UndoRootsRow
    <3>5. CASE UndoLegacy \/ UndoPark \/ UndoIni \/ UndoConfig
      BY <1>0, <3>1, <3>5, UndoLegacyRow, UndoParkRow, UndoIniRow, UndoConfigRow
    <3>6. CASE UndoTray \/ UndoRun \/ UndoNote
      BY <1>0, <3>1, <3>6, UndoTrayRow, UndoRunRow, UndoNoteRow
    <3> QED BY <1>2, <3>2, <3>3, <3>4, <3>5, <3>6 DEF Undo
  <2> QED BY <2>1, MigratedElsewhere DEF UndoesOpen, UndoesLegacy, Files
<1>3. CASE RemoveLegacy
  <2>1. txn'.kind = "removeLegacy" /\ txn'.at \in Removing \cup {"done"}
    BY <1>0, <1>3, RemovalMoves DEF RemovalMove, Carried, ControlInv, PlaceInv
  <2>2. CASE VerifyAgain /\ txn'.at = "delete"
    <3>1. StrictReady(txn.want)' 
      BY <1>0, <2>2, VerifyAgainRow, ReadyKept DEF GoesOn, FailsTo, Becomes, Nothing, machine
    <3> QED BY <2>1, <2>2, <3>1 DEF MigratedInv
  <2>3. CASE ~(VerifyAgain /\ txn'.at = "delete")
    <3>1. txn'.at # "delete"
      BY <1>0, <1>3, <2>3, VerifyRow, DeleteRow, NoteRemovedRow
         DEF RemoveLegacy, GoesOn, FailsTo, Becomes
    <3> QED BY <2>1, <3>1, MigratedElsewhere DEF Removing
  <2> QED BY <2>2, <2>3
<1>4. CASE Republish
  BY <1>0, <1>4, PublicationMoves, MigratedElsewhere
     DEF PublicationMove, Carried, Publishing, ControlInv, PlaceInv
<1>5. CASE Stopping BY <1>5, StoppingKeeps, IdleControl, MigratedElsewhere
<1>6. ASSUME NEW kind \in Kinds, NEW p \in Optional(Profile), Request(kind, p) PROVE MigratedInv'
  BY <1>0, <1>6, RequestControl, MigratedElsewhere
<1>7. CASE Disturbing
  <2>1. /\ Same /\ UNCHANGED <<begun, receipt, pins>>
        /\ txn.at # "idle" => txn'.meddled
        /\ legacy'.start = legacy.start /\ (legacy'.run = legacy.run \/ legacy.start = "auto")
    BY <1>7, DisturbingKeeps
  <2>2. OwnPins' = OwnPins BY <2>1 DEF OwnPins
  <2> QED BY <2>1, <2>2 DEF MigratedInv, Same, Retired
<1> QED BY <1>1, <1>2, <1>3, <1>4, <1>5, <1>6, <1>7, StepsAre, ForwardMigrated DEF Within

\* The removal: nothing else takes the legacy service away.
LEMMA DeleteOnly ==
    ASSUME BaseInv, MigratedInv, Next, legacy.here, ~legacy'.here
    PROVE  /\ ~LegacyBlocks \/ known
           /\ receipt.stage = "stopped"
           /\ StrictReady(txn.want) \/ txn.meddled
<1>0. ControlInv /\ TxnOK /\ MachineOK /\ LegacyInv BY GivenProfile DEF BaseInv
<1>1. CASE Delete
  <2>1. txn.at = "delete" /\ legacy.run = "stopped"
    BY <1>0, <1>1, DeleteRow DEF At
  <2>2. /\ receipt # None /\ receipt.stage = "stopped" /\ txn.fault = {}
        /\ StrictReady(txn.want) \/ txn.meddled
    BY <1>0, <2>1
       DEF LegacyInv, ReceiptInv, MigratedInv, ControlInv, FaultInv, PlaceInv, Removing
  <2>3. Retired \/ known
    BY <1>0, <2>1, <2>2 DEF LegacyInv, RetiredInv, Told, Retired, UndoesLegacy, Replacing
  <2> QED BY <2>2, <2>3 DEF LegacyBlocks
<1>2. CASE Within /\ ~Delete
  <2> USE DEF Inner, Outer, Nothing, machine, SetupRow, FaultRow
  <2>1. CASE Entering
    BY <1>0, <2>1, ElevateRow, PlainVerbRow, PrepareBackupRow, CaptureRow, HoldRow, PubReadRow
       DEF Entering
  <2>2. CASE Republish
    BY <1>0, <2>2, PubStopRow, PubRow, PubRestartRow, PubActivateRow, PubStartRow, PubWaitRow,
       PubUndoStopRow, PubUndoProfileRow, PubUndoLastRow DEF Republish
  <2>3. CASE RemoveLegacy
    BY <1>0, <1>2, <2>3, VerifyRow, VerifyAgainRow, NoteRemovedRow DEF RemoveLegacy
  <2>4. CASE Forward
    <3>1. legacy \in Legacy /\ (txn.at \in Migrating => receipt \in Receipt)
      BY <1>0, KeptReceipt DEF LegacyInv
    <3>2. CASE NoteStop
      BY <1>0, <3>1, <3>2, NoteStopRow, ReturnedFields DEF At, Migrating
    <3>3. CASE StopLegacy \/ Park
      <4>1. /\ [legacy EXCEPT !.run = "stopped"].here = legacy.here
            /\ [legacy EXCEPT !.start = "disabled"].here = legacy.here
        BY <3>1 DEF Legacy
      <4> QED BY <1>0, <3>3, <4>1, StopLegacyRow, ParkRow
    <3> QED BY <1>0, <2>4, <3>2, <3>3, PublishCheckRow, PublishStopRow, PublishRow, RecordPublishRow,
               ActivateCheckRow, ActivateRow, StartRow, RecordStartRow, WaitReadyRow, SmokeRow,
               CompleteRow DEF Forward
  <2>5. CASE Undo
    <3>1. legacy \in Legacy /\ (txn.at \in Migrating => receipt \in Receipt)
      BY <1>0, KeptReceipt DEF LegacyInv
    <3>2. CASE UndoRun
      BY <1>0, <3>1, <3>2, UndoRunRow, ReturnedFields DEF At, Migrating, UndoesLegacy
    <3>3. CASE UndoLegacy \/ UndoPark \/ UndoIni \/ UndoConfig
      <4>1. /\ [legacy EXCEPT !.run = "stopped"].here = legacy.here
            /\ [legacy EXCEPT !.start = "disabled"].here = legacy.here
            /\ [legacy EXCEPT !.ini = receipt.ini].here = legacy.here
            /\ [legacy EXCEPT !.here = TRUE, !.run = "stopped", !.start = receipt.start].here
        BY <3>1 DEF Legacy
      <4> QED BY <1>0, <3>3, <4>1, UndoLegacyRow, UndoParkRow, UndoIniRow, UndoConfigRow
    <3>4. ASSUME NEW f \in Files, UndoFile(f) PROVE FALSE BY <1>0, <3>4, UndoFileRow
    <3> QED BY <1>0, <2>5, <3>2, <3>3, <3>4, UndoOpenRow, UndoStopRow, UndoRemoveRow, UndoRuntimeRow,
               UndoStartRow, UndoPinRow, UndoRootsRow, UndoTrayRow, UndoNoteRow DEF Undo
  <2> QED BY <1>2, <2>1, <2>2, <2>3, <2>4, <2>5 DEF Within
<1>3. CASE Stopping
  BY <1>0, <1>3, BootFacts DEF Stopping, Finish, Crash, machine
<1>4. CASE Disturbing BY <1>4, DisturbingKeeps
<1>5. ASSUME NEW kind \in Kinds, NEW p \in Optional(Profile), Request(kind, p) PROVE FALSE
  BY <1>5 DEF Request, machine
<1> QED BY <1>1, <1>2, <1>3, <1>4, <1>5, StepsAre

-----------------------------------------------------------------------------
(***************************************************************************)
(* What a publication has made of the active profile                       *)
(***************************************************************************)
LEMMA PublishElsewhere ==
    ASSUME txn'.kind \notin {"publish", "designate"} \/ txn'.snap = None,
           txn'.at \in Unfailed => ~txn'.bad
    PROVE  PublishInv'
  BY DEF PublishInv, PublishesOver

\* Which profile is active, and whether the service runs, after each verb.
LEMMA StopFacts ==
    ASSUME MachineOK, NEW p
    PROVE  /\ Works("stop", p) => store' = store /\ ~OpenRuns'
           /\ Breaks("stop", p) => /\ store' = store
                                   /\ OpenRuns' => OpenRuns /\ open'.loaded = open.loaded
<1>1. ASSUME Works("stop", p) PROVE store' = store /\ ~OpenRuns'
  BY <1>1, StopWorks, HaltedService DEF MachineOK, OpenRuns
<1>2. ASSUME Breaks("stop", p)
      PROVE  store' = store /\ (OpenRuns' => OpenRuns /\ open'.loaded = open.loaded)
  <2>1. [open EXCEPT !.run = "pending"].run = "pending" BY DEF MachineOK, Open
  <2> QED BY <1>2, <2>1, StopBreaks DEF OpenRuns
<1> QED BY <1>1, <1>2
LEMMA StartFacts ==
    ASSUME MachineOK, NEW p, Works("start", p)
    PROVE  /\ OpenRuns' /\ store'.active = store.active
           /\ ~OpenRuns => open'.loaded = store.active
<1>1. store' = Synchronized BY StartWorks
<1>2. store'.active = store.active BY <1>1, SynchronizedFiles DEF MachineOK
<1> QED BY <1>2, StartWorks DEF OpenRuns
LEMMA KeepsProfile ==
    ASSUME NEW verb, VerbKeeps(verb), verb \notin {"publish", "rollback"}
    PROVE  store'.active = store.active /\ store'.previous = store.previous
  BY DEF VerbKeeps

LEMMA PublicationKeeps ==
    ASSUME BaseInv, PublishInv, Republish PROVE PublishInv'
<1>0. ControlInv /\ TxnOK /\ MachineOK /\ store \in Store BY GivenProfile DEF BaseInv, MachineOK
<1>m. PublicationMove BY <1>0, PublicationMoves
<1>w. txn.want \in Profile /\ txn.snap \in Snap BY <1>0, <1>m, GivenProfile DEF PublicationMove
<1>k. /\ txn'.kind = txn.kind /\ txn'.want = txn.want /\ txn'.snap = txn.snap
      /\ txn'.meddled = txn.meddled
  BY <1>m DEF PublicationMove, Carried
<1>g. PublishesOver' = PublishesOver BY <1>k DEF PublishesOver
<1>s. PublishesOver => txn.snap.run /\ txn.snap.inst # "absent"
  BY <1>0 DEF PublishesOver, ControlInv, SnapInv
<1>f. txn.at \in {"pubStop", "pub", "pubActivate", "pubStart", "pubWait", "pubUndoStop"} => txn.fault = {}
  BY <1>0, MarksOfMigration DEF UndoesLegacy
<1>h. PublishesOver => ProfileHeld BY DEF PublishInv
<1>u. txn.at \in Unfailed => ~txn.bad BY DEF PublishInv
<1> DEFINE Goal == /\ txn'.at \in Unfailed => ~txn'.bad
                   /\ PublishesOver => ProfileHeld'
<1> USE DEF At, GoesOn, FailsTo, FaultsTo, Becomes, SetupRow, FaultRow, Unfailed, Verbs
<1>1. ASSUME PubStop PROVE Goal
  <2>1. txn.at = "pubStop" /\ SetupRow("stop", "pub", "done") BY <1>0, <1>1, PubStopRow
  <2>2. CASE Works("stop", txn.want) /\ GoesOn("pub")
    BY <1>0, <1>h, <1>k, <1>u, <2>1, <2>2, StopFacts DEF ProfileHeld, Held
  <2>3. CASE Breaks("stop", txn.want) /\ FailsTo("done")
    BY <1>0, <1>h, <1>k, <2>1, <2>3, StopFacts DEF ProfileHeld, Held, AsLoaded
  <2> QED BY <2>1, <2>2, <2>3
<1>2. ASSUME Pub PROVE Goal
  <2>1. txn.at = "pub" BY <1>0, <1>2, PubRow
  <2>2. CASE Works("publish", txn.want) /\ (GoesOn("pubStart") \/ GoesOn("pubActivate"))
    <3>1. /\ store'.active = txn.want
          /\ store'.previous = IF txn.want = store.active THEN store.previous ELSE store.active
      BY <1>0, <1>w, <2>2, PublishWorks, ActivatedFiles
    <3> QED BY <1>h, <1>k, <1>u, <2>1, <2>2, <3>1 DEF ProfileHeld, Held, Made
  <2>3. CASE ~(Works("publish", txn.want) /\ (GoesOn("pubStart") \/ GoesOn("pubActivate")))
    <3>1. /\ Breaks("publish", txn.want)
          /\ Becomes(IF txn.snap.run THEN "pubRestart" ELSE "done", TRUE,
                     IF store' = store THEN txn.fault ELSE txn.fault \cup {"open"}, txn.snap)
      BY <1>0, <1>2, <2>3, PubRow
    <3>2. open' = open BY <3>1, PublishBreaks
    <3> QED BY <1>h, <1>k, <1>s, <2>1, <3>1, <3>2 DEF ProfileHeld, Held, OpenRuns
  <2> QED BY <2>2, <2>3
<1>3. ASSUME PubRestart PROVE Goal
  <2>1. txn.at = "pubRestart" /\ FaultRow("start", "done", "done") BY <1>0, <1>3, PubRestartRow
  <2>2. Works("start", txn.want) =>
           OpenRuns' /\ store'.active = store.active /\ (~OpenRuns => open'.loaded = store.active)
    BY <1>0, StartFacts
  <2> QED BY <1>h, <1>k, <2>1, <2>2 DEF ProfileHeld, Held, AsLoaded, PublishesOver
<1>4. ASSUME PubActivate PROVE Goal
  <2>1. /\ txn.at = "pubActivate"
        /\ \/ SetupRow("install", "pubStart", "pubUndoStop")
           \/ SetupRow("upgrade", "pubStart", "pubUndoStop")
    BY <1>0, <1>4, PubActivateRow
  <2>2. store'.active = store.active /\ store'.previous = store.previous
    <3>1. VerbKeeps("install") \/ VerbKeeps("upgrade") BY <1>0, <2>1, SetupKeeps
    <3> QED BY <3>1, KeepsProfile
  <2> QED BY <1>h, <1>k, <1>u, <2>1, <2>2 DEF ProfileHeld, Made
<1>5. ASSUME PubStart PROVE Goal
  <2>1. txn.at = "pubStart" /\ SetupRow("start", "pubWait", "pubUndoStop")
    BY <1>0, <1>5, PubStartRow
  <2>2. store'.active = store.active /\ store'.previous = store.previous
    BY <1>0, <2>1, SetupKeeps, KeepsProfile
  <2> QED BY <1>h, <1>k, <1>u, <2>1, <2>2 DEF ProfileHeld, Made
<1>6. ASSUME PubWait PROVE Goal
  BY <1>0, <1>h, <1>k, <1>u, <1>6, PubWaitRow DEF ProfileHeld, Made, Nothing, machine
<1>7. ASSUME PubUndoStop PROVE Goal
  <2>1. /\ txn.at = "pubUndoStop"
        /\ \/ ProfileChanged /\ FaultRow("stop", "pubUndoProfile", "pubUndoProfile")
           \/ ~ProfileChanged /\ FaultRow("stop", "pubUndoLast", "pubUndoLast")
    BY <1>0, <1>7, PubUndoStopRow
  <2>2. store' = store /\ (Works("stop", txn.want) => ~OpenRuns') BY <1>0, <2>1, StopFacts
  <2>3. ProfileChanged' = ProfileChanged BY <1>k DEF ProfileChanged
  <2>4. CASE ProfileChanged
    BY <1>h, <1>k, <2>1, <2>2, <2>3, <2>4 DEF ProfileHeld, Made
  <2>5. CASE ~ProfileChanged
    BY <1>h, <1>k, <2>1, <2>2, <2>5 DEF ProfileHeld, Made, Held, ProfileChanged, PublishesOver
  <2> QED BY <2>4, <2>5
<1>8. ASSUME PubUndoProfile PROVE Goal
  <2>1. txn.at = "pubUndoProfile" /\ FaultRow("rollback", "pubUndoLast", "pubUndoLast")
    BY <1>0, <1>8, PubUndoProfileRow
  <2>2. Works("rollback", txn.want) => open' = open /\ store'.active = store.previous
    BY <1>0, RollbackWorks, RevertedFiles
  <2> QED BY <1>h, <1>k, <2>1, <2>2
          DEF ProfileHeld, Held, Made, ProfileChanged, PublishesOver, OpenRuns
<1>9. ASSUME PubUndoLast PROVE Goal
  <2>1. /\ txn.at = "pubUndoLast"
        /\ PublishesOver => FaultRow("start", "done", "done")
        /\ txn'.at = "done"
    BY <1>0, <1>s, <1>9, PubUndoLastRow
  <2>2. Works("start", txn.want) =>
           OpenRuns' /\ store'.active = store.active /\ (~OpenRuns => open'.loaded = store.active)
    BY <1>0, StartFacts
  <2> QED BY <1>h, <1>k, <2>1, <2>2 DEF ProfileHeld, Held, AsLoaded, PublishesOver
<1> HIDE DEF Goal
<1>10. CASE Goal BY <1>10, <1>g DEF Goal, PublishInv
<1> QED BY <1>1, <1>2, <1>3, <1>4, <1>5, <1>6, <1>7, <1>8, <1>9, <1>10 DEF Republish

LEMMA PublishStep ==
    ASSUME BaseInv, PublishInv, Next PROVE PublishInv'
<1>0. ControlInv /\ TxnOK /\ MachineOK BY GivenProfile DEF BaseInv
<1>u. txn.at \in Unfailed => ~txn.bad BY DEF PublishInv
<1>1. CASE PubRead
  <2>1. /\ txn.at = "pubRead" /\ UNCHANGED <<open, store>>
        /\ \/ /\ SafeInstallation /\ txn'.snap = Snapshot /\ txn'.bad = txn.bad
              /\ txn'.at = IF OpenRuns THEN "pubStop" ELSE "pub"
           \/ txn'.at = "done" /\ txn'.snap = txn.snap /\ txn.snap = None
    BY <1>0, <1>1, PubReadRow
       DEF At, Becomes, FailsTo, Nothing, machine, ControlInv, SnapInv, Unsnapped
  <2>2. CASE txn'.at = "done" BY <2>1, <2>2, PublishElsewhere DEF Unfailed
  <2>3. CASE txn'.at # "done"
    <3>1. /\ Snapshot.store = store /\ Snapshot.run = OpenRuns /\ Snapshot.loaded = LiveDigest
      BY <1>0, <2>1, <2>3, SnapshotIsSnap
    <3>2. OpenRuns' = OpenRuns /\ (OpenRuns => LiveDigest = open.loaded)
      BY <2>1 DEF OpenRuns, LiveDigest
    <3> QED BY <1>u, <2>1, <2>3, <3>1, <3>2
            DEF PublishInv, PublishesOver, ProfileHeld, Held, AsLoaded, Unfailed
  <2> QED BY <2>2, <2>3
<1>2. CASE Entering /\ ~PubRead
  <2>1. CASE Capture
    BY <1>0, <2>1, CaptureRow, PublishElsewhere
       DEF At, Becomes, FailsTo, ControlInv, PlaceInv, Unfailed
  <2>2. CASE ~Capture
    <3>1. Entry \in {"backup", "verify", "pubRead", "hold", "verb"} BY DEF Entry
    <3>2. /\ txn'.snap = txn.snap
          /\ txn.at \in {"consent", "verb", "backup", "hold"}
          /\ txn'.at \in Unfailed => txn.at \in {"consent", "hold"} /\ txn'.bad = txn.bad
      BY <1>0, <1>2, <2>2, <3>1, ElevateRow, PlainVerbRow, PrepareBackupRow, HoldRow
         DEF Entering, At, GoesOn, Becomes, FailsTo, SetupRow, Unfailed
    <3>3. txn.snap = None BY <1>0, <3>2 DEF ControlInv, SnapInv, Unsnapped
    <3> QED BY <1>u, <3>2, <3>3, PublishElsewhere DEF Unfailed
  <2> QED BY <2>1, <2>2
<1>3. CASE Forward \/ Undo
  <2>1. MigrationMove /\ txn.kind = "migrate"
    BY <1>0, <1>3, ForwardMoves, UndoMoves DEF MigrationMove, ControlInv, PlaceInv
  <2> QED BY <2>1, PublishElsewhere
          DEF MigrationMove, Carried, Unfailed, Migrating, Replacing, Parking, UndoesOpen,
              UndoesLegacy, Files
<1>4. CASE RemoveLegacy
  BY <1>0, <1>4, RemovalMoves, PublishElsewhere
     DEF RemovalMove, Carried, Unfailed, Removing, ControlInv, PlaceInv
<1>5. CASE Stopping BY <1>5, StoppingKeeps, IdleControl, PublishElsewhere DEF Unfailed
<1>6. ASSUME NEW kind \in Kinds, NEW p \in Optional(Profile), Request(kind, p) PROVE PublishInv'
  BY <1>0, <1>6, RequestControl, PublishElsewhere
<1>7. CASE Disturbing
  <2>1. Same /\ (txn.at # "idle" => txn'.meddled) /\ (txn.at = "idle" => txn.kind = "none")
    BY <1>0, <1>7, DisturbingKeeps DEF ControlInv, PlaceInv
  <2> QED BY <1>u, <2>1 DEF Same, PublishInv, PublishesOver
<1> QED BY <1>1, <1>2, <1>3, <1>4, <1>5, <1>6, <1>7, StepsAre, PublicationKeeps DEF Within

-----------------------------------------------------------------------------
(***************************************************************************)
(* What the rollback of a migration has put back                           *)
(***************************************************************************)
USE DEF Files, UndoesLegacy, RuntimeUndo, LastUndo, Past, Over

LEMMA RollbackElsewhere ==
    ASSUME ~Rolls' PROVE RollbackInv'
  BY DEF RollbackInv
LEMMA RollbackBefore ==
    ASSUME \/ txn'.at \in Parking \cup {"noteStop", "undoOpen", "undoStop"} \cup Replacing
           \/ txn'.at = "done" /\ ~txn'.bad
    PROVE  RollbackInv'
<1>1. FilesBack' BY DEF FilesBack, Parking, Replacing
<1>2. ServiceBack' BY DEF ServiceBack, Parking, Replacing
<1>3. LegacyBack' BY DEF LegacyBack, Parking, Replacing
<1> QED BY <1>1, <1>2, <1>3 DEF RollbackInv

\* A step of the rollback that goes on.
LEMMA RollsOn ==
    ASSUME RollbackInv, MigrationMove, txn.fault \subseteq txn'.fault, Rolls'
    PROVE  /\ Rolls /\ FilesBack /\ ServiceBack /\ LegacyBack
           /\ txn'.snap = txn.snap /\ txn'.fault = {} /\ txn.fault = {}
  BY DEF Rolls, RollbackInv, MigrationMove, Carried

\* The open service is stopped, and removed when there was none.
LEMMA UndoServiceBack ==
    ASSUME BaseInv, RollbackInv, UndoOpen \/ UndoStop \/ UndoRemove
    PROVE  RollbackInv'
<1>0. ControlInv /\ TxnOK /\ MachineOK BY GivenProfile DEF BaseInv
<1>m. MigrationMove BY <1>0, UndoMoves DEF Undo
<1> SUFFICES ASSUME Rolls' PROVE RollbackInv' BY RollbackElsewhere
<1> USE DEF At, GoesOn, FaultsTo, Becomes, FaultRow
<1>f. txn.fault \subseteq txn'.fault BY <1>0, UndoOpenRow, UndoStopRow, UndoRemoveRow
<1>r. /\ Rolls /\ FilesBack /\ ServiceBack /\ LegacyBack
      /\ txn'.snap = txn.snap /\ txn'.fault = {} /\ txn.fault = {}
  BY <1>m, <1>f, RollsOn
<1>1. CASE txn'.at = "undoStop" BY <1>1, RollbackBefore
<1>2. CASE txn'.at = "undoRemove"
  <2>1. ~OpenRuns'
    <3>1. CASE UndoOpen
      BY <1>0, <1>r, <1>2, <3>1, UndoOpenRow DEF Nothing, machine, OpenRuns
    <3>2. CASE UndoStop BY <1>0, <1>r, <1>2, <3>2, UndoStopRow, StopFacts
    <3>3. CASE UndoRemove BY <1>0, <1>2, <1>r, <3>3, UndoRemoveRow
    <3> QED BY <3>1, <3>2, <3>3
  <2>2. FilesBack' BY <1>2 DEF FilesBack
  <2>3. ServiceBack' BY <1>2, <2>1 DEF ServiceBack
  <2>4. LegacyBack' BY <1>2 DEF LegacyBack
  <2> QED BY <2>2, <2>3, <2>4 DEF RollbackInv
<1>3. CASE UndoRemove
  <2>1. txn.at = "undoRemove" /\ txn'.at = "pointer" BY <1>0, <1>r, <1>3, UndoRemoveRow
  <2>2. ~OpenRuns BY <1>r, <2>1 DEF ServiceBack
  <2>3. ~OpenRuns' /\ (txn.snap.inst = "absent" => open'.image = None)
    <3>1. CASE Nothing /\ (txn.snap.inst = "absent" => open.image = None)
      BY <2>2, <3>1 DEF Nothing, machine, OpenRuns
    <3>2. CASE Works("remove", txn.want)
      BY <1>0, <3>2, RemoveWorks, HaltedService DEF MachineOK, OpenRuns
    <3> QED BY <1>0, <1>r, <1>3, <3>1, <3>2, UndoRemoveRow
  <2>4. FilesBack' BY <2>1 DEF FilesBack
  <2>5. ServiceBack' BY <1>r, <2>1, <2>3 DEF ServiceBack
  <2>6. LegacyBack' BY <2>1 DEF LegacyBack
  <2> QED BY <2>4, <2>5, <2>6 DEF RollbackInv
<1>4. txn'.at \in {"undoStop", "undoRemove"} \/ UndoRemove
  BY <1>0, <1>r, UndoOpenRow, UndoStopRow
<1> QED BY <1>1, <1>2, <1>3, <1>4

\* The files are put back one by one.
LEMMA UndoFilesBack ==
    ASSUME BaseInv, PinInv, RollbackInv, NEW f \in Files, UndoFile(f)
    PROVE  RollbackInv'
<1>0. ControlInv /\ TxnOK /\ MachineOK /\ store \in Store
  BY GivenProfile DEF BaseInv, MachineOK
<1>m. MigrationMove BY <1>0, UndoMoves DEF Undo
<1> SUFFICES ASSUME Rolls' PROVE RollbackInv' BY RollbackElsewhere
<1> USE DEF At, GoesOn, FaultsTo, Becomes
<1>f. txn.fault \subseteq txn'.fault BY <1>0, UndoFileRow
<1>r. /\ Rolls /\ FilesBack /\ ServiceBack /\ LegacyBack
      /\ txn'.snap = txn.snap /\ txn'.fault = {} /\ txn.fault = {}
  BY <1>m, <1>f, RollsOn
<1>1. /\ txn.at = f /\ txn'.at = AfterFile(f) /\ store' = PutBack(f) /\ open' = open
  BY <1>0, <1>r, UndoFileRow
<1>2. txn.snap \in Snap BY <1>0, <1>1, GivenProfile DEF Migrating, UndoesOpen
<1>3. txn'.at \in {"active", "previous", "gens", "profiles", "copy", "undoRuntime"}
  BY <1>1, NextFile
<1>4. /\ txn.snap.store.gens \subseteq store.gens
      /\ txn.snap.store.profiles \subseteq store.profiles
  BY <1>1 DEF PinInv, Migrating, UndoesOpen
<1>5. /\ store'.pointer = IF f = "pointer" THEN txn.snap.store.pointer ELSE store.pointer
      /\ store'.active = IF f = "active" THEN txn.snap.store.active ELSE store.active
      /\ store'.previous = IF f = "previous" THEN txn.snap.store.previous ELSE store.previous
      /\ store'.profiles = IF f = "profiles" THEN txn.snap.store.profiles ELSE store.profiles
      /\ store'.gens = IF f = "gens" THEN txn.snap.store.gens ELSE store.gens
      /\ f = "copy" => \A v \in Version : v = txn.snap.store.pointer =>
                          store'.copy[v] = txn.snap.store.copy[v]
  <2>1. /\ \A g \in {"pointer", "active", "previous"} :
                store'[g] = IF f = g THEN txn.snap.store[g] ELSE store[g]
        /\ store'.profiles = IF f = "profiles" THEN store.profiles \cap txn.snap.store.profiles
                             ELSE store.profiles
        /\ store'.gens = IF f = "gens" THEN store.gens \cap txn.snap.store.gens ELSE store.gens
        /\ f = "copy" => \A v \in Version : v = txn.snap.store.pointer =>
                            store'.copy[v] = txn.snap.store.copy[v]
    BY <1>0, <1>1, <1>2, PutBackFiles
  <2> QED BY <1>4, <2>1
<1>6. /\ AfterFile("pointer") = "active" /\ AfterFile("active") = "previous"
      /\ AfterFile("previous") = "gens" /\ AfterFile("gens") = "profiles"
      /\ AfterFile("profiles") = "copy" /\ AfterFile("copy") = "undoRuntime"
  BY DEF AfterFile
<1>7. txn.snap.store.pointer \in Optional(Version) BY <1>2 DEF Snap, Store
<1>8. FilesBack'
  <2>1. CASE f = "pointer" BY <1>1, <1>5, <1>6, <1>r, <2>1 DEF FilesBack
  <2>2. CASE f = "active" BY <1>1, <1>5, <1>6, <1>r, <2>2 DEF FilesBack
  <2>3. CASE f = "previous" BY <1>1, <1>5, <1>6, <1>r, <2>3 DEF FilesBack
  <2>4. CASE f = "gens" BY <1>1, <1>5, <1>6, <1>r, <2>4 DEF FilesBack
  <2>5. CASE f = "profiles" BY <1>1, <1>5, <1>6, <1>r, <2>5 DEF FilesBack
  <2>6. CASE f = "copy" BY <1>1, <1>5, <1>6, <1>7, <1>r, <2>6 DEF FilesBack, Optional
  <2> QED BY <2>1, <2>2, <2>3, <2>4, <2>5, <2>6
<1>9. ServiceBack'
  <2>1. OpenRuns' = OpenRuns BY <1>1 DEF OpenRuns
  <2> QED BY <1>1, <1>3, <1>r, <2>1 DEF ServiceBack
<1>10. LegacyBack' BY <1>3 DEF LegacyBack
<1> QED BY <1>8, <1>9, <1>10 DEF RollbackInv

\* The runtime is registered again, and the service started if it ran.
LEMMA UndoRuntimeBack ==
    ASSUME BaseInv, RollbackInv, UndoRuntime \/ UndoStart
    PROVE  RollbackInv'
<1>0. ControlInv /\ TxnOK /\ MachineOK /\ store \in Store /\ open \in Open
  BY GivenProfile DEF BaseInv, MachineOK
<1>m. MigrationMove BY <1>0, UndoMoves DEF Undo
<1> SUFFICES ASSUME Rolls' PROVE RollbackInv' BY RollbackElsewhere
<1> USE DEF At, GoesOn, FaultsTo, Becomes, FaultRow
<1>f. txn.fault \subseteq txn'.fault BY <1>0, UndoRuntimeRow, UndoStartRow
<1>r. /\ Rolls /\ FilesBack /\ ServiceBack /\ LegacyBack
      /\ txn'.snap = txn.snap /\ txn'.fault = {} /\ txn.fault = {}
  BY <1>m, <1>f, RollsOn
<1>s. txn.snap \in Snap /\ (txn.snap.run => txn.snap.inst # "absent") /\ txn.snap.run \in BOOLEAN
  BY <1>0, <1>r DEF Rolls, ControlInv, SnapInv, Snap
<1>b. txn.at \in {"undoRuntime", "undoStart"} BY <1>0, UndoRuntimeRow, UndoStartRow
<1>d. /\ ~OpenRuns
      /\ store.pointer = txn.snap.store.pointer /\ store.active = txn.snap.store.active
      /\ store.previous = txn.snap.store.previous /\ store.gens = txn.snap.store.gens
      /\ store.profiles = txn.snap.store.profiles
      /\ txn.snap.store.pointer # None =>
            store.copy[txn.snap.store.pointer] = txn.snap.store.copy[txn.snap.store.pointer]
      /\ txn.snap.inst = "absent" => open.image = None
      /\ txn.at = "undoStart" => txn.snap.run
  <2>1. /\ store.pointer = txn.snap.store.pointer /\ store.active = txn.snap.store.active
        /\ store.previous = txn.snap.store.previous /\ store.gens = txn.snap.store.gens
        /\ store.profiles = txn.snap.store.profiles
        /\ txn.snap.store.pointer # None =>
              store.copy[txn.snap.store.pointer] = txn.snap.store.copy[txn.snap.store.pointer]
    BY <1>b, <1>r DEF FilesBack
  <2>2. /\ ~OpenRuns /\ (txn.snap.inst = "absent" => open.image = None)
        /\ txn.at = "undoStart" => txn.snap.run
    BY <1>b, <1>r DEF ServiceBack
  <2> QED BY <2>1, <2>2
<1>l. txn'.at \in {"undoStart", "undoPin"} => LegacyBack' BY DEF LegacyBack
<1>1. CASE UndoRuntime /\ store' = store
  <2>1. /\ txn'.at \in {"undoStart", "undoPin"} /\ (txn'.at = "undoStart" <=> txn.snap.run)
    BY <1>0, <1>r, <1>s, <1>1, UndoRuntimeRow
  <2>2. ~OpenRuns' /\ (txn.snap.inst = "absent" => open'.image = None)
        /\ (txn.snap.inst # "absent" => open'.image = txn.snap.store.pointer)
    <3>1. CASE Nothing /\ txn.snap.inst = "absent"
      BY <1>d, <3>1 DEF Nothing, machine, OpenRuns
    <3>2. CASE Works("restore", txn.want) /\ txn.snap.inst # "absent"
      <4>1. open' = [Halted EXCEPT !.image = store.pointer] BY <3>2, RestoreWorks
      <4>2. store.pointer \in Version \cup {None, "foreign"} BY <1>0 DEF Store, Optional
      <4>3. open'.image = store.pointer /\ open'.run = "stopped" BY <1>0, <4>1, <4>2, HaltedService
      <4> QED BY <1>d, <3>2, <4>3 DEF OpenRuns
    <3> QED BY <1>0, <1>r, <1>1, <3>1, <3>2, UndoRuntimeRow
  <2>3. FilesBack' BY <1>d, <1>r, <1>1, <2>1 DEF FilesBack
  <2>4. ServiceBack'
    <3>1. CASE txn'.at = "undoStart"
      BY <1>r, <1>s, <2>1, <2>2, <3>1 DEF ServiceBack
    <3>2. CASE txn'.at = "undoPin"
      <4>1. OpenRuns' = FALSE /\ txn.snap.run = FALSE BY <1>s, <2>1, <2>2, <3>2 DEF OpenRuns
      <4> QED BY <1>d, <1>r, <1>1, <2>2, <3>2, <4>1 DEF ServiceBack
    <3> QED BY <2>1, <3>1, <3>2
  <2> QED BY <1>l, <2>1, <2>3, <2>4 DEF RollbackInv
<1>2. UndoRuntime => store' = store
  BY <1>0, <1>r, UndoRuntimeRow, RestoreWorks DEF Nothing, machine
<1>3. CASE UndoStart
  <2>1. txn'.at = "undoPin" /\ Works("start", txn.want) /\ txn.at = "undoStart"
    BY <1>0, <1>r, <1>3, UndoStartRow
  <2>2. /\ store' = Synchronized /\ open'.image = store.pointer /\ open'.run = "ready"
        /\ store.pointer \in store.gens
    BY <2>1, StartWorks
  <2>3. store.pointer \in Version BY <1>0, <2>2 DEF Store
  <2>4. /\ store'.pointer = store.pointer /\ store'.gens = store.gens
        /\ store'.profiles = store.profiles /\ store'.active = store.active
        /\ store'.previous = store.previous
        /\ store'.copy[store.pointer] = store.active
    BY <1>0, <2>2, <2>3, SynchronizedFiles
  <2>5. FilesBack' BY <1>d, <1>r, <2>1, <2>4 DEF FilesBack
  <2>6. OpenRuns' = TRUE /\ txn.snap.run = TRUE BY <1>d, <1>s, <2>1, <2>2 DEF OpenRuns
  <2>7. txn.snap.inst # "absent" BY <1>s, <2>6
  <2>8. ServiceBack'
    <3>1. txn'.at = "undoPin" /\ txn'.snap = txn.snap BY <1>r, <2>1
    <3>2. open'.image = txn.snap.store.pointer BY <1>d, <2>2
    <3>3. store'.copy[txn.snap.store.pointer] = txn.snap.store.active BY <1>d, <2>4
    <3> QED BY <2>6, <2>7, <3>1, <3>2, <3>3 DEF ServiceBack
  <2> QED BY <1>l, <2>1, <2>5, <2>8 DEF RollbackInv
<1> QED BY <1>1, <1>2, <1>3

\* The pin is released and the service root checked.
LEMMA UndoPinBack ==
    ASSUME BaseInv, PinInv, RollbackInv, UndoPin \/ UndoRoots
    PROVE  RollbackInv'
<1>0. ControlInv /\ TxnOK /\ MachineOK /\ store \in Store
  BY GivenProfile DEF BaseInv, MachineOK
<1>m. MigrationMove BY <1>0, UndoMoves DEF Undo
<1> SUFFICES ASSUME Rolls' PROVE RollbackInv' BY RollbackElsewhere
<1> USE DEF At, GoesOn, FaultsTo, Becomes
<1>f. txn.fault \subseteq txn'.fault BY <1>0, UndoPinRow, UndoRootsRow
<1>r. /\ Rolls /\ FilesBack /\ ServiceBack /\ LegacyBack
      /\ txn'.snap = txn.snap /\ txn'.fault = {} /\ txn.fault = {}
  BY <1>m, <1>f, RollsOn
<1>o. UNCHANGED <<open, store, begun, legacy, receipt>>
  BY <1>0, UndoPinRow, UndoRootsRow DEF Inner, Nothing, machine
<1>p. OpenRuns' = OpenRuns BY <1>o DEF OpenRuns
<1>1. CASE UndoPin
  <2>1. txn.at = "undoPin" /\ txn'.at = "undoRoots" /\ pins' = pins \ OwnPins
    BY <1>0, <1>r, <1>1, UndoPinRow
  <2>2. OwnPins' = {} BY <1>o, <2>1 DEF OwnPins
  <2>3. FilesBack' BY <1>o, <1>r, <2>1 DEF FilesBack
  <2>4. ServiceBack' BY <1>o, <1>p, <1>r, <2>1, <2>2 DEF ServiceBack
  <2>5. LegacyBack' BY <2>1 DEF LegacyBack
  <2> QED BY <2>3, <2>4, <2>5 DEF RollbackInv
<1>2. CASE UndoRoots
  <2>1. /\ txn.at = "undoRoots" /\ txn'.at = "undoLegacy" /\ pins' = pins
        /\ store.root => txn.snap.store.root
    BY <1>0, <1>r, <1>2, UndoRootsRow DEF Nothing, machine
  <2>2. txn.snap \in Snap /\ (txn.snap.store.root => store.root)
    BY <1>0, <2>1, GivenProfile DEF PinInv, Migrating, UndoesOpen
  <2>3. store.root = txn.snap.store.root BY <1>0, <2>1, <2>2 DEF Snap, Store
  <2>4. FilesBack' BY <1>o, <1>r, <2>1, <2>3 DEF FilesBack
  <2>5. OwnPins' = OwnPins BY <1>o, <2>1 DEF OwnPins
  <2>6. ServiceBack' BY <1>o, <1>p, <1>r, <2>1, <2>5 DEF ServiceBack
  <2>7. LegacyBack' BY <2>1 DEF LegacyBack
  <2> QED BY <2>4, <2>6, <2>7 DEF RollbackInv
<1> QED BY <1>1, <1>2

\* The legacy service is put back, after the open one.
LEMMA UndoLegacyBack ==
    ASSUME BaseInv, RollbackInv,
           UndoLegacy \/ UndoPark \/ UndoIni \/ UndoConfig \/ UndoTray \/ UndoRun \/ UndoNote
    PROVE  RollbackInv'
<1>0. ControlInv /\ TxnOK /\ MachineOK /\ LegacyInv BY GivenProfile DEF BaseInv
<1>m. MigrationMove BY <1>0, UndoMoves DEF Undo
<1> SUFFICES ASSUME Rolls' PROVE RollbackInv' BY RollbackElsewhere
<1> USE DEF At, GoesOn, FaultsTo, Becomes
<1>a. /\ txn.at \in UndoesLegacy /\ txn.fault \subseteq txn'.fault
      /\ txn'.at \in UndoesLegacy \cup {"done"} /\ Inner /\ pins' = pins
  <2>1. CASE UndoLegacy \/ UndoPark \/ UndoIni BY <1>0, <2>1, UndoLegacyRow, UndoParkRow, UndoIniRow
  <2>2. CASE UndoConfig \/ UndoTray BY <1>0, <2>2, UndoConfigRow, UndoTrayRow
  <2>3. CASE UndoRun \/ UndoNote BY <1>0, <2>3, UndoRunRow, UndoNoteRow
  <2> QED BY <2>1, <2>2, <2>3
<1>r. /\ Rolls /\ FilesBack /\ ServiceBack /\ LegacyBack
      /\ txn'.snap = txn.snap /\ txn'.fault = {} /\ txn.fault = {}
  BY <1>m, <1>a, RollsOn
<1>o. UNCHANGED <<open, store, begun, pins>> BY <1>a DEF Inner
<1>p. OpenRuns' = OpenRuns /\ OwnPins' = OwnPins BY <1>o DEF OpenRuns, OwnPins
<1>1. FilesBack' BY <1>a, <1>o, <1>r DEF FilesBack
<1>2. ServiceBack' BY <1>a, <1>o, <1>p, <1>r DEF ServiceBack
<1>3. LegacyBack'
  <2>0. legacy \in Legacy /\ receipt \in Receipt /\ receipt.ini \in {None, "one", "two"}
    BY <1>0, <1>a, KeptReceipt, ReceiptFields DEF LegacyInv, Migrating
  <2>1. CASE UndoLegacy \/ UndoPark
    BY <1>0, <1>r, <2>1, UndoLegacyRow, UndoParkRow DEF LegacyBack
  <2>2. CASE UndoIni
    <3>1. legacy' = [legacy EXCEPT !.ini = receipt.ini] /\ txn'.at = "undoConfig" /\ receipt' = receipt
      BY <1>0, <1>r, <2>2, UndoIniRow
    <3>2. legacy'.ini = receipt.ini BY <2>0, <3>1 DEF Legacy
    <3> QED BY <3>1, <3>2 DEF LegacyBack
  <2>3. CASE UndoConfig
    <3>1. /\ legacy' = [legacy EXCEPT !.here = TRUE, !.run = "stopped", !.start = receipt.start]
          /\ txn.at = "undoConfig" /\ txn'.at = "undoTray" /\ receipt' = receipt
      BY <1>0, <1>r, <2>3, UndoConfigRow
    <3>2. legacy'.ini = legacy.ini BY <2>0, <3>1 DEF Legacy
    <3> QED BY <1>r, <3>1, <3>2 DEF LegacyBack
  <2>4. CASE UndoTray
    BY <1>0, <1>r, <2>4, UndoTrayRow DEF LegacyBack
  <2>5. CASE UndoRun
    <3>1. legacy' = Returned /\ txn.at = "undoRun" /\ txn'.at = "undoNote" /\ receipt' = receipt
      BY <1>0, <1>r, <2>5, UndoRunRow
    <3> QED BY <1>r, <2>0, <3>1, ReturnedFields DEF LegacyBack
  <2>6. CASE UndoNote
    <3>1. /\ receipt' = [receipt EXCEPT !.stage = "undone"] /\ legacy' = legacy
          /\ txn.at = "undoNote"
      BY <1>0, <1>r, <2>6, UndoNoteRow
    <3>2. receipt'.run = receipt.run /\ receipt'.start = receipt.start /\ receipt'.ini = receipt.ini
      BY <2>0, <3>1, ReceiptFields DEF Stages
    <3> QED BY <1>r, <3>1, <3>2 DEF LegacyBack
  <2> QED BY <2>1, <2>2, <2>3, <2>4, <2>5, <2>6
<1> QED BY <1>1, <1>2, <1>3 DEF RollbackInv

\* Every other step is before a rollback, or belongs to something else.
LEMMA RollbackStep ==
    ASSUME BaseInv, PinInv, RollbackInv, Next PROVE RollbackInv'
<1>0. ControlInv /\ TxnOK /\ MachineOK BY GivenProfile DEF BaseInv
<1>1. CASE Undo
  BY <1>1, UndoServiceBack, UndoFilesBack, UndoRuntimeBack, UndoPinBack, UndoLegacyBack DEF Undo
<1>2. CASE Forward
  <2>1. MigrationMove BY <1>0, <1>2, ForwardMoves
  <2>2. CASE Complete
    BY <1>0, <2>2, CompleteRow, MarksOfMigration, RollbackBefore
       DEF GoesOn, FailsTo, Becomes, At, Replacing
  <2>3. CASE ~Complete
    <3> USE DEF GoesOn, FailsTo, Becomes, SetupRow, Replacing, Parking
    <3>1. CASE StopLegacy \/ Park \/ NoteStop \/ PublishCheck \/ PublishStop \/ Publish
      <4>1. txn'.at \in Parking \cup {"noteStop", "undoOpen", "undoStop"} \cup Replacing
        BY <1>0, <3>1, StopLegacyRow, ParkRow, NoteStopRow, PublishCheckRow, PublishStopRow, PublishRow
      <4> QED BY <4>1, RollbackBefore
    <3>2. CASE RecordPublish \/ ActivateCheck \/ Activate \/ Start
      <4>1. txn'.at \in Parking \cup {"noteStop", "undoOpen", "undoStop"} \cup Replacing
        BY <1>0, <3>2, RecordPublishRow, ActivateCheckRow, ActivateRow, StartRow
      <4> QED BY <4>1, RollbackBefore
    <3>3. CASE RecordStart \/ WaitReady \/ Smoke
      <4>1. txn'.at \in Parking \cup {"noteStop", "undoOpen", "undoStop"} \cup Replacing
        BY <1>0, <3>3, RecordStartRow, WaitReadyRow, SmokeRow
      <4> QED BY <4>1, RollbackBefore
    <3> QED BY <1>2, <2>3, <3>1, <3>2, <3>3 DEF Forward
  <2> QED BY <2>2, <2>3
<1>3. CASE Entering
  <2>1. CASE Capture
    <3>1. txn'.at = "stopLegacy" \/ txn'.snap = None
      BY <1>0, <2>1, CaptureRow DEF Becomes, FailsTo, At, ControlInv, SnapInv, Unsnapped
    <3> QED BY <3>1, RollbackBefore, RollbackElsewhere DEF Parking, Rolls
  <2>2. CASE PubRead
    <3>1. txn'.kind # "migrate"
      BY <1>0, <2>2, PubReadRow DEF Becomes, FailsTo, At, ControlInv, PlaceInv
    <3> QED BY <3>1, RollbackElsewhere DEF Rolls
  <2>3. CASE ~Capture /\ ~PubRead
    <3>1. txn'.snap = txn.snap /\ txn.at \in {"consent", "verb", "backup", "hold"}
      BY <1>0, <1>3, <2>3, ElevateRow, PlainVerbRow, PrepareBackupRow, HoldRow
         DEF Entering, At, GoesOn, Becomes, FailsTo, SetupRow
    <3>2. txn.snap = None BY <1>0, <3>1 DEF ControlInv, SnapInv, Unsnapped
    <3> QED BY <3>1, <3>2, RollbackElsewhere DEF Rolls
  <2> QED BY <2>1, <2>2, <2>3
<1>4. CASE RemoveLegacy \/ Republish
  BY <1>0, <1>4, RemovalMoves, PublicationMoves, RollbackElsewhere
     DEF RemovalMove, PublicationMove, Carried, ControlInv, PlaceInv, Rolls
<1>5. CASE Stopping BY <1>5, StoppingKeeps, IdleControl, RollbackElsewhere DEF Rolls
<1>6. ASSUME NEW kind \in Kinds, NEW p \in Optional(Profile), Request(kind, p) PROVE RollbackInv'
  BY <1>0, <1>6, RequestControl, RollbackElsewhere DEF Rolls
<1>7. CASE Disturbing
  <2>1. Same /\ (txn.at # "idle" => txn'.meddled) /\ (txn.at = "idle" => txn.kind = "none")
    BY <1>0, <1>7, DisturbingKeeps DEF ControlInv, PlaceInv
  <2> QED BY <2>1, RollbackElsewhere DEF Same, Rolls
<1> QED BY <1>1, <1>2, <1>3, <1>4, <1>5, <1>6, <1>7, StepsAre DEF Within

HIDE DEF Files, UndoesLegacy, RuntimeUndo, LastUndo, Past, Over

-----------------------------------------------------------------------------
(***************************************************************************)
(* The theorems                                                            *)
(***************************************************************************)
\* The inductive invariant.
MI == BaseInv /\ PinInv /\ MigratedInv /\ PublishInv /\ RollbackInv

LEMMA MIInit == ASSUME Init PROVE MI
<1>1. BaseInv BY BaseInit
<1>2. txn.at = "idle" /\ txn.kind = "none" /\ txn.snap = None BY DEF Init, Idle
<1>3. PinInv
  BY <1>2 DEF PinInv, Migrating, Replacing, Parking, UndoesOpen, UndoesLegacy, Files
<1>4. MigratedInv /\ PublishInv /\ RollbackInv
  BY <1>2 DEF MigratedInv, PublishInv, PublishesOver, RollbackInv, Rolls, Unfailed
<1> QED BY <1>1, <1>3, <1>4 DEF MI
LEMMA MIStep == ASSUME MI, [Next]_vars PROVE MI'
<1>1. CASE UNCHANGED vars
  <2> USE <1>1 DEF vars
  <2>1. BaseInv' BY BaseStep DEF MI
  <2>2. PinInv' BY DEF MI, PinInv
  <2>3. MigratedInv'
    BY DEF MI, MigratedInv, Retired, OwnPins, StrictReady, Installation, LiveDigest, OpenRuns
  <2>4. PublishInv'
    BY
       DEF MI, PublishInv, PublishesOver, ProfileHeld, Held, Made, AsLoaded, OpenRuns, ProfileChanged
  <2>5. FilesBack' = FilesBack BY DEF FilesBack, Past, Over
  <2>6. ServiceBack' = ServiceBack BY DEF ServiceBack, Past, Over, OpenRuns, OwnPins
  <2>7. LegacyBack' = LegacyBack BY DEF LegacyBack, Over
  <2>8. RollbackInv' BY <2>5, <2>6, <2>7 DEF MI, RollbackInv, Rolls
  <2> QED BY <2>1, <2>2, <2>3, <2>4, <2>8 DEF MI
<1>2. CASE Next
  BY <1>2, BaseStep, PinStep, MigratedStep, PublishStep, RollbackStep DEF MI
<1> QED BY <1>1, <1>2
LEMMA MIAlways == Spec => []MI
<1>1. Init => MI BY MIInit
<1>2. MI /\ [Next]_vars => MI' BY MIStep
<1> QED BY <1>1, <1>2, PTL DEF Spec

\* The gates of the client and of the elevated broker (both ask
\* legacy_service_blocks_activation, the broker again after consent), the parking of
\* the legacy service before the open one is started, and the host that does not
\* start beside it: the two injectors never run together unless the user was told,
\* or the operation that left it so is about to report a fault.
THEOREM NeverUnnoticedTwo == Spec => []NoSilentDoubleInjection
<1>1. MI => NoSilentDoubleInjection BY DEF MI, BaseInv, LegacyInv
<1> QED BY <1>1, MIAlways, PTL

\* A migration that failed and reports a clean rollback has put back the files, the
\* registration and the running state of the open service and the start type, the
\* running state and the profile of the legacy one, whatever step it failed at.
THEOREM RollbackStaysExact == Spec => []RollbackIsExact
<1>1. ASSUME MI PROVE RollbackIsExact
  <2> SUFFICES ASSUME At("done"), txn.kind = "migrate", txn.bad, txn.fault = {}, ~txn.meddled,
                      txn.snap # None
               PROVE  LET then == txn.snap.store
                      IN  /\ open.image = IF txn.snap.image = None THEN None ELSE then.pointer
                          /\ OpenRuns = txn.snap.run
                          /\ \A f \in {"pointer", "active", "previous", "gens", "profiles", "root"} :
                                store[f] = then[f]
                          /\ then.pointer # None =>
                               store.copy[then.pointer] =
                                  IF OpenRuns THEN then.active ELSE then.copy[then.pointer]
                          /\ legacy.run = receipt.run /\ legacy.start = receipt.start
                          /\ legacy.ini = receipt.ini
                          /\ OwnPins = {}
    BY DEF RollbackIsExact
  <2>1. FilesBack /\ ServiceBack /\ LegacyBack /\ Over
    BY <1>1 DEF MI, RollbackInv, Rolls, Over, At
  <2>2. txn.snap.inst = "absent" <=> txn.snap.image = None
    BY <1>1 DEF MI, BaseInv, ControlInv, SnapInv
  <2>3. /\ store.pointer = txn.snap.store.pointer /\ store.active = txn.snap.store.active
        /\ store.previous = txn.snap.store.previous /\ store.gens = txn.snap.store.gens
        /\ store.profiles = txn.snap.store.profiles /\ store.root = txn.snap.store.root
    BY <2>1 DEF FilesBack, Past
  <2>4. /\ txn.snap.inst = "absent" => open.image = None
        /\ txn.snap.inst # "absent" => open.image = txn.snap.store.pointer
        /\ OpenRuns = txn.snap.run
        /\ txn.snap.store.pointer # None =>
              store.copy[txn.snap.store.pointer] =
                 IF txn.snap.run THEN txn.snap.store.active
                 ELSE txn.snap.store.copy[txn.snap.store.pointer]
        /\ OwnPins = {}
    BY <2>1 DEF ServiceBack, Past
  <2>5. legacy.run = receipt.run /\ legacy.start = receipt.start /\ legacy.ini = receipt.ini
    BY <2>1 DEF LegacyBack
  <2> QED BY <2>2, <2>3, <2>4, <2>5
<1> QED BY <1>1, MIAlways, PTL

\* What the operations report is what they left: a migration that reports success
\* has replaced the legacy service, whose recorded stop lasts; a publication that
\* reports a clean failure changed no profile; and retention sweeps no runtime that
\* an unfinished migration may have to go back to.
THEOREM OperationsAreHonest == Spec => []IntegrationInvariant
<1>1. ASSUME MI PROVE IntegrationInvariant
  <2>0. BaseInv /\ MachineOK /\ CountOK /\ ControlInv /\ LegacyInv BY <1>1 DEF MI, BaseInv
  <2>1. IntegrationTypeOK
    <3>1. OpenRuns => open.image # None BY <2>0, NoneAssumption DEF MachineOK, Owned
    <3> QED BY <2>0, <3>1
            DEF IntegrationTypeOK, MachineOK, PinsOK, CountOK, ControlInv, TxnOK, SnapInv, OpenRuns
  <2>2. MigratedMeansReplaced BY <1>1 DEF MI, MigratedInv, MigratedMeansReplaced, At
  <2>3. RetiredStaysRetired
    BY <2>0 DEF LegacyInv, RetiredInv, RetiredStaysRetired, Told, Undoing, UndoesLegacy
  <2>4. PinnedRuntimesSurvive
    <3>1. ASSUME txn.kind = "migrate", txn.snap # None PROVE txn.at \in Migrating \cup {"done"}
      BY <2>0, <3>1
         DEF ControlInv, TxnOK, PlaceInv, SnapInv, Unsnapped, Steps, Removing, Migrating, Replacing,
             Parking, UndoesOpen, UndoesLegacy, Files, Publishing
    <3> QED BY <1>1, <3>1 DEF MI, PinInv, PinnedRuntimesSurvive, Undoing, UndoesLegacy
  <2>5. FailedPublishKeepsProfile
    BY <1>1 DEF MI, PublishInv, PublishesOver, ProfileHeld, Held, AsLoaded,
            FailedPublishKeepsProfile, At
  <2> QED BY <2>1, <2>2, <2>3, <2>4, <2>5 DEF IntegrationInvariant
<1> QED BY <1>1, MIAlways, PTL

\* remove_legacy_after_verification is the only step that takes the legacy service
\* away, and it does so only while the new service is the verified injector, the
\* stop of the old one is on record and the old one is retired.
THEOREM RemovalStaysVerified == Spec => RemovalIsVerified
<1> DEFINE Verified == legacy.here /\ ~legacy'.here =>
                         /\ ~LegacyBlocks \/ known
                         /\ receipt.stage = "stopped"
                         /\ StrictReady(txn.want) \/ txn.meddled
<1>1. MI /\ [Next]_vars => [Verified]_vars
  <2>1. ASSUME MI, Next PROVE Verified BY <2>1, DeleteOnly DEF MI
  <2> QED BY <2>1
<1>2. MI /\ [Next]_vars => [legacy.here /\ ~legacy'.here =>
                         /\ ~LegacyBlocks \/ known
                         /\ receipt.stage = "stopped"
                         /\ StrictReady(txn.want) \/ txn.meddled]_vars
  BY <1>1
<1> QED BY <1>2, MIAlways, PTL DEF Spec, RemovalIsVerified
=============================================================================
