----------------------- MODULE RuntimeInstallerProofs ------------------------
(***************************************************************************)
(* Proofs about RuntimeInstaller for every set of versions and any number  *)
(* of profiles, crashes, failed writes and intrusions: which runtime is    *)
(* selected, bound and run, what a command must hand back, and that the    *)
(* journalled activation implements the atomic switch.                     *)
(***************************************************************************)
EXTENDS RuntimeInstaller, TLAPS

\* Where no activation is pending.
Unjournalled == {"plan", "halt", "awaitstop", "inspect", "stage", "staged", "receipt",
                 "swap", "old", "moved", "placed", "check", "checked", "cleaned", "journal",
                 "retain", "sweep", "swept", "unreceipt", "rebind", "delete", "erase",
                 "forget"}

\* Where the pointer is the bundled runtime's.
Switched == {"materialize", "prepare", "commit", "health", "awaitready", "require",
             "finalize"}
Retaining == {"retain", "sweep", "swept", "unreceipt"}

\* Where a repair's journal may be found.
Replacing == {"idle", "recover", "clear", "old", "moved", "placed", "check", "checked",
              "cleaned"}

\* The verbs that stop a running service before they stage anything.
Halting == {"upgrade", "repair", "bootstrap", "preserve"}
Halted == {"inspect", "stage", "staged", "receipt", "swap", "old", "moved", "placed",
           "check", "checked", "cleaned", "journal", "switch", "materialize", "prepare"}

\* The command a step belongs to.
VerbOfStep ==
    /\ ~At("idle") => op.bundled \in Version /\ op.verb \in Verbs /\ op.outcome = "none"
    /\ op.step \in DeploySteps \cup Activating \cup {"retain", "sweep", "settle"}
         => op.verb \in Deploying
    /\ op.step \in {"swept", "unreceipt"} => op.verb \in Deploying \cup {"uninstall"}
    /\ At("inspect") => op.verb \in {"upgrade", "repair", "restore"}
    /\ op.step \in {"halt", "awaitstop"} =>
         op.verb \in Halting \cup {"restore", "stop", "remove", "uninstall"}
    /\ At("sync") => op.verb \in {"start", "repair"}
    /\ At("rebind") => op.verb \in {"start", "restore"}
    /\ At("delete") => op.verb \in {"remove", "uninstall"}
    /\ op.step \in {"erase", "forget"} => op.verb = "uninstall"
    /\ At("settle") /\ op.verb = "repair" => op.undo
    /\ op.step \in {"restart", "awaitrestart"} => op.verb \in {"start", "repair"} \/ op.undo
    /\ op.undo => /\ op.step \in RecoverySteps \cup {"settle", "restart", "awaitrestart"}
                  /\ op.verb \in Deploying

\* Which journals there are at a step; never both.
JournalOfStep ==
    /\ journal.phase = "none" => journal = NoJournal
    /\ journal.phase # "none" => journal.activated \in Version
    /\ repair # NoRepair =>
         journal = NoJournal /\ repair.version \in Version /\ op.step \in Replacing
    /\ op.step \in Unjournalled => journal = NoJournal
    /\ At("sync") /\ op.verb = "start" => journal = NoJournal
    /\ op.step \in {"switch", "materialize", "prepare", "commit"}
         => journal.phase = "Candidate"
    /\ op.step \in {"health", "awaitready", "finalize"} => journal.phase = "Committed"
    /\ At("unbind") => journal.phase \in {"Candidate", "RollbackRequired"}
    /\ At("require") => journal.phase \in {"Candidate", "Committed"}
    /\ op.step \in {"sync", "settle", "restart", "awaitrestart"} =>
         journal = NoJournal \/ (journal.phase = "Committed" /\ ~op.undo)
    /\ op.step \in {"switch"} \cup Switched => journal.activated = op.bundled

\* How far the pointer is from the journal's.
PointerOfStep ==
    /\ journal.phase # "none" => pointer \in {journal.previous, journal.activated}
    /\ journal.phase = "Committed" => pointer = journal.activated
    /\ At("switch") => pointer = journal.previous
    /\ op.step \in Switched => pointer = op.bundled
    /\ op.step \in Retaining /\ op.verb # "uninstall" => pointer = op.bundled

\* What the service is bound to, and that only this runs.
ServiceOfStep ==
    /\ Stopped <=> service.process = None
    /\ ~Stopped => service.process = service.image
    /\ journal = NoJournal /\ Owned => service.image = pointer
    /\ journal.phase = "Committed" => service.image = journal.activated
    /\ journal.phase \in {"Candidate", "RollbackRequired"} /\ Owned =>
         service.image \in {journal.previous, journal.activated}
    /\ journal.phase = "Candidate" /\ Admitted => service.image = journal.previous
    /\ At("unbind") => service.image = journal.activated
    /\ At("commit") => service.image = op.bundled
    /\ op.step \in {"commit", "health", "delete"} => Stopped
    /\ op.verb \in Halting /\ op.step \in Halted => Stopped
    /\ op.verb = "uninstall" /\ op.step \in {"erase", "swept", "unreceipt", "forget"}
         => ~Owned

\* The directory a repair moves away is one that cannot be reused.
SwapOfStep ==
    op.step \in {"swap", "old"} => bin[op.bundled] \in {"damaged", "headless"}

ControlInv ==
    /\ VerbOfStep /\ JournalOfStep /\ PointerOfStep /\ ServiceOfStep /\ SwapOfStep

\* The generation that retention removes is nobody's way back.
VictimIsStale ==
    At("swept") /\ op.verb # "uninstall" => op.victim \notin {pointer, prior} \cup Pinned

\* repair and preserve remember in op.was what they found, and have not started
\* a service that did not run.
CallerOfStep ==
    op.verb \in {"repair", "preserve"} =>
       /\ op.step \in RecoverySteps \cup {"plan"} /\ ~op.undo => ~op.was
       /\ At("halt") => op.was /\ Running
       /\ At("awaitstop") => op.was
       /\ /\ op.step \notin {"idle", "plan"} /\ (op.step \in RecoverySteps => op.undo)
          /\ ~op.was
          => Stopped
       /\ op.step \in {"restart", "awaitrestart"} => op.was
       /\ /\ op.verb = "preserve" /\ ~op.undo /\ op.was
          /\ op.step \in {"finalize", "settle"} \cup Retaining
          => Running

\* What is known of a command at each of its steps.
StepInv == ControlInv /\ VictimIsStale /\ CallerOfStep

InstallerInv == InstallerTypeOK /\ StepInv /\ RecoveryIsExact
-----------------------------------------------------------------------------
(***************************************************************************)
(* Types                                                                   *)
(***************************************************************************)
Outcomes == {"none", "ok", "failed", "refused", "blocked", "unrestored"}
OpType ==
    [verb : Verbs \cup {"none"}, bundled : Version \cup {None}, step : Steps \cup {"idle"},
     was : BOOLEAN, present : BOOLEAN, before : Version \cup {None}, undo : BOOLEAN,
     published : BOOLEAN, victim : Version \cup {None}, outcome : Outcomes]

DirectoryStates == {"absent", "good", "damaged", "headless"}
ServiceType == [image : Images, process : Version \cup {None}, state : ServiceStates]
AsideType == [new : {"absent", "good", "torn"}, old : {"absent", "damaged", "headless"}]
DiskTypeOK ==
    /\ bin \in [Version -> DirectoryStates]
    /\ copy \in [Version -> 0 .. MaxProfile]
    /\ receipts \subseteq Version
    /\ pointer \in Version \cup {None}
    /\ prior \in Version \cup {None}
    /\ journal \in [phase : Phases \cup {"none"}, previous : Version \cup {None},
                    activated : Version \cup {None}]
    /\ repair \in [phase : RepairPhases \cup {"none"}, version : Version \cup {None}]
    /\ aside \in AsideType
    /\ litter \in BOOLEAN
    /\ pins \subseteq Version \X (0 .. MaxProfile)
    /\ profile \in 0 .. MaxProfile
    /\ service \in ServiceType
    /\ rival \in Rivals \cup {"none"}
    /\ trouble \in 0 .. MaxTrouble

LEMMA OpIsTyped == InstallerTypeOK => op \in OpType
BY DEF InstallerTypeOK, OpType, Outcomes

LEMMA DiskIsTyped == InstallerTypeOK => DiskTypeOK
BY DEF InstallerTypeOK, DiskTypeOK, DirectoryStates, AsideType,
   ServiceType

LEMMA TypesMeet == DiskTypeOK /\ op \in OpType => InstallerTypeOK
BY DEF InstallerTypeOK, DiskTypeOK, OpType, Outcomes, DirectoryStates, AsideType,
   ServiceType

\* What the ways to move a command on leave of its state.
LEMMA GoTyped == ASSUME op \in OpType, NEW s \in Steps, Go(s) PROVE op' \in OpType
BY DEF Go, OpType

LEMMA DoneTyped ==
    ASSUME op \in OpType, NEW o \in Outcomes, Done(o) PROVE op' \in OpType
BY DEF Done, NoOp, OpType, Outcomes

LEMMA UndoTyped ==
    ASSUME op \in OpType, op' = [op EXCEPT !.step = "recover", !.undo = TRUE]
    PROVE  op' \in OpType
BY DEF OpType, Steps

LEMMA ErrsTyped == ASSUME op \in OpType, Errs PROVE op' \in OpType
<1>1. \/ Done("unrestored") \/ Done("blocked") \/ Done("failed") \/ Go("require")
      \/ op' = [op EXCEPT !.step = "recover", !.undo = TRUE]
  BY DEF Errs
<1>. QED BY <1>1, GoTyped, DoneTyped, UndoTyped DEF Steps, Outcomes

\* What an update of one generation leaves of the disk's type.
LEMMA CopyTyped ==
    ASSUME DiskTypeOK, NEW v, NEW p \in 0 .. MaxProfile
    PROVE  [copy EXCEPT ![v] = p] \in [Version -> 0 .. MaxProfile]
BY DEF DiskTypeOK

LEMMA PlaceTyped ==
    ASSUME DiskTypeOK, NEW v, NEW s \in DirectoryStates
    PROVE  [bin EXCEPT ![v] = s] \in [Version -> DirectoryStates]
BY DEF DiskTypeOK

\* What the SCM makes of a typed service is typed.
LEMMA ServiceTyped ==
    ASSUME service \in ServiceType
    PROVE  /\ StoppedService \in ServiceType /\ StopRequested \in ServiceType
           /\ NoService \in ServiceType
           /\ \A v \in Version \cup {None} : Bound(v) \in ServiceType
           /\ Owned => Launched \in ServiceType
<1> USE DEF ServiceType, Images, ServiceStates
<1>1. StoppedService \in ServiceType /\ StopRequested \in ServiceType /\ NoService \in ServiceType
  BY DEF StoppedService, StopRequested, NoService
<1>2. \A v \in Version \cup {None} : Bound(v) \in ServiceType
  BY DEF Bound
<1>3. Owned => Launched \in ServiceType
  BY DEF Launched, Owned
<1>. QED BY <1>1, <1>2, <1>3

\* The command's own state stays typed.
LEMMA OpStaysTyped ==
    ASSUME InstallerTypeOK, ControlInv, InstallerNext
    PROVE  op' \in OpType
<1> USE OpIsTyped DEF Steps, Outcomes
<1>1. CASE RecoverRepair
  BY <1>1, GoTyped, DoneTyped, ErrsTyped, UndoTyped DEF RecoverRepair
<1>2. CASE NothingToRecover
  BY <1>2, GoTyped, DoneTyped, ErrsTyped, UndoTyped DEF NothingToRecover, Recovered
<1>3. CASE RestoreBinding
  BY <1>3, GoTyped, DoneTyped, ErrsTyped, UndoTyped DEF RestoreBinding
<1>4. CASE RestorePointer
  BY <1>4, GoTyped, DoneTyped, ErrsTyped, UndoTyped DEF RestorePointer
<1>5. CASE FinishRecovery
  BY <1>5, GoTyped, DoneTyped, ErrsTyped, UndoTyped DEF FinishRecovery, Recovered
<1>6. CASE RecoveryUnknown
  BY <1>6, GoTyped, DoneTyped, ErrsTyped, UndoTyped DEF RecoveryUnknown
<1>55. CASE ClearNew
  BY <1>55, GoTyped DEF ClearNew
<1>56. CASE RestoreStopped
  BY <1>56, GoTyped DEF RestoreStopped
<1>7. CASE PlanOwned
  <2>1. Running \in BOOLEAN /\ (IF Running THEN "halt" ELSE "inspect") \in Steps
    BY DEF Running
  <2>2. CASE op' = [op EXCEPT !.was = Running, !.present = TRUE,
                              !.step = IF Running THEN "halt" ELSE "inspect"]
    <3> HIDE DEF Steps, Outcomes
    <3>. QED BY <2>1, <2>2 DEF OpType
  <2>. QED BY <1>7, <2>2, ErrsTyped DEF PlanOwned
<1>8. CASE PlanInstall
  BY <1>8, GoTyped, DoneTyped, ErrsTyped, UndoTyped DEF PlanInstall
<1>9. CASE PlanBootstrap
  <2>1. /\ Running \in BOOLEAN /\ Owned \in BOOLEAN
        /\ (IF Running THEN "halt" ELSE "stage") \in Steps
    BY DEF Running, Owned
  <2>2. CASE op' = [op EXCEPT !.was = Running, !.present = Owned, !.before = pointer,
                              !.step = IF Running THEN "halt" ELSE "stage"]
    <3> HIDE DEF Steps, Outcomes
    <3>. QED BY <2>1, <2>2 DEF OpType, InstallerTypeOK
  <2>. QED BY <1>9, <2>2, DoneTyped DEF PlanBootstrap, Outcomes
<1>10. CASE PlanStart
  BY <1>10, GoTyped, DoneTyped, ErrsTyped, UndoTyped DEF PlanStart
<1>11. CASE PlanStop
  BY <1>11, GoTyped, DoneTyped, ErrsTyped, UndoTyped DEF PlanStop
<1>12. CASE PlanUninstall
  BY <1>12, GoTyped, DoneTyped, ErrsTyped, UndoTyped DEF PlanUninstall
<1>13. CASE Halt
  BY <1>13, GoTyped, DoneTyped, ErrsTyped, UndoTyped DEF Halt, AfterStop
<1>57. CASE StopConfirmed
  BY <1>57, GoTyped, DoneTyped DEF StopConfirmed, AfterStop
<1>14. CASE Inspect
  <2>1. CASE op' = [op EXCEPT !.step = "stage", !.before = pointer]
    BY <2>1 DEF OpType, InstallerTypeOK
  <2>2. op.verb \in {"upgrade", "repair", "restore"}
    BY <1>14 DEF Inspect, ControlInv, VerbOfStep
  <2>. QED BY <1>14, <2>1, <2>2, DoneTyped, GoTyped, UndoTyped DEF Inspect, Outcomes
<1>15. CASE Stage
  BY <1>15, GoTyped, DoneTyped, ErrsTyped, UndoTyped DEF Stage
<1>16. CASE Rename
  BY <1>16, GoTyped, DoneTyped, ErrsTyped, UndoTyped DEF Rename
<1>17. CASE WriteReceipt
  BY <1>17, GoTyped, DoneTyped, ErrsTyped, UndoTyped DEF WriteReceipt
<1>18. CASE PrepareSwap
  BY <1>18, GoTyped, DoneTyped, ErrsTyped, UndoTyped DEF PrepareSwap, Swapping
<1>19. CASE MoveOld
  BY <1>19, GoTyped, DoneTyped, ErrsTyped, UndoTyped DEF MoveOld, Swapping
<1>20. CASE NoteMoved
  BY <1>20, GoTyped, DoneTyped, ErrsTyped, UndoTyped DEF NoteMoved, Swapping
<1>21. CASE PlaceNew
  BY <1>21, GoTyped, DoneTyped, ErrsTyped, UndoTyped DEF PlaceNew, Swapping
<1>22. CASE NotePlaced
  BY <1>22, GoTyped, DoneTyped, ErrsTyped, UndoTyped DEF NotePlaced, Swapping
<1>23. CASE NoteVerified
  BY <1>23, GoTyped, DoneTyped, ErrsTyped, UndoTyped DEF NoteVerified, Swapping
<1>24. CASE DropOld
  BY <1>24, GoTyped, DoneTyped, ErrsTyped, UndoTyped DEF DropOld
<1>25. CASE WriteJournal
  BY <1>25 DEF WriteJournal, OpType, InstallerTypeOK
<1>26. CASE SwitchPointer
  BY <1>26, GoTyped, DoneTyped, ErrsTyped, UndoTyped DEF SwitchPointer
<1>27. CASE Materialize
  BY <1>27, GoTyped, DoneTyped, ErrsTyped, UndoTyped DEF Materialize
<1>28. CASE PublishDefault
  BY <1>28 DEF PublishDefault, OpType
<1>29. CASE Prepare
  BY <1>29, GoTyped, DoneTyped, ErrsTyped, UndoTyped DEF Prepare
<1>30. CASE Commit
  BY <1>30, GoTyped, DoneTyped, ErrsTyped, UndoTyped DEF Commit
<1>31. CASE Health
  BY <1>31, GoTyped, DoneTyped, ErrsTyped, UndoTyped DEF Health, SendStart
<1>58. CASE AwaitReady
  BY <1>58, GoTyped, DoneTyped, ErrsTyped, UndoTyped DEF AwaitReady
<1>32. CASE RequireRollback
  BY <1>32, GoTyped, DoneTyped, ErrsTyped, UndoTyped DEF RequireRollback
<1>33. CASE Finalize
  BY <1>33, GoTyped, DoneTyped, ErrsTyped, UndoTyped DEF Finalize
<1>34. CASE Retain
  BY <1>34, GoTyped, DoneTyped, ErrsTyped, UndoTyped DEF Retain, AfterRetention
<1>35. CASE Sweep
  <2>1. CASE \E v \in Stale : op' = [op EXCEPT !.step = "swept", !.victim = v]
    BY <2>1 DEF Stale, OpType
  <2>. QED BY <1>35, <2>1, GoTyped DEF Sweep, AfterRetention
<1>36. CASE RemoveDirectory
  BY <1>36, GoTyped, DoneTyped, ErrsTyped, UndoTyped DEF RemoveDirectory
<1>37. CASE RemoveReceipt
  <2>1. (IF op.verb = "uninstall" THEN "erase" ELSE "sweep") \in Steps
    OBVIOUS
  <2> HIDE DEF Steps, Outcomes
  <2>. QED BY <1>37, <2>1 DEF RemoveReceipt, OpType
<1>38. CASE Synchronize
  BY <1>38, GoTyped, DoneTyped, ErrsTyped, UndoTyped DEF Synchronize
<1>39. CASE Rebind
  BY <1>39, GoTyped, DoneTyped, ErrsTyped, UndoTyped DEF Rebind
<1>40. CASE Restart
  BY <1>40, GoTyped, DoneTyped, ErrsTyped, UndoTyped DEF Restart, SendStart
<1>41. CASE Settle
  BY <1>41, GoTyped, DoneTyped, ErrsTyped, UndoTyped DEF Settle
<1>42. CASE Delete
  BY <1>42, GoTyped, DoneTyped, ErrsTyped, UndoTyped DEF Delete
<1>43. CASE Erase
  <2>1. CASE \E v \in OnDisk : op' = [op EXCEPT !.step = "swept", !.victim = v]
    BY <2>1 DEF OnDisk, OpType
  <2>. QED BY <1>43, <2>1, GoTyped DEF Erase
<1>44. CASE Forget
  BY <1>44, GoTyped, DoneTyped, ErrsTyped, UndoTyped DEF Forget
<1>45. CASE PublishProfile
  BY <1>45, GoTyped, DoneTyped, ErrsTyped, UndoTyped DEF PublishProfile
<1>46. CASE Fails
  BY <1>46, GoTyped, DoneTyped, ErrsTyped, UndoTyped DEF Fails, AfterRetention
<1>47. CASE HostChecks \/ HostReports \/ HostGivesUp \/ HostStops
  BY <1>47 DEF HostChecks, HostReports, HostGivesUp, HostStops, OpType
<1>48. CASE Crash
  BY <1>48 DEF Crash, NoOp, OpType, Outcomes
<1>49. CASE Boot
  BY <1>49, GoTyped, DoneTyped, ErrsTyped, UndoTyped DEF Boot
<1>50. CASE Rival
  BY <1>50, GoTyped, DoneTyped, ErrsTyped, UndoTyped DEF Rival, Rivals
<1>51. CASE Intrude
  BY <1>51, GoTyped, DoneTyped, ErrsTyped, UndoTyped DEF Intrude
<1>52. CASE Pin
  BY <1>52, GoTyped, DoneTyped, ErrsTyped, UndoTyped DEF Pin
<1>53. CASE \E v \in Version : Damage(v)
  BY <1>53, GoTyped, DoneTyped, ErrsTyped, UndoTyped DEF Damage
<1>54. CASE \E verb \in Verbs, v \in Version : Begin(verb, v)
  BY <1>54 DEF Begin, NoOp, OpType, Outcomes
<1>. QED BY <1>1, <1>2, <1>3, <1>4, <1>5, <1>6, <1>7, <1>8, <1>9, <1>10, <1>11, <1>12,
     <1>13, <1>14, <1>15, <1>16, <1>17, <1>18, <1>19, <1>20, <1>21, <1>22, <1>23, <1>24,
     <1>25, <1>26, <1>27, <1>28, <1>29, <1>30, <1>31, <1>32, <1>33, <1>34, <1>35, <1>36,
     <1>37, <1>38, <1>39, <1>40, <1>41, <1>42, <1>43, <1>44, <1>45, <1>46, <1>47, <1>48,
     <1>49, <1>50, <1>51, <1>52, <1>53, <1>54, <1>55, <1>56, <1>57, <1>58
     DEF InstallerNext, Step, Environment
\* The files, the SCM record and the surroundings stay typed.
LEMMA DiskStaysTyped ==
    ASSUME InstallerTypeOK, ControlInv, InstallerNext
    PROVE  DiskTypeOK'
<1> USE DiskIsTyped DEF DiskTypeOK, ControlInv, VerbOfStep, JournalOfStep, SwapOfStep, Phases,
      RepairPhases, Images, Rivals, Owned, Running, Stopped, ServiceStates, At, Verbs, Keep,
      files, outside, DirectoryStates, AsideType, ServiceType
<1>1. CASE RecoverRepair
  <2>1. CASE \E m \in RepairMoves :
                /\ bin' = [bin EXCEPT ![repair.version] = m.dest]
                /\ aside' = [new |-> m.new, old |-> m.old] /\ UNCHANGED repair
    <3>1. PICK m \in RepairMoves :
                /\ bin' = [bin EXCEPT ![repair.version] = m.dest]
                /\ aside' = [new |-> m.new, old |-> m.old] /\ UNCHANGED repair
      BY <2>1
    <3>2. /\ bin[repair.version] \in DirectoryStates /\ aside.new \in {"absent", "good", "torn"}
          /\ aside.old \in {"absent", "damaged", "headless"}
      BY <1>1 DEF RecoverRepair
    <3>3. CASE m = [dest |-> aside.old, new |-> aside.new, old |-> "absent"]
      BY <1>1, <3>1, <3>2, <3>3, PlaceTyped DEF RecoverRepair
    <3>4. CASE m = [dest |-> bin[repair.version], new |-> "torn", old |-> aside.old]
      BY <1>1, <3>1, <3>2, <3>4, PlaceTyped DEF RecoverRepair
    <3>5. CASE m = [dest |-> "absent", new |-> "good", old |-> aside.old]
      BY <1>1, <3>1, <3>2, <3>5, PlaceTyped DEF RecoverRepair
    <3>6. CASE m = [dest |-> bin[repair.version], new |-> "absent", old |-> "absent"]
      BY <1>1, <3>1, <3>2, <3>6, PlaceTyped DEF RecoverRepair
    <3>. QED BY <3>1, <3>3, <3>4, <3>5, <3>6 DEF RepairMoves
  <2>2. CASE UNCHANGED <<bin, aside>>
    BY <1>1, <2>2 DEF RecoverRepair, NoRepair
  <2>. QED BY <1>1, <2>1, <2>2 DEF RecoverRepair
<1>2. CASE NothingToRecover
  BY <1>2, InstallerAssumption DEF NothingToRecover, NoJournal
<1>3. CASE RestoreBinding
  BY <1>3, InstallerAssumption DEF RestoreBinding, Unbound, Bound, StopRequested, NoService
<1>55. CASE ClearNew
  BY <1>55 DEF ClearNew
<1>56. CASE RestoreStopped
  BY <1>56, InstallerAssumption DEF RestoreStopped, Unbound, Bound, NoService
<1>4. CASE RestorePointer
  BY <1>4, InstallerAssumption DEF RestorePointer
<1>5. CASE FinishRecovery
  BY <1>5, InstallerAssumption DEF FinishRecovery, NoJournal
<1>6. CASE RecoveryUnknown
  BY <1>6, InstallerAssumption DEF RecoveryUnknown, NoJournal
<1>7. CASE PlanOwned
  BY <1>7, InstallerAssumption DEF PlanOwned
<1>8. CASE PlanInstall
  BY <1>8, InstallerAssumption DEF PlanInstall
<1>9. CASE PlanBootstrap
  BY <1>9, InstallerAssumption DEF PlanBootstrap
<1>10. CASE PlanStart
  BY <1>10, InstallerAssumption DEF PlanStart
<1>11. CASE PlanStop
  BY <1>11, InstallerAssumption DEF PlanStop
<1>12. CASE PlanUninstall
  BY <1>12, InstallerAssumption DEF PlanUninstall
<1>13. CASE Halt
  BY <1>13, InstallerAssumption DEF Halt, StopRequested
<1>57. CASE StopConfirmed
  BY <1>57 DEF StopConfirmed
<1>14. CASE Inspect
  BY <1>14, InstallerAssumption DEF Inspect
<1>15. CASE Stage
  BY <1>15, InstallerAssumption DEF Stage, NoJournal, NoRepair
<1>16. CASE Rename
  BY <1>16, InstallerAssumption DEF Rename, Place
<1>17. CASE WriteReceipt
  BY <1>17, InstallerAssumption DEF WriteReceipt
<1>18. CASE PrepareSwap
  BY <1>18, InstallerAssumption DEF PrepareSwap, Swapping, Place
<1>19. CASE MoveOld
  BY <1>19, InstallerAssumption DEF MoveOld, Swapping, Place
<1>20. CASE NoteMoved
  BY <1>20, InstallerAssumption DEF NoteMoved, Swapping, Place
<1>21. CASE PlaceNew
  BY <1>21, InstallerAssumption DEF PlaceNew, Swapping, Place
<1>22. CASE NotePlaced
  BY <1>22, InstallerAssumption DEF NotePlaced, Swapping, Place
<1>23. CASE NoteVerified
  BY <1>23, InstallerAssumption DEF NoteVerified, Swapping, Place
<1>24. CASE DropOld
  <2>1. NoAside \in AsideType
    BY DEF NoAside
  <2>2. NoRepair \in [phase : RepairPhases \cup {"none"}, version : Version \cup {None}]
    BY DEF NoRepair
  <2>. QED BY <1>24, <2>1, <2>2 DEF DropOld
<1>25. CASE WriteJournal
  BY <1>25, InstallerAssumption DEF WriteJournal
<1>26. CASE SwitchPointer
  BY <1>26, InstallerAssumption DEF SwitchPointer
<1>27. CASE Materialize
  BY <1>27, CopyTyped DEF Materialize
<1>28. CASE PublishDefault
  <2>1. 1 \in 0 .. MaxProfile
    BY InstallerAssumption
  <2>. QED BY <1>28, <2>1, CopyTyped DEF PublishDefault
<1>29. CASE Prepare
  BY <1>29, InstallerAssumption DEF Prepare, Bindable, Publishes, Registers, Bound
<1>30. CASE Commit
  BY <1>30, InstallerAssumption DEF Commit
<1>31. CASE Health
  BY <1>31, ServiceTyped DEF Health, SendStart, Startable
<1>58. CASE AwaitReady
  BY <1>58 DEF AwaitReady
<1>32. CASE RequireRollback
  BY <1>32, InstallerAssumption DEF RequireRollback
<1>33. CASE Finalize
  BY <1>33, InstallerAssumption DEF Finalize, NoJournal
<1>34. CASE Retain
  BY <1>34, OpIsTyped DEF Retain, OpType
<1>35. CASE Sweep
  <2>1. bin' = bin \/ \E v \in Stale : bin' = [bin EXCEPT ![v] = "headless"]
    BY <1>35 DEF Sweep, Place
  <2>2. bin' \in [Version -> DirectoryStates]
    BY <2>1, PlaceTyped
  <2>3. UNCHANGED <<copy, receipts, pointer, prior, journal, repair, aside, litter, pins,
                    profile, service, rival, trouble>>
    BY <1>35 DEF Sweep
  <2>. QED BY <2>2, <2>3
<1>36. CASE RemoveDirectory
  <2>1. 0 \in 0 .. MaxProfile
    BY InstallerAssumption
  <2>. QED BY <1>36, <2>1, CopyTyped, PlaceTyped DEF RemoveDirectory, Place
<1>37. CASE RemoveReceipt
  BY <1>37, InstallerAssumption DEF RemoveReceipt
<1>38. CASE Synchronize
  BY <1>38, CopyTyped DEF Synchronize
<1>39. CASE Rebind
  BY <1>39, InstallerAssumption DEF Rebind, Bound
<1>40. CASE Restart
  BY <1>40, ServiceTyped DEF Restart, SendStart, Startable
<1>41. CASE Settle
  BY <1>41, InstallerAssumption DEF Settle
<1>42. CASE Delete
  BY <1>42, InstallerAssumption DEF Delete, NoService
<1>43. CASE Erase
  <2>1. bin' = bin \/ \E v \in OnDisk : bin' = [bin EXCEPT ![v] = "headless"]
    BY <1>43 DEF Erase, Place
  <2>2. bin' \in [Version -> DirectoryStates]
    BY <2>1, PlaceTyped
  <2>3. UNCHANGED <<copy, receipts, pointer, prior, journal, repair, aside, litter, pins,
                    profile, service, rival, trouble>>
    BY <1>43 DEF Erase
  <2>. QED BY <2>2, <2>3
<1>44. CASE Forget
  BY <1>44, InstallerAssumption DEF Forget
<1>45. CASE PublishProfile
  BY <1>45, InstallerAssumption DEF PublishProfile
<1>46. CASE Fails
  <2>1. op.bundled \in Version \cup {None} /\ pointer \in Version \cup {None}
        /\ journal.previous \in Version \cup {None}
    BY DEF InstallerTypeOK
  <2>2. service' \in ServiceType
    <3> HIDE DEF ServiceType
    <3>1. \A v \in Version \cup {None} : Bound(v) \in ServiceType
      BY ServiceTyped
    <3>2. Attempted \subseteq ServiceType
      BY <2>1, <3>1, ServiceTyped DEF Attempted, Unbound
    <3>. QED BY <1>46, <3>2 DEF Fails
  <2>. QED BY <1>46, <2>2, InstallerAssumption DEF Fails, Trouble
<1>47. CASE HostChecks \/ HostReports \/ HostGivesUp \/ HostStops
  <2>1. \/ service' = StoppedService \/ service' = [service EXCEPT !.state = "checked"]
        \/ service' = [service EXCEPT !.state = "running"]
    BY <1>47 DEF HostChecks, HostReports, HostGivesUp, HostStops
  <2>2. service' \in ServiceType
    BY <2>1, ServiceTyped
  <2>3. UNCHANGED <<files, rival>> /\ (UNCHANGED trouble \/ Trouble)
    BY <1>47 DEF HostChecks, HostReports, HostGivesUp, HostStops
  <2>. QED BY <2>2, <2>3, InstallerAssumption DEF Trouble
<1>48. CASE Crash
  <2>1. service' \in ServiceType
    BY <1>48, ServiceTyped DEF Crash
  <2>. QED BY <1>48, <2>1, InstallerAssumption DEF Crash, Trouble
<1>49. CASE Boot
  BY <1>49, ServiceTyped DEF Boot
<1>50. CASE Rival
  BY <1>50, InstallerAssumption DEF Rival, Trouble
<1>51. CASE Intrude
  BY <1>51, InstallerAssumption DEF Intrude, Trouble
<1>52. CASE Pin
  BY <1>52, InstallerAssumption DEF Pin
<1>53. CASE \E v \in Version : Damage(v)
  BY <1>53, InstallerAssumption DEF Damage, Trouble, Place
<1>54. CASE \E verb \in Verbs, v \in Version : Begin(verb, v)
  BY <1>54, InstallerAssumption DEF Begin
<1>. QED BY <1>1, <1>2, <1>3, <1>4, <1>5, <1>6, <1>7, <1>8, <1>9, <1>10, <1>11, <1>12,
     <1>13, <1>14, <1>15, <1>16, <1>17, <1>18, <1>19, <1>20, <1>21, <1>22, <1>23, <1>24,
     <1>25, <1>26, <1>27, <1>28, <1>29, <1>30, <1>31, <1>32, <1>33, <1>34, <1>35, <1>36,
     <1>37, <1>38, <1>39, <1>40, <1>41, <1>42, <1>43, <1>44, <1>45, <1>46, <1>47, <1>48,
     <1>49, <1>50, <1>51, <1>52, <1>53, <1>54, <1>55, <1>56, <1>57, <1>58
     DEF InstallerNext, Step, Environment
-----------------------------------------------------------------------------
(***************************************************************************)
(* Steps                                                                   *)
(***************************************************************************)
\* A command that returns keeps its verb and what it remembered of its caller.
LEMMA DoneFields ==
    ASSUME NEW o, Done(o)
    PROVE  /\ op'.step = "idle" /\ op'.verb = op.verb /\ op'.was = op.was
           /\ op'.undo = FALSE /\ op'.outcome = o
BY DEF Done, NoOp

\* Returning needs nothing but the files, the journals and the binding as they are.
LEMMA ReturnKeepsStepInv ==
    ASSUME InstallerTypeOK, StepInv, NEW o, Done(o),
           UNCHANGED <<journal, repair, pointer, service>>
    PROVE  StepInv'
<1>1. op'.step = "idle" /\ op'.verb = op.verb /\ op'.undo = FALSE
  BY DoneFields
<1>. QED BY <1>1 DEF StepInv, ControlInv, VerbOfStep, JournalOfStep, PointerOfStep,
        ServiceOfStep, SwapOfStep, VictimIsStale, CallerOfStep, Unjournalled, Switched,
        Retaining, Replacing, Halting, Halted, Deploying, Activating, DeploySteps,
        RecoverySteps, At, Owned, Running, Stopped, Admitted, NoJournal, NoRepair

\* Nor does an error, wherever it leads.
LEMMA ErrorKeepsStepInv ==
    ASSUME InstallerTypeOK, StepInv, ~At("idle"), Errs,
           UNCHANGED <<journal, repair, pointer, service>>
    PROVE  StepInv'
<1> USE DEF StepInv, ControlInv, VerbOfStep, JournalOfStep, PointerOfStep, ServiceOfStep,
        SwapOfStep, VictimIsStale, CallerOfStep, Unjournalled, Switched, Retaining, Replacing,
        Halting, Halted, Deploying, Activating, DeploySteps, RecoverySteps, At, Owned, Running,
        Stopped, Admitted, NoJournal, NoRepair, Verbs
<1>1. CASE \E o : Done(o)
  BY <1>1, ReturnKeepsStepInv
<1>2. CASE Go("require") /\ op.step \in Activating /\ ~op.undo
  BY <1>2 DEF Go, InstallerTypeOK
<1>3. CASE /\ op' = [op EXCEPT !.step = "recover", !.undo = TRUE]
           /\ op.verb \in Deploying
           /\ op.step \in DeploySteps \cup {"sync", "restart", "awaitrestart"}
  BY <1>3 DEF InstallerTypeOK
<1>. QED BY <1>1, <1>2, <1>3 DEF Errs

\* Only an error of a recovery that undoes nothing blocks.
LEMMA ErrorOutcome ==
    ASSUME InstallerTypeOK, ControlInv, ~At("idle"), Errs
    PROVE  op'.outcome = "blocked" => op.step \in RecoverySteps /\ ~op.undo
<1>4. op.outcome = "none"
  BY DEF ControlInv, VerbOfStep
<1>1. CASE Go("require") \/ op' = [op EXCEPT !.step = "recover", !.undo = TRUE]
  <2>1. op'.outcome = op.outcome
    BY <1>1 DEF Go, InstallerTypeOK
  <2>. QED BY <2>1, <1>4
<1>2. CASE Done("unrestored") \/ Done("failed")
  <2>1. op'.outcome \in {"unrestored", "failed"}
    BY <1>2 DEF Done, NoOp
  <2>. QED BY <2>1
<1>3. CASE Done("blocked") /\ op.step \in RecoverySteps /\ ~op.undo
  BY <1>3
<1>. QED BY <1>1, <1>2, <1>3 DEF Errs

\* Every step of a command, every trouble and the environment preserve what is known
\* of each step.
LEMMA NextKeepsStepInv ==
    ASSUME InstallerTypeOK, StepInv, InstallerNext
    PROVE  StepInv'
<1> USE InstallerAssumption
    DEF StepInv, ControlInv, VerbOfStep, JournalOfStep, PointerOfStep, ServiceOfStep,
        SwapOfStep, VictimIsStale, CallerOfStep, Unjournalled, Switched, Retaining,
        Replacing, Halting, Halted, Deploying, Activating, DeploySteps, RecoverySteps, At,
        Owned, Running, Stopped, Admitted,
        NoJournal, NoRepair, Verbs, InstallerTypeOK, files, outside, Go
<1>1. CASE RecoverRepair
  <2>1. CASE Errs
    BY <1>1, <2>1, ErrorKeepsStepInv DEF RecoverRepair
  <2>2. CASE UNCHANGED repair /\ (Go("clear") \/ UNCHANGED op)
    BY <1>1, <2>2 DEF RecoverRepair
  <2>3. CASE repair' = NoRepair /\ UNCHANGED op
    BY <1>1, <2>3 DEF RecoverRepair
  <2>. QED BY <1>1, <2>1, <2>2, <2>3 DEF RecoverRepair
<1>2. CASE NothingToRecover
  <2>1. CASE Errs
    BY <1>2, <2>1, ErrorKeepsStepInv DEF NothingToRecover, Recovering, Keep
  <2>2. CASE Recovered
    BY <1>2, <2>2 DEF NothingToRecover, Recovering, Recovered
  <2>. QED BY <1>2, <2>1, <2>2 DEF NothingToRecover
<1>55. CASE ClearNew
  BY <1>55 DEF ClearNew
<1>3. CASE RestoreBinding
  <2>1. CASE Running /\ service' = StopRequested /\ Go("unbind")
    BY <1>3, <2>1 DEF RestoreBinding, Recovering, MustRebind, StopRequested
  <2>2. CASE Stopped /\ service' = Unbound /\ UNCHANGED op
    BY <1>3, <2>2 DEF RestoreBinding, Recovering, MustRebind, Unbound, Bound, NoService
  <2>. QED BY <1>3, <2>1, <2>2 DEF RestoreBinding, Transitional
<1>56. CASE RestoreStopped
  BY <1>56 DEF RestoreStopped, Unbound, Bound, NoService
<1>4. CASE RestorePointer
  BY <1>4 DEF RestorePointer, Recovering, MayRestorePointer
<1>5. CASE FinishRecovery
  BY <1>5 DEF FinishRecovery, Recovering, Recovered, MayFinish, MayRestorePointer
<1>6. CASE RecoveryUnknown
  BY <1>6, ErrorKeepsStepInv, ReturnKeepsStepInv DEF RecoveryUnknown, Recovering
<1>7. CASE PlanOwned
  <2>1. CASE Errs
    BY <1>7, <2>1, ErrorKeepsStepInv DEF PlanOwned, Keep
  <2>2. CASE Owned /\ ~Transitional /\ op' = [op EXCEPT !.was = Running, !.present = TRUE,
                            !.step = IF Running THEN "halt" ELSE "inspect"]
    <3>1. /\ op'.step = IF Running THEN "halt" ELSE "inspect"
          /\ op'.verb = op.verb /\ op'.bundled = op.bundled /\ op'.undo = op.undo
          /\ op'.outcome = op.outcome
          /\ op'.was = Running
      BY <2>2
    <3>2. op.step = "plan" /\ UNCHANGED <<journal, repair, pointer, service>>
      BY <1>7 DEF PlanOwned, Keep
    <3>3. CallerOfStep'
      BY <2>2, <3>1, <3>2 DEF Transitional
    <3>4. VerbOfStep'
      BY <1>7, <3>1, <3>2 DEF PlanOwned
    <3>5. ServiceOfStep'
      BY <2>2, <3>1, <3>2 DEF Transitional
    <3>6. JournalOfStep' /\ PointerOfStep' /\ SwapOfStep' /\ VictimIsStale'
      BY <1>7, <3>1, <3>2 DEF PlanOwned
    <3>. QED BY <3>3, <3>4, <3>5, <3>6
  <2>. QED BY <1>7, <2>1, <2>2 DEF PlanOwned
<1>8. CASE PlanInstall
  BY <1>8 DEF PlanInstall, Keep
<1>9. CASE PlanBootstrap
  <2>1. CASE Done("refused")
    BY <1>9, <2>1, ReturnKeepsStepInv DEF PlanBootstrap, Keep
  <2>2. CASE ~Transitional /\ op' = [op EXCEPT !.was = Running, !.present = Owned, !.before = pointer,
                   !.step = IF Running THEN "halt" ELSE "stage"]
    <3>1. /\ op'.step = IF Running THEN "halt" ELSE "stage"
          /\ op'.verb = op.verb /\ op'.bundled = op.bundled /\ op'.undo = op.undo
          /\ op'.outcome = op.outcome
          /\ op'.was = Running
      BY <2>2
    <3>2. op.step = "plan" /\ UNCHANGED <<journal, repair, pointer, service>>
      BY <1>9 DEF PlanBootstrap, Keep
    <3>3. CallerOfStep'
      BY <2>2, <3>1, <3>2 DEF Transitional
    <3>4. VerbOfStep'
      BY <1>9, <3>1, <3>2 DEF PlanBootstrap
    <3>5. ServiceOfStep'
      BY <2>2, <3>1, <3>2 DEF Transitional
    <3>6. JournalOfStep' /\ PointerOfStep' /\ SwapOfStep' /\ VictimIsStale'
      BY <1>9, <3>1, <3>2 DEF PlanBootstrap
    <3>. QED BY <3>3, <3>4, <3>5, <3>6
  <2>. QED BY <1>9, <2>1, <2>2 DEF PlanBootstrap, Preflight
<1>10. CASE PlanStart
  <2>1. CASE Errs
    BY <1>10, <2>1, ErrorKeepsStepInv DEF PlanStart, Keep
  <2>2. CASE Go("sync")
    BY <1>10, <2>2 DEF PlanStart, Keep
  <2>. QED BY <1>10, <2>1, <2>2 DEF PlanStart
<1>11. CASE PlanStop
  <2>1. CASE Errs
    BY <1>11, <2>1, ErrorKeepsStepInv DEF PlanStop, Keep
  <2>2. CASE Done("ok")
    BY <1>11, <2>2, ReturnKeepsStepInv DEF PlanStop, Keep
  <2>3. CASE Go("halt")
    BY <1>11, <2>3 DEF PlanStop, Keep
  <2>. QED BY <1>11, <2>1, <2>2, <2>3 DEF PlanStop
<1>12. CASE PlanUninstall
  <2>1. CASE Errs
    BY <1>12, <2>1, ErrorKeepsStepInv DEF PlanUninstall, Keep
  <2>2. CASE Done("refused")
    BY <1>12, <2>2, ReturnKeepsStepInv DEF PlanUninstall, Keep
  <2>3. CASE Go("halt")
    BY <1>12, <2>3 DEF PlanUninstall, Keep
  <2>4. CASE service.image = None /\ Go("delete")
    <3>1. Stopped
      BY <2>4
    <3>. QED BY <1>12, <2>4, <3>1 DEF PlanUninstall, Keep
  <2>. QED BY <1>12, <2>1, <2>2, <2>3, <2>4 DEF PlanUninstall
<1>13. CASE Halt
  <2>1. CASE Errs /\ UNCHANGED service
    BY <1>13, <2>1, ErrorKeepsStepInv DEF Halt
  <2>2. CASE service' = StopRequested /\ Go("awaitstop") /\ Running
    BY <1>13, <2>2 DEF Halt, StopRequested
  <2>3. CASE Stopped /\ AfterStop /\ UNCHANGED service
    BY <1>13, <2>3, ReturnKeepsStepInv DEF Halt, AfterStop
  <2>. QED BY <1>13, <2>1, <2>2, <2>3 DEF Halt
<1>57. CASE StopConfirmed
  BY <1>57, ReturnKeepsStepInv DEF StopConfirmed, AfterStop, Keep
<1>14. CASE Inspect
  <2>1. CASE Done("failed")
    BY <1>14, <2>1, ReturnKeepsStepInv DEF Inspect, Keep
  <2>2. CASE op.verb = "restore" /\ Go("rebind")
    BY <1>14, <2>2 DEF Inspect, Keep
  <2>3. CASE op.verb \in {"upgrade", "repair"} /\ op' = [op EXCEPT !.step = "stage", !.before = pointer]
    BY <1>14, <2>3 DEF Inspect, Keep
  <2>4. CASE op.verb = "repair" /\ op' = [op EXCEPT !.step = "recover", !.undo = TRUE]
    BY <1>14, <2>4 DEF Inspect, Keep
  <2>. QED BY <1>14, <2>1, <2>2, <2>3, <2>4 DEF Inspect
<1>15. CASE Stage
  <2>1. CASE Errs
    BY <1>15, <2>1, ErrorKeepsStepInv DEF Stage, Keep
  <2>2. CASE Go("receipt") \/ Go("staged")
    BY <1>15, <2>2 DEF Stage, Keep
  <2>3. CASE op.verb = "repair" /\ Go("swap") /\ ~PayloadInPlace /\ bin[op.bundled] # "absent" /\ repair = NoRepair
    BY <1>15, <2>3 DEF Stage, Keep, PayloadInPlace
  <2>. QED BY <1>15, <2>1, <2>2, <2>3 DEF Stage
<1>16. CASE Rename
  BY <1>16 DEF Rename, Place
<1>17. CASE WriteReceipt
  BY <1>17 DEF WriteReceipt
<1>18. CASE PrepareSwap
  BY <1>18 DEF PrepareSwap, Swapping, Place
<1>19. CASE MoveOld
  BY <1>19 DEF MoveOld, Swapping, Place
<1>20. CASE NoteMoved
  BY <1>20 DEF NoteMoved, Swapping, Place
<1>21. CASE PlaceNew
  BY <1>21 DEF PlaceNew, Swapping, Place
<1>22. CASE NotePlaced
  BY <1>22 DEF NotePlaced, Swapping, Place
<1>23. CASE NoteVerified
  BY <1>23 DEF NoteVerified, Swapping, Place
<1>24. CASE DropOld
  BY <1>24 DEF DropOld, NoAside
<1>25. CASE WriteJournal
  BY <1>25 DEF WriteJournal
<1>26. CASE SwitchPointer
  BY <1>26 DEF SwitchPointer
<1>27. CASE Materialize
  BY <1>27 DEF Materialize
<1>28. CASE PublishDefault
  BY <1>28 DEF PublishDefault, Publishes
<1>29. CASE Prepare
  <2>1. CASE Errs /\ UNCHANGED service
    BY <1>29, <2>1, ErrorKeepsStepInv DEF Prepare
  <2>2. CASE Bindable /\ service' = Bound(op.bundled) /\ Go("commit")
    <3>1. Stopped
      BY <1>29, <2>2 DEF Prepare, Bindable, Registers
    <3>. QED BY <1>29, <2>2, <3>1 DEF Prepare, Bound
  <2>. QED BY <1>29, <2>1, <2>2 DEF Prepare
<1>30. CASE Commit
  <2>1. CASE Errs /\ UNCHANGED journal
    BY <1>30, <2>1, ErrorKeepsStepInv DEF Commit
  <2>2. CASE journal' = [journal EXCEPT !.phase = "Committed"] /\ Go("health")
    BY <1>30, <2>2 DEF Commit
  <2>. QED BY <1>30, <2>1, <2>2 DEF Commit
<1>31. CASE Health
  <2>1. CASE Errs /\ UNCHANGED service
    BY <1>31, <2>1, ErrorKeepsStepInv DEF Health
  <2>2. CASE Go("finalize") /\ ~StartsService /\ UNCHANGED service
    BY <1>31, <2>2 DEF Health, StartsService
  <2>3. CASE StartsService /\ Owned /\ Go("awaitready") /\ service' = Launched
    <3>1. op.verb \in {"repair", "preserve"} => op.was
      BY <2>3 DEF StartsService
    <3>. QED BY <1>31, <2>3, <3>1 DEF Health, Launched
  <2>. QED BY <1>31, <2>1, <2>2, <2>3 DEF Health, SendStart, Startable
<1>58. CASE AwaitReady
  <2>1. CASE Errs
    BY <1>58, <2>1, ErrorKeepsStepInv DEF AwaitReady, Keep
  <2>2. CASE Running /\ At("awaitready") /\ Go("finalize")
    BY <1>58, <2>2 DEF AwaitReady, Keep
  <2>3. CASE \E o : Done(o)
    BY <1>58, <2>3, ReturnKeepsStepInv DEF AwaitReady, Keep
  <2>. QED BY <1>58, <2>1, <2>2, <2>3 DEF AwaitReady
<1>32. CASE RequireRollback
  BY <1>32 DEF RequireRollback
<1>33. CASE Finalize
  BY <1>33 DEF Finalize
<1>34. CASE Retain
  BY <1>34 DEF Retain, AfterRetention
<1>35. CASE Sweep
  <2>0. op.step = "sweep" /\ UNCHANGED <<journal, repair, pointer, service>>
    BY <1>35 DEF Sweep
  <2>1. CASE Go(AfterRetention)
    BY <2>0, <2>1 DEF AfterRetention
  <2>2. CASE \E v \in Stale : op' = [op EXCEPT !.step = "swept", !.victim = v]
    <3>1. PICK v \in Stale : op' = [op EXCEPT !.step = "swept", !.victim = v]
      BY <2>2
    <3>2. v \notin {pointer, prior} \cup Pinned
      BY <2>0, <3>1 DEF Stale, Retained
    <3>3. prior' = prior /\ Pinned' = Pinned
      BY <1>35 DEF Sweep, Pinned
    <3>. QED BY <2>0, <3>1, <3>2, <3>3
  <2>. QED BY <1>35, <2>1, <2>2 DEF Sweep
<1>36. CASE RemoveDirectory
  BY <1>36 DEF RemoveDirectory, Place
<1>37. CASE RemoveReceipt
  BY <1>37 DEF RemoveReceipt
<1>38. CASE Synchronize
  <2>1. CASE Done("ok")
    BY <1>38, <2>1, ReturnKeepsStepInv DEF Synchronize
  <2>2. CASE op.verb = "start" /\ Go("rebind")
    BY <1>38, <2>2 DEF Synchronize
  <2>3. CASE op.verb = "repair" /\ op.was /\ Go("restart")
    BY <1>38, <2>3 DEF Synchronize
  <2>. QED BY <1>38, <2>1, <2>2, <2>3 DEF Synchronize
<1>39. CASE Rebind
  <2>1. UNCHANGED service
    BY <1>39 DEF Rebind, Bound
  <2>2. CASE Errs
    BY <1>39, <2>1, <2>2, ErrorKeepsStepInv DEF Rebind
  <2>3. CASE Done("ok")
    BY <1>39, <2>1, <2>3, ReturnKeepsStepInv DEF Rebind
  <2>4. CASE op.verb = "start" /\ Go("restart")
    BY <1>39, <2>1, <2>4 DEF Rebind
  <2>. QED BY <1>39, <2>2, <2>3, <2>4 DEF Rebind
<1>40. CASE Restart
  <2>1. CASE Errs /\ UNCHANGED service
    BY <1>40, <2>1, ErrorKeepsStepInv DEF Restart
  <2>2. CASE Go("awaitrestart") /\ UNCHANGED service
    BY <1>40, <2>2 DEF Restart
  <2>3. CASE Owned /\ Stopped /\ Go("awaitrestart") /\ service' = Launched
    BY <1>40, <2>3 DEF Restart, Launched
  <2>. QED BY <1>40, <2>1, <2>2, <2>3 DEF Restart, SendStart, Startable
<1>41. CASE Settle
  <2>1. CASE Errs
    BY <1>41, <2>1, ErrorKeepsStepInv DEF Settle
  <2>2. CASE \E o : Done(o)
    BY <1>41, <2>2, ReturnKeepsStepInv DEF Settle
  <2>3. CASE op.undo /\ op.was /\ Go("restart")
    BY <1>41, <2>3 DEF Settle
  <2>. QED BY <1>41, <2>1, <2>2, <2>3 DEF Settle
<1>42. CASE Delete
  <2>1. CASE Errs /\ UNCHANGED service
    BY <1>42, <2>1, ErrorKeepsStepInv DEF Delete
  <2>2. CASE service' = NoService /\ op.verb = "uninstall" /\ Go("erase")
    BY <1>42, <2>2 DEF Delete, NoService
  <2>3. CASE service' = NoService /\ (Done("ok") \/ Errs)
    <3>1. op'.step = "idle" /\ op'.undo = FALSE
      BY <1>42, <2>3, DoneFields DEF Errs, Delete
    <3>. QED BY <1>42, <2>3, <3>1 DEF Delete, NoService
  <2>. QED BY <1>42, <2>1, <2>2, <2>3 DEF Delete
<1>43. CASE Erase
  <2>1. CASE Go("forget")
    BY <1>43, <2>1 DEF Erase
  <2>0. op.step = "erase" /\ UNCHANGED <<journal, repair, pointer, service>>
    BY <1>43 DEF Erase
  <2>2. CASE \E v \in OnDisk : op' = [op EXCEPT !.step = "swept", !.victim = v]
    BY <2>0, <2>2
  <2>. QED BY <1>43, <2>1, <2>2 DEF Erase
<1>44. CASE Forget
  <2>1. CASE UNCHANGED op
    BY <1>44, <2>1 DEF Forget
  <2>2. CASE Done("ok") /\ UNCHANGED pointer
    BY <1>44, <2>2, ReturnKeepsStepInv DEF Forget
  <2>. QED BY <1>44, <2>1, <2>2 DEF Forget
<1>45. CASE PublishProfile
  BY <1>45 DEF PublishProfile, Done, NoOp
<1>46. CASE Fails
  <2>1. CASE UNCHANGED service /\ Errs
    BY <1>46, <2>1, ErrorKeepsStepInv DEF Fails
  <2>2. CASE UNCHANGED service /\ Done("failed")
    BY <1>46, <2>2, ReturnKeepsStepInv DEF Fails
  <2>3. CASE /\ Go(AfterRetention) /\ UNCHANGED service
             /\ op.step \in {"retain", "sweep", "swept", "unreceipt"} /\ op.verb # "uninstall"
    <3>1. UNCHANGED <<journal, repair, pointer>>
      BY <1>46 DEF Fails
    <3>. QED BY <2>3, <3>1 DEF AfterRetention
  <2>4. CASE /\ At("prepare") /\ ~Publishes /\ Bindable
             /\ service' = Bound(op.bundled) /\ Errs
    <3>1. UNCHANGED <<journal, repair, pointer>>
      BY <1>46 DEF Fails
    <3>2. Go("require")
      BY <2>4 DEF Errs
    <3>3. Stopped
      BY <2>4 DEF Bindable, Registers
    <3>4. service'.image = op.bundled /\ service'.process = None /\ service'.state = "stopped"
      BY <2>4, <3>3 DEF Bound
    <3>. QED BY <2>4, <3>1, <3>2, <3>4
  <2>5. CASE At("rebind") /\ Owned /\ service' = Bound(pointer)
    <3>1. UNCHANGED service
      BY <2>5 DEF Bound
    <3>. QED BY <1>46, <2>1, <2>2, <2>5, <3>1 DEF Fails
  <2>6. CASE At("delete") /\ service' = NoService /\ Errs
    <3>1. UNCHANGED <<journal, repair, pointer>>
      BY <1>46 DEF Fails
    <3>2. op'.step = "idle" /\ op'.undo = FALSE
      BY <2>6, DoneFields DEF Errs
    <3>. QED BY <2>6, <3>1, <3>2 DEF NoService
  <2>7. CASE Rebinding /\ service' = Unbound /\ \E o : Done(o)
    <3>1. UNCHANGED <<journal, repair, pointer>>
      BY <1>46 DEF Fails
    <3>2. op'.step = "idle" /\ op'.undo = FALSE
      BY <2>7, DoneFields
    <3>3. Stopped /\ journal.phase \in {"Candidate", "RollbackRequired"}
      BY <2>7 DEF Rebinding, MustRebind
    <3>. QED BY <2>7, <3>1, <3>2, <3>3 DEF Unbound, Bound, NoService
  <2>8. \/ Errs \/ Done("failed")
        \/ /\ Go(AfterRetention) /\ op.verb # "uninstall"
           /\ op.step \in {"retain", "sweep", "swept", "unreceipt"}
    BY <1>46 DEF Fails
  <2>9. CASE UNCHANGED service
    BY <1>46, <2>1, <2>2, <2>3, <2>8, <2>9 DEF Fails
  <2>10. CASE service' \in Attempted
    <3>1. CASE At("prepare")
      BY <1>46, <2>4, <2>10, <3>1 DEF Fails, Attempted, Rebinding, Recovering
    <3>2. CASE At("rebind")
      BY <1>46, <2>5, <2>10, <3>2 DEF Attempted, Rebinding, Recovering
    <3>3. CASE At("delete")
      BY <1>46, <2>6, <2>10, <3>3 DEF Fails, Attempted, Rebinding, Recovering
    <3>4. CASE op.step \in RecoverySteps
      <4>1. \E o : Done(o)
        BY <1>46, <3>4 DEF Fails, Errs
      <4>. QED BY <2>7, <2>10, <3>4, <4>1 DEF Attempted, Rebinding, Recovering
    <3>. QED BY <2>10, <3>1, <3>2, <3>3, <3>4 DEF Attempted, Rebinding, Recovering
  <2>. QED BY <1>46, <2>9, <2>10 DEF Fails
<1>47. CASE HostChecks \/ HostReports \/ HostGivesUp \/ HostStops
  <2>1. Pinned' = Pinned
    BY <1>47 DEF HostChecks, HostReports, HostGivesUp, HostStops, Pinned
  <2>2. UNCHANGED <<journal, repair, pointer, prior, bin, op>>
    BY <1>47 DEF HostChecks, HostReports, HostGivesUp, HostStops
  <2>3. ~Stopped
    BY <1>47 DEF HostChecks, HostReports, HostGivesUp, HostStops
  <2>4. CASE service' = StoppedService
    <3>1. /\ service'.image = service.image /\ service'.process = None
          /\ service'.state = "stopped"
      BY <2>4 DEF StoppedService
    <3>2. ~Running
      BY <1>47, <2>4, <3>1 DEF HostChecks, HostReports, HostGivesUp, HostStops
    <3>. QED BY <2>1, <2>2, <2>3, <3>1, <3>2
  <2>5. CASE HostAdmitted /\ HostChecks /\ service' = [service EXCEPT !.state = "checked"]
    <3>1. /\ service'.image = service.image /\ service'.process = service.process
          /\ service'.state = "checked" /\ service.state = "starting"
      BY <2>5 DEF HostChecks
    <3>2. journal.phase # "Candidate"
      BY <2>5 DEF HostAdmitted, CommittedActivation
    <3>. QED BY <2>1, <2>2, <2>3, <3>1, <3>2
  <2>6. CASE HostReports
    <3>1. /\ service'.image = service.image /\ service'.process = service.process
          /\ service'.state = "running" /\ service.state = "checked"
      BY <2>6 DEF HostReports
    <3>. QED BY <2>1, <2>2, <2>3, <3>1
  <2>. QED BY <1>47, <2>4, <2>5, <2>6 DEF HostChecks, HostGivesUp, HostStops
<1>48. CASE Crash
  <2>1. UNCHANGED <<journal, repair, pointer>> /\ op'.step = "idle" /\ op'.undo = FALSE
        /\ op'.verb = "none"
    BY <1>48 DEF Crash, NoOp
  <2>2. CASE UNCHANGED service
    BY <2>1, <2>2
  <2>3. CASE service' = StoppedService
    <3>1. service'.image = service.image /\ service'.process = None /\ service'.state = "stopped"
      BY <2>3 DEF StoppedService
    <3>. QED BY <2>1, <3>1
  <2>. QED BY <1>48, <2>2, <2>3 DEF Crash
<1>49. CASE Boot
  BY <1>49 DEF Boot, Launched
<1>50. CASE Rival
  <2>1. Pinned' = Pinned
    BY <1>50 DEF Rival, Pinned
  <2>. QED BY <1>50, <2>1 DEF Rival
<1>51. CASE Intrude
  <2>1. Pinned' = Pinned
    BY <1>51 DEF Intrude, Pinned
  <2>. QED BY <1>51, <2>1 DEF Intrude
<1>52. CASE Pin
  BY <1>52 DEF Pin
<1>53. CASE \E v \in Version : Damage(v)
  BY <1>53 DEF Damage, Trouble, Place
<1>54. CASE \E verb \in Verbs, v \in Version : Begin(verb, v)
  BY <1>54 DEF Begin, NoOp
<1>. QED BY <1>1, <1>2, <1>3, <1>4, <1>5, <1>6, <1>7, <1>8, <1>9, <1>10, <1>11, <1>12,
     <1>13, <1>14, <1>15, <1>16, <1>17, <1>18, <1>19, <1>20, <1>21, <1>22, <1>23, <1>24,
     <1>25, <1>26, <1>27, <1>28, <1>29, <1>30, <1>31, <1>32, <1>33, <1>34, <1>35, <1>36,
     <1>37, <1>38, <1>39, <1>40, <1>41, <1>42, <1>43, <1>44, <1>45, <1>46, <1>47, <1>48,
     <1>49, <1>50, <1>51, <1>52, <1>53, <1>54, <1>55, <1>56, <1>57, <1>58
     DEF InstallerNext, Step, Environment
\* A recovery that gave up keeps its cause until the next command.
LEMMA NextKeepsRecoveryIsExact ==
    ASSUME InstallerTypeOK, ControlInv, RecoveryIsExact, InstallerNext
    PROVE  RecoveryIsExact'
<1> USE DEF RecoveryIsExact, ControlInv, VerbOfStep, JournalOfStep, PointerOfStep,
        ServiceOfStep, Unjournalled, Replacing, Deploying, Activating, DeploySteps, At, Owned,
        Running, NoJournal, NoRepair, Verbs, InstallerTypeOK, files, outside, Go, PairVerified,
        Verified, Stopped, RecoverySteps
<1>1. CASE RecoverRepair
  BY <1>1, InstallerAssumption DEF RecoverRepair, Errs, Done, NoOp
<1>2. CASE NothingToRecover
  BY <1>2, InstallerAssumption DEF NothingToRecover, Recovering, Errs, Done, NoOp
<1>3. CASE RestoreBinding
  BY <1>3, InstallerAssumption DEF RestoreBinding, Recovering, Unbound, Bound, NoService,
       StopRequested
<1>55. CASE ClearNew
  BY <1>55, InstallerAssumption DEF ClearNew
<1>56. CASE RestoreStopped
  BY <1>56, InstallerAssumption DEF RestoreStopped
<1>4. CASE RestorePointer
  BY <1>4, InstallerAssumption DEF RestorePointer, Recovering
<1>5. CASE FinishRecovery
  BY <1>5, InstallerAssumption DEF FinishRecovery, Recovering
<1>6. CASE RecoveryUnknown
  <2>1. CASE op.undo
    BY <1>6, <2>1, ErrorOutcome DEF RecoveryUnknown, Recovering
  <2>3. CASE Done("failed")
    BY <2>3 DEF Done, NoOp
  <2>2. CASE ~op.undo /\ ~Transitional
    <3>1. journal.phase \in {"Candidate", "RollbackRequired", "Committed"}
      BY <1>6 DEF RecoveryUnknown, Recovering, Phases
    <3>2. \/ ~PairVerified \/ service.image = Foreign
          \/ service.image = None /\ journal.previous # None
      BY <1>6, <2>2, <3>1 DEF RecoveryUnknown, Recovering, MustRebind, MayRestorePointer, MayFinish,
           Images
    <3>. QED BY <1>6, <3>2 DEF RecoveryUnknown
  <2>. QED BY <1>6, <2>1, <2>2, <2>3 DEF RecoveryUnknown
<1>7. CASE PlanOwned
  BY <1>7, InstallerAssumption DEF PlanOwned, Errs, Keep, Done, NoOp
<1>8. CASE PlanInstall
  BY <1>8, InstallerAssumption DEF PlanInstall, Keep
<1>9. CASE PlanBootstrap
  BY <1>9, InstallerAssumption DEF PlanBootstrap, Done, Keep, NoOp
<1>10. CASE PlanStart
  BY <1>10, InstallerAssumption DEF PlanStart, Errs, Keep, Done, NoOp
<1>11. CASE PlanStop
  BY <1>11, InstallerAssumption DEF PlanStop, Done, Errs, Keep, NoOp
<1>12. CASE PlanUninstall
  BY <1>12, InstallerAssumption DEF PlanUninstall, Done, Errs, Keep, NoOp
<1>13. CASE Halt
  BY <1>13, ErrorOutcome, InstallerAssumption DEF Halt, AfterStop, Done, NoOp
<1>57. CASE StopConfirmed
  BY <1>57, InstallerAssumption DEF StopConfirmed, AfterStop, Keep, Done, NoOp
<1>14. CASE Inspect
  BY <1>14, InstallerAssumption DEF Inspect, Done, Keep, NoOp
<1>15. CASE Stage
  BY <1>15, InstallerAssumption DEF Stage, Errs, Keep, Done, NoOp
<1>16. CASE Rename
  BY <1>16, InstallerAssumption DEF Rename, Place
<1>17. CASE WriteReceipt
  BY <1>17, InstallerAssumption DEF WriteReceipt
<1>18. CASE PrepareSwap
  BY <1>18, InstallerAssumption DEF PrepareSwap, Swapping, Place
<1>19. CASE MoveOld
  BY <1>19, InstallerAssumption DEF MoveOld, Swapping, Place
<1>20. CASE NoteMoved
  BY <1>20, InstallerAssumption DEF NoteMoved, Swapping, Place
<1>21. CASE PlaceNew
  BY <1>21, InstallerAssumption DEF PlaceNew, Swapping, Place
<1>22. CASE NotePlaced
  BY <1>22, InstallerAssumption DEF NotePlaced, Swapping, Place
<1>23. CASE NoteVerified
  BY <1>23, InstallerAssumption DEF NoteVerified, Swapping, Place
<1>24. CASE DropOld
  BY <1>24, InstallerAssumption DEF DropOld, NoAside
<1>25. CASE WriteJournal
  BY <1>25, InstallerAssumption DEF WriteJournal
<1>26. CASE SwitchPointer
  BY <1>26, InstallerAssumption DEF SwitchPointer
<1>27. CASE Materialize
  BY <1>27, InstallerAssumption DEF Materialize
<1>28. CASE PublishDefault
  BY <1>28, InstallerAssumption DEF PublishDefault, Publishes
<1>29. CASE Prepare
  BY <1>29, InstallerAssumption DEF Prepare, Publishes, Registers, Bound, Errs, Done,
       NoOp
<1>30. CASE Commit
  BY <1>30, InstallerAssumption DEF Commit, Errs, Done, NoOp
<1>31. CASE Health
  BY <1>31, ErrorOutcome, InstallerAssumption DEF Health, SendStart
<1>58. CASE AwaitReady
  <2>1. CASE Errs
    BY <1>58, <2>1, ErrorOutcome DEF AwaitReady
  <2>2. CASE Done("ok") \/ Done("failed")
    BY <2>2 DEF Done, NoOp
  <2>. QED BY <1>58, <2>1, <2>2 DEF AwaitReady
<1>32. CASE RequireRollback
  BY <1>32, InstallerAssumption DEF RequireRollback
<1>33. CASE Finalize
  BY <1>33, InstallerAssumption DEF Finalize
<1>34. CASE Retain
  BY <1>34, InstallerAssumption DEF Retain, AfterRetention
<1>35. CASE Sweep
  BY <1>35, InstallerAssumption DEF Sweep, Place, AfterRetention
<1>36. CASE RemoveDirectory
  BY <1>36, InstallerAssumption DEF RemoveDirectory, Place
<1>37. CASE RemoveReceipt
  BY <1>37, InstallerAssumption DEF RemoveReceipt
<1>38. CASE Synchronize
  BY <1>38, InstallerAssumption DEF Synchronize, Done, NoOp
<1>39. CASE Rebind
  BY <1>39, InstallerAssumption DEF Rebind, Bound, Done, Errs, NoOp
<1>40. CASE Restart
  <2>1. CASE Errs
    BY <1>40, <2>1, ErrorOutcome DEF Restart
  <2>2. CASE Go("awaitrestart")
    BY <1>40, <2>2 DEF Restart
  <2>. QED BY <1>40, <2>1, <2>2 DEF Restart, SendStart
<1>41. CASE Settle
  BY <1>41, InstallerAssumption DEF Settle, Done, Errs, NoOp
<1>42. CASE Delete
  BY <1>42, InstallerAssumption DEF Delete, Errs, NoService, Done, NoOp
<1>43. CASE Erase
  BY <1>43, InstallerAssumption DEF Erase, Place
<1>44. CASE Forget
  BY <1>44, InstallerAssumption DEF Forget, Done, NoOp
<1>45. CASE PublishProfile
  BY <1>45, InstallerAssumption DEF PublishProfile, Done, NoOp
<1>46. CASE Fails
  <2>1. CASE Errs /\ ~(op.step \in RecoverySteps /\ ~op.undo)
    BY <1>46, <2>1, ErrorOutcome DEF Fails
  <2>2. CASE Done("failed")
    BY <2>2 DEF Done, NoOp
  <2>3. CASE Go(AfterRetention)
    BY <1>46, <2>3 DEF Fails, AfterRetention
  <2>. QED BY <1>46, <2>1, <2>2, <2>3 DEF Fails
<1>47. CASE HostChecks \/ HostReports \/ HostGivesUp \/ HostStops
  <2>1. UNCHANGED <<journal, op, bin, receipts>> /\ service'.image = service.image
    BY <1>47 DEF HostChecks, HostReports, HostGivesUp, HostStops, StoppedService
  <2>. QED BY <2>1
<1>48. CASE Crash
  BY <1>48, InstallerAssumption DEF Crash, Trouble, NoOp
<1>49. CASE Boot
  BY <1>49, InstallerAssumption DEF Boot, Launched
<1>50. CASE Rival
  BY <1>50, InstallerAssumption DEF Rival, Rivals, Trouble
<1>51. CASE Intrude
  BY <1>51, InstallerAssumption DEF Intrude, Trouble
<1>52. CASE Pin
  BY <1>52, InstallerAssumption DEF Pin
<1>53. CASE \E v \in Version : Damage(v)
  BY <1>53, InstallerAssumption DEF Damage, Trouble, Place
<1>54. CASE \E verb \in Verbs, v \in Version : Begin(verb, v)
  BY <1>54, InstallerAssumption DEF Begin, NoOp
<1>. QED BY <1>1, <1>2, <1>3, <1>4, <1>5, <1>6, <1>7, <1>8, <1>9, <1>10, <1>11, <1>12,
     <1>13, <1>14, <1>15, <1>16, <1>17, <1>18, <1>19, <1>20, <1>21, <1>22, <1>23, <1>24,
     <1>25, <1>26, <1>27, <1>28, <1>29, <1>30, <1>31, <1>32, <1>33, <1>34, <1>35, <1>36,
     <1>37, <1>38, <1>39, <1>40, <1>41, <1>42, <1>43, <1>44, <1>45, <1>46, <1>47, <1>48,
     <1>49, <1>50, <1>51, <1>52, <1>53, <1>54, <1>55, <1>56, <1>57, <1>58
     DEF InstallerNext, Step, Environment
-----------------------------------------------------------------------------
(***************************************************************************)
(* Invariants                                                              *)
(***************************************************************************)
LEMMA InitEstablishesInv == InstallerInit => InstallerInv
<1> SUFFICES ASSUME InstallerInit PROVE InstallerInv
  OBVIOUS
<1>1. op \in OpType
  BY DEF InstallerInit, NoOp, OpType, Outcomes
<1>2. DiskTypeOK
  <2>1. 0 \in 0 .. MaxProfile /\ 0 \in 0 .. MaxTrouble
    BY InstallerAssumption
  <2>2. aside \in AsideType
    BY DEF InstallerInit, NoAside, AsideType
  <2>. QED BY <2>1, <2>2 DEF InstallerInit, DiskTypeOK, NoJournal, NoRepair, NoService,
         DirectoryStates, Images, ServiceStates, ServiceType
<1>3. StepInv
  BY InstallerAssumption DEF InstallerInit, NoOp, NoJournal, NoRepair, NoService, StepInv,
     ControlInv, VerbOfStep, JournalOfStep, PointerOfStep, ServiceOfStep, SwapOfStep,
     VictimIsStale, CallerOfStep, Unjournalled, Switched, Retaining, Replacing, Halting,
     Halted, Deploying, Activating, DeploySteps, RecoverySteps, At, Owned, Running, Stopped,
     Admitted
<1>4. RecoveryIsExact
  BY DEF InstallerInit, RecoveryIsExact
<1>. QED BY <1>1, <1>2, <1>3, <1>4, TypesMeet DEF InstallerInv

LEMMA NextPreservesInv == InstallerInv /\ [InstallerNext]_vars => InstallerInv'
<1> SUFFICES ASSUME InstallerInv, [InstallerNext]_vars PROVE InstallerInv'
  OBVIOUS
<1>1. CASE InstallerNext
  <2>1. InstallerTypeOK'
    <3>1. op' \in OpType
      BY <1>1, OpStaysTyped DEF InstallerInv, StepInv
    <3>2. DiskTypeOK'
      BY <1>1, DiskStaysTyped DEF InstallerInv, StepInv
    <3>. QED BY <3>1, <3>2 DEF InstallerTypeOK, DiskTypeOK, OpType, Outcomes,
           DirectoryStates, AsideType, ServiceType
  <2>. QED BY <1>1, <2>1, NextKeepsStepInv, NextKeepsRecoveryIsExact DEF InstallerInv, StepInv
<1>2. CASE UNCHANGED vars
  BY <1>2 DEF vars, InstallerInv, InstallerTypeOK, StepInv, ControlInv, VerbOfStep,
     JournalOfStep, PointerOfStep, ServiceOfStep, SwapOfStep, VictimIsStale, Pinned,
     CallerOfStep, RecoveryIsExact, PairVerified, Verified, At, Owned, Running, Stopped,
     Admitted
<1>. QED BY <1>1, <1>2

LEMMA InstallerInvHolds == InstallerSpec => []InstallerInv
BY InitEstablishesInv, NextPreservesInv, PTL DEF InstallerSpec

\* InstallerInvariant, for every set of versions and any number of crashes, failed
\* writes, damages and intruders: the runtime that runs and the one that is bound
\* are the selected one, or the one a pending activation allows, and a recovery
\* that gives up has a cause outside setup.
THEOREM SetupKeepsTheSelection == InstallerSpec => []InstallerInvariant
<1>1. InstallerInv => InstallerInvariant
  <2> SUFFICES ASSUME InstallerInv PROVE InstallerInvariant
    OBVIOUS
  <2>1. RunsTheSelected
    <3>1. journal.phase \in {"none", "Candidate", "Committed", "RollbackRequired"}
      BY DEF InstallerInv, InstallerTypeOK, Phases
    <3>2. Admitted => service.process = service.image /\ Owned
      BY InstallerAssumption DEF InstallerInv, InstallerTypeOK, StepInv, ControlInv,
         ServiceOfStep, Admitted, Stopped, Owned
    <3>. QED BY <3>1, <3>2 DEF InstallerInv, StepInv, ControlInv, JournalOfStep,
           ServiceOfStep, RunsTheSelected, MayRun
  <2>2. BoundToTheSelected
    BY DEF InstallerInv, StepInv, ControlInv, ServiceOfStep, BoundToTheSelected
  <2>. QED BY <2>1, <2>2 DEF InstallerInv, InstallerInvariant
<1>. QED BY <1>1, InstallerInvHolds, PTL
-----------------------------------------------------------------------------
(***************************************************************************)
(* What a step can change                                                  *)
(***************************************************************************)
\* The steps that change the SCM record or start or stop its process.
ServiceSteps ==
    \/ RestoreBinding \/ RestoreStopped \/ Halt \/ Prepare \/ Health \/ Rebind
    \/ Restart \/ Delete \/ Fails \/ Crash \/ Boot \/ HostChecks \/ HostReports
    \/ HostGivesUp \/ HostStops \/ Intrude

LEMMA ServiceFrame == InstallerNext => UNCHANGED service \/ ServiceSteps
<1>1. CASE RecoverRepair \/ NothingToRecover \/ RestorePointer \/ FinishRecovery \/
     RecoveryUnknown \/ PlanOwned \/ PlanInstall \/ PlanBootstrap \/ PlanStart
  BY <1>1 DEF RecoverRepair, NothingToRecover, RestorePointer, FinishRecovery,
       RecoveryUnknown, PlanOwned, PlanInstall, PlanBootstrap, PlanStart, files,
       outside, Keep
<1>2. CASE PlanStop \/ PlanUninstall \/ Inspect \/ Stage \/ Rename \/ WriteReceipt \/
     PrepareSwap \/ MoveOld \/ NoteMoved
  BY <1>2 DEF PlanStop, PlanUninstall, Inspect, Stage, Rename, WriteReceipt,
       PrepareSwap, MoveOld, NoteMoved, files, outside, Keep, Swapping
<1>3. CASE PlaceNew \/ NotePlaced \/ NoteVerified \/ DropOld \/ WriteJournal \/
     SwitchPointer \/ Materialize \/ PublishDefault \/ Commit
  BY <1>3 DEF PlaceNew, NotePlaced, NoteVerified, DropOld, WriteJournal, SwitchPointer,
       Materialize, PublishDefault, Commit, files, outside, Swapping
<1>4. CASE RequireRollback \/ Finalize \/ Retain \/ Sweep \/ RemoveDirectory \/
     RemoveReceipt \/ Synchronize \/ Settle \/ Erase
  BY <1>4 DEF RequireRollback, Finalize, Retain, Sweep, RemoveDirectory, RemoveReceipt,
       Synchronize, Settle, Erase, files, outside
<1>5. CASE Forget \/ PublishProfile \/ Rival \/ Pin \/ ClearNew \/ StopConfirmed \/ AwaitReady
  BY <1>5 DEF Forget, PublishProfile, Rival, Pin, ClearNew, StopConfirmed, AwaitReady, Keep,
       files, outside
<1>6. CASE \E v \in Version : Damage(v)
  BY <1>6 DEF Damage, files, outside
<1>7. CASE \E verb \in Verbs, v \in Version : Begin(verb, v)
  BY <1>7 DEF Begin, files, outside
<1>. QED BY <1>1, <1>2, <1>3, <1>4, <1>5, <1>6, <1>7 DEF ServiceSteps, InstallerNext,
     Step, Environment

\* The steps that change the pointer or the activation journal.
SelectionSteps ==
    \/ RestorePointer \/ FinishRecovery \/ WriteJournal \/ SwitchPointer \/ Commit
    \/ RequireRollback \/ Finalize \/ Forget

LEMMA SelectionFrame == InstallerNext => UNCHANGED <<pointer, journal>> \/ SelectionSteps
<1>1. CASE RecoverRepair \/ NothingToRecover \/ RestoreBinding \/ RecoveryUnknown \/
     PlanOwned \/ PlanInstall \/ PlanBootstrap \/ PlanStart \/ PlanStop
  BY <1>1 DEF RecoverRepair, NothingToRecover, RestoreBinding, RecoveryUnknown,
       PlanOwned, PlanInstall, PlanBootstrap, PlanStart, PlanStop, files, outside, Keep
<1>2. CASE PlanUninstall \/ Halt \/ Inspect \/ Stage \/ Rename \/ WriteReceipt \/
     PrepareSwap \/ MoveOld \/ NoteMoved
  BY <1>2 DEF PlanUninstall, Halt, Inspect, Stage, Rename, WriteReceipt, PrepareSwap,
       MoveOld, NoteMoved, files, outside, Keep, Swapping
<1>3. CASE PlaceNew \/ NotePlaced \/ NoteVerified \/ DropOld \/ Materialize \/
     PublishDefault \/ Prepare \/ Health \/ Retain
  BY <1>3 DEF PlaceNew, NotePlaced, NoteVerified, DropOld, Materialize, PublishDefault,
       Prepare, Health, Retain, files, outside, Swapping
<1>4. CASE Sweep \/ RemoveDirectory \/ RemoveReceipt \/ Synchronize \/ Rebind \/ Restart
     \/ Settle \/ Delete \/ Erase
  BY <1>4 DEF Sweep, RemoveDirectory, RemoveReceipt, Synchronize, Rebind, Restart,
       Settle, Delete, Erase, files, outside
<1>5. CASE PublishProfile \/ Fails \/ Crash \/ Boot \/ Rival \/ Intrude \/ Pin \/ HostChecks
     \/ HostReports \/ HostGivesUp \/ HostStops
  BY <1>5 DEF PublishProfile, Fails, Crash, Boot, Rival, Intrude, Pin, HostChecks,
       HostReports, HostGivesUp, HostStops, files, outside
<1>8. CASE ClearNew \/ RestoreStopped \/ StopConfirmed \/ AwaitReady
  BY <1>8 DEF ClearNew, RestoreStopped, StopConfirmed, AwaitReady, Keep, files, outside
<1>6. CASE \E v \in Version : Damage(v)
  BY <1>6 DEF Damage, files, outside
<1>7. CASE \E verb \in Verbs, v \in Version : Begin(verb, v)
  BY <1>7 DEF Begin, files, outside
<1>. QED BY <1>1, <1>2, <1>3, <1>4, <1>5, <1>6, <1>7, <1>8 DEF SelectionSteps, InstallerNext,
     Step, Environment

\* The steps that change a generation's directory.
DirectorySteps ==
    \/ RecoverRepair \/ Rename \/ PrepareSwap \/ MoveOld \/ NoteMoved \/ PlaceNew
    \/ NotePlaced \/ NoteVerified \/ Sweep \/ RemoveDirectory \/ Erase
    \/ \E v \in Version : Damage(v)

LEMMA DirectoryFrame == InstallerNext => UNCHANGED bin \/ DirectorySteps
<1>1. CASE NothingToRecover \/ RestoreBinding \/ RestorePointer \/ FinishRecovery \/
     RecoveryUnknown \/ PlanOwned \/ PlanInstall \/ PlanBootstrap \/ PlanStart
  BY <1>1 DEF NothingToRecover, RestoreBinding, RestorePointer, FinishRecovery,
       RecoveryUnknown, PlanOwned, PlanInstall, PlanBootstrap, PlanStart, files,
       outside, Keep
<1>2. CASE PlanStop \/ PlanUninstall \/ Halt \/ Inspect \/ Stage \/ WriteReceipt \/
     DropOld \/ WriteJournal \/ SwitchPointer
  BY <1>2 DEF PlanStop, PlanUninstall, Halt, Inspect, Stage, WriteReceipt, DropOld,
       WriteJournal, SwitchPointer, files, outside, Keep
<1>3. CASE Materialize \/ PublishDefault \/ Prepare \/ Commit \/ Health \/
     RequireRollback \/ Finalize \/ Retain \/ RemoveReceipt
  BY <1>3 DEF Materialize, PublishDefault, Prepare, Commit, Health, RequireRollback,
       Finalize, Retain, RemoveReceipt, files, outside
<1>4. CASE Synchronize \/ Rebind \/ Restart \/ Settle \/ Delete \/ Forget \/
     PublishProfile \/ Fails \/ ClearNew \/ RestoreStopped \/ StopConfirmed \/ AwaitReady
  BY <1>4 DEF Synchronize, Rebind, Restart, Settle, Delete, Forget, PublishProfile,
       Fails, ClearNew, RestoreStopped, StopConfirmed, AwaitReady, Keep, files, outside
<1>5. CASE Crash \/ Boot \/ HostChecks \/ HostReports \/ HostGivesUp \/ HostStops \/ Rival
     \/ Intrude \/ Pin
  BY <1>5 DEF Crash, Boot, HostChecks, HostReports, HostGivesUp, HostStops, Rival, Intrude,
       Pin, files, outside
<1>6. CASE \E verb \in Verbs, v \in Version : Begin(verb, v)
  BY <1>6 DEF Begin, files, outside
<1>. QED BY <1>1, <1>2, <1>3, <1>4, <1>5, <1>6 DEF DirectorySteps, InstallerNext, Step,
     Environment

-----------------------------------------------------------------------------
(***************************************************************************)
(* The refinement                                                          *)
(***************************************************************************)
\* Every step of the installer is a step of the atomic switch or invisible to it.
LEMMA InstallerSimulates ==
    InstallerInv /\ [InstallerNext]_vars => [Switch!SwitchNext]_(Switch!switch)
<1> SUFFICES ASSUME InstallerInv, [InstallerNext]_vars
             PROVE  [Switch!SwitchNext]_(Switch!switch)
  OBVIOUS
<1> USE DEF Switch!SwitchNext, Switch!switch, Switch!Adopt, Switch!Settle, Switch!Revert,
        Switch!Uninstall, Switch!Settled
<1>0. /\ journal.phase = "none" <=> journal = NoJournal
      /\ journal.phase # "none" => journal.activated \in Version
      /\ journal.phase = "Committed" => pointer = journal.activated
      /\ journal \in [phase : Phases \cup {"none"}, previous : Version \cup {None},
                      activated : Version \cup {None}]
  BY DEF InstallerInv, InstallerTypeOK, StepInv, ControlInv, JournalOfStep, PointerOfStep,
     NoJournal
<1>1. CASE RestorePointer
  <2>1. journal # NoJournal /\ UNCHANGED journal
    BY <1>0, <1>1 DEF RestorePointer, MayRestorePointer
  <2>. QED BY <2>1
<1>2. CASE FinishRecovery
  BY <1>0, <1>2 DEF FinishRecovery, MayFinish, MayRestorePointer
<1>3. CASE WriteJournal
  <2>1. journal = NoJournal
    BY <1>3 DEF WriteJournal, InstallerInv, StepInv, ControlInv, JournalOfStep, Unjournalled, At
  <2>2. /\ journal' # NoJournal /\ journal'.phase = "Candidate"
        /\ journal'.previous = pointer
    BY <1>3 DEF WriteJournal, NoJournal
  <2>. QED BY <2>1, <2>2
<1>4. CASE SwitchPointer
  <2>1. journal # NoJournal /\ UNCHANGED journal
    BY <1>0, <1>4 DEF SwitchPointer, InstallerInv, StepInv, ControlInv, JournalOfStep, At
  <2>. QED BY <2>1
<1>5. CASE Commit
  <2>1. CASE journal' = [journal EXCEPT !.phase = "Committed"] /\ journal.phase = "Candidate"
    <3>1. /\ journal # NoJournal /\ journal' # NoJournal
          /\ journal'.phase = "Committed" /\ journal'.activated = journal.activated
          /\ journal'.previous = journal.previous
      BY <1>0, <2>1 DEF NoJournal
    <3>. QED BY <1>0, <2>1, <3>1
  <2>2. CASE UNCHANGED journal
    BY <1>5, <2>2 DEF Commit
  <2>. QED BY <1>5, <2>1, <2>2 DEF Commit
<1>6. CASE RequireRollback
  <2>1. /\ journal # NoJournal /\ journal' # NoJournal
        /\ journal'.phase = "RollbackRequired" /\ journal'.activated = journal.activated
        /\ journal'.previous = journal.previous
    BY <1>0, <1>6 DEF RequireRollback, NoJournal, InstallerInv, StepInv, ControlInv,
       JournalOfStep, At
  <2>. QED BY <2>1
<1>7. CASE Finalize
  <2>1. journal # NoJournal /\ journal.phase = "Committed" /\ pointer = journal.activated
    BY <1>0, <1>7 DEF Finalize, InstallerInv, StepInv, ControlInv, JournalOfStep, At
  <2>2. UNCHANGED pointer /\ (journal' = NoJournal \/ UNCHANGED journal)
    BY <1>7 DEF Finalize
  <2>. QED BY <2>1, <2>2
<1>8. CASE Forget
  <2>1. journal = NoJournal /\ UNCHANGED journal
    BY <1>8 DEF Forget, InstallerInv, StepInv, ControlInv, JournalOfStep, Unjournalled, At
  <2>2. pointer' = None \/ pointer' = pointer
    BY <1>8 DEF Forget
  <2>. QED BY <2>1, <2>2
<1>9. CASE UNCHANGED <<pointer, journal>>
  BY <1>9
<1>. QED BY <1>1, <1>2, <1>3, <1>4, <1>5, <1>6, <1>7, <1>8, <1>9, SelectionFrame
     DEF SelectionSteps, vars

\* RefinesSwitch, for every set of versions: a journalled activation with its crashes,
\* failures and recoveries implements the atomic switch, so no sequence of
\* them selects a runtime a command did not adopt or loses the way back to the last.
THEOREM ActivationIsAtomic == InstallerSpec => RefinesSwitch
<1>1. InstallerInit => Switch!SwitchInit
  BY DEF InstallerInit, Switch!SwitchInit
<1>. QED
  BY <1>1, InstallerSimulates, InstallerInvHolds, PTL
     DEF InstallerSpec, RefinesSwitch, Switch!SwitchSpec
-----------------------------------------------------------------------------
(***************************************************************************)
(* What a step may never do                                                *)
(***************************************************************************)
LEMMA StepSparesTheForeign ==
    ASSUME InstallerInv, InstallerNext PROVE ForeignUntouched
<1> SUFFICES ASSUME service.image = Foreign PROVE service' = service
  BY DEF ForeignUntouched
<1>1. /\ service \in [image : Images, process : Version \cup {None}, state : ServiceStates]
      /\ ~Owned /\ Stopped /\ service.process = None
  BY InstallerAssumption DEF InstallerInv, InstallerTypeOK, StepInv, ControlInv,
     ServiceOfStep, Stopped, Owned
<1>2. StoppedService = service
  BY <1>1 DEF StoppedService, Stopped
<1>3. CASE RestoreBinding \/ RestoreStopped
  BY <1>3, InstallerAssumption DEF RestoreBinding, RestoreStopped, Recovering, MustRebind,
     InstallerInv, StepInv, ControlInv, JournalOfStep, ServiceOfStep, NoJournal
<1>4. CASE Halt \/ HostGivesUp \/ HostStops \/ Crash
  BY <1>1, <1>2, <1>4 DEF Halt, HostGivesUp, HostStops, Crash, Running, Stopped
<1>5. CASE Prepare \/ Fails
  BY <1>1, <1>5, InstallerAssumption DEF Prepare, Bindable, Fails, Attempted, Rebinding,
     Recovering, MustRebind, InstallerInv, StepInv, ControlInv, JournalOfStep, ServiceOfStep,
     NoJournal
<1>6. CASE Health \/ Restart \/ Rebind \/ Boot
  BY <1>1, <1>6 DEF Health, Restart, Rebind, Boot, SendStart, Startable
<1>8. CASE HostChecks \/ HostReports
  BY <1>1, <1>8 DEF HostChecks, HostReports, Stopped
<1>7. CASE Delete \/ Intrude
  BY <1>7, InstallerAssumption DEF Delete, Intrude
<1>. QED BY <1>3, <1>4, <1>5, <1>6, <1>7, <1>8, ServiceFrame DEF ServiceSteps

LEMMA StepSparesTheNeeded ==
    ASSUME InstallerInv, InstallerNext PROVE NeededSurvive
<1> SUFFICES ASSUME op.verb # "uninstall", NEW v \in Needed, bin[v] # "absent",
                    bin'[v] = "absent", repair' = NoRepair
             PROVE  FALSE
  BY DEF NeededSurvive
<1>1. v \in Version /\ v # repair.version
  BY DEF Needed, Pinned, InstallerInv, InstallerTypeOK
<1> USE DEF Place
<1>2. bin \in [Version -> {"absent", "good", "damaged", "headless"}]
  BY DEF InstallerInv, InstallerTypeOK
<1>3. CASE RecoverRepair
  BY <1>1, <1>2, <1>3 DEF RecoverRepair
<1>4. CASE PrepareSwap \/ MoveOld \/ NoteMoved \/ PlaceNew \/ NotePlaced \/ NoteVerified
  <2>1. repair'.phase # "none"
    BY <1>4 DEF PrepareSwap, MoveOld, NoteMoved, PlaceNew, NotePlaced, NoteVerified, Swapping
  <2>. QED BY <2>1 DEF NoRepair
<1>5. CASE Rename \/ Sweep \/ Erase
  BY <1>1, <1>2, <1>5 DEF Rename, Sweep, Erase
<1>6. CASE RemoveDirectory
  <2>1. op.victim \notin {pointer, prior} \cup Pinned /\ journal = NoJournal
    BY <1>6 DEF RemoveDirectory, InstallerInv, StepInv, ControlInv, JournalOfStep,
       Unjournalled, VictimIsStale, At
  <2>2. v # op.victim
    BY <2>1 DEF Needed, NoJournal
  <2>. QED BY <1>1, <1>2, <1>6, <2>2 DEF RemoveDirectory
<1>7. CASE \E w \in Version : Damage(w)
  BY <1>1, <1>2, <1>7 DEF Damage
<1>. QED BY <1>3, <1>4, <1>5, <1>6, <1>7, DirectoryFrame DEF DirectorySteps

LEMMA RunsAsFound ==
    ASSUME InstallerInv, UNCHANGED service, op.was => Running, ~op.was => Stopped
    PROVE  CallerKeepsState
<1>1. op.was \in BOOLEAN
  BY DEF InstallerInv, InstallerTypeOK
<1>. QED BY <1>1 DEF CallerKeepsState, HandsBack, Running, Stopped

\* An error that ends repair or preserve as a plain failure came before they had
\* touched the service.
LEMMA ErrorKeepsCaller ==
    ASSUME InstallerInv, Errs, UNCHANGED service,
           op.step \notin {"plan", "inspect"} \cup Retaining, At("settle") => op.undo
    PROVE  CallerKeepsState
<1> SUFFICES ASSUME Returns, ~At("awaitstop") PROVE HandsBack
  BY DEF CallerKeepsState
<1> USE DEF InstallerInv, InstallerTypeOK, StepInv, ControlInv, VerbOfStep, CallerOfStep, At,
        Deploying, Activating, DeploySteps, RecoverySteps, Retaining, Halting, Returns
<1>1. ~op.undo
  BY DEF Errs, Done, NoOp
<1>2. /\ op.step \notin Activating \cup DeploySteps \cup RecoverySteps
      /\ op.verb = "repair" => op.step \notin {"sync", "restart", "awaitrestart"}
  BY <1>1 DEF Errs, Go
<1>3. op.step = "halt"
  BY <1>1, <1>2 DEF Steps
<1>. QED BY <1>3 DEF HandsBack, Running

LEMMA StepKeepsCaller ==
    ASSUME InstallerInv, InstallerNext PROVE CallerKeepsState
<1> USE DEF At
<1>0. CASE \/ op.verb \notin {"repair", "preserve"} \/ op.step = "idle" \/ op'.step # "idle"
           \/ op.step \in RecoverySteps /\ ~op.undo
           \/ op.step \in {"plan", "awaitstop"}
           \/ op'.outcome \notin {"ok", "failed"}
  BY <1>0 DEF CallerKeepsState, Returns
<1> USE DEF InstallerInv, InstallerTypeOK, StepInv, ControlInv, VerbOfStep, CallerOfStep,
        Deploying, Activating, DeploySteps, RecoverySteps, Retaining, Halting, Go
<1>1. CASE \/ RecoverRepair \/ ClearNew \/ NothingToRecover \/ RecoveryUnknown
           \/ RestoreBinding \/ RestoreStopped \/ RestorePointer \/ FinishRecovery
  <2>1. /\ op.step \in RecoverySteps
        /\ \/ UNCHANGED op \/ Recovered \/ Errs \/ Go("clear") \/ Go("unbind") \/ Go("recover")
           \/ ~op.undo
    BY <1>1 DEF RecoverRepair, ClearNew, NothingToRecover, RecoveryUnknown, RestoreBinding,
       RestoreStopped, RestorePointer, FinishRecovery, Recovering
  <2>2. CASE UNCHANGED op \/ Recovered \/ Go("clear") \/ Go("unbind") \/ Go("recover")
    <3>1. op'.step # "idle"
      BY <2>1, <2>2 DEF Recovered
    <3>. QED BY <1>0, <3>1
  <2>3. CASE Errs /\ op.undo
    <3>1. op'.outcome = "unrestored"
      BY <2>3 DEF Errs, Done, NoOp
    <3>. QED BY <1>0, <3>1
  <2>. QED BY <1>0, <2>1, <2>2, <2>3
<1>2. CASE PlanOwned \/ StopConfirmed
  <2>1. op.step \in {"plan", "awaitstop"}
    BY <1>2 DEF PlanOwned, StopConfirmed
  <2>. QED BY <1>0, <2>1
<1>3. CASE \/ PlanInstall \/ PlanStart \/ PlanStop \/ PlanUninstall \/ Rebind \/ Delete
           \/ Erase \/ Forget \/ PublishProfile
  <2>1. op.verb \notin {"repair", "preserve"}
    BY <1>3 DEF PlanInstall, PlanStart, PlanStop, PlanUninstall, Rebind, Delete, Erase, Forget,
       PublishProfile
  <2>. QED BY <1>0, <2>1
<1>4. CASE PlanBootstrap
  <2>1. op'.outcome = "refused" \/ op'.step \in {"halt", "stage"}
    BY <1>4 DEF PlanBootstrap, Done, NoOp
  <2>. QED BY <1>0, <2>1
<1>5. CASE \/ Rename \/ WriteReceipt \/ PrepareSwap \/ MoveOld \/ NoteMoved \/ PlaceNew
           \/ NotePlaced \/ NoteVerified \/ DropOld \/ WriteJournal \/ SwitchPointer
           \/ Materialize \/ PublishDefault \/ RequireRollback
  <2>1. CASE Rename \/ WriteReceipt \/ DropOld
    BY <1>0, <2>1 DEF Rename, WriteReceipt, DropOld
  <2>2. CASE \/ PrepareSwap \/ MoveOld \/ NoteMoved \/ PlaceNew \/ NotePlaced
             \/ NoteVerified
    <3>1. \E s \in {"old", "moved", "placed", "check", "checked", "cleaned"} : Go(s)
      BY <2>2 DEF PrepareSwap, MoveOld, NoteMoved, PlaceNew, NotePlaced, NoteVerified, Swapping
    <3>. QED BY <1>0, <3>1
  <2>3. CASE WriteJournal \/ SwitchPointer \/ Materialize \/ RequireRollback
    BY <1>0, <2>3 DEF WriteJournal, SwitchPointer, Materialize, RequireRollback
  <2>4. CASE PublishDefault
    BY <1>0, <2>4 DEF PublishDefault
  <2>. QED BY <1>5, <2>1, <2>2, <2>3, <2>4
<1>6. CASE Finalize \/ Retain \/ Sweep \/ RemoveDirectory \/ RemoveReceipt
  <2>1. op'.step # "idle"
    BY <1>6 DEF Finalize, Retain, Sweep, RemoveDirectory, RemoveReceipt, AfterRetention
  <2>. QED BY <1>0, <2>1
<1>7. CASE Halt
  <2>1. CASE Errs /\ UNCHANGED service
    BY <1>7, <2>1, ErrorKeepsCaller DEF Halt
  <2>2. op.verb = "stop" \/ Go("delete") \/ Go("stage") \/ Go("inspect") \/ Go("awaitstop")
        \/ (Errs /\ UNCHANGED service)
    BY <1>7 DEF Halt, AfterStop
  <2>. QED BY <1>0, <2>1, <2>2
<1>8. CASE Inspect
  <2>1. op.verb = "repair" => op'.step \in {"stage", "recover"}
    BY <1>8 DEF Inspect
  <2>2. op.verb # "preserve"
    BY <1>8 DEF Inspect
  <2>. QED BY <1>0, <2>1, <2>2
<1>9. CASE Stage
  <2>1. CASE Errs
    BY <1>9, <2>1, ErrorKeepsCaller DEF Stage, Keep
  <2>2. CASE Go("receipt") \/ Go("staged") \/ Go("swap")
    BY <1>0, <2>2
  <2>. QED BY <1>9, <2>1, <2>2 DEF Stage
<1>10. CASE Prepare \/ Commit \/ Health
  <2>1. CASE Errs /\ UNCHANGED service
    BY <1>10, <2>1, ErrorKeepsCaller DEF Prepare, Commit, Health
  <2>2. CASE Go("commit") \/ Go("health") \/ Go("awaitready") \/ Go("finalize")
    BY <1>0, <2>2
  <2>. QED BY <1>10, <2>1, <2>2 DEF Prepare, Commit, Health, SendStart
<1>11. CASE Synchronize
  <2>1. CASE Go("rebind") \/ Go("restart")
    BY <1>0, <2>1
  <2>2. CASE op.verb = "repair" /\ ~op.was
    BY <1>11, <2>2, RunsAsFound DEF Synchronize
  <2>. QED BY <1>0, <1>11, <2>1, <2>2 DEF Synchronize
<1>12. CASE Restart
  <2>1. CASE Errs /\ UNCHANGED service
    BY <1>12, <2>1, ErrorKeepsCaller DEF Restart
  <2>2. CASE Go("awaitrestart")
    BY <1>0, <2>2
  <2>. QED BY <1>12, <2>1, <2>2 DEF Restart, SendStart
<1>15. CASE AwaitReady
  <2>1. CASE Errs
    BY <1>15, <2>1, ErrorKeepsCaller DEF AwaitReady, Keep
  <2>2. CASE Go("finalize")
    BY <1>0, <2>2
  <2>3. CASE ~Stopped /\ op.step = "awaitrestart" /\ op.verb \in {"repair", "preserve"}
    BY <1>15, <2>3, RunsAsFound DEF AwaitReady, Keep, Transitional
  <2>. QED BY <1>0, <1>15, <2>1, <2>2, <2>3 DEF AwaitReady, Transitional
<1>13. CASE Settle
  <2>1. CASE Errs /\ op.undo
    BY <1>13, <2>1, ErrorKeepsCaller DEF Settle
  <2>2. CASE Go("restart")
    BY <1>0, <2>2
  <2>3. CASE ~op.was /\ op.verb \in {"repair", "preserve"}
    BY <1>13, <2>3, RunsAsFound DEF Settle
  <2>4. CASE ~op.undo /\ op.was /\ op.verb = "preserve"
    BY <1>13, <2>4, RunsAsFound DEF Settle
  <2>5. op.verb = "repair" => op.undo
    BY <1>13 DEF Settle
  <2>. QED BY <1>0, <1>13, <2>1, <2>2, <2>3, <2>4, <2>5 DEF Settle
<1>14. CASE Fails
  <2>1. CASE Errs /\ UNCHANGED service /\ op.step \notin Retaining
    BY <1>14, <2>1, ErrorKeepsCaller DEF Fails
  <2>2. CASE Go(AfterRetention)
    BY <1>0, <2>2 DEF AfterRetention
  <2>3. CASE op.step \in RecoverySteps /\ Errs /\ op.undo
    <3>1. op'.outcome = "unrestored"
      BY <2>3 DEF Errs, Done, NoOp
    <3>. QED BY <1>0, <3>1
  <2>4. CASE service' \in Attempted /\ op.step \notin RecoverySteps
    <3>1. CASE Errs /\ op.step = "prepare"
      <4>1. op'.step # "idle" \/ op'.outcome = "unrestored"
        BY <3>1 DEF Errs, Done, NoOp
      <4>. QED BY <1>0, <4>1
    <3>2. op.step \in {"prepare", "rebind", "delete"}
      BY <2>4 DEF Attempted, Rebinding, Recovering
    <3>3. op.verb \notin {"repair", "preserve"} \/ op.step = "prepare"
      BY <3>2
    <3>. QED BY <1>0, <1>14, <3>1, <3>2, <3>3 DEF Fails
  <2>. QED BY <1>0, <1>14, <2>1, <2>2, <2>3, <2>4 DEF Fails
<1>16. CASE Crash \/ \E verb \in Verbs, v \in Version : Begin(verb, v)
  <2>1. CASE Crash
    <3>1. op'.outcome = "none"
      BY <2>1 DEF Crash, NoOp
    <3>. QED BY <1>0, <3>1
  <2>2. CASE \E verb \in Verbs, v \in Version : Begin(verb, v)
    BY <1>0, <2>2 DEF Begin
  <2>. QED BY <1>16, <2>1, <2>2
<1>17. CASE \/ Boot \/ HostChecks \/ HostReports \/ HostGivesUp \/ HostStops \/ Rival
            \/ Intrude \/ Pin \/ \E v \in Version : Damage(v)
  BY <1>0, <1>17 DEF Boot, HostChecks, HostReports, HostGivesUp, HostStops, Rival, Intrude,
     Pin, Damage
<1>. QED BY <1>1, <1>2, <1>3, <1>4, <1>5, <1>6, <1>7, <1>8, <1>9, <1>10, <1>11, <1>12, <1>13,
        <1>14, <1>15, <1>16, <1>17 DEF InstallerNext, Step, Environment

\* MachineIsKept, for every set of versions and any number of troubles: no command,
\* finished, failed or undone, costs a generation of the way back, the running
\* state that repair or preserve found, or somebody else's service.  Only the wait
\* for their own stop, when it runs out, returns without restoring that state.
THEOREM CommandsKeepTheMachine == InstallerSpec => MachineIsKept
<1>1. InstallerInv /\ [InstallerNext]_vars =>
        [NeededSurvive /\ CallerKeepsState /\ ForeignUntouched]_vars
  BY StepSparesTheNeeded, StepKeepsCaller, StepSparesTheForeign
<1>. QED BY <1>1, InstallerInvHolds, PTL DEF InstallerSpec, MachineIsKept

\* What a process of the service keeps while it exists: its record.
KeepsItsRecord ==
    service.process # None => /\ service'.image = service.image
                              /\ service'.process \in {service.process, None}

LEMMA StepKeepsItsRecord ==
    ASSUME InstallerInv, InstallerNext PROVE KeepsItsRecord
<1> SUFFICES ASSUME service.process # None
             PROVE  /\ service'.image = service.image
                    /\ service'.process \in {service.process, None}
  BY DEF KeepsItsRecord
<1>1. /\ service \in [image : Images, process : Version \cup {None}, state : ServiceStates]
      /\ ~Stopped /\ Owned /\ service.image = service.process
  BY InstallerAssumption DEF InstallerInv, InstallerTypeOK, StepInv, ControlInv,
     ServiceOfStep, Owned
<1>2. CASE UNCHANGED service
  BY <1>2
<1>3. CASE RestoreBinding \/ RestoreStopped
  BY <1>1, <1>3 DEF RestoreBinding, RestoreStopped, Transitional, StopRequested
<1>4. CASE Halt
  BY <1>1, <1>4 DEF Halt, StopRequested
<1>5. CASE HostChecks \/ HostReports \/ HostGivesUp \/ HostStops \/ Crash
  BY <1>1, <1>5 DEF HostChecks, HostReports, HostGivesUp, HostStops, Crash, StoppedService
<1>6. CASE Health \/ Restart \/ Boot
  BY <1>1, <1>6 DEF Health, Restart, SendStart, Boot
<1>7. CASE Prepare \/ Rebind \/ Delete \/ Fails
  <2>1. At("prepare") => ~Bindable
    BY <1>1, InstallerAssumption DEF InstallerInv, StepInv, ControlInv, ServiceOfStep,
       VerbOfStep, Bindable, Registers, Owned, At, Halting, Halted, Deploying, DeploySteps,
       Activating
  <2>2. ~At("delete")
    BY <1>1 DEF InstallerInv, StepInv, ControlInv, ServiceOfStep, At
  <2>3. At("rebind") => Bound(pointer) = service
    <3>1. At("rebind") => pointer = service.image
      BY <1>1 DEF InstallerInv, StepInv, ControlInv, ServiceOfStep, JournalOfStep,
         Unjournalled, At
    <3>. QED BY <1>1, <3>1 DEF Bound
  <2>4. CASE Prepare \/ Rebind \/ Delete
    BY <1>2, <2>1, <2>2, <2>3, <2>4 DEF Prepare, Rebind, Delete
  <2>5. CASE Fails
    BY <1>1, <1>2, <2>1, <2>2, <2>3, <2>5 DEF Fails, Attempted, Rebinding
  <2>. QED BY <1>7, <2>4, <2>5
<1>8. CASE Intrude
  BY <1>1, <1>8, InstallerAssumption DEF Intrude, Owned
<1>. QED BY <1>2, <1>3, <1>4, <1>5, <1>6, <1>7, <1>8, ServiceFrame DEF ServiceSteps

\* RecordOutlivesProcess, for every set of versions and any number of troubles: no
\* command rebinds or deletes the service under a process of it, whichever stop
\* or start an earlier command gave up waiting for.
THEOREM ProcessKeepsItsRecord == InstallerSpec => RecordOutlivesProcess
<1>1. InstallerInv /\ [InstallerNext]_vars => [KeepsItsRecord]_vars
  BY StepKeepsItsRecord
<1>. QED BY <1>1, InstallerInvHolds, PTL
     DEF InstallerSpec, RecordOutlivesProcess, KeepsItsRecord
=============================================================================
