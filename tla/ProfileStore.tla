---------------------------- MODULE ProfileStore -----------------------------
(***************************************************************************)
(* ProfileStore and ProfileRuntimeBridge of the setup crate: publishing a  *)
(* profile, rolling it back, bringing the copy beside the runtime          *)
(* (MacType.ini) up to date, and recovering an interrupted change from its *)
(* journal.  One action per durable write.  Every write may fail and the   *)
(* process may die between any two of them; the machine setup lock admits  *)
(* one process at a time.                                                  *)
(***************************************************************************)
EXTENDS Naturals

CONSTANTS
    Profiles,         \* the profiles that may be published, by content
    NoProfile,        \* a pointer file that does not exist
    Meddling,         \* what others may turn MacType.ini into
    MaxInterruptions  \* bound: failed writes and crashes

ASSUME ProfileAssumption ==
    /\ NoProfile \notin Profiles
    /\ (Profiles \cup {NoProfile}) \cap {"absent", "torn", "foreign"} = {}
    /\ Meddling \subseteq {"absent", "foreign"}
    /\ MaxInterruptions \in Nat

VARIABLES
    generations,   \* the complete directories under generations
    active,        \* active.json
    previous,      \* previous.json
    journal,       \* the activation journal
    runtime,       \* whether current.json selects a runtime directory
    file,          \* MacType.ini beside that runtime
    step,          \* the next step of the running process
    request,       \* what it was asked
    unwinding,     \* it recovers because its own transition failed
    reply,         \* how the last request ended
    interruptions, \* failed writes and crashes so far
    meddled        \* history: somebody else has touched MacType.ini

disk == <<generations, active, previous, journal, runtime, file>>
process == <<step, request, unwinding, reply>>
storeVars == <<disk, process, interruptions, meddled>>

\* The selection the store answers for: the journal's while there is one.
Switch == INSTANCE ProfileSwitch WITH
    selected <- [active |-> IF journal.phase = "none" THEN active ELSE journal.active,
                 previous |-> IF journal.phase = "none" THEN previous ELSE journal.previous]

NoRequest == Switch!NoRequest
Optional == Profiles \cup {NoProfile}

Journal(phase, a, p) == [phase |-> phase, active |-> a, previous |-> p]
NoJournal == Journal("none", NoProfile, NoProfile)

StoreInit ==
    /\ generations = {}
    /\ active = NoProfile
    /\ previous = NoProfile
    /\ journal = NoJournal
    /\ runtime \in BOOLEAN
    /\ file = "absent"
    /\ step = "idle"
    /\ request = NoRequest
    /\ unwinding = FALSE
    /\ reply = "none"
    /\ interruptions = 0
    /\ meddled = FALSE

Go(next) ==
    /\ step' = next
    /\ UNCHANGED <<request, unwinding, reply>>

Return(answer) ==
    /\ step' = "idle"
    /\ request' = NoRequest
    /\ unwinding' = FALSE
    /\ reply' = answer

\* verify_generation; a pointer that does not exist is not verified.
Verified(p) == p \in generations \cup {NoProfile}

\* clear_materialized_generation deletes only the exact bytes of p, and
\* ensure_materialized_profile_absent accepts nothing but an absent file.
MayClear(p) == runtime => file \in {"absent"} \cup (Profiles \cap {p})

\* observe_materialized_generation and restore_generation_after_confirmed_clear
\* accept an absent file or the exact bytes of p.
MayRestore(p) == runtime => file \in {"absent", p}

\* materialize_generation, a no-op without a runtime.
Materialized(p) == IF runtime THEN p ELSE file

Keep(unchanged) == UNCHANGED <<unchanged, interruptions, meddled>>
-----------------------------------------------------------------------------
(***************************************************************************)
(* recover_interrupted_activation, at the start of every request and after *)
(* a failed transition                                                     *)
(***************************************************************************)
Begin(r) ==
    /\ step = "idle"
    /\ step' = "recover"
    /\ request' = r
    /\ unwinding' = FALSE
    /\ reply' = "none"
    /\ Keep(disk)

AfterRecovery ==
    IF unwinding THEN Return("error")
    ELSE IF request.verb = "recover" THEN Return("ok")
    ELSE Go(request.verb)

NothingPending ==
    /\ step = "recover"
    /\ journal = NoJournal
    /\ AfterRecovery
    /\ Keep(disk)

\* A pending deletion that has happened, taken for a foreign change.
JudgeJournalStrictly ==
    /\ step = "recover"
    /\ \/ /\ journal.phase = "delete-pending"
          /\ IF file = journal.active THEN Go("forget") ELSE Return("error")
       \/ /\ journal.phase = "transition"
          /\ Go(IF journal.active = NoProfile THEN "undo-clear" ELSE "restore-active")
       \/ /\ journal.phase = "delete-confirmed"
          /\ Go("restore-active")
    /\ Keep(disk)

JudgeJournal ==
    /\ step = "recover"
    /\ Verified(journal.active) /\ Verified(journal.previous)
    /\ \/ /\ journal.phase = "delete-pending"
          /\ active = journal.active /\ previous = journal.previous
          /\ MayRestore(journal.active)
          /\ Go(IF file = journal.active THEN "forget" ELSE "restore-file")
       \/ /\ journal.phase = "transition"
          /\ Verified(active)
          /\ Go(IF journal.active = NoProfile THEN "undo-clear" ELSE "restore-active")
       \/ /\ journal.phase = "delete-confirmed"
          /\ Go("restore-active")
    /\ Keep(disk)

\* Deleting without comparing the bytes.
UndoClearAnything ==
    /\ step = "undo-clear"
    /\ file' = "absent"
    /\ Go("restore-active")
    /\ Keep(<<generations, active, previous, journal, runtime>>)

\* The first profile's copy goes before the pointer to it.
UndoClear ==
    /\ step = "undo-clear"
    /\ MayClear(active)
    /\ file' = "absent"
    /\ Go("restore-active")
    /\ Keep(<<generations, active, previous, journal, runtime>>)

\* Only the active pointer is put back.
RestoreActiveAlone ==
    /\ step = "restore-active"
    /\ active' = journal.active
    /\ Go("forget")
    /\ Keep(<<generations, previous, journal, runtime, file>>)

RestoreActive ==
    /\ step = "restore-active"
    /\ active' = journal.active
    /\ Go("restore-previous")
    /\ Keep(<<generations, previous, journal, runtime, file>>)

\* The pointers are put back, the copy is not.
RestorePreviousLast ==
    /\ step = "restore-previous"
    /\ previous' = journal.previous
    /\ Go("forget")
    /\ Keep(<<generations, active, journal, runtime, file>>)

RestorePrevious ==
    /\ step = "restore-previous"
    /\ previous' = journal.previous
    /\ Go(CASE journal.active = NoProfile -> "forget"
            [] journal.active # NoProfile /\ journal.phase = "delete-confirmed" -> "restore-file"
            [] OTHER -> "remake")
    /\ Keep(<<generations, active, journal, runtime, file>>)

Remake ==
    /\ step = "remake"
    /\ file' = Materialized(journal.active)
    /\ Go("forget")
    /\ Keep(<<generations, active, previous, journal, runtime>>)

\* restore_generation_after_confirmed_clear creates the file, then writes it.
RestoreFile ==
    /\ step = "restore-file"
    /\ MayRestore(journal.active)
    /\ IF runtime /\ file = "absent"
       THEN file' = "torn" /\ Go("restore-write")
       ELSE UNCHANGED file /\ Go("forget")
    /\ Keep(<<generations, active, previous, journal, runtime>>)

\* The bytes go to the file that was created, also when its name is gone.
RestoreWrite ==
    /\ step = "restore-write"
    /\ file' = IF file = "torn" THEN journal.active ELSE file
    /\ Go("forget")
    /\ Keep(<<generations, active, previous, journal, runtime>>)

Forget ==
    /\ step = "forget"
    /\ journal' = NoJournal
    /\ AfterRecovery
    /\ Keep(<<generations, active, previous, runtime, file>>)

Recovery ==
    \/ NothingPending \/ JudgeJournal \/ UndoClear \/ RestoreActive \/ RestorePrevious
    \/ Remake \/ RestoreFile \/ RestoreWrite \/ Forget
-----------------------------------------------------------------------------
(***************************************************************************)
(* publish_and_activate, rollback, synchronize_active_runtime              *)
(***************************************************************************)
\* publish_generation: a staged directory is renamed into place.
Publish ==
    /\ step = "publish"
    /\ generations' = generations \cup {request.profile}
    /\ Go("activate")
    /\ Keep(<<active, previous, journal, runtime, file>>)

Activate ==
    /\ step = "activate"
    /\ Verified(request.profile)
    /\ IF active = request.profile
       THEN UNCHANGED journal /\ Go("refresh")
       ELSE /\ journal' = Journal("transition", active, previous)
            /\ Go(IF active = NoProfile THEN "write-active" ELSE "write-previous")
    /\ Keep(<<generations, active, previous, runtime, file>>)

Rollback ==
    /\ step = "rollback"
    /\ active # NoProfile
    /\ Verified(active) /\ Verified(previous)
    /\ IF previous = NoProfile
       THEN journal' = Journal("delete-pending", active, previous) /\ Go("clear")
       ELSE journal' = Journal("transition", active, previous) /\ Go("write-previous")
    /\ Keep(<<generations, active, previous, runtime, file>>)

Synchronize ==
    /\ step = "synchronize"
    /\ active # NoProfile
    /\ Verified(active)
    /\ Go("refresh")
    /\ Keep(disk)

\* The active profile is materialized again; synchronize needs a runtime.
Refresh ==
    /\ step = "refresh"
    /\ request.verb = "synchronize" => runtime
    /\ file' = Materialized(active)
    /\ Return("ok")
    /\ Keep(<<generations, active, previous, journal, runtime>>)

\* The profile a transition leads to.
Target == IF request.verb = "publish" THEN request.profile ELSE journal.previous

WritePrevious ==
    /\ step = "write-previous"
    /\ Verified(active)
    /\ previous' = active
    /\ Go("write-active")
    /\ Keep(<<generations, active, journal, runtime, file>>)

WriteActive ==
    /\ step = "write-active"
    /\ active' = Target
    /\ Go("materialize")
    /\ Keep(<<generations, previous, journal, runtime, file>>)

Materialize ==
    /\ step = "materialize"
    /\ file' = Materialized(Target)
    /\ Go("commit")
    /\ Keep(<<generations, active, previous, journal, runtime>>)

\* A rollback of the first profile deletes its copy, makes sure of it and
\* records that, before the pointers go.
Clear ==
    /\ step = "clear"
    /\ MayClear(active)
    /\ file' = "absent"
    /\ Go("confirm")
    /\ Keep(<<generations, active, previous, journal, runtime>>)

Confirm ==
    /\ step = "confirm"
    /\ MayClear(NoProfile)
    /\ journal' = [journal EXCEPT !.phase = "delete-confirmed"]
    /\ Go("drop-active")
    /\ Keep(<<generations, active, previous, runtime, file>>)

DropActive ==
    /\ step = "drop-active"
    /\ active' = NoProfile
    /\ Go("drop-previous")
    /\ Keep(<<generations, previous, journal, runtime, file>>)

DropPrevious ==
    /\ step = "drop-previous"
    /\ previous' = NoProfile
    /\ Go("commit")
    /\ Keep(<<generations, active, journal, runtime, file>>)

\* finish_activation_transaction: removing the journal is the commit.
Commit ==
    /\ step = "commit"
    /\ journal' = NoJournal
    /\ Return("ok")
    /\ Keep(<<generations, active, previous, runtime, file>>)

\* The deletion was rejected with the file unchanged: the journal goes.
Unchanged ==
    /\ step = "unchanged"
    /\ journal' = NoJournal
    /\ Return("error")
    /\ Keep(<<generations, active, previous, runtime, file>>)

Work ==
    \/ Publish \/ Activate \/ Rollback \/ Synchronize \/ Refresh \/ WritePrevious
    \/ WriteActive \/ Materialize \/ Clear \/ Confirm \/ DropActive \/ DropPrevious
    \/ Commit \/ Unchanged
-----------------------------------------------------------------------------
(***************************************************************************)
(* Errors, crashes and the machine                                         *)
(***************************************************************************)
\* A check of the next step that the disk does not meet.
ChecksFail ==
    \/ /\ step = "recover" /\ journal # NoJournal
       /\ \/ ~Verified(journal.active) \/ ~Verified(journal.previous)
          \/ /\ journal.phase = "delete-pending"
             /\ \/ active # journal.active \/ previous # journal.previous
                \/ ~MayRestore(journal.active)
          \/ journal.phase = "transition" /\ ~Verified(active)
    \/ step = "undo-clear" /\ ~MayClear(active)
    \/ step = "restore-file" /\ ~MayRestore(journal.active)
    \/ step = "activate" /\ ~Verified(request.profile)
    \/ /\ step \in {"rollback", "synchronize"}
       /\ \/ active = NoProfile \/ ~Verified(active)
          \/ step = "rollback" /\ ~Verified(previous)
    \/ step = "refresh" /\ request.verb = "synchronize" /\ ~runtime
    \/ step = "write-previous" /\ ~Verified(active)
    \/ step = "clear" /\ ~MayClear(active)
    \/ step = "confirm" /\ ~MayClear(NoProfile)

\* The steps whose error makes finish_activation_transaction recover.
Transition == {"write-previous", "write-active", "materialize", "drop-active", "drop-previous"}

Errs ==
    IF step \in Transition
    THEN step' = "recover" /\ unwinding' = TRUE /\ UNCHANGED <<request, reply>>
    ELSE Return("error")

Refuse ==
    /\ ChecksFail
    /\ IF step = "clear" THEN Go("unchanged") ELSE Errs
    /\ Keep(disk)

\* An operation of the file system fails.  A deletion and a rename may have
\* happened all the same; a deletion that surely has not is "unchanged".
IoError ==
    /\ step # "idle"
    /\ interruptions < MaxInterruptions
    /\ interruptions' = interruptions + 1
    /\ \/ /\ Errs
          /\ UNCHANGED <<generations, file>>
       \/ /\ step \in {"clear", "undo-clear"}
          /\ MayClear(active)
          /\ file' = "absent"
          /\ Errs
          /\ UNCHANGED generations
       \/ /\ step = "clear"
          /\ Go("unchanged")
          /\ UNCHANGED <<generations, file>>
       \/ /\ step = "publish"
          /\ generations' = generations \cup {request.profile}
          /\ Errs
          /\ UNCHANGED file
    /\ UNCHANGED <<active, previous, journal, runtime, meddled>>

Crash ==
    /\ step # "idle"
    /\ interruptions < MaxInterruptions
    /\ interruptions' = interruptions + 1
    /\ Return("lost")
    /\ UNCHANGED <<disk, meddled>>

\* The runtime installer selects a runtime and calls materialize_active.
DeployRuntime ==
    /\ step = "idle"
    /\ journal = NoJournal
    /\ ~runtime
    /\ runtime' = TRUE
    /\ file' = IF active = NoProfile THEN "absent" ELSE active
    /\ Keep(<<generations, active, previous, journal, process>>)

\* Somebody else deletes or replaces the copy.
Meddle ==
    /\ runtime
    /\ \E other \in Meddling \ {file} : file' = other
    /\ meddled' = TRUE
    /\ UNCHANGED <<generations, active, previous, journal, runtime, process, interruptions>>

Submit == \E r \in Switch!Requests : Begin(r)
Progress == Recovery \/ Work \/ Refuse

StoreNext == Submit \/ Progress \/ IoError \/ Crash \/ DeployRuntime \/ Meddle

\* A process runs to its end unless it is interrupted, and there is always
\* another request some day.
StoreSpec ==
    /\ StoreInit
    /\ [][StoreNext]_storeVars
    /\ WF_storeVars(Progress)
    /\ WF_storeVars(Submit)
-----------------------------------------------------------------------------
(***************************************************************************)
(* Properties                                                              *)
(***************************************************************************)
Phases == {"transition", "delete-pending", "delete-confirmed"}
Steps == {"idle", "recover", "undo-clear", "restore-active", "restore-previous", "remake",
          "restore-file", "restore-write", "forget", "publish", "activate", "rollback",
          "synchronize", "refresh", "clear", "confirm", "commit", "unchanged"}
         \cup Transition

\* The state is well-formed, and a pointer is only written under a journal.
StoreTypeOK ==
    /\ generations \subseteq Profiles
    /\ active \in Optional /\ previous \in Optional
    /\ journal \in {NoJournal} \cup
                   [phase : Phases, active : Optional, previous : Optional]
    /\ runtime \in BOOLEAN
    /\ file \in Profiles \cup {"absent", "torn", "foreign"}
    /\ step \in Steps
    /\ request \in Switch!Requests \cup {NoRequest}
    /\ unwinding \in BOOLEAN
    /\ reply \in {"none", "ok", "error", "lost"}
    /\ interruptions \in 0 .. MaxInterruptions
    /\ meddled \in BOOLEAN
    /\ step \in Transition \cup {"restore-active", "restore-previous", "commit"}
         => journal # NoJournal

\* When no change is pending, the copy beside the runtime is the active
\* profile's, or missing, or not ours: the service never starts with the bytes
\* of a profile that an interrupted publication or rollback left behind.
FileFollowsSelection ==
    journal = NoJournal => file \in {"absent", "foreign"} \cup (Profiles \cap {active})

\* The store keeps the promise of ProfileSwitch through every failed write,
\* crash and recovery: active.json and previous.json, or what the journal says
\* they were, change together and only when the caller is told so.
KeepsTheSelection == Switch!SwitchSpec

\* A file that setup did not write is never deleted, and never overwritten by
\* the rollback of a first profile or by its recovery (only a materialization
\* replaces it).
ForeignFileSurvives ==
    file = "foreign" /\ step' # step /\ file' # file
      => file' \in Profiles /\ journal.phase \in {"none", "transition"}

\* Until somebody else touches it, MacType.ini is exactly the active profile,
\* and absent without one, whenever no change is pending.
SelectionIsInPlace ==
    journal = NoJournal /\ runtime /\ ~meddled =>
        file = IF active = NoProfile THEN "absent" ELSE active

\* MacType.ini is the store's own until somebody else touches it, and theirs
\* from then on: what the pointers say is in place, and what is foreign stays.
CopyIsRespected ==
    /\ [](StoreTypeOK /\ SelectionIsInPlace)
    /\ [][ForeignFileSurvives]_storeVars

\* A pending change is always settled once requests are made without being
\* interrupted, unless the restoration of a deleted file was itself cut short
\* (its bytes are foreign to every later recovery) or somebody else touched it.
RecoveryConverges ==
    journal # NoJournal ~> (journal = NoJournal \/ file = "torn" \/ meddled)
=============================================================================
