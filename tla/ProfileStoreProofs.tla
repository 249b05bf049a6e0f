------------------------- MODULE ProfileStoreProofs --------------------------
(***************************************************************************)
(* Proofs about ProfileStore for every set of profiles and any number of   *)
(* failed writes and crashes.                                              *)
(***************************************************************************)
EXTENDS ProfileStore, TLAPS

Recovering == {"recover", "undo-clear", "restore-active", "restore-previous", "remake",
               "restore-file", "restore-write", "forget"}

\* The request a step belongs to.
StepOfRequest ==
    /\ (step = "idle") <=> (request = NoRequest)
    /\ step \in {"publish", "activate"} => request.verb = "publish"
    /\ step \in {"rollback", "clear", "confirm", "unchanged", "drop-active", "drop-previous"}
         => request.verb = "rollback"
    /\ step = "synchronize" => request.verb = "synchronize"
    /\ step = "refresh" =>
         \/ request.verb = "synchronize"
         \/ request.verb = "publish" /\ request.profile = active
    /\ step \in {"write-previous", "write-active", "materialize", "commit"}
         => request.verb \in {"publish", "rollback"}

\* Which journal there is at a step.
StepOfJournal ==
    /\ step \in {"publish", "activate", "rollback", "synchronize", "refresh"} =>
         journal = NoJournal
    /\ step \in Recovering \ {"recover"} => journal # NoJournal
    /\ step \in {"undo-clear", "remake", "write-previous", "write-active", "materialize"}
         => journal.phase = "transition"
    /\ step \in {"clear", "confirm", "unchanged"} => journal.phase = "delete-pending"
    /\ step \in {"drop-active", "drop-previous"} => journal.phase = "delete-confirmed"
    /\ step \in {"restore-active", "restore-previous"} => journal.phase # "delete-pending"
    /\ step = "commit" => journal # NoJournal
    /\ step = "undo-clear" => journal.active = NoProfile
    /\ step \in {"remake", "restore-file", "restore-write"} => journal.active # NoProfile
    /\ step \in {"restore-file", "restore-write"} => journal.phase # "transition"
    /\ journal.phase \in {"delete-pending", "delete-confirmed"} =>
         journal.active # NoProfile /\ journal.previous = NoProfile

\* How far the pointers are from the journal's.
StepOfPointers ==
    /\ journal = NoJournal /\ active = NoProfile => previous = NoProfile
    /\ journal.active = NoProfile => journal.previous = NoProfile
    /\ journal.phase = "delete-pending" =>
         active = journal.active /\ previous = journal.previous
    /\ step \in {"restore-previous", "remake", "restore-file", "restore-write", "forget"} =>
         active = journal.active
    /\ step \in {"remake", "restore-file", "restore-write", "forget"} =>
         previous = journal.previous
    /\ step \in {"write-previous", "write-active"} => active = journal.active
    /\ step = "write-previous" => active # NoProfile
    /\ step \in {"write-active", "materialize"} => previous = journal.active
    /\ step = "materialize" => active = Target
    /\ step \in {"write-previous", "write-active", "materialize"} =>
         /\ Target \in Profiles
         /\ request.verb = "publish" => Target # journal.active
    /\ step = "drop-previous" => active = NoProfile
    /\ step = "commit" =>
         Switch!Selection(active, previous)
           = Switch!Applied(request, Switch!Selection(journal.active, journal.previous))
    /\ step = "commit" /\ request.verb = "rollback" => journal.active # NoProfile
    /\ step = "refresh" => active # NoProfile

\* What MacType.ini may be.
StepOfFile ==
    /\ ~runtime => file = "absent"
    /\ journal = NoJournal => file \in {"absent", "foreign", active}
    /\ journal.phase = "transition" => file # "torn"
    /\ journal.phase \in {"delete-pending", "delete-confirmed"} =>
         file \in {"absent", "foreign", "torn", journal.active}
    /\ step \in {"clear", "confirm", "unchanged", "forget"} => file # "torn"
    /\ step = "forget" => file \in {"absent", "foreign", journal.active}
    /\ step \in {"restore-active", "restore-previous"} /\ journal.active = NoProfile =>
         file \in {"absent", "foreign"}
    /\ step \in {"drop-active", "drop-previous"} => file \in {"absent", "foreign"}
    /\ step = "commit" => file \in {"absent", "foreign", active}

\* The inductive invariant.
StoreInv ==
    /\ StoreTypeOK
    /\ StepOfRequest
    /\ StepOfJournal
    /\ StepOfPointers
    /\ StepOfFile
-----------------------------------------------------------------------------
(***************************************************************************)
(* Every action keeps the invariant                                        *)
(***************************************************************************)
\* A request's verb is the first step of its work, or "recover".
LEMMA VerbOfRequest ==
    ASSUME StoreInv, step # "idle"
    PROVE  request.verb \in {"publish", "rollback", "synchronize", "recover"}
BY DEF StoreInv, StoreTypeOK, StepOfRequest, NoRequest, Switch!NoRequest, Switch!Requests,
       Switch!Request

\* Begin keeps the invariant.
LEMMA BeginKeeps ==
    ASSUME NEW r \in Switch!Requests, StoreInv, Begin(r)
    PROVE  StoreInv'
<1> USE ProfileAssumption DEF StoreInv, Begin, Keep, disk, process
<1>1. StoreTypeOK'
  BY DEF StoreTypeOK, Steps, Transition
<1>2. StepOfRequest'
  BY DEF StepOfRequest, Switch!Requests, NoRequest, Switch!NoRequest, Switch!Request
<1>3. StepOfJournal'
  BY DEF StepOfJournal
<1>4. StepOfPointers'
  BY DEF StepOfPointers
<1>5. StepOfFile'
  BY DEF StepOfFile
<1> QED
  BY <1>1, <1>2, <1>3, <1>4, <1>5

\* NothingPending keeps the invariant.
LEMMA NothingPendingKeeps ==
    ASSUME StoreInv, NothingPending
    PROVE  StoreInv'
<1> USE ProfileAssumption DEF StoreInv, NothingPending, Keep, disk, process, Go, Return,
        AfterRecovery
<1>0. step' \in {"idle", "publish", "rollback", "synchronize"}
  BY VerbOfRequest
<1>1. StoreTypeOK'
  BY <1>0 DEF StoreTypeOK, Steps, Phases, StepOfRequest, StepOfJournal, StepOfPointers,
     Switch!Requests, Target, NoJournal, Journal, NoRequest, Switch!NoRequest, Transition
<1>2. StepOfRequest'
  BY <1>0 DEF StoreTypeOK, StepOfRequest, Switch!Requests, Switch!Request
<1>3. StepOfJournal'
  BY <1>0 DEF StepOfJournal, Recovering
<1>4. StepOfPointers'
  BY <1>0 DEF StepOfPointers
<1>5. StepOfFile'
  BY <1>0 DEF StepOfFile
<1> QED
  BY <1>1, <1>2, <1>3, <1>4, <1>5

\* JudgeJournal keeps the invariant.
LEMMA JudgeJournalKeeps ==
    ASSUME StoreInv, JudgeJournal
    PROVE  StoreInv'
<1> USE ProfileAssumption DEF StoreInv, JudgeJournal, Keep, disk, process, Go, MayRestore,
        Verified
<1>1. StoreTypeOK'
  BY DEF StoreTypeOK, Steps, NoJournal, Journal
<1>2. StepOfRequest'
  BY DEF StepOfRequest
<1>3. StepOfJournal'
  BY DEF StepOfJournal, NoJournal, Journal
<1>4. StepOfPointers'
  BY DEF StepOfPointers
<1>5. StepOfFile'
  BY DEF StoreTypeOK, StepOfJournal, StepOfFile
<1> QED
  BY <1>1, <1>2, <1>3, <1>4, <1>5

\* UndoClear keeps the invariant.
LEMMA UndoClearKeeps ==
    ASSUME StoreInv, UndoClear
    PROVE  StoreInv'
<1> USE ProfileAssumption DEF StoreInv, UndoClear, Keep, Go, MayClear
<1>1. StoreTypeOK'
  BY DEF StoreTypeOK, Steps, StepOfJournal, NoJournal, Journal
<1>2. StepOfRequest'
  BY DEF StepOfRequest
<1>3. StepOfJournal'
  BY DEF StepOfJournal, NoJournal, Journal
<1>4. StepOfPointers'
  BY DEF StepOfPointers
<1>5. StepOfFile'
  BY DEF StepOfFile
<1> QED
  BY <1>1, <1>2, <1>3, <1>4, <1>5

\* RestoreActive keeps the invariant.
LEMMA RestoreActiveKeeps ==
    ASSUME StoreInv, RestoreActive
    PROVE  StoreInv'
<1> USE ProfileAssumption DEF StoreInv, RestoreActive, Keep, Go
<1>1. StoreTypeOK'
  BY DEF StoreTypeOK, Steps
<1>2. StepOfRequest'
  BY DEF StepOfRequest
<1>3. StepOfJournal'
  BY DEF StepOfJournal, Recovering
<1>4. StepOfPointers'
  BY DEF StepOfJournal, StepOfPointers, Recovering
<1>5. StepOfFile'
  BY DEF StepOfFile, NoJournal, Journal
<1> QED
  BY <1>1, <1>2, <1>3, <1>4, <1>5

\* RestorePrevious keeps the invariant.
LEMMA RestorePreviousKeeps ==
    ASSUME StoreInv, RestorePrevious
    PROVE  StoreInv'
<1> USE ProfileAssumption DEF StoreInv, RestorePrevious, Keep, Go
<1>1. StoreTypeOK'
  BY DEF StoreTypeOK, Steps
<1>2. StepOfRequest'
  BY DEF StepOfRequest
<1>3. StepOfJournal'
  BY DEF StoreTypeOK, Phases, StepOfJournal
<1>4. StepOfPointers'
  BY DEF StepOfPointers
<1>5. StepOfFile'
  BY DEF StepOfFile
<1> QED
  BY <1>1, <1>2, <1>3, <1>4, <1>5

\* Remake keeps the invariant.
LEMMA RemakeKeeps ==
    ASSUME StoreInv, Remake
    PROVE  StoreInv'
<1> USE ProfileAssumption DEF StoreInv, Remake, Keep, Go, Materialized
<1>1. StoreTypeOK'
  BY DEF StoreTypeOK, Steps, StepOfJournal, NoJournal, Journal, Optional
<1>2. StepOfRequest'
  BY DEF StepOfRequest
<1>3. StepOfJournal'
  BY DEF StepOfJournal, NoJournal, Journal
<1>4. StepOfPointers'
  BY DEF StepOfPointers
<1>5. StepOfFile'
  BY DEF StoreTypeOK, StepOfPointers, StepOfFile, Optional
<1> QED
  BY <1>1, <1>2, <1>3, <1>4, <1>5

\* RestoreFile keeps the invariant.
LEMMA RestoreFileKeeps ==
    ASSUME StoreInv, RestoreFile
    PROVE  StoreInv'
<1> USE ProfileAssumption DEF StoreInv, RestoreFile, Keep, Go, MayRestore
<1>1. StoreTypeOK'
  BY DEF StoreTypeOK, Steps, Transition
<1>2. StepOfRequest'
  BY DEF StepOfRequest
<1>3. StepOfJournal'
  BY DEF StepOfJournal, NoJournal, Journal
<1>4. StepOfPointers'
  BY DEF StepOfPointers
<1>5. StepOfFile'
  BY DEF StoreTypeOK, StepOfJournal, StepOfFile, NoJournal, Journal, Optional
<1> QED
  BY <1>1, <1>2, <1>3, <1>4, <1>5

\* RestoreWrite keeps the invariant.
LEMMA RestoreWriteKeeps ==
    ASSUME StoreInv, RestoreWrite
    PROVE  StoreInv'
<1> USE ProfileAssumption DEF StoreInv, RestoreWrite, Keep, Go
<1>1. StoreTypeOK'
  BY DEF StoreTypeOK, Steps, StepOfJournal, NoJournal, Journal, Optional
<1>2. StepOfRequest'
  BY DEF StepOfRequest
<1>3. StepOfJournal'
  BY DEF StepOfJournal, NoJournal, Journal
<1>4. StepOfPointers'
  BY DEF StepOfPointers
<1>5. StepOfFile'
  BY DEF StoreTypeOK, Phases, StepOfJournal, StepOfFile, NoJournal, Journal, Optional
<1> QED
  BY <1>1, <1>2, <1>3, <1>4, <1>5

\* Forget keeps the invariant.
LEMMA ForgetKeeps ==
    ASSUME StoreInv, Forget
    PROVE  StoreInv'
<1> USE ProfileAssumption DEF StoreInv, Forget, Keep, Go, Return, AfterRecovery
<1>0. step' \in {"idle", "publish", "rollback", "synchronize"}
  BY VerbOfRequest
<1>1. StoreTypeOK'
  BY <1>0 DEF StoreTypeOK, Steps, Phases, StepOfRequest, StepOfJournal, StepOfPointers,
     Switch!Requests, Target, NoJournal, Journal, NoRequest, Switch!NoRequest, Transition
<1>2. StepOfRequest'
  BY <1>0 DEF StoreTypeOK, StepOfRequest, Switch!Requests, Switch!Request
<1>3. StepOfJournal'
  BY <1>0 DEF StepOfJournal, Recovering, NoJournal, Journal
<1>4. StepOfPointers'
  BY <1>0 DEF StepOfPointers, NoJournal, Journal
<1>5. StepOfFile'
  BY <1>0 DEF StepOfPointers, StepOfFile, NoJournal, Journal
<1> QED
  BY <1>1, <1>2, <1>3, <1>4, <1>5

\* Publish keeps the invariant.
LEMMA PublishKeeps ==
    ASSUME StoreInv, Publish
    PROVE  StoreInv'
<1> USE ProfileAssumption DEF StoreInv, Publish, Keep, Go
<1>1. StoreTypeOK'
  BY DEF StoreTypeOK, Steps, StepOfRequest, Switch!Requests, Switch!Request, Transition
<1>2. StepOfRequest'
  BY DEF StepOfRequest
<1>3. StepOfJournal'
  BY DEF StepOfJournal, Recovering
<1>4. StepOfPointers'
  BY DEF StepOfPointers
<1>5. StepOfFile'
  BY DEF StepOfFile
<1> QED
  BY <1>1, <1>2, <1>3, <1>4, <1>5

\* Activate keeps the invariant.
LEMMA ActivateKeeps ==
    ASSUME StoreInv, Activate
    PROVE  StoreInv'
<1> USE ProfileAssumption DEF StoreInv, Activate, Keep, Go, Verified
<1>1. StoreTypeOK'
  BY DEF StoreTypeOK, Steps, Phases, NoJournal, Journal, Transition
<1>2. StepOfRequest'
  BY DEF StepOfRequest
<1>3. StepOfJournal'
  BY DEF StepOfJournal, Recovering, Journal
<1>4. StepOfPointers'
  BY DEF StoreTypeOK, StepOfRequest, StepOfJournal, StepOfPointers, Target, Switch!Requests,
     Journal, Switch!Request
<1>5. StepOfFile'
  BY DEF StoreTypeOK, StepOfJournal, StepOfFile, Journal, Optional
<1> QED
  BY <1>1, <1>2, <1>3, <1>4, <1>5

\* Rollback keeps the invariant.
LEMMA RollbackKeeps ==
    ASSUME StoreInv, Rollback
    PROVE  StoreInv'
<1> USE ProfileAssumption DEF StoreInv, Rollback, Keep, Go, Verified
<1>1. StoreTypeOK'
  BY DEF StoreTypeOK, Steps, Phases, NoJournal, Journal, Transition
<1>2. StepOfRequest'
  BY DEF StepOfRequest
<1>3. StepOfJournal'
  BY DEF StepOfJournal, NoJournal, Journal
<1>4. StepOfPointers'
  BY DEF StoreTypeOK, StepOfRequest, StepOfPointers, Target, Journal
<1>5. StepOfFile'
  BY DEF StoreTypeOK, StepOfJournal, StepOfFile, Journal
<1> QED
  BY <1>1, <1>2, <1>3, <1>4, <1>5

\* Synchronize keeps the invariant.
LEMMA SynchronizeKeeps ==
    ASSUME StoreInv, Synchronize
    PROVE  StoreInv'
<1> USE ProfileAssumption DEF StoreInv, Synchronize, Keep, disk, process, Go, Verified
<1>1. StoreTypeOK'
  BY DEF StoreTypeOK, Steps, Transition
<1>2. StepOfRequest'
  BY DEF StepOfRequest
<1>3. StepOfJournal'
  BY DEF StepOfJournal, Recovering
<1>4. StepOfPointers'
  BY DEF StepOfPointers
<1>5. StepOfFile'
  BY DEF StepOfFile
<1> QED
  BY <1>1, <1>2, <1>3, <1>4, <1>5

\* Refresh keeps the invariant.
LEMMA RefreshKeeps ==
    ASSUME StoreInv, Refresh
    PROVE  StoreInv'
<1> USE ProfileAssumption DEF StoreInv, Refresh, Keep, Return, Materialized
<1>1. StoreTypeOK'
  BY DEF StoreTypeOK, Steps, StepOfPointers, Optional, Transition
<1>2. StepOfRequest'
  BY DEF StepOfRequest
<1>3. StepOfJournal'
  BY DEF StepOfJournal, Recovering
<1>4. StepOfPointers'
  BY DEF StepOfPointers
<1>5. StepOfFile'
  BY DEF StepOfJournal, StepOfFile, NoJournal, Journal
<1> QED
  BY <1>1, <1>2, <1>3, <1>4, <1>5

\* WritePrevious keeps the invariant.
LEMMA WritePreviousKeeps ==
    ASSUME StoreInv, WritePrevious
    PROVE  StoreInv'
<1> USE ProfileAssumption DEF StoreInv, WritePrevious, Keep, Go, Verified
<1>1. StoreTypeOK'
  BY DEF StoreTypeOK, Steps, Transition
<1>2. StepOfRequest'
  BY DEF StepOfRequest
<1>3. StepOfJournal'
  BY DEF StepOfJournal, NoJournal, Journal
<1>4. StepOfPointers'
  BY DEF StepOfJournal, StepOfPointers, Target
<1>5. StepOfFile'
  BY DEF StepOfFile
<1> QED
  BY <1>1, <1>2, <1>3, <1>4, <1>5

\* WriteActive keeps the invariant.
LEMMA WriteActiveKeeps ==
    ASSUME StoreInv, WriteActive
    PROVE  StoreInv'
<1> USE ProfileAssumption DEF StoreInv, WriteActive, Keep, Go
<1>1. StoreTypeOK'
  BY DEF StoreTypeOK, Steps, Switch!Requests, Target, NoRequest, Switch!NoRequest, Optional,
     Switch!Request, Transition
<1>2. StepOfRequest'
  BY DEF StepOfRequest
<1>3. StepOfJournal'
  BY DEF StepOfJournal, NoJournal, Journal
<1>4. StepOfPointers'
  BY DEF StepOfJournal, StepOfPointers, Target
<1>5. StepOfFile'
  BY DEF StepOfJournal, StepOfFile, NoJournal, Journal
<1> QED
  BY <1>1, <1>2, <1>3, <1>4, <1>5

\* Materialize keeps the invariant.
LEMMA MaterializeKeeps ==
    ASSUME StoreInv, Materialize
    PROVE  StoreInv'
<1> USE ProfileAssumption DEF StoreInv, Materialize, Keep, Go, Materialized
<1>1. StoreTypeOK'
  BY DEF StoreTypeOK, Steps, StepOfPointers
<1>2. StepOfRequest'
  BY DEF StepOfRequest
<1>3. StepOfJournal'
  BY DEF StepOfJournal, NoJournal, Journal
<1>4. StepOfPointers'
  BY DEF StepOfRequest, StepOfPointers, Target, Switch!Selection, Switch!Applied
<1>5. StepOfFile'
  BY DEF StepOfJournal, StepOfPointers, StepOfFile
<1> QED
  BY <1>1, <1>2, <1>3, <1>4, <1>5

\* Clear keeps the invariant.
LEMMA ClearKeeps ==
    ASSUME StoreInv, Clear
    PROVE  StoreInv'
<1> USE ProfileAssumption DEF StoreInv, Clear, Keep, Go, MayClear
<1>1. StoreTypeOK'
  BY DEF StoreTypeOK, Steps, Transition
<1>2. StepOfRequest'
  BY DEF StepOfRequest
<1>3. StepOfJournal'
  BY DEF StepOfJournal, NoJournal, Journal
<1>4. StepOfPointers'
  BY DEF StepOfPointers
<1>5. StepOfFile'
  BY DEF StepOfFile
<1> QED
  BY <1>1, <1>2, <1>3, <1>4, <1>5

\* Confirm keeps the invariant.
LEMMA ConfirmKeeps ==
    ASSUME StoreInv, Confirm
    PROVE  StoreInv'
<1> USE ProfileAssumption DEF StoreInv, Confirm, Keep, Go, MayClear
<1>1. StoreTypeOK'
  BY DEF StoreTypeOK, Steps, Phases, NoJournal, Journal, Optional, Transition
<1>2. StepOfRequest'
  BY DEF StepOfRequest
<1>3. StepOfJournal'
  BY DEF StepOfJournal, NoJournal, Journal
<1>4. StepOfPointers'
  BY DEF StepOfPointers, NoJournal, Journal
<1>5. StepOfFile'
  BY DEF StepOfFile
<1> QED
  BY <1>1, <1>2, <1>3, <1>4, <1>5

\* DropActive keeps the invariant.
LEMMA DropActiveKeeps ==
    ASSUME StoreInv, DropActive
    PROVE  StoreInv'
<1> USE ProfileAssumption DEF StoreInv, DropActive, Keep, Go
<1>1. StoreTypeOK'
  BY DEF StoreTypeOK, Steps, Optional, Transition
<1>2. StepOfRequest'
  BY DEF StepOfRequest
<1>3. StepOfJournal'
  BY DEF StepOfJournal, NoJournal, Journal
<1>4. StepOfPointers'
  BY DEF StepOfJournal, StepOfPointers, NoJournal, Journal
<1>5. StepOfFile'
  BY DEF StepOfFile
<1> QED
  BY <1>1, <1>2, <1>3, <1>4, <1>5

\* DropPrevious keeps the invariant.
LEMMA DropPreviousKeeps ==
    ASSUME StoreInv, DropPrevious
    PROVE  StoreInv'
<1> USE ProfileAssumption DEF StoreInv, DropPrevious, Keep, Go
<1>1. StoreTypeOK'
  BY DEF StoreTypeOK, Steps, Optional
<1>2. StepOfRequest'
  BY DEF StepOfRequest
<1>3. StepOfJournal'
  BY DEF StepOfJournal, NoJournal, Journal
<1>4. StepOfPointers'
  BY DEF StepOfRequest, StepOfJournal, StepOfPointers, Switch!Selection, Switch!Applied
<1>5. StepOfFile'
  BY DEF StepOfFile
<1> QED
  BY <1>1, <1>2, <1>3, <1>4, <1>5

\* Commit keeps the invariant.
LEMMA CommitKeeps ==
    ASSUME StoreInv, Commit
    PROVE  StoreInv'
<1> USE ProfileAssumption DEF StoreInv, Commit, Keep, Return
<1>1. StoreTypeOK'
  BY DEF StoreTypeOK, Steps, Transition
<1>2. StepOfRequest'
  BY DEF StepOfRequest
<1>3. StepOfJournal'
  BY DEF StepOfJournal, Recovering, NoJournal, Journal
<1>4. StepOfPointers'
  BY DEF StoreTypeOK, StepOfPointers, Switch!Selection, Switch!Applied, Switch!Requests,
     NoJournal, Journal, NoRequest, Switch!NoRequest, Switch!Request
<1>5. StepOfFile'
  BY DEF StepOfFile, NoJournal, Journal
<1> QED
  BY <1>1, <1>2, <1>3, <1>4, <1>5

\* Unchanged keeps the invariant.
LEMMA UnchangedKeeps ==
    ASSUME StoreInv, Unchanged
    PROVE  StoreInv'
<1> USE ProfileAssumption DEF StoreInv, Unchanged, Keep, Return
<1>1. StoreTypeOK'
  BY DEF StoreTypeOK, Steps, Transition
<1>2. StepOfRequest'
  BY DEF StepOfRequest
<1>3. StepOfJournal'
  BY DEF StepOfJournal, Recovering, NoJournal, Journal
<1>4. StepOfPointers'
  BY DEF StepOfJournal, StepOfPointers, NoJournal, Journal
<1>5. StepOfFile'
  BY DEF StepOfJournal, StepOfPointers, StepOfFile, NoJournal, Journal
<1> QED
  BY <1>1, <1>2, <1>3, <1>4, <1>5

\* Refuse keeps the invariant.
LEMMA RefuseKeeps ==
    ASSUME StoreInv, Refuse
    PROVE  StoreInv'
<1> USE ProfileAssumption DEF StoreInv, Refuse, Keep, disk, process, Go, Return, Errs,
        MayClear, MayRestore, Verified, ChecksFail
<1>1. StoreTypeOK'
  <2>1. interruptions' \in 0 .. MaxInterruptions
    BY SMT DEF StoreTypeOK
  <2>2. /\ request' \in Switch!Requests \cup {NoRequest}
        /\ reply' \in {"none", "ok", "error", "lost"}
    BY DEF StoreTypeOK
  <2>3. step' \in {"idle", "recover", "unchanged"} /\ unwinding' \in BOOLEAN
    BY DEF StoreTypeOK
  <2>4. /\ generations' \subseteq Profiles
        /\ file' \in Profiles \cup {"absent", "torn", "foreign"}
    BY DEF StoreTypeOK
  <2>5. UNCHANGED <<active, previous, journal, runtime>>
    OBVIOUS
  <2> QED
    BY <2>1, <2>2, <2>3, <2>4, <2>5 DEF StoreTypeOK, Steps, Transition
<1>2. StepOfRequest'
  BY DEF StepOfRequest
<1>3. StepOfJournal'
  BY DEF StepOfJournal, Recovering
<1>4. StepOfPointers'
  BY DEF StepOfPointers
<1>5. StepOfFile'
  BY DEF StepOfFile
<1> QED
  BY <1>1, <1>2, <1>3, <1>4, <1>5

\* IoError keeps the invariant.
LEMMA IoErrorKeeps ==
    ASSUME StoreInv, IoError
    PROVE  StoreInv'
<1> USE ProfileAssumption DEF StoreInv, IoError, Go, Return, Errs, MayClear
<1>1. StoreTypeOK'
  <2>1. interruptions' \in 0 .. MaxInterruptions
    BY SMT DEF StoreTypeOK
  <2>2. /\ request' \in Switch!Requests \cup {NoRequest}
        /\ reply' \in {"none", "ok", "error", "lost"}
    BY DEF StoreTypeOK
  <2>3. step' \in {"idle", "recover", "unchanged"} /\ unwinding' \in BOOLEAN
    BY DEF StoreTypeOK
  <2>4. /\ generations' \subseteq Profiles
        /\ file' \in Profiles \cup {"absent", "torn", "foreign"}
    BY DEF StoreTypeOK, StepOfRequest, Switch!Requests, Switch!Request
  <2>5. UNCHANGED <<active, previous, journal, runtime>>
    OBVIOUS
  <2> QED
    BY <2>1, <2>2, <2>3, <2>4, <2>5 DEF StoreTypeOK, Steps, Transition
<1>2. StepOfRequest'
  BY DEF StepOfRequest
<1>3. StepOfJournal'
  BY DEF StepOfJournal, Recovering
<1>4. StepOfPointers'
  BY DEF StepOfPointers
<1>5. StepOfFile'
  BY DEF StepOfFile
<1> QED
  BY <1>1, <1>2, <1>3, <1>4, <1>5

\* Crash keeps the invariant.
LEMMA CrashKeeps ==
    ASSUME StoreInv, Crash
    PROVE  StoreInv'
<1> USE ProfileAssumption DEF StoreInv, Crash, disk, process, Return
<1>1. StoreTypeOK'
  <2>1. interruptions' \in 0 .. MaxInterruptions
    BY SMT DEF StoreTypeOK
  <2>2. /\ request' \in Switch!Requests \cup {NoRequest}
        /\ reply' \in {"none", "ok", "error", "lost"}
  OBVIOUS
  <2>3. step' \in {"idle", "recover", "unchanged"} /\ unwinding' \in BOOLEAN
  OBVIOUS
  <2>4. /\ generations' \subseteq Profiles
        /\ file' \in Profiles \cup {"absent", "torn", "foreign"}
    BY DEF StoreTypeOK
  <2>5. UNCHANGED <<active, previous, journal, runtime>>
    OBVIOUS
  <2> QED
    BY <2>1, <2>2, <2>3, <2>4, <2>5 DEF StoreTypeOK, Steps, Transition
<1>2. StepOfRequest'
  BY DEF StepOfRequest
<1>3. StepOfJournal'
  BY DEF StepOfJournal, Recovering
<1>4. StepOfPointers'
  BY DEF StepOfPointers
<1>5. StepOfFile'
  BY DEF StepOfFile
<1> QED
  BY <1>1, <1>2, <1>3, <1>4, <1>5

\* DeployRuntime keeps the invariant.
LEMMA DeployRuntimeKeeps ==
    ASSUME StoreInv, DeployRuntime
    PROVE  StoreInv'
<1> USE ProfileAssumption DEF StoreInv, DeployRuntime, Keep, disk, process
<1>1. StoreTypeOK'
  BY DEF StoreTypeOK, Optional
<1>2. StepOfRequest'
  BY DEF StepOfRequest
<1>3. StepOfJournal'
  BY DEF StepOfJournal
<1>4. StepOfPointers'
  BY DEF StepOfPointers
<1>5. StepOfFile'
  BY DEF StepOfFile, NoJournal, Journal
<1> QED
  BY <1>1, <1>2, <1>3, <1>4, <1>5

\* Meddle keeps the invariant.
LEMMA MeddleKeeps ==
    ASSUME StoreInv, Meddle
    PROVE  StoreInv'
<1> USE ProfileAssumption DEF StoreInv, Meddle, Keep, disk, process
<1>1. StoreTypeOK'
  BY DEF StoreTypeOK
<1>2. StepOfRequest'
  BY DEF StepOfRequest
<1>3. StepOfJournal'
  BY DEF StepOfJournal
<1>4. StepOfPointers'
  BY DEF StepOfPointers, Target
<1>5. StepOfFile'
  BY DEF StepOfFile
<1> QED
  BY <1>1, <1>2, <1>3, <1>4, <1>5
-----------------------------------------------------------------------------
(***************************************************************************)
(* The store implements ProfileSwitch                                      *)
(***************************************************************************)
SwitchStep == [Switch!SwitchNext]_(Switch!switchVars)

\* The selection, whoever holds it.
Selected == Switch!Selection(IF journal.phase = "none" THEN active ELSE journal.active,
                             IF journal.phase = "none" THEN previous ELSE journal.previous)

\* A step that changes neither the selection nor the request is a stutter.
LEMMA Stutters ==
    ASSUME Selected' = Selected, UNCHANGED <<request, reply>>
    PROVE  SwitchStep
BY DEF SwitchStep, Selected, Switch!Selection, Switch!switchVars

\* A request that ends without success leaves the selection alone.
LEMMA FailsCleanly ==
    ASSUME StoreInv, step # "idle", Selected' = Selected,
           Return("error") \/ Return("lost")
    PROVE  SwitchStep
<1>1. request # NoRequest
  BY DEF StoreInv, StepOfRequest
<1>2. Switch!Fail
  BY <1>1 DEF Switch!Fail, Return, NoRequest, Selected, Switch!Selection
<1> QED
  BY <1>2 DEF SwitchStep, Switch!SwitchNext

\* A request that changes nothing may succeed.
LEMMA ServesInPlace ==
    ASSUME StoreInv, step # "idle", Selected' = Selected, Return("ok"),
           Switch!Applied(request, Selected) = Selected,
           request.verb \in {"rollback", "synchronize"} => Selected.active # NoProfile
    PROVE  SwitchStep
<1>1. request # NoRequest
  BY DEF StoreInv, StepOfRequest
<1>2. Switch!Serve
  BY <1>1 DEF Switch!Serve, Return, NoRequest, Selected, Switch!Selection
<1> QED
  BY <1>2 DEF SwitchStep, Switch!SwitchNext

\* Errors inside a transition are hidden by the recovery, others are returned.
LEMMA ErrorSwitches ==
    ASSUME StoreInv, step # "idle", Errs, Selected' = Selected
    PROVE  SwitchStep
<1>1. CASE step \in Transition
  BY <1>1, Stutters DEF Errs
<1>2. CASE step \notin Transition
  BY <1>2, FailsCleanly DEF Errs
<1> QED
  BY <1>1, <1>2

\* After a recovery the request goes on, fails, or was the recovery itself.
LEMMA RecoverySwitches ==
    ASSUME StoreInv, step # "idle", AfterRecovery, Selected' = Selected
    PROVE  SwitchStep
<1>1. CASE unwinding
  BY <1>1, FailsCleanly DEF AfterRecovery
<1>2. CASE ~unwinding /\ request.verb = "recover"
  <2>1. Switch!Applied(request, Selected) = Selected
    BY <1>2 DEF Switch!Applied
  <2> QED
    BY <1>2, <2>1, ServesInPlace DEF AfterRecovery
<1>3. CASE ~unwinding /\ request.verb # "recover"
  BY <1>3, Stutters DEF AfterRecovery, Go
<1> QED
  BY <1>1, <1>2, <1>3

\* Every step of the store is a step of ProfileSwitch or a stutter.
LEMMA StoreSimulates ==
    ASSUME StoreInv, [StoreNext]_storeVars
    PROVE  SwitchStep
<1> USE DEF Keep, disk, process
<1>0. (journal = NoJournal) <=> (journal.phase = "none")
  BY DEF StoreInv, StoreTypeOK, Phases, NoJournal, Journal
<1>1. ASSUME NEW r \in Switch!Requests, Begin(r)
      PROVE  SwitchStep
  <2>1. Switch!Submit
    BY <1>1 DEF Switch!Submit, Begin, StoreInv, StepOfRequest, NoRequest
  <2> QED
    BY <2>1 DEF SwitchStep, Switch!SwitchNext
<1>2. CASE NothingPending
  BY <1>2, RecoverySwitches DEF NothingPending, Selected
<1>3. CASE JudgeJournal \/ UndoClear \/ Remake \/ RestoreFile \/ RestoreWrite \/ Publish
             \/ Synchronize \/ Materialize \/ Clear
  <2>1. UNCHANGED <<active, previous, journal, request, reply>>
    BY <1>3 DEF JudgeJournal, UndoClear, Remake, RestoreFile, RestoreWrite, Publish,
                Synchronize, Materialize, Clear, Go
  <2> QED
    BY <2>1, Stutters DEF Selected
<1>4. CASE RestoreActive \/ RestorePrevious \/ WritePrevious \/ WriteActive \/ DropActive
             \/ DropPrevious
  \* The pointers change, but the journal answers for them.
  <2>1. journal.phase # "none" /\ UNCHANGED <<journal, request, reply>>
    BY <1>4, <1>0 DEF RestoreActive, RestorePrevious, WritePrevious, WriteActive, DropActive,
                DropPrevious, Go, StoreInv, StepOfJournal, Recovering
  <2> QED
    BY <2>1, Stutters DEF Selected
<1>5. CASE Forget
  \* The recovery has put both pointers back.
  <2>1. Selected' = Selected
    BY <1>5, <1>0 DEF Forget, Selected, StoreInv, StepOfJournal, StepOfPointers, Recovering,
                      NoJournal, Journal
  <2> QED
    BY <1>5, <2>1, RecoverySwitches DEF Forget
<1>6. CASE Activate \/ Rollback
  \* The journal takes over the selection the pointers show.
  <2>1. journal = NoJournal
    BY <1>6 DEF Activate, Rollback, StoreInv, StepOfJournal
  <2>2. Selected' = Selected /\ UNCHANGED <<request, reply>>
    BY <1>6, <2>1 DEF Activate, Rollback, Go, Selected, NoJournal, Journal
  <2> QED
    BY <2>2, Stutters
<1>7. CASE Refresh
  <2>1. journal.phase = "none" /\ active # NoProfile
    BY <1>7, <1>0 DEF Refresh, StoreInv, StepOfJournal, StepOfPointers
  <2>2. Selected' = Selected /\ Selected.active # NoProfile
    BY <1>7, <2>1 DEF Refresh, Selected, Switch!Selection
  <2>3. Switch!Applied(request, Selected) = Selected
    BY <1>7, <2>1 DEF Refresh, Selected, Switch!Selection, Switch!Applied, StoreInv,
                      StepOfRequest
  <2> QED
    BY <1>7, <2>2, <2>3, ServesInPlace DEF Refresh
<1>8. CASE Commit
  \* Removing the journal publishes the pointers: the one visible step.
  <2>1. journal.phase # "none"
    BY <1>8, <1>0 DEF Commit, StoreInv, StepOfJournal
  <2>2. Selected = Switch!Selection(journal.active, journal.previous)
    BY <2>1 DEF Selected
  <2>3. Selected' = Switch!Selection(active, previous)
    BY <1>8 DEF Commit, Selected, NoJournal, Journal, Switch!Selection
  <2>4. Selected' = Switch!Applied(request, Selected)
    BY <1>8, <2>2, <2>3 DEF Commit, StoreInv, StepOfPointers
  <2>5. request.verb \in {"rollback", "synchronize"} => Selected.active # NoProfile
    BY <1>8, <2>2 DEF Commit, StoreInv, StepOfRequest, StepOfPointers, Switch!Selection
  <2>6. request # NoRequest
    BY <1>8 DEF Commit, StoreInv, StepOfRequest
  <2>7. Switch!Serve
    BY <1>8, <2>4, <2>5, <2>6 DEF Switch!Serve, Commit, Return, NoRequest, Selected,
                                 Switch!Selection
  <2> QED
    BY <2>7 DEF SwitchStep, Switch!SwitchNext
<1>9. CASE Unchanged
  \* The rejected deletion has not touched the pointers.
  <2>1. Selected' = Selected
    BY <1>9 DEF Unchanged, Selected, StoreInv, StepOfJournal, StepOfPointers, NoJournal,
                Journal, Switch!Selection
  <2> QED
    BY <1>9, <2>1, FailsCleanly DEF Unchanged
<1>10. CASE Refuse
  <2>1. Selected' = Selected
    BY <1>10 DEF Refuse, Selected
  <2>2. step # "idle"
    BY <1>10 DEF Refuse, ChecksFail
  <2>3. CASE step = "clear"
    BY <1>10, <2>1, <2>3, Stutters DEF Refuse, Go
  <2>4. CASE step # "clear"
    BY <1>10, <2>1, <2>2, <2>4, ErrorSwitches DEF Refuse
  <2> QED
    BY <2>3, <2>4
<1>11. CASE IoError
  <2>1. Selected' = Selected /\ step # "idle"
    BY <1>11 DEF IoError, Selected
  <2>2. Errs \/ Go("unchanged")
    BY <1>11 DEF IoError
  <2> QED
    BY <2>1, <2>2, ErrorSwitches, Stutters DEF Go
<1>12. CASE Crash
  <2>1. Selected' = Selected
    BY <1>12 DEF Crash, Selected
  <2> QED
    BY <1>12, <2>1, FailsCleanly DEF Crash
<1>13. CASE DeployRuntime \/ Meddle \/ UNCHANGED storeVars
  <2>1. Selected' = Selected /\ UNCHANGED <<request, reply>>
    BY <1>13 DEF DeployRuntime, Meddle, Selected, storeVars
  <2> QED
    BY <2>1, Stutters
<1>14. CASE Submit
  BY <1>1, <1>14 DEF Submit
<1>15. CASE Recovery
  BY <1>2, <1>3, <1>4, <1>5, <1>15 DEF Recovery
<1>16. CASE Confirm
  <2>1. Selected' = Selected /\ UNCHANGED <<request, reply>>
    BY <1>16 DEF Confirm, Selected, Go, StoreInv, StepOfJournal, StoreTypeOK
  <2> QED
    BY <2>1, Stutters
<1>17. CASE Work
  BY <1>3, <1>4, <1>6, <1>7, <1>8, <1>9, <1>16, <1>17 DEF Work
<1> QED
  BY <1>10, <1>11, <1>12, <1>13, <1>14, <1>15, <1>17 DEF StoreNext, Progress
-----------------------------------------------------------------------------
(***************************************************************************)
(* Theorems                                                                *)
(***************************************************************************)
\* Nothing is selected, pending or materialized at first.
LEMMA StoreInvInit == StoreInit => StoreInv
<1> SUFFICES ASSUME StoreInit
             PROVE  StoreInv
  OBVIOUS
<1> USE DEF StoreInit, NoJournal, Journal
<1>1. interruptions \in 0 .. MaxInterruptions
  BY ProfileAssumption
<1>2. StoreTypeOK
  BY <1>1 DEF StoreTypeOK, Steps, Transition, Optional
<1>3. StepOfRequest /\ StepOfJournal /\ StepOfPointers
  BY DEF StepOfRequest, StepOfJournal, StepOfPointers, Recovering
<1>4. StepOfFile
  BY DEF StepOfFile
<1> QED
  BY <1>2, <1>3, <1>4 DEF StoreInv

\* Whatever fails and whenever a process dies, the pointers stay within one
\* completed recovery of the journal's and MacType.ini is the copy that this
\* stage of the request may leave.
THEOREM StoreInvariant == StoreSpec => []StoreInv
<1>1. StoreInv /\ [StoreNext]_storeVars => StoreInv'
  <2> SUFFICES ASSUME StoreInv, [StoreNext]_storeVars
               PROVE  StoreInv'
    OBVIOUS
  <2>1. CASE Submit
    BY <2>1, BeginKeeps DEF Submit
  <2>2. CASE Recovery
    BY <2>2, NothingPendingKeeps, JudgeJournalKeeps, UndoClearKeeps, RestoreActiveKeeps,
       RestorePreviousKeeps, RemakeKeeps, RestoreFileKeeps, RestoreWriteKeeps, ForgetKeeps
    DEF Recovery
  <2>3. CASE Work
    BY <2>3, PublishKeeps, ActivateKeeps, RollbackKeeps, SynchronizeKeeps, RefreshKeeps,
       WritePreviousKeeps, WriteActiveKeeps, MaterializeKeeps, ClearKeeps, ConfirmKeeps,
       DropActiveKeeps, DropPreviousKeeps, CommitKeeps, UnchangedKeeps
    DEF Work
  <2>4. CASE Refuse \/ IoError \/ Crash
    BY <2>4, RefuseKeeps, IoErrorKeeps, CrashKeeps
  <2>5. CASE DeployRuntime \/ Meddle
    BY <2>5, DeployRuntimeKeeps, MeddleKeeps
  <2>6. CASE UNCHANGED storeVars
    BY <2>6 DEF storeVars, disk, process, StoreInv, StoreTypeOK, StepOfRequest,
                StepOfJournal, StepOfPointers, StepOfFile, Target
  <2> QED
    BY <2>1, <2>2, <2>3, <2>4, <2>5, <2>6 DEF StoreNext, Progress
<1> QED
  BY <1>1, StoreInvInit, PTL DEF StoreSpec

\* No publication, rollback, recovery, failed write or crash leaves the copy of
\* a profile that is not selected where the service would load it.
THEOREM FileIsTheSelected == StoreSpec => []FileFollowsSelection
<1>1. StoreInv => FileFollowsSelection
  BY ProfileAssumption DEF StoreInv, StoreTypeOK, StepOfFile, FileFollowsSelection, Optional
<1> QED
  BY <1>1, StoreInvariant, PTL

\* The journaled, interruptible store implements the atomic ProfileSwitch: the
\* selection changes when the journal is removed after success, and an error or
\* a crash changes nothing.
THEOREM StoreKeepsTheSelection == StoreSpec => KeepsTheSelection
<1>1. StoreInit => Switch!SwitchInit
  BY DEF StoreInit, Switch!SwitchInit, NoJournal, Journal, NoRequest, Switch!Selection
<1>2. StoreInv /\ [StoreNext]_storeVars => [Switch!SwitchNext]_(Switch!switchVars)
  BY StoreSimulates DEF SwitchStep
<1> QED
  BY <1>1, <1>2, StoreInvariant, PTL DEF StoreSpec, KeepsTheSelection, Switch!SwitchSpec
-----------------------------------------------------------------------------
(***************************************************************************)
(* MacType.ini belongs to the store until somebody else touches it         *)
(***************************************************************************)
Exact(p) == IF p = NoProfile THEN "absent" ELSE p

\* Where the copy is exact again, step by step, as long as nobody meddled.
CopyOfStep ==
    runtime /\ ~meddled =>
        /\ file # "foreign"
        /\ journal = NoJournal \/ step = "commit" => file = Exact(active)
        /\ step \in {"clear", "unchanged"} => file = journal.active
        /\ step = "forget" => file = Exact(journal.active)
        /\ step = "restore-write" => file = "torn"
        /\ step \in {"confirm", "drop-active", "drop-previous"} => file = "absent"

\* Every step keeps the copy exact, or on its way back.
LEMMA NextKeepsCopy ==
    ASSUME StoreInv, CopyOfStep, StoreNext
    PROVE  CopyOfStep'
<1> USE ProfileAssumption DEF StoreInv, StoreTypeOK, CopyOfStep, Exact, Keep, disk, process,
        Go, Return, StepOfJournal, StepOfPointers, StepOfFile, Recovering, Optional,
        Transition, Materialized
<1>1. CASE Submit
  BY <1>1 DEF Submit, Begin
<1>2. CASE NothingPending
  <2>1. step' \in {"idle", "publish", "rollback", "synchronize"}
    BY <1>2, VerbOfRequest DEF NothingPending, AfterRecovery
  <2>. QED BY <1>2, <2>1 DEF NothingPending
<1>3. CASE JudgeJournal
  BY <1>3 DEF JudgeJournal, MayRestore, Verified, NoJournal, Journal
<1>4. CASE UndoClear \/ RestoreActive
  BY <1>4 DEF UndoClear, RestoreActive, NoJournal, Journal
<1>5. CASE RestorePrevious
  <2>1. step' \in {"forget", "restore-file", "remake"}
    BY <1>5 DEF RestorePrevious
  <2>2. step' = "forget" => journal.active = NoProfile
    BY <1>5 DEF RestorePrevious
  <2>. QED BY <1>5, <2>1, <2>2 DEF RestorePrevious
<1>6. CASE Remake \/ RestoreWrite
  BY <1>6 DEF Remake, RestoreWrite
<1>7. CASE RestoreFile
  BY <1>7 DEF RestoreFile, MayRestore
<1>8. CASE Forget
  <2>1. step' \in {"idle", "publish", "rollback", "synchronize"}
    BY <1>8, VerbOfRequest DEF Forget, AfterRecovery
  <2>. QED BY <1>8, <2>1 DEF Forget
<1>9. CASE Publish \/ Synchronize
  BY <1>9 DEF Publish, Synchronize
<1>10. CASE Activate
  <2>1. CASE active = request.profile
    BY <1>10, <2>1 DEF Activate
  <2>2. CASE active # request.profile
    <3>1. journal' # NoJournal
      BY <1>10, <2>2 DEF Activate, NoJournal, Journal
    <3>. QED BY <1>10, <2>2, <3>1 DEF Activate
  <2>. QED BY <2>1, <2>2
<1>11. CASE Rollback
  <2>1. journal' # NoJournal /\ journal'.active = active
    BY <1>11 DEF Rollback, NoJournal, Journal
  <2>. QED BY <1>11, <2>1 DEF Rollback
<1>12. CASE Refresh
  BY <1>12 DEF Refresh
<1>13. CASE WritePrevious \/ WriteActive \/ Materialize
  BY <1>13 DEF WritePrevious, WriteActive, Materialize, NoJournal, Journal
<1>14. CASE Clear
  BY <1>14 DEF Clear, NoJournal, Journal
<1>15. CASE Confirm
  <2>1. journal' # NoJournal
    BY <1>15 DEF Confirm, NoJournal, Journal
  <2>. QED BY <1>15, <2>1 DEF Confirm
<1>16. CASE DropActive \/ DropPrevious
  BY <1>16 DEF DropActive, DropPrevious, NoJournal, Journal
<1>17. CASE Commit \/ Unchanged
  BY <1>17 DEF Commit, Unchanged
<1>18. CASE Refuse
  BY <1>18 DEF Refuse, ChecksFail, Errs, MayClear
<1>19. CASE IoError
  <2>1. step' \in {"idle", "recover", "unchanged"}
    BY <1>19 DEF IoError, Errs
  <2>2. step' = "unchanged" => step = "clear" /\ file' = file
    BY <1>19 DEF IoError, Errs
  <2>3. file' # file => step \in {"clear", "undo-clear"} /\ file' = "absent"
    BY <1>19 DEF IoError
  <2>. QED BY <1>19, <2>1, <2>2, <2>3 DEF IoError, NoJournal, Journal
<1>20. CASE Crash
  BY <1>20 DEF Crash
<1>21. CASE DeployRuntime \/ Meddle
  BY <1>21 DEF DeployRuntime, Meddle
<1>. QED BY <1>1, <1>2, <1>3, <1>4, <1>5, <1>6, <1>7, <1>8, <1>9, <1>10, <1>11,
        <1>12, <1>13, <1>14, <1>15, <1>16, <1>17, <1>18, <1>19, <1>20, <1>21
     DEF StoreNext, Progress, Recovery, Work

\* Only a profile the journal or the selection names replaces a foreign file.
LEMMA NextSparesTheForeign ==
    ASSUME StoreInv, StoreNext
    PROVE  ForeignFileSurvives
<1> SUFFICES ASSUME file = "foreign", step' # step, file' # file
             PROVE  file' \in Profiles /\ journal.phase \in {"none", "transition"}
  BY DEF ForeignFileSurvives
<1> USE ProfileAssumption DEF StoreInv, StoreTypeOK, Keep, disk, process, Go, Return,
        StepOfJournal, StepOfPointers, StepOfFile, Recovering, Optional, Materialized
<1>1. CASE Refresh \/ Materialize \/ Remake
  BY <1>1 DEF Refresh, Materialize, Remake, NoJournal, Journal
<1>2. CASE UndoClear \/ Clear \/ IoError
  BY <1>2 DEF UndoClear, Clear, IoError, MayClear
<1>3. CASE RestoreFile \/ RestoreWrite
  BY <1>3 DEF RestoreFile, RestoreWrite
<1>4. CASE Submit \/ Refuse \/ Crash \/ DeployRuntime \/ Meddle
  BY <1>4 DEF Submit, Begin, Refuse, Crash, DeployRuntime, Meddle
<1>5. CASE NothingPending \/ JudgeJournal \/ RestoreActive \/ RestorePrevious \/ Forget
  BY <1>5 DEF NothingPending, JudgeJournal, RestoreActive, RestorePrevious, Forget
<1>6. CASE \/ Publish \/ Activate \/ Rollback \/ Synchronize \/ WritePrevious \/ WriteActive
           \/ Confirm \/ DropActive \/ DropPrevious \/ Commit \/ Unchanged
  BY <1>6 DEF Publish, Activate, Rollback, Synchronize, WritePrevious, WriteActive, Confirm,
     DropActive, DropPrevious, Commit, Unchanged
<1>. QED BY <1>1, <1>2, <1>3, <1>4, <1>5, <1>6 DEF StoreNext, Progress, Recovery, Work

\* CopyIsRespected, for every set of profiles and any number of interruptions: with
\* no change pending MacType.ini is exactly the selected profile, or absent, until
\* somebody else touches it; and a foreign file is never deleted or torn.
THEOREM CopyStaysRespected == StoreSpec => CopyIsRespected
<1>1. StoreInit => CopyOfStep
  BY DEF StoreInit, CopyOfStep, Exact
<1>2. StoreInv /\ CopyOfStep /\ [StoreNext]_storeVars => CopyOfStep'
  BY NextKeepsCopy DEF storeVars, disk, process, CopyOfStep, Exact
<1>3. StoreInv /\ CopyOfStep => StoreTypeOK /\ SelectionIsInPlace
  BY DEF StoreInv, CopyOfStep, SelectionIsInPlace, Exact
<1>4. StoreInv /\ [StoreNext]_storeVars => [ForeignFileSurvives]_storeVars
  BY NextSparesTheForeign
<1>. QED
  BY <1>1, <1>2, <1>3, <1>4, StoreInvariant, PTL DEF StoreSpec, CopyIsRespected
=============================================================================
