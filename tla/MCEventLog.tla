----------------------------- MODULE MCEventLog -----------------------------
(* The logs of one machine, which have nothing to do with each other: the   *)
(* host's or the control center's (EventLog) is watched, or setup's         *)
(* (SharedLog).                                                             *)
EXTENDS EventLog, TLC

CONSTANTS
    Process,            \* setup processes that may be appending at one time
    MaxSetupRecords,    \* bound: records of setup ever begun
    MaxSetupFaults      \* bound: deaths and failed operations of setup

VARIABLES setupFile, process, setupReader, setupAcked, crowded, begun, setupWritten,
          setupFaults,
          watched       \* which log this run is about

setupVars == <<setupFile, process, setupReader, setupAcked, crowded, begun, setupWritten,
               setupFaults>>

Setup == INSTANCE SharedLog
    WITH MaxRecords <- MaxSetupRecords, MaxFaults <- MaxSetupFaults,
         file <- setupFile, reader <- setupReader, acked <- setupAcked,
         written <- setupWritten, faults <- setupFaults

\* Setup processes are interchangeable.
ProcessSymmetry == Permutations(Process)

LogsInit ==
    /\ Init /\ Setup!Init
    /\ \/ watched = "one process"
       \/ watched = "several processes" /\ role = "host"
LogsNext ==
    \/ watched = "one process" /\ Next /\ UNCHANGED <<setupVars, watched>>
    \/ watched = "several processes" /\ Setup!Next /\ UNCHANGED <<vars, watched>>
LogsSpec == LogsInit /\ [][LogsNext]_<<vars, setupVars, watched>>

\* Several setup processes that rotate and write without a common lock leave a
\* readable log of about its size, and its tail if they did not meet, and no reader
\* shows a record twice.
SetupLogIsSound == Setup!SharedLogInvariant /\ Setup!ReaderSeesOnce
=============================================================================
