------------------------ MODULE MCOrchestrationDriver ------------------------
(***************************************************************************)
(* OrchestrationDriver on two processes of one session, one of them the    *)
(* shell.  The channel holds one PID, so that the second one overflows it. *)
(***************************************************************************)
EXTENDS OrchestrationDriver

MCIdentities == {"shell", "app"}
MCPids == {"p", "q"}
MCPidOf == [i \in MCIdentities |-> IF i = "shell" THEN "q" ELSE "p"]
MCShells == {"q"}
=============================================================================
