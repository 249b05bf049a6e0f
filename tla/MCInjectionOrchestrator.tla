----------------------- MODULE MCInjectionOrchestrator -----------------------
(***************************************************************************)
(* InjectionOrchestrator on three identities: a1 and a2 reuse one PID and  *)
(* are interchangeable, b lives in another session.  The history holds two *)
(* results and one deferral, so that both tables overflow.                 *)
(***************************************************************************)
EXTENDS InjectionOrchestrator, TLC

CONSTANTS a1, a2, b

MCIdentities == {a1, a2, b}
MCPids == {"p", "q"}
MCSessions == {"s", "t"}
MCPidOf == [i \in MCIdentities |-> IF i = b THEN "q" ELSE "p"]
MCSessionOf == [i \in MCIdentities |-> IF i = b THEN "t" ELSE "s"]
MCSymmetry == Permutations({a1, a2})
=============================================================================
