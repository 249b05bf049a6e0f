------------------------------- MODULE Machine -------------------------------
(***************************************************************************)
(* What the service observes and does not control: processes, which start, *)
(* freeze, thaw and exit and whose PIDs are reused, and the stop event the *)
(* operator sets through the service control manager.                      *)
(***************************************************************************)
EXTENDS Naturals

CONSTANTS
    Identities,  \* process identities: a PID together with a creation time
    Pids,        \* PIDs; two identities may share one (PID reuse)
    PidOf,       \* [Identities -> Pids]
    LiveStates   \* the states of a live process that are told apart

ASSUME MachineAssumption ==
    /\ PidOf \in [Identities -> Pids]
    /\ "running" \in LiveStates
    /\ LiveStates \subseteq {"running", "frozen"}

VARIABLES
    proc,  \* the state of each identity
    stop   \* the service's manual-reset stop event

machine == <<proc, stop>>

Live(i) == proc[i] \in LiveStates
LivePid(p) == {i \in Identities : PidOf[i] = p /\ Live(i)}

MachineInit ==
    /\ proc = [i \in Identities |-> "unborn"]
    /\ stop = FALSE

MachineTypeOK ==
    /\ proc \in [Identities -> {"unborn", "gone"} \cup LiveStates]
    /\ stop \in BOOLEAN

\* A process starts under a PID no live process holds.
ProcStart(i) ==
    /\ proc[i] = "unborn"
    /\ LivePid(PidOf[i]) = {}
    /\ proc' = [proc EXCEPT ![i] = "running"]
    /\ UNCHANGED stop

\* A live process freezes, thaws or exits.
ProcChange(i) ==
    /\ Live(i)
    /\ \E state \in (LiveStates \cup {"gone"}) \ {proc[i]} :
          proc' = [proc EXCEPT ![i] = state]
    /\ UNCHANGED stop

\* control_handler on Stop and Shutdown
RequestStop ==
    /\ ~stop
    /\ stop' = TRUE
    /\ UNCHANGED proc
=============================================================================
