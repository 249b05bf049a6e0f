---------------------------- MODULE RuntimeSwitch ----------------------------
(***************************************************************************)
(* What machine setup promises about the runtime it selects: the selection *)
(* changes in one step, to the runtime a command adopts, and until the     *)
(* command settles it the only way back is to the runtime before it.       *)
(***************************************************************************)
CONSTANTS Runtime, Nothing

VARIABLES
    active,     \* the runtime the service would be started with
    fallback    \* the runtime an unsettled adoption falls back to

switch == <<active, fallback>>

Settled == active = fallback

SwitchInit == active = Nothing /\ fallback = Nothing

Adopt(r) == Settled /\ active' = r /\ UNCHANGED fallback
Settle == ~Settled /\ fallback' = active /\ UNCHANGED active
Revert == ~Settled /\ active' = fallback /\ UNCHANGED fallback
Uninstall == Settled /\ active' = Nothing /\ fallback' = Nothing

SwitchNext == Settle \/ Revert \/ Uninstall \/ \E r \in Runtime : Adopt(r)

SwitchSpec == SwitchInit /\ [][SwitchNext]_switch
=============================================================================
