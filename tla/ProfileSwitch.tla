---------------------------- MODULE ProfileSwitch ----------------------------
(***************************************************************************)
(* What the ProfileStore promises: one selection (the active profile and   *)
(* the one a rollback returns to), changed by a successful request as a    *)
(* whole and by nothing else.  A request that reports an error, or that is *)
(* lost with its process, has changed nothing.                             *)
(***************************************************************************)
CONSTANTS Profiles, NoProfile

VARIABLES
    selected,  \* the active and the previous profile
    request,   \* the request in progress
    reply      \* how the last request ended

switchVars == <<selected, request, reply>>

Selection(a, p) == [active |-> a, previous |-> p]
Request(verb, p) == [verb |-> verb, profile |-> p]
NoRequest == Request("none", NoProfile)
Requests == {Request("publish", p) : p \in Profiles}
            \cup {Request(verb, NoProfile) : verb \in {"rollback", "synchronize", "recover"}}

\* The selection a request leads to.
Applied(r, s) ==
    CASE r.verb = "publish" /\ s.active # r.profile -> Selection(r.profile, s.active)
      [] r.verb = "rollback" /\ s.previous # NoProfile -> Selection(s.previous, s.active)
      [] r.verb = "rollback" /\ s.previous = NoProfile -> Selection(NoProfile, NoProfile)
      [] OTHER -> s

SwitchInit ==
    /\ selected = Selection(NoProfile, NoProfile)
    /\ request = NoRequest
    /\ reply = "none"

Submit ==
    /\ request = NoRequest
    /\ request' \in Requests
    /\ reply' = "none"
    /\ UNCHANGED selected

Serve ==
    /\ request # NoRequest
    /\ request.verb \in {"rollback", "synchronize"} => selected.active # NoProfile
    /\ selected' = Applied(request, selected)
    /\ request' = NoRequest
    /\ reply' = "ok"

Fail ==
    /\ request # NoRequest
    /\ request' = NoRequest
    /\ reply' \in {"error", "lost"}
    /\ UNCHANGED selected

SwitchNext == Submit \/ Serve \/ Fail

SwitchSpec == SwitchInit /\ [][SwitchNext]_switchVars
=============================================================================
