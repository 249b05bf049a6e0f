---------------------------- MODULE TargetLedger ----------------------------
(***************************************************************************)
(* What the InjectionOrchestrator promises its caller about every target,  *)
(* without its tables, retries and probes.  A target is unknown, deferred, *)
(* being injected or settled; at most one is being injected; a settled     *)
(* target is never injected again unless its result was dropped first; and *)
(* a deferral ends in an injection, in a result, in a reported error or    *)
(* with its session.                                                       *)
(***************************************************************************)
CONSTANTS LedgerIdentities

VARIABLES
    ledger,  \* the stage each target is in
    reply    \* what the last call returned, Pending during a call

ledgerVars == <<ledger, reply>>

Stages == {"unknown", "deferred", "injecting", "settled"}
Outcomes == {"injected", "skipped", "deferred", "duplicate", "rejected",
             "retry-exhausted", "cancelled"}
Final == {"injected", "skipped", "rejected", "retry-exhausted", "cancelled"}

\* A call's outcome, the target it was about, and whether the health verdict
\* (generation_health_error) finds the result untrustworthy.
Reply(outcome, i, untrusted) == [outcome |-> outcome, id |-> i, untrusted |-> untrusted]
Pending == Reply("pending", "none", FALSE)
Failures == {"rejected", "retry-exhausted"}

Quiet == \A i \in LedgerIdentities : ledger[i] # "injecting"

LedgerInit ==
    /\ ledger = [i \in LedgerIdentities |-> "unknown"]
    /\ reply = Pending

\* A call passes a PID over, or finds its identity known.
PassOver ==
    /\ Quiet
    /\ \/ \E outcome \in {"skipped", "error"} : reply' = Reply(outcome, "none", FALSE)
       \/ \E i \in LedgerIdentities :
            /\ ledger[i] \in {"deferred", "settled"}
            /\ reply' = Reply("duplicate", i, FALSE)
    /\ UNCHANGED ledger

\* A verified target is handed to the broker.
Take(i) ==
    /\ reply' = Pending
    /\ Quiet
    /\ ledger[i] \in {"unknown", "deferred"}
    /\ ledger' = [ledger EXCEPT ![i] = "injecting"]

\* Another target's deferral may give way, its result may age out.
Ages(j) ==
    \/ ledger'[j] = ledger[j]
    \/ ledger[j] = "deferred" /\ ledger'[j] = "settled"
    \/ ledger[j] = "settled" /\ ledger'[j] = "unknown"

StageAfter(outcome) ==
    IF outcome \in Final THEN "settled" ELSE IF outcome = "deferred" THEN "deferred" ELSE "unknown"

\* A call about a target returns.
Answer(i, outcome) ==
    /\ \E untrusted \in BOOLEAN :
         /\ untrusted => outcome \in Failures
         /\ reply' = Reply(outcome, i, untrusted)
    /\ ledger[i] = "injecting" \/ Quiet
    /\ \/ outcome = "deferred" /\ ledger[i] # "settled"
       \/ outcome \in Final /\ ledger[i] = "injecting"
       \/ outcome \in {"skipped", "error"} /\ ledger[i] = "deferred"
    /\ ledger' \in [LedgerIdentities -> Stages]
    /\ ledger'[i] = StageAfter(outcome)
    /\ \A j \in LedgerIdentities \ {i} : Ages(j)

\* The targets of an ended session, or all of them, are forgotten.
ForgetSession ==
    /\ UNCHANGED reply
    /\ Quiet
    /\ \E gone \in SUBSET LedgerIdentities :
         ledger' = [i \in LedgerIdentities |-> IF i \in gone THEN "unknown" ELSE ledger[i]]

LedgerNext ==
    \/ PassOver
    \/ \E i \in LedgerIdentities : Take(i)
    \/ \E i \in LedgerIdentities, outcome \in Outcomes \cup {"error"} : Answer(i, outcome)
    \/ ForgetSession

LedgerSpec == LedgerInit /\ [][LedgerNext]_ledgerVars
=============================================================================
