---------------------------- MODULE TrayHandover ----------------------------
(***************************************************************************)
(* The hand-over from the legacy MacTray: the control center asks the      *)
(* running MacTray to exit, takes its autostart entries away (the user's   *)
(* in its own process, the machine's through an elevated broker), installs *)
(* or migrates to the new service through a broker, and puts the entries   *)
(* back when that fails.  A receipt per scope, written before anything is  *)
(* removed, is what makes the way back possible after a crash.             *)
(*                                                                         *)
(* Client and broker are separate processes joined by a profile pipe, a    *)
(* result pipe, two deadlines and an exit code; either may die at any      *)
(* point, the broker may survive the client's attempt to terminate it, and *)
(* the user edits the entries and starts MacTray meanwhile.  What install  *)
(* and migrate do to the machine is MachineIntegration's subject: here they *)
(* succeed or fail.                                                        *)
(***************************************************************************)
EXTENDS Naturals, FiniteSets

CONSTANTS
    None,            \* no receipt, no message, no broker
    UserEntry,       \* autostart entries of the current user
    MachineEntry,    \* autostart entries of the local machine
    Found,           \* bound: the sets of entries that may exist at first
    Slot,            \* bound: broker processes alive or unread at one time
    MaxBegun,        \* bound: user actions
    MaxTrouble       \* bound: failures and outside events

VARIABLES
    entry,      \* content of every startup entry
    receipt,    \* the startup receipt of each scope
    tray,       \* the running MacTray (0: none), and the one last asked to exit
    service,    \* the new service was installed by a broker
    client,     \* the action of the control center
    broker,     \* the elevated broker processes
    proc,       \* a disable or restore procedure, per worker
    gone,       \* history: what we removed and nobody replaced since
    fresh,      \* history: entries removed since the current action began
    late,       \* history: workers whose checked entry somebody changed since
    broken,     \* history: a restoration failed, a worker died or an answer was lost
    loose,      \* history: a broker was left running
    begun, trouble

desk == <<entry, receipt, gone, fresh, late>>
vars == <<entry, receipt, tray, service, client, broker, proc, gone, fresh,
          late, broken, loose, begun, trouble>>

ASSUME SlotAssumption == Slot \subseteq Nat \ {0}
ASSUME EntryAssumption == UserEntry \cap MachineEntry = {}
ASSUME BoundAssumption == Found \subseteq SUBSET (UserEntry \cup MachineEntry) /\ MaxBegun \in Nat /\ MaxTrouble \in Nat

-----------------------------------------------------------------------------
(* State.                                                                  *)

Entry == UserEntry \cup MachineEntry
Client == 0
Worker == {Client} \cup Slot
Scope == {"user", "machine"}
EntriesOf(s) == IF s = "user" THEN UserEntry ELSE MachineEntry
ScopeOf(w) == IF w = Client THEN "user" ELSE "machine"

\* MacTray's own commands are "one" and "two"; "untrusted" starts a MacTray
\* from elsewhere, "foreign" is a value that has nothing to do with it.
Ours == {"one", "two"}
Content == Ours \cup {"absent", "untrusted", "foreign"}
Receipt == [entries : UNION {[S -> Ours] : S \in SUBSET Entry},
            state : {"pending", "restored", "manual"}]

\* None is none of the values it stands in for.
ASSUME NoneAssumption ==
    None \notin Entry \cup Receipt \cup Slot \cup Ours \cup {"exit", "disable", "install", "migrate", "restore"}
                        \cup {"ok", "err", "failed", "refused", "preflight"}

ClientSteps == {"idle", "first", "second", "notify", "leaving", "check", "gate", "before", "userOff",
                "launch", "profile", "await", "exitCode", "after", "userBack"}
BrokerSteps == {"free", "connect", "profile", "run", "proc", "report", "leave", "exited"}
ProcSteps == {"off", "observe", "select", "persist", "recheck", "remove",
              "delete", "read", "plan", "put", "write", "verify", "manual", "ok", "err"}
Actions == {"exit", "disable", "install", "migrate", "restore"}

NoProc == [at |-> "off", why |-> "restore", held |-> None, todo |-> {}, now |-> None]
NoBroker == [at |-> "free", op |-> None, out |-> None, sent |-> None, code |-> 0]
Resting == [at |-> "idle", action |-> None, phase |-> "act", want |-> 0,
            slot |-> None, said |-> None]

\* Every variable has its type, a receipt names entries of its own scope, and
\* the client at work with a broker has one.
HandoverTypeOK ==
    /\ entry \in [Entry -> Content]
    /\ \A s \in Scope :
         receipt[s] # None => /\ receipt[s] \in Receipt
                              /\ DOMAIN receipt[s].entries \subseteq EntriesOf(s)
                              /\ DOMAIN receipt[s].entries # {}
    /\ tray \in [id : Nat, born : Nat, told : Nat] /\ service \in BOOLEAN
    /\ client.at \in ClientSteps /\ client.action \in Actions \cup {None}
    /\ client.at \in {"profile", "await", "exitCode"} => client.slot \in Slot
    /\ client.said \in {None, "ok", "failed", "refused", "preflight"}
    /\ \A b \in Slot : broker[b].at \in BrokerSteps /\ proc[b].at \in ProcSteps
    /\ \A b \in Slot : proc[b].at # "off" => broker[b].at = "proc"
    /\ proc[Client].at # "off" => client.at \in {"userOff", "userBack"}
    /\ gone \in [Entry -> Ours \cup {None}] /\ fresh \subseteq Entry
    /\ late \subseteq Worker
    /\ broken \in BOOLEAN /\ loose \in BOOLEAN
    /\ begun \in 0 .. MaxBegun /\ trouble \in 0 .. MaxTrouble

Init ==
    /\ entry \in {[e \in Entry |-> IF e \in present THEN "one" ELSE "absent"] : present \in Found}
    /\ receipt = [s \in Scope |-> None]
    /\ tray \in {[id |-> i, born |-> i, told |-> 0] : i \in {0, 1}}
    /\ service = FALSE
    /\ client = Resting
    /\ broker = [b \in Slot |-> NoBroker]
    /\ proc = [w \in Worker |-> NoProc]
    /\ gone = [e \in Entry |-> None] /\ fresh = {} /\ late = {}
    /\ broken = FALSE /\ loose = FALSE /\ begun = 0 /\ trouble = 0

\* Any call of the operating system may fail.
Try(ok) ==
    /\ ok \/ trouble < MaxTrouble
    /\ trouble' = IF ok THEN trouble ELSE trouble + 1
Calm == trouble < MaxTrouble /\ trouble' = trouble + 1

-----------------------------------------------------------------------------
(* What an observation of the startup entries sees.                        *)

Visible(s) == {e \in EntriesOf(s) : entry[e] \in Ours}
Owned(s) == [e \in Visible(s) |-> entry[e]]
Untrusted(s) == \E e \in EntriesOf(s) : entry[e] = "untrusted"
NoEntries == \A s \in Scope : Visible(s) = {} /\ ~Untrusted(s)
ConflictClear == tray.id = 0 /\ NoEntries

-----------------------------------------------------------------------------
(* The disable procedure of one scope, run by worker w.                    *)

Goes(w, at) == proc' = [proc EXCEPT ![w].at = at]

\* A procedure that ends; a restoration that fails is remembered.
Ends(w, ok) ==
    /\ proc' = [proc EXCEPT ![w] = [NoProc EXCEPT !.at =
                  IF ok /\ proc[w].why = "restore" THEN "ok" ELSE "err"]]
    /\ broken' = (broken \/ ~ok)

Observe(w) ==
    /\ proc[w].at = "observe"
    /\ \E ok \in BOOLEAN :
         /\ Try(ok)
         /\ proc' = [proc EXCEPT ![w].at =
                        IF ~ok \/ Untrusted(ScopeOf(w)) THEN "err"
                        ELSE IF Visible(ScopeOf(w)) = {} THEN "ok" ELSE "select",
                    ![w].held = [entries |-> Owned(ScopeOf(w)), state |-> "pending"]]
    /\ UNCHANGED <<desk, broken>>

MaySelectAnyPending(w) ==
    LET existing == receipt[ScopeOf(w)] IN
    IF existing = None THEN TRUE ELSE existing.state # "manual"
\* An existing receipt may be replaced once it was restored, and used again
\* while it is pending and describes what was just observed.
MaySelect(w) ==
    LET existing == receipt[ScopeOf(w)] IN
    IF existing = None THEN TRUE
    ELSE \/ existing.state = "restored"
         \/ existing.state = "pending" /\ existing.entries = proc[w].held.entries
SelectReceipt(w) ==
    /\ proc[w].at = "select"
    /\ \E ok \in BOOLEAN :
         /\ Try(ok)
         /\ Goes(w, IF ok /\ MaySelect(w) THEN "persist" ELSE "err")
    /\ UNCHANGED <<desk, broken>>

Persist(w) ==
    /\ proc[w].at = "persist"
    /\ \E ok \in BOOLEAN :
         /\ Try(ok)
         /\ receipt' = IF ok THEN [receipt EXCEPT ![ScopeOf(w)] = proc[w].held] ELSE receipt
         /\ Goes(w, IF ok THEN "recheck" ELSE "err")
    /\ UNCHANGED <<entry, gone, fresh, late, broken>>

\* A second observation must find the same entries; a failed one returns at
\* once, a different one through the restoration.
Recheck(w) ==
    /\ proc[w].at = "recheck"
    /\ \E ok \in BOOLEAN :
         /\ Try(ok)
         /\ proc' = [proc EXCEPT ![w].at =
                        IF ~ok \/ Untrusted(ScopeOf(w)) THEN "err"
                        ELSE IF Owned(ScopeOf(w)) = proc[w].held.entries THEN "remove" ELSE "read",
                    ![w].todo = DOMAIN proc[w].held.entries]
    /\ UNCHANGED <<desk, broken>>

\* remove_artifact_exact reads the entry and then deletes it by its name, in two
\* calls: what the user puts there in between goes with it.
Holding(w, at, e) == proc' = [proc EXCEPT ![w].at = at, ![w].now = e]
Exact(w, e) == entry[e] = proc[w].held.entries[e]
Compare(w) ==
    /\ proc[w].at = "remove" /\ proc[w].todo # {}
    /\ \E e \in proc[w].todo, ok \in BOOLEAN :
         /\ Try(ok)
         /\ IF ok /\ Exact(w, e) THEN Holding(w, "delete", e) ELSE Goes(w, "read")
    /\ late' = late \ {w}
    /\ UNCHANGED <<entry, receipt, gone, fresh, broken>>

\* Every other worker at this entry has looked at it before this change.
Changed(w, e) == late' = (late \cup {v \in Worker : proc[v].now = e}) \ {w}
Handled(w, at) ==
    proc' = [proc EXCEPT ![w].at = at, ![w].todo = @ \ {proc[w].now}, ![w].now = None]
Taken(w, e) ==
    /\ entry' = [entry EXCEPT ![e] = "absent"]
    /\ gone' = [gone EXCEPT ![e] =
                   IF entry[e] \in Ours /\ w \notin late THEN entry[e] ELSE None]
    /\ fresh' = fresh \cup {e}
    /\ Changed(w, e) /\ Handled(w, "remove")
Delete(w) ==
    /\ proc[w].at = "delete"
    /\ \E ok \in BOOLEAN :
         /\ Try(ok)
         /\ IF ok /\ entry[proc[w].now] # "absent" THEN Taken(w, proc[w].now)
            ELSE Holding(w, "read", None) /\ UNCHANGED <<entry, gone, fresh, late>>
    /\ UNCHANGED <<receipt, broken>>
Remain(w) ==
    /\ proc[w].at = "remove" /\ proc[w].todo = {}
    /\ \E ok \in BOOLEAN :
         /\ Try(ok)
         /\ Goes(w, IF ok /\ ~Untrusted(ScopeOf(w)) /\ Visible(ScopeOf(w)) = {}
                    THEN "ok" ELSE "read")
    /\ UNCHANGED <<desk, broken>>

-----------------------------------------------------------------------------
(* The restore procedure of one scope.                                     *)

Read(w) ==
    /\ proc[w].at = "read"
    /\ LET kept == receipt[ScopeOf(w)] IN
       \E ok \in BOOLEAN :
         /\ Try(ok)
         /\ IF ok /\ kept # None /\ kept.state = "pending"
            THEN /\ proc' = [proc EXCEPT ![w].at = "plan", ![w].held = kept]
                 /\ UNCHANGED broken
            ELSE Ends(w, ok /\ (kept # None => kept.state = "restored"))
    /\ UNCHANGED desk

\* Every entry is read before any is written: one that holds neither nothing
\* nor its original asks for the user.
Plan(w) ==
    /\ proc[w].at = "plan"
    /\ LET original == proc[w].held.entries
           Clashes == {e \in DOMAIN original : entry[e] \notin {"absent", original[e]}} IN
       \E ok \in BOOLEAN :
         /\ Try(ok)
         /\ IF ~ok THEN Ends(w, FALSE)
            ELSE /\ proc' = [proc EXCEPT ![w].at = IF Clashes = {} THEN "put" ELSE "manual",
                              ![w].todo = {e \in DOMAIN original : entry[e] = "absent"}]
                 /\ UNCHANGED broken
    /\ UNCHANGED desk

\* restore_artifact_if_absent finds the entry absent, then sets the value or
\* renames the staged shortcut over whatever is there by now, and reads it back.
MayPutAlways(w, e) == TRUE
MayPut(w, e) == entry[e] = "absent"
Put(w) ==
    /\ proc[w].at = "put" /\ proc[w].todo # {}
    /\ \E e \in proc[w].todo, ok \in BOOLEAN :
         /\ Try(ok)
         /\ IF ok /\ MayPut(w, e) THEN Holding(w, "write", e) ELSE Goes(w, "manual")
    /\ late' = late \ {w}
    /\ UNCHANGED <<entry, receipt, gone, fresh, broken>>
Write(w) ==
    /\ proc[w].at = "write"
    /\ LET e == proc[w].now IN
       \E ok \in BOOLEAN :
         /\ Try(ok)
         /\ IF ok
            THEN /\ entry' = [entry EXCEPT ![e] = proc[w].held.entries[e]]
                 /\ gone' = [gone EXCEPT ![e] = None]
                 /\ Changed(w, e) /\ Holding(w, "verify", e)
            ELSE Holding(w, "manual", None) /\ UNCHANGED <<entry, gone, late>>
    /\ UNCHANGED <<receipt, fresh, broken>>
Verify(w) ==
    /\ proc[w].at = "verify"
    /\ \E ok \in BOOLEAN :
         /\ Try(ok)
         /\ IF ok /\ Exact(w, proc[w].now) THEN Handled(w, "put") ELSE Holding(w, "manual", None)
    /\ UNCHANGED <<desk, broken>>

\* mark_restoration: the receipt that was read, with its new state.
Mark(w) ==
    /\ \/ proc[w].at = "manual"
       \/ proc[w].at = "put" /\ proc[w].todo = {}
    /\ LET state == IF proc[w].at = "manual" THEN "manual" ELSE "restored" IN
       \E ok \in BOOLEAN :
         /\ Try(ok)
         /\ receipt' = IF ok THEN [receipt EXCEPT ![ScopeOf(w)] =
                                     [proc[w].held EXCEPT !.state = state]]
                       ELSE receipt
         /\ Ends(w, ok /\ state = "restored")
    /\ UNCHANGED <<entry, gone, fresh, late>>
Procedure(w) ==
    /\ \/ Observe(w) \/ SelectReceipt(w) \/ Persist(w) \/ Recheck(w) \/ Compare(w)
       \/ Delete(w) \/ Remain(w) \/ Read(w) \/ Plan(w) \/ Put(w) \/ Write(w) \/ Verify(w)
       \/ Mark(w)
    /\ UNCHANGED <<tray, service, client, broker, loose, begun>>
-----------------------------------------------------------------------------
(* The control center.                                                     *)

Reports(said) == client' = [Resting EXCEPT !.action = client.action, !.said = said]
Steps(at) == client' = [client EXCEPT !.at = at]

\* The user asks for something; MacTray is named by the identity the user was
\* shown, which may have been an earlier process.
Begin ==
    /\ client.at = "idle" /\ begun < MaxBegun
    /\ \E a \in Actions :
         /\ \E want \in IF a = "exit" THEN 1 .. tray.born ELSE {0} :
              client' = [Resting EXCEPT !.action = a, !.want = want,
                           !.at = CASE a = "exit" -> "first"
                                    [] a = "disable" -> "before"
                                    [] a = "restore" -> "userBack"
                                    [] OTHER -> "gate"]
    /\ begun' = begun + 1 /\ fresh' = {}
    /\ tray' = [tray EXCEPT !.told = 0]
    /\ UNCHANGED <<entry, receipt, service, broker, proc, gone, late, broken, loose, trouble>>

\* request_tray_exit_with: the identity is looked at twice, then once more on
\* the opened process, whose windows get the message.
Named == tray.id = client.want
Identify ==
    /\ client.at \in {"first", "second"}
    /\ IF Named THEN Steps(IF client.at = "first" THEN "second" ELSE "notify")
                ELSE Reports("failed")
    /\ UNCHANGED <<tray, trouble>>
Notify ==
    /\ client.at = "notify"
    /\ \E ok \in BOOLEAN :
         /\ Try(ok)
         /\ IF ok /\ Named
            THEN tray' = [tray EXCEPT !.told = tray.id] /\ Steps("leaving")
            ELSE Reports("failed") /\ UNCHANGED tray
\* MacTray leaves, or the five seconds pass.
AwaitExit ==
    /\ client.at = "leaving"
    /\ \/ /\ tray' = [tray EXCEPT !.id = IF tray.id = tray.told THEN 0 ELSE @]
          /\ Steps("check")
       \/ Named /\ Reports("failed") /\ UNCHANGED tray
    /\ UNCHANGED trouble
CheckExit ==
    /\ client.at = "check"
    /\ Reports(IF tray.id = 0 THEN "ok" ELSE "failed")
    /\ UNCHANGED <<tray, trouble>>
TrayExit ==
    /\ Identify \/ Notify \/ AwaitExit \/ CheckExit
    /\ UNCHANGED <<desk, service, broker, proc, broken, loose, begun>>

\* disable_legacy_tray_startup_with: MacTray must be absent and its entries
\* trusted, before and after.
Before ==
    /\ client.at = "before"
    /\ \E ok \in BOOLEAN :
         /\ Try(ok)
         /\ IF ~ok \/ tray.id # 0 \/ \E s \in Scope : Untrusted(s) THEN Reports("refused")
            ELSE IF NoEntries THEN Reports("ok") ELSE Steps("userOff")
After ==
    /\ client.at = "after"
    /\ \E ok \in BOOLEAN :
         /\ Try(ok)
         /\ IF ok /\ ConflictClear THEN Reports("ok")
            ELSE client' = [client EXCEPT !.at = "launch", !.phase = "undo"]
\* execute_machine_action_with refuses beside a MacTray; the service's own
\* conditions are MachineIntegration's.
Gate ==
    /\ client.at = "gate"
    /\ \E ok \in BOOLEAN :
         /\ Try(ok)
         /\ IF ok /\ ConflictClear THEN Steps("launch") ELSE Reports("refused")
Judge ==
    /\ Before \/ After \/ Gate
    /\ UNCHANGED <<desk, tray, service, broker, proc, broken, loose, begun>>

\* The user's scope is disabled and restored in the client itself.
StartOwn ==
    /\ client.at \in {"userOff", "userBack"} /\ proc[Client].at = "off"
    /\ proc' = [proc EXCEPT ![Client] =
                  IF client.at = "userOff" THEN [NoProc EXCEPT !.at = "observe", !.why = "disable"]
                                           ELSE [NoProc EXCEPT !.at = "read"]]
    /\ UNCHANGED client
FinishOwn ==
    /\ proc[Client].at \in {"ok", "err"}
    /\ IF client.at = "userOff"
       THEN IF proc[Client].at = "ok" THEN Steps("launch") ELSE Reports("failed")
       ELSE Reports(IF client.action = "restore" /\ proc[Client].at = "ok" THEN "ok" ELSE "failed")
    /\ proc' = [proc EXCEPT ![Client] = NoProc]
OwnScope ==
    /\ StartOwn \/ FinishOwn
    /\ UNCHANGED <<desk, tray, service, broker, broken, loose, begun, trouble>>

ContinuesWithout(ok) ==
    /\ IF client.phase = "undo" THEN client' = [client EXCEPT !.at = "userBack", !.slot = None]
       ELSE IF ok /\ client.action = "disable"
       THEN client' = [client EXCEPT !.at = "after", !.slot = None]
       ELSE Reports(IF ok THEN "ok" ELSE "failed")
    /\ UNCHANGED <<desk, tray, service, begun>>
\* What follows a broker's answer: a failed disable gives the user's entries
\* back, a failed install or migration the machine's and then the user's.
Continues(ok) ==
    /\ IF client.phase = "undo" \/ (client.action = "disable" /\ ~ok)
       THEN client' = [client EXCEPT !.at = "userBack", !.slot = None]
       ELSE IF client.action = "disable" THEN client' = [client EXCEPT !.at = "after", !.slot = None]
       ELSE IF ok THEN Reports("ok")
       ELSE client' = [client EXCEPT !.at = "launch", !.phase = "undo", !.slot = None]
    /\ UNCHANGED <<desk, tray, service, begun>>
UndoFails(ok) == client.phase = "undo" /\ ~ok

Operation == IF client.phase = "undo" THEN "restore" ELSE client.action
Free == {b \in Slot : broker[b].at = "free"}

Launch ==
    /\ client.at = "launch"
    /\ \E b \in Free :
         /\ \A c \in Free : b <= c
         /\ broker' = [broker EXCEPT ![b] = [NoBroker EXCEPT !.at = "connect", !.op = Operation]]
         /\ client' = [client EXCEPT !.slot = b,
                         !.at = IF Operation = "migrate" THEN "profile" ELSE "await"]
    /\ UNCHANGED <<desk, tray, service, proc, broken, loose, begun, trouble>>
\* An incomplete package stops an install before anything is asked of the
\* user; a cancelled prompt is a failed broker.
LaunchFails ==
    /\ client.at = "launch"
    /\ \/ /\ client.phase = "act" /\ client.action # "disable"
          /\ Reports("preflight")
          /\ UNCHANGED <<desk, tray, service, begun, broken>>
       \/ Continues(FALSE) /\ broken' = (broken \/ UndoFails(FALSE))
    /\ UNCHANGED <<broker, proc, loose, trouble>>

SendProfile ==
    /\ client.at = "profile" /\ broker[client.slot].at = "profile"
    /\ broker' = [broker EXCEPT ![client.slot].at = "run"]
    /\ Steps("await")
    /\ UNCHANGED <<desk, tray, service, proc, broken, loose, begun, trouble>>
Receive ==
    /\ client.at = "await" /\ broker[client.slot].sent # None
    /\ Steps("exitCode")
    /\ UNCHANGED <<desk, tray, service, broker, proc, broken, loose, begun, trouble>>

\* A disable that succeeded and was not heard of.
Unheard == client.action = "disable" /\ broker[client.slot].out = "ok"
\* wait_for_overlapped looks at the peer's process before the transfer: an
\* exit ends the wait even when the answer was already sent.
PeerExited ==
    /\ client.at \in {"profile", "await"} /\ broker[client.slot].at = "exited"
    /\ broker' = [broker EXCEPT ![client.slot] = NoBroker]
    /\ Continues(FALSE)
    /\ broken' = (broken \/ UndoFails(FALSE) \/ Unheard)
    /\ UNCHANGED <<proc, loose, trouble>>
\* interpret_broker_exit: a success counts with exit code 0 only.
ReadExit ==
    /\ client.at = "exitCode" /\ broker[client.slot].at = "exited"
    /\ LET ok == broker[client.slot].code = 0 /\ broker[client.slot].sent = "ok" IN
       Continues(ok) /\ broken' = (broken \/ UndoFails(ok))
    /\ broker' = [broker EXCEPT ![client.slot] = NoBroker]
    /\ UNCHANGED <<proc, loose, trouble>>

NeverGivesUp == client.at \in {"profile", "exitCode"} /\ broker[client.slot].at # "exited"
\* A deadline passes: the broker is terminated and its end confirmed, or left
\* running with its cleanup reported unknown.
GivesUp == client.at \in {"profile", "await", "exitCode"} /\ broker[client.slot].at # "exited"
Terminate(b, confirmed) ==
    /\ broker' = IF confirmed THEN [broker EXCEPT ![b] = NoBroker] ELSE broker
    /\ proc' = IF confirmed THEN [proc EXCEPT ![b] = NoProc] ELSE proc
    /\ loose' = (loose \/ ~confirmed)
Timeout ==
    /\ GivesUp
    /\ \E confirmed \in BOOLEAN : Try(confirmed) /\ Terminate(client.slot, confirmed)
    /\ Continues(FALSE) /\ broken' = TRUE
-----------------------------------------------------------------------------
(* The elevated broker.                                                    *)

Listening(b) == client.slot = b
Alive(b) == broker[b].at \notin {"free", "exited"}
Leaves(b, code) == broker' = [broker EXCEPT ![b] =
    IF Listening(b) THEN [@ EXCEPT !.at = "exited", !.code = code] ELSE NoBroker]
Answers(b, out) == broker' = [broker EXCEPT ![b].at = "report", ![b].out = out]

\* Without its result pipe a broker does nothing.
Connect(b) ==
    /\ broker[b].at = "connect"
    /\ \E ok \in BOOLEAN :
         /\ Try(ok)
         /\ IF ok /\ Listening(b)
            THEN broker' = [broker EXCEPT ![b].at = IF @ = "connect" /\ broker[b].op = "migrate"
                                                    THEN "profile" ELSE "run"]
            ELSE Leaves(b, 21)
    /\ UNCHANGED <<service, proc>>
NoProfile(b) ==
    /\ broker[b].at = "profile"
    /\ IF Listening(b) THEN Try(FALSE) ELSE Try(TRUE)
    /\ Answers(b, "err")
    /\ UNCHANGED <<service, proc>>

Refuses(b) ==
    /\ broker[b].at = "run"
    /\ IF broker[b].op = "install" /\ ~ConflictClear THEN Try(TRUE) ELSE Try(FALSE)
    /\ Answers(b, "err")
    /\ UNCHANGED <<service, proc>>
Completes(b) ==
    /\ broker[b].at = "run" /\ broker[b].op \in {"install", "migrate"}
    /\ broker[b].op = "install" => ConflictClear
    /\ service' = TRUE
    /\ Answers(b, "ok")
    /\ UNCHANGED <<proc, trouble>>
\* disable and restore are the procedures above on the machine's scope; a
\* migration that fails late restores that scope on its way back.
RunsProcedure(b) ==
    /\ broker[b].at = "run" /\ broker[b].op # "install"
    /\ IF broker[b].op = "migrate" THEN Try(FALSE) ELSE Try(TRUE)
    /\ broker' = [broker EXCEPT ![b].at = "proc"]
    /\ proc' = [proc EXCEPT ![b] =
                  IF broker[b].op = "disable" THEN [NoProc EXCEPT !.at = "observe", !.why = "disable"]
                                              ELSE [NoProc EXCEPT !.at = "read"]]
    /\ UNCHANGED service
Finished(b) ==
    /\ proc[b].at \in {"ok", "err"}
    /\ Answers(b, IF broker[b].op = "migrate" THEN "err" ELSE proc[b].at)
    /\ proc' = [proc EXCEPT ![b] = NoProc]
    /\ UNCHANGED <<service, trouble>>

\* An answer that cannot be delivered turns a success into exit code 21.
Report(b) ==
    /\ broker[b].at = "report"
    /\ \E ok \in BOOLEAN :
         /\ Try(ok)
         /\ LET sent == ok /\ Listening(b) IN
            broker' = [broker EXCEPT ![b].at = "leave",
                         ![b].sent = IF sent THEN broker[b].out ELSE None,
                         ![b].code = IF sent /\ broker[b].out = "ok" THEN 0 ELSE 21]
    /\ UNCHANGED <<service, proc>>
Leave(b) ==
    /\ broker[b].at = "leave"
    /\ Leaves(b, broker[b].code)
    /\ UNCHANGED <<service, proc, trouble>>

Broker(b) ==
    /\ \/ Connect(b) \/ NoProfile(b) \/ Refuses(b) \/ Completes(b)
       \/ RunsProcedure(b) \/ Finished(b) \/ Report(b) \/ Leave(b)
    /\ UNCHANGED <<desk, tray, client, broken, loose, begun>>

-----------------------------------------------------------------------------
(* Deaths, and the user.                                                   *)

BrokerDies(b) ==
    /\ Calm /\ Alive(b)
    /\ Leaves(b, 21)
    /\ proc' = [proc EXCEPT ![b] = NoProc]
    /\ broken' = TRUE
    /\ UNCHANGED <<desk, tray, service, client, loose, begun>>
ClientDies ==
    /\ Calm /\ client.at # "idle"
    /\ client' = Resting
    /\ proc' = [proc EXCEPT ![Client] = NoProc]
    /\ broker' = [b \in Slot |-> IF Alive(b) THEN broker[b] ELSE NoBroker]
    /\ broken' = TRUE /\ loose' = (loose \/ \E b \in Slot : Alive(b))
    /\ UNCHANGED <<desk, tray, service, begun>>

Edit ==
    /\ Calm
    /\ \E e \in Entry : \E c \in Content \ {entry[e]} :
         /\ entry' = [entry EXCEPT ![e] = c]
         /\ gone' = [gone EXCEPT ![e] = None]
         /\ late' = late \cup {w \in Worker : proc[w].now = e}
    /\ UNCHANGED <<receipt, tray, service, client, broker, proc, fresh, broken, loose, begun>>
TrayComes ==
    /\ Calm /\ tray.id = 0
    /\ tray' = [tray EXCEPT !.id = tray.born + 1, !.born = @ + 1]
    /\ UNCHANGED <<desk, service, client, broker, proc, broken, loose, begun>>
TrayGoes ==
    /\ Calm /\ tray.id # 0
    /\ tray' = [tray EXCEPT !.id = 0]
    /\ UNCHANGED <<desk, service, client, broker, proc, broken, loose, begun>>

ClientWorks ==
    \/ TrayExit \/ Judge \/ OwnScope \/ Launch \/ LaunchFails \/ SendProfile
    \/ Receive \/ PeerExited \/ ReadExit \/ Timeout \/ Procedure(Client)
Outside == Edit \/ TrayComes \/ TrayGoes

Next ==
    \/ Begin \/ ClientWorks \/ ClientDies \/ Outside
    \/ \E b \in Slot : Broker(b) \/ Procedure(b) \/ BrokerDies(b)

\* Only the client's own thread is assumed to be scheduled: its waits all have
\* deadlines, and nothing is assumed of the broker.
Spec == Init /\ [][Next]_vars /\ WF_vars(ClientWorks)

-----------------------------------------------------------------------------
(* Properties.                                                             *)

\* An entry we removed and nobody replaced is held, with its exact bytes, by
\* a receipt that still asks for its restoration: disable_startup_scope writes
\* the receipt first, select_startup_receipt_for_disable never drops a pending
\* one, and restore_startup_with marks it restored last, wherever a process
\* dies.  (A broker that outlived its termination may still race the next one;
\* what the user wrote between our comparison and our deletion is in no receipt.)
ReceiptCoversRemoved ==
    \A s \in Scope, e \in Entry :
        ~loose /\ e \in EntriesOf(s) /\ gone[e] # None =>
            /\ receipt[s] # None
            /\ receipt[s].state # "restored"
            /\ e \in DOMAIN receipt[s].entries /\ receipt[s].entries[e] = gone[e]

\* Whatever interleaves, a step of ours removes only bytes that the receipt on
\* disk holds and writes only where nothing is, unless somebody changed that
\* very entry between our look at it and our next call: the pairs in
\* remove_artifact_exact and restore_artifact_if_absent are not atomic, and
\* nothing else is lost.  (Beside a broker that was left running the receipt may
\* be the other one's.)
NeverOverwritesUserEdits ==
    ~Outside => \A e \in Entry : entry'[e] # entry[e] =>
       \/ entry[e] = "absent"
       \/ /\ entry'[e] = "absent"
          /\ ~loose => \E s \in Scope :
                         /\ receipt[s] # None /\ e \in DOMAIN receipt[s].entries
                         /\ receipt[s].entries[e] = entry[e]
       \/ \E w \in late : proc[w].now = e /\ proc'[w] # proc[w]

\* A failure the client reports, when no restoration failed, no process
\* died and no successful answer to a disable was lost, leaves nothing disabled: a
\* failed disable gives back what it took from either scope, a failed install or
\* migration also what an earlier disable took (finish_action_with_startup_receipts).
FailedActionRestores ==
    client.at = "idle" /\ client.said = "failed" /\ ~broken /\ ~loose =>
        /\ client.action = "disable" => \A e \in fresh : gone[e] = None
        /\ client.action \in {"install", "migrate"} => \A e \in Entry : gone[e] = None

\* Two brokers never work on the machine at once, unless a termination could
\* not be confirmed or the client that would have waited died:
\* launch_elevated_broker gives up on a broker only once it has ended.
OneBroker == Cardinality({b \in Slot : Alive(b)}) <= 1 \/ loose

\* One broker at a time acts for the client, and what it reports as failed is
\* undone in both scopes.
HandoverInvariant == HandoverTypeOK /\ OneBroker /\ FailedActionRestores

\* The exit message goes to the very process the user was shown, however many
\* MacTray processes came and went since (request_official_exit).
ExitOnlyTheNamed ==
    tray'.told \notin {0, tray.told} => tray'.told = client.want

\* Nothing of the user's is touched that was not shown and recorded first: no
\* entry that changed before our last look at it, and no process but the named.
UserKeepsControl == [][NeverOverwritesUserEdits /\ ExitOnlyTheNamed]_vars

\* Every action of the user gets an answer, even of a broker that hangs:
\* send_to, receive_from and the wait for the exit code have deadlines.
ClientAnswers == client.at # "idle" ~> client.at = "idle"
=============================================================================
