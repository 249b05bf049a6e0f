------------------------- MODULE TrayHandoverProofs -------------------------
(***************************************************************************)
(* Proofs about TrayHandover, for every set of entries and brokers: an     *)
(* entry that was taken away is held by a receipt, a failed action gives   *)
(* back what it took, one broker works at a time, and nothing the user put *)
(* in place is touched.                                                    *)
(*                                                                         *)
(* Two workers share the receipts and the entries: the client's scope and  *)
(* the broker's never meet, and as long as no broker was left running, the *)
(* one the client listens to is the only one.  The invariant says, for     *)
(* each step of a procedure, what the receipt on disk and the entries that *)
(* are gone have to do with what the worker holds in memory, and for each  *)
(* step of the client and its broker, which scopes are whole.              *)
(***************************************************************************)
EXTENDS TrayHandover, FiniteSetTheorems, TLAPS

-----------------------------------------------------------------------------
(***************************************************************************)
(* The inductive invariant                                                 *)
(***************************************************************************)
\* The records of the processes.
ClientRecord ==
    [at : ClientSteps, action : Actions \cup {None}, phase : {"act", "undo"}, want : Nat,
     slot : Slot \cup {None}, said : {None, "ok", "failed", "refused", "preflight"}]
BrokerRecord ==
    [at : BrokerSteps, op : Actions \cup {None}, out : {None, "ok", "err"},
     sent : {None, "ok", "err"}, code : {0, 21}]
ProcRecord ==
    [at : ProcSteps, why : {"disable", "restore"}, held : Receipt \cup {None},
     todo : SUBSET Entry, now : Entry \cup {None}]

DeskShape ==
    /\ entry \in [Entry -> Content]
    /\ receipt \in [Scope -> Receipt \cup {None}]
    /\ gone \in [Entry -> Ours \cup {None}]
    /\ fresh \subseteq Entry
    /\ late \subseteq Worker
WorkShape ==
    /\ client \in ClientRecord
    /\ broker \in [Slot -> BrokerRecord]
    /\ proc \in [Worker -> ProcRecord]
OtherShape ==
    /\ tray \in [id : Nat, born : Nat, told : Nat]
    /\ begun \in 0 .. MaxBegun /\ trouble \in 0 .. MaxTrouble

Flags == service \in BOOLEAN /\ broken \in BOOLEAN /\ loose \in BOOLEAN

\* A receipt of scope s that is worth writing.
Fits(r, s) == r # None /\ DOMAIN r.entries \subseteq EntriesOf(s) /\ DOMAIN r.entries # {}

\* The steps of a worker that is at one entry, that removes, that writes, and that
\* holds the receipt it works from.
Busy == {"delete", "write", "verify"}
Removers == {"remove", "delete"}
Writers == {"put", "write", "verify"}
Holders == Removers \cup Writers \cup {"select", "persist", "recheck", "plan", "manual"}

USE DEF Busy, Removers, Writers, Holders

\* What a worker that goes through a procedure holds.
HeldFits ==
    /\ \A s \in Scope : receipt[s] # None => Fits(receipt[s], s)
    /\ \A w \in Worker :
         /\ proc[w].at \in Holders => Fits(proc[w].held, ScopeOf(w))
         /\ proc[w].at \in Removers \cup {"select", "persist", "recheck"} => proc[w].held.state = "pending"
         /\ proc[w].at \in Removers \cup Writers => proc[w].todo \subseteq DOMAIN proc[w].held.entries
         /\ proc[w].at \in Busy => proc[w].now \in proc[w].todo

\* Which process is at work for which.
WhoWorks ==
    /\ \A b \in Slot : proc[b].at # "off" => broker[b].at = "proc"
    /\ proc[Client].at # "off" => client.at \in {"userOff", "userBack"}
    /\ client.slot # None <=> client.at \in {"profile", "await", "exitCode"}
    /\ client.slot # None =>
         /\ broker[client.slot].at # "free" => broker[client.slot].op = Operation
         /\ client.at = "exitCode" => broker[client.slot].sent # None
    /\ \A b \in Slot : ~loose /\ broker[b].at # "free" => client.slot = b

\* What the step of the client says about the action.
ActionOfStep ==
    /\ client.at \in {"first", "second", "notify", "leaving", "check"} => client.action = "exit"
    /\ client.at \in {"before", "userOff", "after"} =>
         client.action = "disable" /\ client.phase = "act"
    /\ client.at = "gate" => client.action \in {"install", "migrate"} /\ client.phase = "act"
    /\ client.at \in {"launch", "profile", "await", "exitCode"} =>
         client.action \in {"disable", "install", "migrate"}
    /\ client.at = "userBack" /\ client.action \in {"install", "migrate"} => client.phase = "undo"

\* What the step of a procedure says about its cause.
WhyOfStep ==
    /\ client.at = "userBack" => proc[Client].at = "off" \/ proc[Client].why = "restore"
    /\ \A b \in Slot : proc[b].at # "off" /\ broker[b].op # "disable" => proc[b].why = "restore"

\* What a broker has said.
SaidOfStep ==
    \A b \in Slot :
        /\ broker[b].out # None => broker[b].at \in {"report", "leave", "exited"}
        /\ broker[b].sent # None =>
             broker[b].at \in {"leave", "exited"} /\ broker[b].sent = broker[b].out
        /\ broker[b].sent = "ok" /\ ~broken => broker[b].code = 0

\* Nothing of scope s is missing; nothing was taken from it; or what was is back.
Clear(s) == \A e \in EntriesOf(s) : gone[e] = None
Untouched(s) == \A e \in EntriesOf(s) : e \notin fresh
GivenBack(s) == \A e \in EntriesOf(s) : e \in fresh => gone[e] = None

GoneIsAbsent == \A e \in Entry : gone[e] # None => entry[e] = "absent"

\* What w saw of the entry it is at is still so, unless somebody changed it.
Seen(w) ==
    /\ proc[w].at = "delete" => w \in late \/ Exact(w, proc[w].now)
    /\ proc[w].at = "write" => w \in late \/ entry[proc[w].now] = "absent"

\* The receipt on disk and the entries that are gone, at each step of w.
ProcOfStep(w) ==
    /\ proc[w].at \in Removers \cup {"observe", "select", "persist", "recheck"} =>
         proc[w].why = "disable"
    /\ proc[w].at = "persist" => MaySelect(w)
    /\ proc[w].at \in Removers \cup Writers \cup {"recheck", "plan", "manual"} =>
         receipt[ScopeOf(w)] = proc[w].held
    /\ proc[w].at \in Writers =>
         \A e \in EntriesOf(ScopeOf(w)) : gone[e] # None =>
            e \in proc[w].todo /\ (proc[w].at = "verify" => e # proc[w].now)
    /\ proc[w].at \in {"observe", "select", "persist", "recheck", "err"}
         /\ proc[w].why = "disable" => Untouched(ScopeOf(w))
    /\ proc[w].at \in {"ok", "err"} /\ proc[w].why = "restore" /\ ~broken => Clear(ScopeOf(w))

\* Which scopes a disable has not reached yet.
BeforeOfClient ==
    /\ client.at = "before" => Untouched("user")
    /\ client.at = "userOff" /\ proc[Client].at = "off" => Untouched("user")
    /\ client.action = "disable" /\ client.phase = "act"
         /\ client.at \in {"before", "userOff", "launch"} => Untouched("machine")
BeforeOfBroker(b) ==
    broker[b].op = "disable" /\ broker[b].at \in {"connect", "profile", "run"} =>
        Untouched("machine")

\* Which scopes are whole again, if no restoration failed and no answer was lost.
WholeOfClient ==
    /\ client.at = "userBack" /\ client.phase = "undo" => Clear("machine")
    /\ client.at = "userBack" /\ client.action = "disable" => GivenBack("machine")
    /\ FailedActionRestores
WholeOfBroker(b) ==
    broker[b].at \in {"report", "leave", "exited"} =>
        /\ broker[b].op = "disable" /\ broker[b].out # "ok" => GivenBack("machine")
        /\ broker[b].op = "restore" /\ broker[b].out = "ok" => Clear("machine")

\* Every entry of scope s that is gone is in its receipt.
Covered(s) ==
    \A e \in EntriesOf(s) : gone[e] # None =>
        /\ receipt[s] # None
        /\ receipt[s].state # "restored"
        /\ e \in DOMAIN receipt[s].entries /\ receipt[s].entries[e] = gone[e]

\* Everything that a broker left running may spoil.
Sound ==
    /\ \A w \in Worker : ProcOfStep(w)
    /\ \A s \in Scope : Covered(s)
    /\ BeforeOfClient /\ \A b \in Slot : BeforeOfBroker(b)
    /\ ~broken => WholeOfClient /\ \A b \in Slot : WholeOfBroker(b)

ControlInv == WorkShape /\ WhoWorks /\ ActionOfStep /\ WhyOfStep /\ SaidOfStep
DeskInv == DeskShape /\ HeldFits /\ GoneIsAbsent /\ \A w \in Worker : Seen(w)
HandoverInv == ControlInv /\ DeskInv /\ OtherShape /\ Flags /\ (~loose => Sound)
-----------------------------------------------------------------------------
(***************************************************************************)
(* Receipts and scopes                                                     *)
(***************************************************************************)
\* Every worker has its scope, and the scopes share no entry.
LEMMA ScopesApart ==
    /\ Client \notin Slot /\ None \notin Slot /\ None \notin Receipt /\ None \notin Ours
    /\ None # "ok" /\ None # "err" /\ None # "failed" /\ None # "disable" /\ None # "restore"
    /\ \A w \in Worker : ScopeOf(w) \in Scope
    /\ \A b \in Slot : b \in Worker /\ ScopeOf(b) = "machine"
    /\ Client \in Worker /\ ScopeOf(Client) = "user"
    /\ \A s \in Scope : EntriesOf(s) \subseteq Entry
    /\ \A e \in Entry : \A s, t \in Scope : e \in EntriesOf(s) /\ e \in EntriesOf(t) => s = t
    /\ \A e \in Entry : e \in EntriesOf("user") \/ e \in EntriesOf("machine")
  BY SlotAssumption, EntryAssumption, NoneAssumption
     DEF Client, Worker, Scope, ScopeOf, EntriesOf, Entry

\* The receipt of what was just observed.
LEMMA OwnedIsReceipt ==
    ASSUME entry \in [Entry -> Content], NEW s \in Scope
    PROVE  /\ [entries |-> Owned(s), state |-> "pending"] \in Receipt
           /\ DOMAIN Owned(s) = Visible(s) /\ Visible(s) \subseteq EntriesOf(s)
           /\ \A e \in Visible(s) : Owned(s)[e] = entry[e]
<1>1. Visible(s) \subseteq EntriesOf(s) /\ Visible(s) \in SUBSET Entry
  BY ScopesApart DEF Visible
<1>2. Owned(s) \in [Visible(s) -> Ours]
  BY DEF Owned, Visible
<1>3. Owned(s) \in UNION {[S -> Ours] : S \in SUBSET Entry}
  BY <1>1, <1>2
<1>. QED BY <1>1, <1>2, <1>3 DEF Receipt, Owned

\* What a receipt holds.
LEMMA ReceiptHolds ==
    ASSUME NEW r \in Receipt
    PROVE  /\ DOMAIN r.entries \subseteq Entry
           /\ \A e \in DOMAIN r.entries : r.entries[e] \in Ours
           /\ r.state \in {"pending", "restored", "manual"}
<1>1. PICK S \in SUBSET Entry : r.entries \in [S -> Ours]
  BY DEF Receipt
<1>. QED BY <1>1 DEF Receipt

\* A receipt marked with its new state holds the same entries.
LEMMA MarkedIsReceipt ==
    ASSUME NEW r \in Receipt, NEW state \in {"pending", "restored", "manual"}
    PROVE  /\ [r EXCEPT !.state = state] \in Receipt
           /\ [r EXCEPT !.state = state].entries = r.entries
           /\ [r EXCEPT !.state = state].state = state
  BY DEF Receipt

-----------------------------------------------------------------------------
(***************************************************************************)
(* What a step does to the records                                         *)
(***************************************************************************)
\* The client reports.
LEMMA ReportsEffect ==
    ASSUME client \in ClientRecord, NEW said \in {"ok", "failed", "refused", "preflight"},
           Reports(said)
    PROVE  /\ client' \in ClientRecord /\ client'.at = "idle" /\ client'.slot = None
           /\ client'.action = client.action /\ client'.phase = "act" /\ client'.said = said
  BY DEF ClientRecord, Reports, Resting, ClientSteps

\* The client goes on.
LEMMA StepsEffect ==
    ASSUME client \in ClientRecord, NEW at \in ClientSteps, Steps(at)
    PROVE  /\ client' \in ClientRecord /\ client'.at = at /\ client'.slot = client.slot
           /\ client'.action = client.action /\ client'.phase = client.phase
           /\ client'.said = client.said /\ client'.want = client.want
  BY DEF ClientRecord, Steps

\* The client goes on after its broker.
LEMMA ContinuesEffect ==
    ASSUME client \in ClientRecord, NEW ok \in BOOLEAN, Continues(ok)
    PROVE  /\ client' \in ClientRecord /\ client'.slot = None
           /\ client'.action = client.action
           /\ \/ /\ client'.at = "userBack" /\ client'.phase = client.phase
                 /\ client.phase = "undo" \/ (client.action = "disable" /\ ~ok)
              \/ /\ client'.at = "after" /\ client'.phase = "act"
                 /\ client.phase = "act" /\ client.action = "disable" /\ ok
              \/ client'.at = "idle" /\ client'.said = "ok" /\ client'.phase = "act"
              \/ /\ client'.at = "launch" /\ client'.phase = "undo"
                 /\ client.phase = "act" /\ client.action # "disable"
<1>1. CASE client.phase = "undo" \/ (client.action = "disable" /\ ~ok)
  BY <1>1 DEF Continues, ClientRecord, ClientSteps
<1>2. CASE ~(client.phase = "undo" \/ (client.action = "disable" /\ ~ok))
  <2>1. CASE client.action = "disable"
    BY <1>2, <2>1 DEF Continues, ClientRecord, ClientSteps
  <2>2. CASE client.action # "disable" /\ ok
    BY <1>2, <2>2, ReportsEffect DEF Continues
  <2>3. CASE client.action # "disable" /\ ~ok
    BY <1>2, <2>3 DEF Continues, ClientRecord, ClientSteps
  <2>. QED BY <2>1, <2>2, <2>3
<1>. QED BY <1>1, <1>2

\* The record of one broker changes.
LEMMA BrokerEffect ==
    ASSUME broker \in [Slot -> BrokerRecord], NEW b \in Slot, NEW r \in BrokerRecord,
           broker' = [broker EXCEPT ![b] = r]
    PROVE  /\ broker' \in [Slot -> BrokerRecord] /\ broker'[b] = r
           /\ \A c \in Slot : c # b => broker'[c] = broker[c]
  OBVIOUS

\* A broker that is gone.
LEMMA NoBrokerIs ==
    /\ NoBroker \in BrokerRecord /\ NoBroker.at = "free" /\ NoBroker.op = None
    /\ NoBroker.out = None /\ NoBroker.sent = None
  BY DEF NoBroker, BrokerRecord, BrokerSteps

\* A broker leaves.
LEMMA LeavesEffect ==
    ASSUME broker \in [Slot -> BrokerRecord], NEW b \in Slot, NEW code \in {0, 21},
           Leaves(b, code)
    PROVE  /\ broker' \in [Slot -> BrokerRecord]
           /\ \A c \in Slot : c # b => broker'[c] = broker[c]
           /\ client.slot = b =>
                /\ broker'[b].at = "exited" /\ broker'[b].op = broker[b].op
                /\ broker'[b].out = broker[b].out /\ broker'[b].sent = broker[b].sent
                /\ broker'[b].code = code
           /\ client.slot # b => broker'[b] = NoBroker
<1>1. CASE client.slot = b
  <2>. DEFINE r == [broker[b] EXCEPT !.at = "exited", !.code = code]
  <2>1. broker' = [broker EXCEPT ![b] = r]
    BY <1>1 DEF Leaves, Listening
  <2>2. /\ r \in BrokerRecord /\ r.at = "exited" /\ r.op = broker[b].op
        /\ r.out = broker[b].out /\ r.sent = broker[b].sent /\ r.code = code
    BY DEF BrokerRecord, BrokerSteps
  <2>. HIDE DEF r
  <2>. QED BY <1>1, <2>1, <2>2, BrokerEffect
<1>2. CASE client.slot # b
  <2>1. broker' = [broker EXCEPT ![b] = NoBroker]
    BY <1>2 DEF Leaves, Listening
  <2>. QED BY <1>2, <2>1, BrokerEffect, NoBrokerIs
<1>. QED BY <1>1, <1>2

\* A broker has its answer.
LEMMA AnswersEffect ==
    ASSUME broker \in [Slot -> BrokerRecord], NEW b \in Slot, NEW out \in {"ok", "err"},
           Answers(b, out)
    PROVE  /\ broker' \in [Slot -> BrokerRecord]
           /\ \A c \in Slot : c # b => broker'[c] = broker[c]
           /\ broker'[b].at = "report" /\ broker'[b].out = out /\ broker'[b].op = broker[b].op
           /\ broker'[b].sent = broker[b].sent /\ broker'[b].code = broker[b].code
  BY DEF Answers, BrokerRecord, BrokerSteps

\* The record of one worker changes.
LEMMA ProcEffect ==
    ASSUME proc \in [Worker -> ProcRecord], NEW w \in Worker, NEW r \in ProcRecord,
           proc' = [proc EXCEPT ![w] = r]
    PROVE  /\ proc' \in [Worker -> ProcRecord] /\ proc'[w] = r
           /\ \A v \in Worker : v # w => proc'[v] = proc[v]
  OBVIOUS

\* A worker without a procedure, and one that begins its own.
LEMMA NoProcIs ==
    /\ NoProc \in ProcRecord /\ NoProc.at = "off"
    /\ \A at \in ProcSteps : /\ [NoProc EXCEPT !.at = at] \in ProcRecord
                             /\ [NoProc EXCEPT !.at = at].at = at
                             /\ [NoProc EXCEPT !.at = at].why = "restore"
    /\ LET r == [NoProc EXCEPT !.at = "observe", !.why = "disable"]
       IN r \in ProcRecord /\ r.at = "observe" /\ r.why = "disable"
  BY DEF NoProc, ProcRecord, ProcSteps

\* A worker goes on within its procedure.
LEMMA GoesEffect ==
    ASSUME proc \in [Worker -> ProcRecord], NEW w \in Worker, NEW at \in ProcSteps,
           Goes(w, at)
    PROVE  /\ proc' \in [Worker -> ProcRecord] /\ \A v \in Worker : v # w => proc'[v] = proc[v]
           /\ proc'[w].at = at /\ proc'[w].why = proc[w].why
           /\ proc'[w].held = proc[w].held /\ proc'[w].todo = proc[w].todo
  BY DEF Goes, ProcRecord

\* A worker comes to an entry, or leaves it.
LEMMA HoldingEffect ==
    ASSUME proc \in [Worker -> ProcRecord], NEW w \in Worker, NEW at \in ProcSteps,
           NEW e \in Entry \cup {None}, Holding(w, at, e)
    PROVE  /\ proc' \in [Worker -> ProcRecord] /\ \A v \in Worker : v # w => proc'[v] = proc[v]
           /\ proc'[w].at = at /\ proc'[w].why = proc[w].why /\ proc'[w].now = e
           /\ proc'[w].held = proc[w].held /\ proc'[w].todo = proc[w].todo
  BY DEF Holding, ProcRecord

\* A worker is done with its entry.
LEMMA HandledEffect ==
    ASSUME proc \in [Worker -> ProcRecord], NEW w \in Worker, NEW at \in ProcSteps,
           Handled(w, at)
    PROVE  /\ proc' \in [Worker -> ProcRecord] /\ \A v \in Worker : v # w => proc'[v] = proc[v]
           /\ proc'[w].at = at /\ proc'[w].why = proc[w].why
           /\ proc'[w].held = proc[w].held /\ proc'[w].todo = proc[w].todo \ {proc[w].now}
  BY DEF Handled, ProcRecord

\* A restoration ends.
LEMMA EndsEffect ==
    ASSUME proc \in [Worker -> ProcRecord], NEW w \in Worker, NEW ok \in BOOLEAN,
           Ends(w, ok)
    PROVE  /\ proc' \in [Worker -> ProcRecord] /\ \A v \in Worker : v # w => proc'[v] = proc[v]
           /\ proc'[w].at \in {"ok", "err"} /\ proc'[w].why = "restore"
           /\ broken => broken'
           /\ ~ok => broken'
<1>. DEFINE at == IF ok /\ proc[w].why = "restore" THEN "ok" ELSE "err"
<1>1. at \in {"ok", "err"} /\ at \in ProcSteps
  BY DEF ProcSteps
<1>2. proc' = [proc EXCEPT ![w] = [NoProc EXCEPT !.at = at]] /\ broken' = (broken \/ ~ok)
  BY DEF Ends
<1>. HIDE DEF at
<1>. QED BY <1>1, <1>2, NoProcIs, ProcEffect

-----------------------------------------------------------------------------
(***************************************************************************)
(* The procedures: a worker meets nobody in its scope                      *)
(***************************************************************************)
\* The rest of the system during a step of a procedure.
ElseUnchanged == UNCHANGED <<tray, service, client, broker, loose, begun>>

\* A change of the entry that v is at does not pass unnoticed.
Noticed(v) ==
    /\ v \in late => v \in late'
    /\ \A e \in Entry : proc[v].now = e /\ entry'[e] # entry[e] => v \in late'

\* A step of w within its procedure, and within its scope.
Moves(w) ==
    /\ proc' \in [Worker -> ProcRecord] /\ \A v \in Worker : v # w => proc'[v] = proc[v]
    /\ proc'[w].why \in {proc[w].why, "restore"} /\ proc'[w].at # "off"
    /\ broken => broken'
    /\ \A s \in Scope : s # ScopeOf(w) =>
         /\ receipt'[s] = receipt[s]
         /\ \A e \in EntriesOf(s) : gone'[e] = gone[e] /\ (e \in fresh' <=> e \in fresh)
    /\ \A v \in Worker : v # w => Noticed(v)

\* The invariant as far as it is about w and its scope.
OwnDesk(w) ==
    /\ DeskShape /\ GoneIsAbsent
    /\ receipt[ScopeOf(w)] # None => Fits(receipt[ScopeOf(w)], ScopeOf(w))
    /\ proc[w].at \in Holders => Fits(proc[w].held, ScopeOf(w))
    /\ proc[w].at \in Removers \cup {"select", "persist", "recheck"} => proc[w].held.state = "pending"
    /\ proc[w].at \in Removers \cup Writers => proc[w].todo \subseteq DOMAIN proc[w].held.entries
    /\ proc[w].at \in Busy => proc[w].now \in proc[w].todo
    /\ Seen(w)
OwnSound(w) == ProcOfStep(w) /\ Covered(ScopeOf(w))

\* Two workers of one scope are the same, as long as no broker was left running.
LEMMA AloneInScope ==
    ASSUME ControlInv, ~loose, NEW v \in Worker, NEW w \in Worker,
           ScopeOf(v) = ScopeOf(w), proc[v].at # "off", proc[w].at # "off"
    PROVE  v = w
  BY ScopesApart DEF ControlInv, WhoWorks, Worker

\* A step of a procedure leaves the control of the others alone.
LEMMA MovesKeepControl ==
    ASSUME ControlInv, NEW w \in Worker, proc[w].at # "off", Moves(w), ElseUnchanged
    PROVE  ControlInv'
<1> USE ScopesApart DEF ControlInv, WorkShape, Moves, ElseUnchanged
<1>1. WorkShape'
  OBVIOUS
<1>2. WhoWorks' /\ ActionOfStep'
  BY DEF WhoWorks, ActionOfStep, Operation, Worker
<1>3. WhyOfStep'
  <2>1. w # Client => proc'[Client] = proc[Client]
    OBVIOUS
  <2>2. \A b \in Slot : proc'[b].at # "off" /\ broker[b].op # "disable" => proc'[b].why = "restore"
    <3> TAKE b \in Slot
    <3>1. CASE b = w
      BY <3>1 DEF WhyOfStep
    <3>2. CASE b # w
      BY <3>2 DEF WhyOfStep
    <3>. QED BY <3>1, <3>2
  <2>3. client.at = "userBack" => proc'[Client].at = "off" \/ proc'[Client].why = "restore"
    BY <2>1 DEF WhyOfStep
  <2>. QED BY <2>2, <2>3 DEF WhyOfStep
<1>4. SaidOfStep'
  BY DEF SaidOfStep
<1>. QED BY <1>1, <1>2, <1>3, <1>4

\* Nor does it disturb the other workers, or the scopes that are whole.
LEMMA MovesKeepTheOthers ==
    ASSUME HandoverInv, ~loose, NEW w \in Worker, proc[w].at # "off", Moves(w), ElseUnchanged
    PROVE  /\ \A v \in Worker : v # w => ProcOfStep(v)'
           /\ \A s \in Scope : s # ScopeOf(w) => Covered(s)'
           /\ BeforeOfClient' /\ \A b \in Slot : BeforeOfBroker(b)'
           /\ ~broken' => WholeOfClient' /\ \A b \in Slot : WholeOfBroker(b)'
<1> USE ScopesApart DEF HandoverInv, ControlInv, Moves, ElseUnchanged
<1>1. \A v \in Worker : v # w => ProcOfStep(v)'
  <2> SUFFICES ASSUME NEW v \in Worker, v # w PROVE ProcOfStep(v)'
    OBVIOUS
  <2>1. CASE proc[v].at = "off"
    BY <2>1 DEF ProcOfStep
  <2>2. CASE proc[v].at # "off"
    <3>1. ScopeOf(v) # ScopeOf(w)
      BY <2>2, AloneInScope
    <3>2. ProcOfStep(v)
      BY DEF Sound
    <3>. QED BY <3>1, <3>2 DEF ProcOfStep, MaySelect, Untouched, Clear
  <2>. QED BY <2>1, <2>2
<1>2. \A s \in Scope : s # ScopeOf(w) => Covered(s)'
  BY DEF Sound, Covered
<1>3. /\ BeforeOfClient' /\ \A b \in Slot : BeforeOfBroker(b)'
      /\ ~broken' => WholeOfClient' /\ \A b \in Slot : WholeOfBroker(b)'
  <2>1. CASE w = Client
    <3>1. "machine" \in Scope /\ "machine" # ScopeOf(w)
      BY <2>1 DEF Scope
    <3>2. client.at \in {"userOff", "userBack"} /\ proc'[Client].at # "off"
      BY <2>1 DEF WhoWorks
    <3>3. BeforeOfClient' /\ \A b \in Slot : BeforeOfBroker(b)'
      BY <3>1, <3>2 DEF Sound, BeforeOfClient, BeforeOfBroker, Untouched
    <3>4. ~broken' => WholeOfClient' /\ \A b \in Slot : WholeOfBroker(b)'
      BY <3>1, <3>2 DEF Sound, WholeOfClient, WholeOfBroker, FailedActionRestores, Clear, GivenBack
    <3>. QED BY <3>3, <3>4
  <2>2. CASE w \in Slot
    <3>1. broker[w].at = "proc" /\ client.slot = w
      BY <2>2 DEF WhoWorks
    <3>2. client.at \in {"profile", "await", "exitCode"}
      BY <2>2, <3>1 DEF WhoWorks
    <3>3. \A b \in Slot : broker[b].at \in {"free", "proc"}
      BY <2>2, <3>1 DEF WhoWorks
    <3>. QED BY <3>2, <3>3
         DEF BeforeOfClient, BeforeOfBroker, WholeOfClient, WholeOfBroker, FailedActionRestores
  <2>. QED BY <2>1, <2>2 DEF Worker
<1>. QED BY <1>1, <1>2, <1>3

\* Together: what is left to show of a step is about its own worker and scope.
LEMMA MovesKeep ==
    ASSUME HandoverInv, NEW w \in Worker, proc[w].at # "off", Moves(w), ElseUnchanged,
           OwnDesk(w)', ~loose => OwnSound(w)'
    PROVE  ControlInv' /\ DeskInv' /\ (~loose' => Sound')
<1>1. ControlInv'
  BY MovesKeepControl DEF HandoverInv
<1>2. HeldFits'
  BY ScopesApart DEF HandoverInv, DeskInv, HeldFits, Moves, OwnDesk, Fits
<1>4. \A v \in Worker : Seen(v)'
  <2> SUFFICES ASSUME NEW v \in Worker, v # w PROVE Seen(v)'
    BY DEF OwnDesk
  <2>1. proc'[v] = proc[v] /\ Noticed(v) /\ Seen(v)
    BY DEF Moves, HandoverInv, DeskInv
  <2>2. proc[v].at \in {"delete", "write"} => proc[v].now \in Entry
    BY ScopesApart DEF HandoverInv, DeskInv, HeldFits, Fits
  <2>. QED BY <2>1, <2>2 DEF Seen, Noticed, Exact
<1>3. ~loose' => Sound'
  BY MovesKeepTheOthers DEF OwnSound, Sound, ElseUnchanged
<1>. QED BY <1>1, <1>2, <1>3, <1>4 DEF DeskInv, OwnDesk

\* What is left to show.
OwnStep(w) ==
    proc[w].at # "off" /\ Moves(w) /\ OwnDesk(w)' /\ (~loose => OwnSound(w)')

\* A step that only reads the entries and the receipts.
LEMMA ReadingMoves ==
    ASSUME HandoverInv, NEW w \in Worker, loose' = loose,
           UNCHANGED <<entry, receipt, gone, fresh>>, late' \in {late, late \ {w}},
           proc' \in [Worker -> ProcRecord], \A v \in Worker : v # w => proc'[v] = proc[v],
           proc'[w].why \in {proc[w].why, "restore"}, proc'[w].at # "off", broken => broken'
    PROVE  /\ Moves(w) /\ DeskShape' /\ GoneIsAbsent'
           /\ receipt'[ScopeOf(w)] # None => Fits(receipt'[ScopeOf(w)], ScopeOf(w))
           /\ ~loose => Covered(ScopeOf(w))'
  BY ScopesApart
     DEF HandoverInv, DeskInv, DeskShape, HeldFits, GoneIsAbsent, Moves, Noticed, Sound, Covered

\* The scope is observed: nothing on disk changes.
LEMMA ObserveKeeps ==
    ASSUME HandoverInv, NEW w \in Worker, Observe(w), ElseUnchanged
    PROVE  OwnStep(w)
<1> USE ScopesApart DEF HandoverInv, ControlInv, WorkShape, ElseUnchanged
<1>1. PICK ok \in BOOLEAN :
        proc' = [proc EXCEPT ![w].at =
                        IF ~ok \/ Untrusted(ScopeOf(w)) THEN "err"
                        ELSE IF Visible(ScopeOf(w)) = {} THEN "ok" ELSE "select",
                    ![w].held = [entries |-> Owned(ScopeOf(w)), state |-> "pending"]]
  BY DEF Observe
<1>. DEFINE at == IF ~ok \/ Untrusted(ScopeOf(w)) THEN "err"
                  ELSE IF Visible(ScopeOf(w)) = {} THEN "ok" ELSE "select"
            held == [entries |-> Owned(ScopeOf(w)), state |-> "pending"]
<1>2. /\ at \in {"ok", "err", "select"} /\ at \in ProcSteps
      /\ at = "select" => Visible(ScopeOf(w)) # {}
  BY DEF ProcSteps
<1>3. held \in Receipt /\ held.entries = Owned(ScopeOf(w)) /\ held.state = "pending"
  BY OwnedIsReceipt DEF DeskInv, DeskShape
<1>. DEFINE r == [proc[w] EXCEPT !.at = at, !.held = held]
<1>4. proc' = [proc EXCEPT ![w] = r]
  BY <1>1
<1>. HIDE DEF at, held
<1>9. r \in ProcRecord /\ r.at = at /\ r.held = held /\ r.why = proc[w].why
  BY <1>2, <1>3 DEF ProcRecord
<1>. HIDE DEF r
<1>5. /\ proc' \in [Worker -> ProcRecord] /\ \A v \in Worker : v # w => proc'[v] = proc[v]
      /\ proc'[w].at = at /\ proc'[w].held = held /\ proc'[w].why = proc[w].why
  BY <1>4, <1>9, ProcEffect
<1>6. UNCHANGED desk /\ broken' = broken /\ proc[w].at = "observe"
  BY DEF Observe
<1>7. at = "select" => Fits(held, ScopeOf(w))
  BY <1>2, <1>3, OwnedIsReceipt DEF DeskInv, DeskShape, Fits
<1>8. ~loose => ProcOfStep(w)'
  <2>1. ~loose => Untouched(ScopeOf(w)) /\ proc[w].why = "disable"
    BY <1>6 DEF Sound, ProcOfStep
  <2>. QED BY <1>2, <1>5, <1>6, <2>1 DEF ProcOfStep, Untouched, desk
<1>. QED BY <1>2, <1>3, <1>5, <1>6, <1>7, <1>8, ReadingMoves DEF OwnStep, OwnDesk, OwnSound, Seen, desk

\* A receipt is selected in memory.
LEMMA SelectReceiptKeeps ==
    ASSUME HandoverInv, NEW w \in Worker, SelectReceipt(w), ElseUnchanged
    PROVE  OwnStep(w)
<1> USE ScopesApart DEF HandoverInv, ControlInv, WorkShape, ElseUnchanged
<1>1. PICK at \in {"persist", "err"} : Goes(w, at) /\ (at = "persist" => MaySelect(w))
  BY DEF SelectReceipt
<1>2. UNCHANGED desk /\ broken' = broken /\ proc[w].at = "select"
  BY DEF SelectReceipt
<1>3. /\ proc' \in [Worker -> ProcRecord] /\ \A v \in Worker : v # w => proc'[v] = proc[v]
      /\ proc'[w].at = at /\ proc'[w].why = proc[w].why /\ proc'[w].held = proc[w].held
  BY <1>1, GoesEffect DEF ProcSteps
<1>4. Fits(proc[w].held, ScopeOf(w)) /\ proc[w].held.state = "pending"
  BY <1>2 DEF DeskInv, HeldFits
<1>5. ~loose => ProcOfStep(w)'
  <2>1. ~loose => Untouched(ScopeOf(w)) /\ proc[w].why = "disable"
    BY <1>2 DEF Sound, ProcOfStep
  <2>2. MaySelect(w) => MaySelect(w)'
    BY <1>2, <1>3 DEF MaySelect, desk
  <2>. QED BY <1>1, <1>2, <1>3, <2>1, <2>2 DEF ProcOfStep, Untouched, desk
<1>. QED BY <1>1, <1>2, <1>3, <1>4, <1>5, ReadingMoves DEF OwnStep, OwnDesk, OwnSound, Seen, desk

\* The receipt is on disk before anything is removed.
LEMMA PersistKeeps ==
    ASSUME HandoverInv, NEW w \in Worker, Persist(w), ElseUnchanged
    PROVE  OwnStep(w)
<1> USE ScopesApart DEF HandoverInv, ControlInv, WorkShape, ElseUnchanged
<1>1. /\ UNCHANGED <<entry, gone, fresh, late>> /\ broken' = broken /\ proc[w].at = "persist"
      /\ Fits(proc[w].held, ScopeOf(w)) /\ proc[w].held.state = "pending"
  BY DEF Persist, DeskInv, HeldFits
<1>2. proc[w].held \in Receipt
  BY <1>1 DEF ProcRecord, Fits
<1>3. CASE receipt' = receipt /\ Goes(w, "err")
  <2>1. /\ proc' \in [Worker -> ProcRecord] /\ \A v \in Worker : v # w => proc'[v] = proc[v]
        /\ proc'[w].at = "err" /\ proc'[w].why = proc[w].why
    BY <1>3, GoesEffect DEF ProcSteps
  <2>2. UNCHANGED desk
    BY <1>1, <1>3 DEF desk
  <2>3. ~loose => ProcOfStep(w)'
    BY <1>1, <2>1 DEF Sound, ProcOfStep, Untouched
  <2>. QED BY <1>1, <2>1, <2>2, <2>3, ReadingMoves DEF OwnStep, OwnDesk, OwnSound, Seen, desk
<1>4. CASE receipt' = [receipt EXCEPT ![ScopeOf(w)] = proc[w].held] /\ Goes(w, "recheck")
  <2>1. /\ proc' \in [Worker -> ProcRecord] /\ \A v \in Worker : v # w => proc'[v] = proc[v]
        /\ proc'[w].at = "recheck" /\ proc'[w].why = proc[w].why /\ proc'[w].held = proc[w].held
    BY <1>4, GoesEffect DEF ProcSteps
  <2>2. /\ receipt' \in [Scope -> Receipt \cup {None}] /\ receipt'[ScopeOf(w)] = proc[w].held
        /\ \A s \in Scope : s # ScopeOf(w) => receipt'[s] = receipt[s]
    BY <1>2, <1>4 DEF DeskInv, DeskShape
  <2>3. Moves(w)
    BY <1>1, <2>1, <2>2 DEF Moves, Noticed
  <2>4. OwnDesk(w)'
    BY <1>1, <2>1, <2>2 DEF OwnDesk, Seen, DeskInv, DeskShape, GoneIsAbsent
  <2>5. ~loose => ProcOfStep(w)'
    BY <1>1, <2>1, <2>2 DEF Sound, ProcOfStep, Untouched
  <2>6. ASSUME ~loose PROVE Covered(ScopeOf(w))'
    <3>1. Covered(ScopeOf(w)) /\ MaySelect(w)
      BY <1>1, <2>6 DEF Sound, ProcOfStep
    <3>2. ASSUME NEW e \in EntriesOf(ScopeOf(w)), gone[e] # None
          PROVE  receipt[ScopeOf(w)].entries = proc[w].held.entries
      BY <3>1, <3>2 DEF Covered, MaySelect
    <3>. QED BY <1>1, <2>2, <3>1, <3>2 DEF Covered, Fits
  <2>. QED BY <1>1, <2>3, <2>4, <2>5, <2>6 DEF OwnStep, OwnSound
<1>. QED BY <1>3, <1>4 DEF Persist

\* The entries are read again before the removal.
LEMMA RecheckKeeps ==
    ASSUME HandoverInv, NEW w \in Worker, Recheck(w), ElseUnchanged
    PROVE  OwnStep(w)
<1> USE ScopesApart DEF HandoverInv, ControlInv, WorkShape, ElseUnchanged
<1>1. PICK at \in {"err", "remove", "read"} :
        proc' = [proc EXCEPT ![w].at = at, ![w].todo = DOMAIN proc[w].held.entries]
  BY DEF Recheck
<1>2. /\ UNCHANGED desk /\ broken' = broken /\ proc[w].at = "recheck"
      /\ Fits(proc[w].held, ScopeOf(w)) /\ proc[w].held.state = "pending"
  BY DEF Recheck, DeskInv, HeldFits
<1>3. DOMAIN proc[w].held.entries \in SUBSET Entry
  BY <1>2 DEF Fits
<1>. DEFINE named == DOMAIN proc[w].held.entries
            r == [proc[w] EXCEPT !.at = at, !.todo = named]
<1>6. proc' = [proc EXCEPT ![w] = r]
  BY <1>1
<1>7. named \in SUBSET Entry /\ proc[w] \in ProcRecord /\ at \in ProcSteps
  BY <1>3 DEF ProcSteps
<1>. HIDE DEF named
<1>8. /\ r \in ProcRecord /\ r.at = at /\ r.why = proc[w].why /\ r.held = proc[w].held
      /\ r.todo = named
  BY ONLY <1>7 DEF ProcRecord, r
<1>. HIDE DEF r
<1>9. /\ proc' \in [Worker -> ProcRecord] /\ \A v \in Worker : v # w => proc'[v] = proc[v]
      /\ proc'[w] = r
  BY <1>6, <1>8, ProcEffect
<1>4. /\ proc' \in [Worker -> ProcRecord] /\ \A v \in Worker : v # w => proc'[v] = proc[v]
      /\ proc'[w].at = at /\ proc'[w].why = proc[w].why /\ proc'[w].held = proc[w].held
      /\ proc'[w].todo = DOMAIN proc[w].held.entries
  BY <1>8, <1>9 DEF named
<1>5. ~loose => ProcOfStep(w)'
  BY <1>2, <1>4 DEF Sound, ProcOfStep, Untouched, desk
<1>. QED BY <1>2, <1>4, <1>5, ReadingMoves DEF OwnStep, OwnDesk, OwnSound, Seen, desk

\* The removal ends with entries that did not go.
LEMMA RemainKeeps ==
    ASSUME HandoverInv, NEW w \in Worker, Remain(w), ElseUnchanged
    PROVE  OwnStep(w)
<1> USE ScopesApart DEF HandoverInv, ControlInv, WorkShape, ElseUnchanged
<1>1. PICK at \in {"ok", "read"} : Goes(w, at)
  BY DEF Remain
<1>2. UNCHANGED desk /\ broken' = broken /\ proc[w].at = "remove"
  BY DEF Remain
<1>3. /\ proc' \in [Worker -> ProcRecord] /\ \A v \in Worker : v # w => proc'[v] = proc[v]
      /\ proc'[w].at = at /\ proc'[w].why = proc[w].why
  BY <1>1, GoesEffect DEF ProcSteps
<1>4. ~loose => ProcOfStep(w)'
  BY <1>2, <1>3 DEF Sound, ProcOfStep
<1>. QED BY <1>2, <1>3, <1>4, ReadingMoves DEF OwnStep, OwnDesk, OwnSound, Seen, desk

\* One entry is compared with what the receipt holds.
LEMMA CompareKeeps ==
    ASSUME HandoverInv, NEW w \in Worker, Compare(w), ElseUnchanged
    PROVE  OwnStep(w)
<1> USE ScopesApart DEF HandoverInv, ControlInv, WorkShape, ElseUnchanged
<1>1. /\ UNCHANGED <<entry, receipt, gone, fresh>> /\ late' = late \ {w}
      /\ broken' = broken /\ proc[w].at = "remove"
      /\ Fits(proc[w].held, ScopeOf(w)) /\ proc[w].todo \subseteq DOMAIN proc[w].held.entries
      /\ proc[w].held.state = "pending"
  BY DEF Compare, DeskInv, HeldFits
<1>2. PICK e \in proc[w].todo : (Exact(w, e) /\ Holding(w, "delete", e)) \/ Goes(w, "read")
  BY DEF Compare
<1>3. e \in Entry
  BY <1>1, <1>2 DEF Fits
<1>4. CASE Goes(w, "read")
  <2>1. /\ proc' \in [Worker -> ProcRecord] /\ \A v \in Worker : v # w => proc'[v] = proc[v]
        /\ proc'[w].at = "read" /\ proc'[w].why = proc[w].why
    BY <1>4, GoesEffect DEF ProcSteps
  <2>2. ~loose => ProcOfStep(w)'
    BY <2>1 DEF ProcOfStep
  <2>. QED BY <1>1, <2>1, <2>2, ReadingMoves DEF OwnStep, OwnDesk, OwnSound, Seen
<1>5. CASE Exact(w, e) /\ Holding(w, "delete", e)
  <2>1. /\ proc' \in [Worker -> ProcRecord] /\ \A v \in Worker : v # w => proc'[v] = proc[v]
        /\ proc'[w].at = "delete" /\ proc'[w].why = proc[w].why /\ proc'[w].now = e
        /\ proc'[w].held = proc[w].held /\ proc'[w].todo = proc[w].todo
    BY <1>3, <1>5, HoldingEffect DEF ProcSteps
  <2>2. ~loose => ProcOfStep(w)'
    BY <1>1, <2>1 DEF Sound, ProcOfStep
  <2>3. Seen(w)'
    BY <1>1, <1>5, <2>1 DEF Seen, Exact
  <2>. QED BY <1>1, <1>2, <2>1, <2>2, <2>3, ReadingMoves DEF OwnStep, OwnDesk, OwnSound
<1>. QED BY <1>2, <1>4, <1>5

\* One entry goes, and its receipt holds the bytes that were there, unless somebody
\* changed them meanwhile.
LEMMA DeleteKeeps ==
    ASSUME HandoverInv, NEW w \in Worker, Delete(w), ElseUnchanged
    PROVE  OwnStep(w)
<1> USE ScopesApart DEF HandoverInv, ControlInv, WorkShape, ElseUnchanged
<1>. DEFINE e == proc[w].now
<1>1. /\ receipt' = receipt /\ broken' = broken /\ proc[w].at = "delete"
      /\ Fits(proc[w].held, ScopeOf(w)) /\ proc[w].todo \subseteq DOMAIN proc[w].held.entries
      /\ proc[w].held.state = "pending" /\ e \in proc[w].todo
      /\ w \in late \/ Exact(w, e)
  BY DEF Delete, DeskInv, HeldFits, Seen
<1>2. Taken(w, e) \/ (Holding(w, "read", None) /\ UNCHANGED <<entry, gone, fresh, late>>)
  BY DEF Delete
<1>3. e \in EntriesOf(ScopeOf(w)) /\ e \in Entry /\ e \in DOMAIN proc[w].held.entries
  BY <1>1 DEF Fits
<1>4. CASE Holding(w, "read", None) /\ UNCHANGED <<entry, gone, fresh, late>>
  <2>1. /\ proc' \in [Worker -> ProcRecord] /\ \A v \in Worker : v # w => proc'[v] = proc[v]
        /\ proc'[w].at = "read" /\ proc'[w].why = proc[w].why
    BY <1>4, HoldingEffect DEF ProcSteps
  <2>2. ~loose => ProcOfStep(w)'
    BY <2>1 DEF ProcOfStep
  <2>. QED BY <1>1, <1>4, <2>1, <2>2, ReadingMoves DEF OwnStep, OwnDesk, OwnSound, Seen
<1>5. CASE Taken(w, e)
  <2>1. /\ proc' \in [Worker -> ProcRecord] /\ \A v \in Worker : v # w => proc'[v] = proc[v]
        /\ proc'[w].at = "remove" /\ proc'[w].why = proc[w].why
        /\ proc'[w].held = proc[w].held /\ proc'[w].todo = proc[w].todo \ {e}
    BY <1>5, HandledEffect DEF Taken, ProcSteps
  <2>. DEFINE lost == IF entry[e] \in Ours /\ w \notin late THEN entry[e] ELSE None
  <2>2. /\ entry' = [entry EXCEPT ![e] = "absent"]
        /\ gone' = [gone EXCEPT ![e] = lost] /\ fresh' = fresh \cup {e}
        /\ late' = (late \cup {v \in Worker : proc[v].now = e}) \ {w}
    BY <1>5 DEF Taken, Changed
  <2>3. lost \in Ours \cup {None} /\ (lost # None => lost = proc[w].held.entries[e])
    BY <1>1 DEF Exact
  <2>. HIDE DEF e, lost
  <2>4. /\ entry \in [Entry -> Content] /\ gone \in [Entry -> Ours \cup {None}]
        /\ fresh \subseteq Entry /\ late \subseteq Worker
    BY DEF DeskInv, DeskShape
  <2>5. /\ \A f \in Entry : f # e => gone'[f] = gone[f] /\ entry'[f] = entry[f]
        /\ entry'[e] = "absent" /\ gone'[e] = lost
    BY <1>3, <2>2, <2>4
  <2>6. DeskShape'
    BY <1>1, <1>3, <2>2, <2>3 DEF DeskInv, DeskShape, Content
  <2>7. \A v \in Worker : v # w => Noticed(v)
    BY <2>2, <2>5 DEF Noticed
  <2>8. Moves(w)
    BY <1>1, <1>3, <2>1, <2>2, <2>5, <2>7 DEF Moves
  <2>9. GoneIsAbsent'
    BY <2>5 DEF DeskInv, GoneIsAbsent
  <2>10. OwnDesk(w)'
    BY <1>1, <2>1, <2>6, <2>9 DEF OwnDesk, DeskInv, HeldFits, Seen
  <2>11. ~loose => ProcOfStep(w)'
    BY <1>1, <2>1 DEF Sound, ProcOfStep
  <2>12. ~loose => Covered(ScopeOf(w))'
    <3> SUFFICES ASSUME ~loose, NEW f \in EntriesOf(ScopeOf(w)), gone'[f] # None
                 PROVE  /\ receipt[ScopeOf(w)] # None /\ receipt[ScopeOf(w)].state # "restored"
                        /\ f \in DOMAIN receipt[ScopeOf(w)].entries
                        /\ receipt[ScopeOf(w)].entries[f] = gone'[f]
      BY <1>1 DEF Covered
    <3>1. receipt[ScopeOf(w)] = proc[w].held
      BY <1>1 DEF Sound, ProcOfStep
    <3>2. CASE f = e
      BY <1>1, <1>3, <2>3, <2>5, <3>1, <3>2 DEF Fits
    <3>3. CASE f # e
      BY <2>5, <3>3 DEF Sound, Covered
    <3>. QED BY <3>2, <3>3
  <2>. QED BY <1>1, <2>8, <2>10, <2>11, <2>12 DEF OwnStep, OwnSound
<1>. QED BY <1>2, <1>4, <1>5

\* A restoration reads the receipt.
LEMMA ReadKeeps ==
    ASSUME HandoverInv, NEW w \in Worker, Read(w), ElseUnchanged
    PROVE  OwnStep(w)
<1> USE ScopesApart DEF HandoverInv, ControlInv, WorkShape, ElseUnchanged
<1>. DEFINE kept == receipt[ScopeOf(w)]
<1>1. /\ UNCHANGED desk /\ proc[w].at = "read" /\ kept \in Receipt \cup {None}
      /\ kept # None => Fits(kept, ScopeOf(w))
  BY DEF Read, DeskInv, DeskShape, HeldFits
<1>2. PICK ok \in BOOLEAN :
        IF ok /\ kept # None /\ kept.state = "pending"
        THEN proc' = [proc EXCEPT ![w].at = "plan", ![w].held = kept] /\ UNCHANGED broken
        ELSE Ends(w, ok /\ (kept # None => kept.state = "restored"))
  BY DEF Read
<1>3. CASE ok /\ kept # None /\ kept.state = "pending"
  <2>. DEFINE r == [proc[w] EXCEPT !.at = "plan", !.held = kept]
  <2>1. r \in ProcRecord /\ r.at = "plan" /\ r.held = kept /\ r.why = proc[w].why
    BY <1>1 DEF ProcRecord, ProcSteps
  <2>2. proc' = [proc EXCEPT ![w] = r] /\ broken' = broken
    BY <1>2, <1>3
  <2>. HIDE DEF r
  <2>3. /\ proc' \in [Worker -> ProcRecord] /\ \A v \in Worker : v # w => proc'[v] = proc[v]
        /\ proc'[w] = r
    BY <2>1, <2>2, ProcEffect
  <2>4. ~loose => ProcOfStep(w)'
    BY <1>1, <2>1, <2>3 DEF ProcOfStep, desk
  <2>. QED BY <1>1, <1>3, <2>1, <2>2, <2>3, <2>4, ReadingMoves DEF OwnStep, OwnDesk, OwnSound, Seen, desk
<1>4. CASE ~(ok /\ kept # None /\ kept.state = "pending")
  <2>. DEFINE well == ok /\ (kept # None => kept.state = "restored")
  <2>1. well \in BOOLEAN /\ Ends(w, well)
    BY <1>2, <1>4
  <2>2. ~loose /\ well => Clear(ScopeOf(w))
    BY DEF Sound, Covered, Clear
  <2>. HIDE DEF well
  <2>3. /\ proc' \in [Worker -> ProcRecord] /\ \A v \in Worker : v # w => proc'[v] = proc[v]
        /\ proc'[w].at \in {"ok", "err"} /\ proc'[w].why = "restore"
        /\ broken => broken'
        /\ ~well => broken'
    BY <2>1, EndsEffect
  <2>4. ~loose => ProcOfStep(w)'
    BY <1>1, <2>2, <2>3 DEF ProcOfStep, Clear, desk
  <2>. QED BY <1>1, <2>3, <2>4, ReadingMoves DEF OwnStep, OwnDesk, OwnSound, Seen, desk
<1>. QED BY <1>3, <1>4

\* A restoration decides which entries to write.
LEMMA PlanKeeps ==
    ASSUME HandoverInv, NEW w \in Worker, Plan(w), ElseUnchanged
    PROVE  OwnStep(w)
<1> USE ScopesApart DEF HandoverInv, ControlInv, WorkShape, ElseUnchanged
<1>. DEFINE original == proc[w].held.entries
            absent == {e \in DOMAIN original : entry[e] = "absent"}
<1>1. /\ UNCHANGED desk /\ proc[w].at = "plan" /\ Fits(proc[w].held, ScopeOf(w))
  BY DEF Plan, DeskInv, HeldFits
<1>2. \/ Ends(w, FALSE)
      \/ /\ \E at \in {"put", "manual"} : proc' = [proc EXCEPT ![w].at = at, ![w].todo = absent]
         /\ UNCHANGED broken
  BY DEF Plan
<1>3. CASE Ends(w, FALSE)
  <2>1. /\ proc' \in [Worker -> ProcRecord] /\ \A v \in Worker : v # w => proc'[v] = proc[v]
        /\ proc'[w].at \in {"ok", "err"} /\ proc'[w].why = "restore" /\ broken'
    BY <1>3, EndsEffect
  <2>2. ~loose => ProcOfStep(w)'
    BY <2>1 DEF ProcOfStep
  <2>. QED BY <1>1, <2>1, <2>2, ReadingMoves DEF OwnStep, OwnDesk, OwnSound, Seen, desk
<1>4. ASSUME NEW at \in {"put", "manual"}, UNCHANGED broken,
             proc' = [proc EXCEPT ![w].at = at, ![w].todo = absent]
      PROVE  OwnStep(w)
  <2>. DEFINE r == [proc[w] EXCEPT !.at = at, !.todo = absent]
  <2>1. absent \in SUBSET Entry
    BY <1>1 DEF Fits
  <2>4. proc' = [proc EXCEPT ![w] = r]
    BY <1>4
  <2>. HIDE DEF absent
  <2>2. r \in ProcRecord /\ r.at = at /\ r.why = proc[w].why /\ r.held = proc[w].held
    <3>1. proc[w] \in ProcRecord /\ at \in ProcSteps
      BY DEF ProcSteps
    <3>. QED BY ONLY <2>1, <3>1 DEF ProcRecord, r
  <2>3. r.todo = absent
    BY DEF ProcRecord
  <2>. HIDE DEF r
  <2>5. /\ proc' \in [Worker -> ProcRecord] /\ \A v \in Worker : v # w => proc'[v] = proc[v]
        /\ proc'[w] = r
    BY <2>2, <2>4, ProcEffect
  <2>6. ~loose => receipt[ScopeOf(w)] = proc[w].held
    BY <1>1 DEF Sound, ProcOfStep
  <2>7. ~loose => \A e \in EntriesOf(ScopeOf(w)) : gone[e] # None => e \in absent
    BY <2>6 DEF absent, Sound, Covered, DeskInv, GoneIsAbsent
  <2>8. ~loose => ProcOfStep(w)'
    BY <1>1, <2>2, <2>3, <2>5, <2>6, <2>7 DEF ProcOfStep, desk
  <2>9. absent \subseteq DOMAIN proc[w].held.entries
    BY DEF absent
  <2>. QED BY <1>1, <1>4, <2>2, <2>3, <2>5, <2>8, <2>9, ReadingMoves DEF OwnStep, OwnDesk, OwnSound, Seen, desk
<1>. QED BY <1>2, <1>3, <1>4

\* One entry is found absent.
LEMMA PutKeeps ==
    ASSUME HandoverInv, NEW w \in Worker, Put(w), ElseUnchanged
    PROVE  OwnStep(w)
<1> USE ScopesApart DEF HandoverInv, ControlInv, WorkShape, ElseUnchanged
<1>1. /\ UNCHANGED <<entry, receipt, gone, fresh>> /\ late' = late \ {w}
      /\ broken' = broken /\ proc[w].at = "put"
      /\ Fits(proc[w].held, ScopeOf(w)) /\ proc[w].todo \subseteq DOMAIN proc[w].held.entries
  BY DEF Put, DeskInv, HeldFits
<1>2. PICK e \in proc[w].todo : (MayPut(w, e) /\ Holding(w, "write", e)) \/ Goes(w, "manual")
  BY DEF Put
<1>3. e \in Entry
  BY <1>1, <1>2 DEF Fits
<1>4. CASE Goes(w, "manual")
  <2>1. /\ proc' \in [Worker -> ProcRecord] /\ \A v \in Worker : v # w => proc'[v] = proc[v]
        /\ proc'[w].at = "manual" /\ proc'[w].why = proc[w].why /\ proc'[w].held = proc[w].held
    BY <1>4, GoesEffect DEF ProcSteps
  <2>2. ~loose => ProcOfStep(w)'
    BY <1>1, <2>1 DEF Sound, ProcOfStep
  <2>. QED BY <1>1, <2>1, <2>2, ReadingMoves DEF OwnStep, OwnDesk, OwnSound, Seen
<1>5. CASE MayPut(w, e) /\ Holding(w, "write", e)
  <2>1. /\ proc' \in [Worker -> ProcRecord] /\ \A v \in Worker : v # w => proc'[v] = proc[v]
        /\ proc'[w].at = "write" /\ proc'[w].why = proc[w].why /\ proc'[w].now = e
        /\ proc'[w].held = proc[w].held /\ proc'[w].todo = proc[w].todo
    BY <1>3, <1>5, HoldingEffect DEF ProcSteps
  <2>2. ~loose => ProcOfStep(w)'
    BY <1>1, <2>1 DEF Sound, ProcOfStep
  <2>3. Seen(w)'
    BY <1>1, <1>5, <2>1 DEF Seen, MayPut
  <2>. QED BY <1>1, <1>2, <2>1, <2>2, <2>3, ReadingMoves DEF OwnStep, OwnDesk, OwnSound
<1>. QED BY <1>2, <1>4, <1>5

\* One entry comes back.
LEMMA WriteKeeps ==
    ASSUME HandoverInv, NEW w \in Worker, Write(w), ElseUnchanged
    PROVE  OwnStep(w)
<1> USE ScopesApart DEF HandoverInv, ControlInv, WorkShape, ElseUnchanged
<1>. DEFINE e == proc[w].now
<1>1. /\ receipt' = receipt /\ fresh' = fresh /\ broken' = broken /\ proc[w].at = "write"
      /\ Fits(proc[w].held, ScopeOf(w)) /\ proc[w].todo \subseteq DOMAIN proc[w].held.entries
      /\ e \in proc[w].todo
  BY DEF Write, DeskInv, HeldFits
<1>2. \/ /\ entry' = [entry EXCEPT ![e] = proc[w].held.entries[e]]
         /\ gone' = [gone EXCEPT ![e] = None]
         /\ Changed(w, e) /\ Holding(w, "verify", e)
      \/ Holding(w, "manual", None) /\ UNCHANGED <<entry, gone, late>>
  BY DEF Write
<1>3. /\ e \in EntriesOf(ScopeOf(w)) /\ e \in Entry /\ e \in DOMAIN proc[w].held.entries
      /\ proc[w].held \in Receipt
  BY <1>1 DEF Fits, ProcRecord
<1>4. CASE Holding(w, "manual", None) /\ UNCHANGED <<entry, gone, late>>
  <2>1. /\ proc' \in [Worker -> ProcRecord] /\ \A v \in Worker : v # w => proc'[v] = proc[v]
        /\ proc'[w].at = "manual" /\ proc'[w].why = proc[w].why /\ proc'[w].held = proc[w].held
    BY <1>4, HoldingEffect DEF ProcSteps
  <2>2. ~loose => ProcOfStep(w)'
    BY <1>1, <2>1 DEF Sound, ProcOfStep
  <2>. QED BY <1>1, <1>4, <2>1, <2>2, ReadingMoves DEF OwnStep, OwnDesk, OwnSound, Seen
<1>5. CASE /\ entry' = [entry EXCEPT ![e] = proc[w].held.entries[e]]
           /\ gone' = [gone EXCEPT ![e] = None]
           /\ Changed(w, e) /\ Holding(w, "verify", e)
  <2>1. /\ proc' \in [Worker -> ProcRecord] /\ \A v \in Worker : v # w => proc'[v] = proc[v]
        /\ proc'[w].at = "verify" /\ proc'[w].why = proc[w].why /\ proc'[w].now = e
        /\ proc'[w].held = proc[w].held /\ proc'[w].todo = proc[w].todo
    BY <1>3, <1>5, HoldingEffect DEF ProcSteps
  <2>2. late' = (late \cup {v \in Worker : proc[v].now = e}) \ {w}
    BY <1>5 DEF Changed
  <2>3. proc[w].held.entries[e] \in Content
    BY <1>3, ReceiptHolds DEF Content
  <2>4. entry \in [Entry -> Content] /\ gone \in [Entry -> Ours \cup {None}]
    BY DEF DeskInv, DeskShape
  <2>5. DeskShape'
    BY <1>1, <1>3, <1>5, <2>2, <2>3 DEF DeskInv, DeskShape
  <2>. HIDE DEF e
  <2>6. /\ \A f \in Entry : f # e => gone'[f] = gone[f] /\ entry'[f] = entry[f]
        /\ gone'[e] = None
    BY <1>3, <1>5, <2>4
  <2>7. \A v \in Worker : v # w => Noticed(v)
    BY <2>2, <2>6 DEF Noticed
  <2>8. Moves(w)
    BY <1>1, <1>3, <2>1, <2>6, <2>7 DEF Moves
  <2>9. GoneIsAbsent'
    BY <2>6 DEF DeskInv, GoneIsAbsent
  <2>10. OwnDesk(w)'
    BY <1>1, <2>1, <2>5, <2>9 DEF OwnDesk, DeskInv, HeldFits, Seen
  <2>11. \A f \in Entry : gone'[f] # None => f # e /\ gone'[f] = gone[f]
    BY <2>6
  <2>12. ~loose => ProcOfStep(w)'
    BY <1>1, <2>1, <2>11 DEF Sound, ProcOfStep
  <2>13. ~loose => Covered(ScopeOf(w))'
    BY <1>1, <2>11 DEF Sound, Covered
  <2>. QED BY <1>1, <2>8, <2>10, <2>12, <2>13 DEF OwnStep, OwnSound
<1>. QED BY <1>2, <1>4, <1>5

\* What came back is read once more.
LEMMA VerifyKeeps ==
    ASSUME HandoverInv, NEW w \in Worker, Verify(w), ElseUnchanged
    PROVE  OwnStep(w)
<1> USE ScopesApart DEF HandoverInv, ControlInv, WorkShape, ElseUnchanged
<1>1. /\ UNCHANGED desk /\ broken' = broken /\ proc[w].at = "verify"
      /\ Fits(proc[w].held, ScopeOf(w)) /\ proc[w].todo \subseteq DOMAIN proc[w].held.entries
  BY DEF Verify, DeskInv, HeldFits
<1>2. Handled(w, "put") \/ Holding(w, "manual", None)
  BY DEF Verify
<1>3. CASE Handled(w, "put")
  <2>1. /\ proc' \in [Worker -> ProcRecord] /\ \A v \in Worker : v # w => proc'[v] = proc[v]
        /\ proc'[w].at = "put" /\ proc'[w].why = proc[w].why
        /\ proc'[w].held = proc[w].held /\ proc'[w].todo = proc[w].todo \ {proc[w].now}
    BY <1>3, HandledEffect DEF ProcSteps
  <2>2. ~loose => ProcOfStep(w)'
    BY <1>1, <2>1 DEF Sound, ProcOfStep, desk
  <2>. QED BY <1>1, <2>1, <2>2, ReadingMoves DEF OwnStep, OwnDesk, OwnSound, Seen, desk
<1>4. CASE Holding(w, "manual", None)
  <2>1. /\ proc' \in [Worker -> ProcRecord] /\ \A v \in Worker : v # w => proc'[v] = proc[v]
        /\ proc'[w].at = "manual" /\ proc'[w].why = proc[w].why /\ proc'[w].held = proc[w].held
    BY <1>4, HoldingEffect DEF ProcSteps
  <2>2. ~loose => ProcOfStep(w)'
    BY <1>1, <2>1 DEF Sound, ProcOfStep, desk
  <2>. QED BY <1>1, <2>1, <2>2, ReadingMoves DEF OwnStep, OwnDesk, OwnSound, Seen, desk
<1>. QED BY <1>2, <1>3, <1>4

\* The receipt is marked once its entries are back or were replaced.
LEMMA MarkKeeps ==
    ASSUME HandoverInv, NEW w \in Worker, Mark(w), ElseUnchanged
    PROVE  OwnStep(w)
<1> USE ScopesApart DEF HandoverInv, ControlInv, WorkShape, ElseUnchanged
<1>. DEFINE state == IF proc[w].at = "manual" THEN "manual" ELSE "restored"
<1>1. /\ UNCHANGED <<entry, gone, fresh, late>> /\ proc[w].at \in {"manual", "put"}
      /\ proc[w].at = "put" => proc[w].todo = {}
      /\ Fits(proc[w].held, ScopeOf(w)) /\ state \in {"restored", "manual"}
  BY DEF Mark, DeskInv, HeldFits
<1>2. PICK ok \in BOOLEAN :
        /\ receipt' = IF ok THEN [receipt EXCEPT ![ScopeOf(w)] = [proc[w].held EXCEPT !.state = state]]
                      ELSE receipt
        /\ Ends(w, ok /\ state = "restored")
  BY DEF Mark
<1>3. ~loose => receipt[ScopeOf(w)] = proc[w].held
  BY <1>1 DEF Sound, ProcOfStep
<1>4. ~loose /\ state = "restored" => Clear(ScopeOf(w))
  BY <1>1 DEF Sound, ProcOfStep, Clear
<1>. HIDE DEF state
<1>5. /\ proc' \in [Worker -> ProcRecord] /\ \A v \in Worker : v # w => proc'[v] = proc[v]
      /\ proc'[w].at \in {"ok", "err"} /\ proc'[w].why = "restore"
      /\ broken => broken'
      /\ ~(ok /\ state = "restored") => broken'
  BY <1>2, EndsEffect
<1>6. CASE ~ok
  <2>1. UNCHANGED desk
    BY <1>1, <1>2, <1>6 DEF desk
  <2>2. ~loose => ProcOfStep(w)'
    BY <1>5, <1>6 DEF ProcOfStep
  <2>. QED BY <1>1, <1>5, <2>1, <2>2, ReadingMoves DEF OwnStep, OwnDesk, OwnSound, Seen, desk
<1>7. CASE ok
  <2>. DEFINE r == [proc[w].held EXCEPT !.state = state]
  <2>1. proc[w].held \in Receipt
    BY <1>1 DEF Fits, ProcRecord
  <2>10. state \in {"pending", "restored", "manual"}
    BY <1>1
  <2>2. r \in Receipt /\ r.entries = proc[w].held.entries /\ r.state = state
    BY <2>1, <2>10, MarkedIsReceipt
  <2>3. receipt' = [receipt EXCEPT ![ScopeOf(w)] = r]
    BY <1>2, <1>7
  <2>. HIDE DEF r
  <2>4. /\ receipt' \in [Scope -> Receipt \cup {None}] /\ receipt'[ScopeOf(w)] = r
        /\ \A s \in Scope : s # ScopeOf(w) => receipt'[s] = receipt[s]
    BY <2>2, <2>3 DEF DeskInv, DeskShape
  <2>5. Moves(w)
    BY <1>1, <1>5, <2>4 DEF Moves, Noticed
  <2>6. Fits(r, ScopeOf(w))
    BY <1>1, <2>2 DEF Fits
  <2>7. OwnDesk(w)'
    BY <1>1, <1>5, <2>4, <2>6 DEF OwnDesk, Seen, DeskInv, DeskShape, GoneIsAbsent
  <2>8. ~loose => ProcOfStep(w)'
    BY <1>1, <1>4, <1>5 DEF ProcOfStep, Clear
  <2>9. ~loose => Covered(ScopeOf(w))'
    BY <1>1, <1>3, <1>4, <2>2, <2>4 DEF Sound, Covered, Clear
  <2>. QED BY <1>1, <2>5, <2>7, <2>8, <2>9 DEF OwnStep, OwnSound
<1>. QED BY <1>6, <1>7

\* Every step of a procedure keeps the invariant.
LEMMA ProcedureKeeps ==
    ASSUME HandoverInv, NEW w \in Worker, Procedure(w)
    PROVE  ControlInv' /\ DeskInv' /\ (~loose' => Sound')
<1>1. ElseUnchanged
  BY DEF Procedure, ElseUnchanged
<1>2. OwnStep(w)
  BY <1>1, ObserveKeeps, SelectReceiptKeeps, PersistKeeps, RecheckKeeps, CompareKeeps, DeleteKeeps, RemainKeeps,
     ReadKeeps, PlanKeeps, PutKeeps, WriteKeeps, VerifyKeeps, MarkKeeps DEF Procedure
<1>. QED BY <1>1, <1>2, MovesKeep DEF OwnStep

-----------------------------------------------------------------------------
(***************************************************************************)
(* The client, its brokers and the user                                    *)
(***************************************************************************)
\* A step that changes no entry and no receipt: workers go on, end, or begin.
LEMMA QuietKeeps ==
    ASSUME HandoverInv, UNCHANGED <<entry, receipt, gone, late>>, fresh' \in {fresh, {}},
           proc' \in [Worker -> ProcRecord], broken => broken', loose => loose',
           \A w \in Worker :
             \/ proc'[w] = proc[w]
             \/ proc'[w].at \in {"off", "read"}
             \/ /\ proc'[w].at = "observe" /\ proc'[w].why = "disable"
                /\ ~loose' => Untouched(ScopeOf(w))
    PROVE  /\ DeskInv'
           /\ ~loose' => (\A w \in Worker : ProcOfStep(w)') /\ \A s \in Scope : Covered(s)'
<1> USE ScopesApart DEF HandoverInv
<1>1. DeskShape' /\ GoneIsAbsent'
  BY DEF DeskInv, DeskShape, GoneIsAbsent
<1>5. \A w \in Worker : Seen(w)'
  BY DEF DeskInv, Seen, Exact
<1>2. HeldFits'
  BY DEF DeskInv, HeldFits, Fits
<1>3. ASSUME ~loose', NEW w \in Worker PROVE ProcOfStep(w)'
  <2>1. ProcOfStep(w)
    BY <1>3 DEF Sound
  <2>2. Untouched(ScopeOf(w)) => Untouched(ScopeOf(w))'
    BY DEF Untouched
  <2>3. CASE proc'[w] = proc[w]
    BY <2>1, <2>2, <2>3 DEF ProcOfStep, MaySelect, Clear
  <2>4. CASE proc'[w].at \in {"off", "read"}
    BY <2>4 DEF ProcOfStep
  <2>5. CASE proc'[w].at = "observe" /\ proc'[w].why = "disable" /\ Untouched(ScopeOf(w))
    BY <2>2, <2>5 DEF ProcOfStep
  <2>. QED BY <1>3, <2>3, <2>4, <2>5
<1>4. ~loose' => \A s \in Scope : Covered(s)'
  BY DEF Sound, Covered
<1>. QED BY <1>1, <1>2, <1>3, <1>4, <1>5 DEF DeskInv

\* The client alone goes on.
LEMMA ClientKeeps ==
    ASSUME HandoverInv, UNCHANGED <<desk, broker, proc, broken, loose>>,
           client' \in ClientRecord, WhoWorks', ActionOfStep', WhyOfStep',
           ~loose => BeforeOfClient', ~loose /\ ~broken => WholeOfClient'
    PROVE  ControlInv' /\ DeskInv' /\ (~loose' => Sound')
<1>1. DeskInv' /\ (~loose' => (\A w \in Worker : ProcOfStep(w)') /\ \A s \in Scope : Covered(s)')
  BY QuietKeeps DEF HandoverInv, ControlInv, WorkShape, desk
<1>2. WorkShape' /\ SaidOfStep'
  BY DEF HandoverInv, ControlInv, WorkShape, SaidOfStep
<1>3. ~loose' => \A b \in Slot : BeforeOfBroker(b)' /\ (~broken' => WholeOfBroker(b)')
  BY DEF HandoverInv, Sound, BeforeOfBroker, WholeOfBroker, Untouched, Clear, GivenBack, desk
<1>. QED BY <1>1, <1>2, <1>3 DEF ControlInv, Sound

\* Asking MacTray to leave touches no entry.
LEMMA TrayExitKeeps ==
    ASSUME HandoverInv, TrayExit
    PROVE  ControlInv' /\ DeskInv' /\ (~loose' => Sound')
<1> USE DEF HandoverInv, ControlInv, WorkShape
<1>1. /\ UNCHANGED <<desk, broker, proc, broken, loose>>
      /\ client.at \in {"first", "second", "notify", "leaving", "check"}
  BY DEF TrayExit, Identify, Notify, AwaitExit, CheckExit
<1>2. \/ \E said \in {"ok", "failed"} : Reports(said)
      \/ \E at \in {"second", "notify", "leaving", "check"} : Steps(at)
  BY DEF TrayExit, Identify, Notify, AwaitExit, CheckExit
<1>3. client.slot = None /\ client.action = "exit" /\ proc[Client].at = "off"
  BY <1>1 DEF WhoWorks, ActionOfStep
<1>4. /\ client' \in ClientRecord /\ client'.slot = None /\ client'.action = "exit"
      /\ client'.at \in {"second", "notify", "leaving", "check", "idle"}
  BY <1>2, <1>3, ReportsEffect, StepsEffect DEF ClientSteps
<1>5. WhoWorks' /\ ActionOfStep' /\ WhyOfStep'
  BY <1>1, <1>3, <1>4 DEF WhoWorks, ActionOfStep, WhyOfStep
<1>6. BeforeOfClient' /\ WholeOfClient'
  BY <1>4 DEF BeforeOfClient, WholeOfClient, FailedActionRestores
<1>. QED BY <1>1, <1>4, <1>5, <1>6, ClientKeeps

\* The client judges what it sees before and after the action.
LEMMA JudgeKeeps ==
    ASSUME HandoverInv, Judge
    PROVE  ControlInv' /\ DeskInv' /\ (~loose' => Sound')
<1> USE DEF HandoverInv, ControlInv, WorkShape
<1>1. UNCHANGED <<desk, broker, proc, broken, loose>> /\ client.at \in {"before", "after", "gate"}
  BY DEF Judge, Before, After, Gate
<1>2. \/ \E said \in {"ok", "refused"} : Reports(said)
      \/ client.at = "before" /\ Steps("userOff")
      \/ client.at = "gate" /\ Steps("launch")
      \/ client.at = "after" /\ client' = [client EXCEPT !.at = "launch", !.phase = "undo"]
  BY DEF Judge, Before, After, Gate
<1>3. /\ client.slot = None /\ proc[Client].at = "off" /\ client.phase = "act"
      /\ client.action \in {"disable", "install", "migrate"}
      /\ client.at = "before" => client.action = "disable"
      /\ client.at = "gate" => client.action # "disable"
  BY <1>1 DEF WhoWorks, ActionOfStep
<1>4. /\ client' \in ClientRecord /\ client'.slot = None /\ client'.action = client.action
      /\ \/ client'.at = "idle" /\ client'.said \in {"ok", "refused"}
         \/ client.at = "before" /\ client'.at = "userOff" /\ client'.phase = "act"
         \/ client.at = "gate" /\ client'.at = "launch" /\ client'.phase = "act"
         \/ client'.at = "launch" /\ client'.phase = "undo"
  <2>1. CASE \E said \in {"ok", "refused"} : Reports(said)
    BY <2>1, ReportsEffect
  <2>2. CASE client.at = "before" /\ Steps("userOff")
    BY <1>3, <2>2, StepsEffect DEF ClientSteps
  <2>4. CASE client.at = "gate" /\ Steps("launch")
    BY <1>3, <2>4, StepsEffect DEF ClientSteps
  <2>3. CASE client.at = "after" /\ client' = [client EXCEPT !.at = "launch", !.phase = "undo"]
    BY <1>3, <2>3 DEF ClientRecord, ClientSteps
  <2>. QED BY <1>2, <2>1, <2>2, <2>3, <2>4
<1>5. WhoWorks' /\ ActionOfStep' /\ WhyOfStep'
  BY <1>1, <1>3, <1>4 DEF WhoWorks, ActionOfStep, WhyOfStep
<1>6. (~loose => BeforeOfClient') /\ WholeOfClient'
  <2>1. ~loose => BeforeOfClient
    BY DEF Sound
  <2>. QED BY <1>1, <1>3, <1>4, <2>1
       DEF BeforeOfClient, WholeOfClient, FailedActionRestores, Untouched, desk
<1>. QED BY <1>1, <1>4, <1>5, <1>6, ClientKeeps

\* The client takes the answer of its broker.
LEMMA ReceiveKeeps ==
    ASSUME HandoverInv, Receive
    PROVE  ControlInv' /\ DeskInv' /\ (~loose' => Sound')
<1> USE DEF HandoverInv, ControlInv, WorkShape
<1>1. /\ UNCHANGED <<desk, broker, proc, broken, loose>> /\ client.at = "await"
      /\ broker[client.slot].sent # None /\ Steps("exitCode")
  BY DEF Receive
<1>2. /\ client' \in ClientRecord /\ client'.at = "exitCode" /\ client'.slot = client.slot
      /\ client'.action = client.action /\ client'.phase = client.phase
  BY <1>1, StepsEffect DEF ClientSteps
<1>3. WhoWorks' /\ ActionOfStep' /\ WhyOfStep'
  BY <1>1, <1>2 DEF WhoWorks, ActionOfStep, WhyOfStep, Operation
<1>4. BeforeOfClient' /\ WholeOfClient'
  BY <1>2 DEF BeforeOfClient, WholeOfClient, FailedActionRestores
<1>. QED BY <1>1, <1>2, <1>3, <1>4, ClientKeeps

\* The client starts on its own scope.
LEMMA StartOwnKeeps ==
    ASSUME HandoverInv, OwnScope, StartOwn
    PROVE  ControlInv' /\ DeskInv' /\ (~loose' => Sound')
<1> USE ScopesApart DEF HandoverInv, ControlInv, WorkShape
<1>1. /\ UNCHANGED <<desk, client, broker, broken, loose>>
      /\ client.at \in {"userOff", "userBack"} /\ proc[Client].at = "off"
  BY DEF OwnScope, StartOwn
<1>2. /\ proc' \in [Worker -> ProcRecord] /\ \A v \in Worker : v # Client => proc'[v] = proc[v]
      /\ client.at = "userOff" => proc'[Client].at = "observe" /\ proc'[Client].why = "disable"
      /\ client.at = "userBack" => proc'[Client].at = "read" /\ proc'[Client].why = "restore"
  <2>1. CASE client.at = "userOff"
    <3>1. proc' = [proc EXCEPT ![Client] = [NoProc EXCEPT !.at = "observe", !.why = "disable"]]
      BY <2>1 DEF StartOwn
    <3>. QED BY <2>1, <3>1, NoProcIs, ProcEffect
  <2>2. CASE client.at = "userBack"
    <3>1. proc' = [proc EXCEPT ![Client] = [NoProc EXCEPT !.at = "read"]]
      BY <2>2 DEF StartOwn
    <3>2. "read" \in ProcSteps
      BY DEF ProcSteps
    <3>. QED BY <2>2, <3>1, <3>2, NoProcIs, ProcEffect
  <2>. QED BY <1>1, <2>1, <2>2
<1>3. \A w \in Worker :
        \/ proc'[w] = proc[w]
        \/ proc'[w].at \in {"off", "read"}
        \/ /\ proc'[w].at = "observe" /\ proc'[w].why = "disable"
           /\ ~loose' => Untouched(ScopeOf(w))
  BY <1>1, <1>2 DEF Sound, BeforeOfClient
<1>4. DeskInv' /\ (~loose' => (\A w \in Worker : ProcOfStep(w)') /\ \A s \in Scope : Covered(s)')
  BY <1>1, <1>2, <1>3, QuietKeeps DEF desk
<1>5. WorkShape' /\ WhoWorks' /\ ActionOfStep' /\ SaidOfStep'
  BY <1>1, <1>2 DEF WhoWorks, ActionOfStep, SaidOfStep, Operation
<1>6. WhyOfStep'
  BY <1>1, <1>2 DEF WhyOfStep
<1>7. ~loose' => BeforeOfClient' /\ \A b \in Slot : BeforeOfBroker(b)'
  BY <1>1, <1>2 DEF Sound, BeforeOfClient, BeforeOfBroker, Untouched, desk
<1>8. ~loose' /\ ~broken' => WholeOfClient' /\ \A b \in Slot : WholeOfBroker(b)'
  BY <1>1 DEF Sound, WholeOfClient, WholeOfBroker, FailedActionRestores, Clear, GivenBack, desk
<1>. QED BY <1>4, <1>5, <1>6, <1>7, <1>8 DEF Sound

\* The client has finished with its own scope.
LEMMA FinishOwnKeeps ==
    ASSUME HandoverInv, OwnScope, FinishOwn
    PROVE  ControlInv' /\ DeskInv' /\ (~loose' => Sound')
<1> USE ScopesApart DEF HandoverInv, ControlInv, WorkShape
<1>1. /\ UNCHANGED <<desk, broker, broken, loose>> /\ proc[Client].at \in {"ok", "err"}
      /\ proc' = [proc EXCEPT ![Client] = NoProc]
  BY DEF OwnScope, FinishOwn
<1>2. client.at \in {"userOff", "userBack"} /\ client.slot = None
  BY <1>1 DEF WhoWorks
<1>3. /\ proc' \in [Worker -> ProcRecord] /\ proc'[Client].at = "off"
      /\ \A v \in Worker : v # Client => proc'[v] = proc[v]
  BY <1>1, NoProcIs, ProcEffect
<1>4. \/ client.at = "userOff" /\ proc[Client].at = "ok" /\ Steps("launch")
      \/ client.at = "userOff" /\ proc[Client].at = "err" /\ Reports("failed")
      \/ client.at = "userBack" /\ \E said \in {"ok", "failed"} : Reports(said)
  BY <1>1, <1>2 DEF FinishOwn
<1>5. /\ client' \in ClientRecord /\ client'.slot = None /\ client'.action = client.action
      /\ \/ client.at = "userOff" /\ client'.at = "launch" /\ client'.phase = client.phase
         \/ client.at = "userOff" /\ proc[Client].at = "err" /\ client'.at = "idle"
         \/ client.at = "userBack" /\ client'.at = "idle"
  <2>1. CASE client.at = "userOff" /\ proc[Client].at = "ok" /\ Steps("launch")
    BY <1>2, <2>1, StepsEffect DEF ClientSteps
  <2>2. CASE client.at = "userOff" /\ proc[Client].at = "err" /\ Reports("failed")
    BY <2>2, ReportsEffect
  <2>3. CASE client.at = "userBack" /\ \E said \in {"ok", "failed"} : Reports(said)
    BY <2>3, ReportsEffect
  <2>. QED BY <1>4, <2>1, <2>2, <2>3
<1>6. DeskInv' /\ (~loose' => (\A w \in Worker : ProcOfStep(w)') /\ \A s \in Scope : Covered(s)')
  BY <1>1, <1>3, QuietKeeps DEF desk
<1>7. WorkShape' /\ WhoWorks' /\ SaidOfStep'
  BY <1>1, <1>2, <1>3, <1>5 DEF WhoWorks, SaidOfStep
<1>8. ActionOfStep' /\ WhyOfStep'
  BY <1>1, <1>2, <1>3, <1>5 DEF ActionOfStep, WhyOfStep
<1>9. ~loose' => BeforeOfClient' /\ \A b \in Slot : BeforeOfBroker(b)'
  BY <1>1, <1>5 DEF Sound, BeforeOfClient, BeforeOfBroker, Untouched, desk
<1>10. ASSUME ~loose', ~broken' PROVE WholeOfClient' /\ \A b \in Slot : WholeOfBroker(b)'
  <2>1. \A b \in Slot : WholeOfBroker(b)'
    BY <1>1, <1>10 DEF Sound, WholeOfBroker, Clear, GivenBack, desk
  <2>2. CASE client'.at = "launch"
    BY <2>1, <2>2 DEF WholeOfClient, FailedActionRestores
  <2>3. CASE client.at = "userOff" /\ proc[Client].at = "err" /\ client'.at = "idle"
    <3>1. client.action = "disable" /\ client.phase = "act"
      BY <2>3 DEF ActionOfStep
    <3>2. Untouched("machine")
      BY <1>1, <1>10, <2>3, <3>1 DEF Sound, BeforeOfClient
    <3>3. Untouched("user") \/ Clear("user")
      BY <1>1, <1>10, <2>3 DEF Sound, ProcOfStep, ProcRecord
    <3>4. \A e \in fresh : gone[e] = None
      BY <3>2, <3>3 DEF Untouched, Clear, DeskInv, DeskShape
    <3>. QED BY <1>1, <1>5, <2>1, <2>3, <3>1, <3>4 DEF WholeOfClient, FailedActionRestores, desk
  <2>4. CASE client.at = "userBack" /\ client'.at = "idle"
    <3>1. Clear("user")
      BY <1>1, <1>10, <2>4 DEF Sound, ProcOfStep, WhyOfStep
    <3>2. WholeOfClient
      BY <1>1, <1>10 DEF Sound
    <3>3. client.action = "disable" => \A e \in fresh : gone[e] = None
      BY <2>4, <3>1, <3>2 DEF WholeOfClient, Clear, GivenBack, DeskInv, DeskShape
    <3>4. client.action \in {"install", "migrate"} => \A e \in Entry : gone[e] = None
      BY <2>4, <3>1, <3>2 DEF WholeOfClient, Clear, ActionOfStep
    <3>. QED BY <1>1, <1>5, <2>1, <2>4, <3>3, <3>4 DEF WholeOfClient, FailedActionRestores, desk
  <2>. QED BY <1>5, <2>2, <2>3, <2>4
<1>. QED BY <1>6, <1>7, <1>8, <1>9, <1>10 DEF Sound

\* A broker is launched into a free slot.
LEMMA LaunchKeeps ==
    ASSUME HandoverInv, Launch
    PROVE  ControlInv' /\ DeskInv' /\ (~loose' => Sound')
<1> USE ScopesApart DEF HandoverInv, ControlInv, WorkShape
<1>1. UNCHANGED <<desk, proc, broken, loose>> /\ client.at = "launch"
  BY DEF Launch
<1>2. PICK b \in Slot :
        /\ broker[b].at = "free"
        /\ broker' = [broker EXCEPT ![b] = [NoBroker EXCEPT !.at = "connect", !.op = Operation]]
        /\ client' = [client EXCEPT !.slot = b,
                        !.at = IF Operation = "migrate" THEN "profile" ELSE "await"]
  BY DEF Launch, Free
<1>3. client.slot = None /\ client.action \in {"disable", "install", "migrate"}
  BY <1>1 DEF WhoWorks, ActionOfStep
<1>4. /\ Operation \in Actions
      /\ Operation = "disable" => client.phase = "act" /\ client.action = "disable"
  BY <1>3 DEF Operation, Actions, ClientRecord
<1>5. /\ client' \in ClientRecord /\ client'.slot = b /\ client'.at \in {"profile", "await"}
      /\ client'.action = client.action /\ client'.phase = client.phase
  <2>. DEFINE at == IF Operation = "migrate" THEN "profile" ELSE "await"
  <2>1. at \in {"profile", "await"} /\ at \in ClientSteps /\ client' = [client EXCEPT !.slot = b, !.at = at]
    BY <1>2 DEF ClientSteps
  <2>. HIDE DEF at
  <2>. QED BY <2>1 DEF ClientRecord
<1>6. Operation' = Operation
  BY <1>5 DEF Operation
<1>7. /\ broker' \in [Slot -> BrokerRecord] /\ \A c \in Slot : c # b => broker'[c] = broker[c]
      /\ broker'[b].at = "connect" /\ broker'[b].op = Operation
      /\ broker'[b].out = None /\ broker'[b].sent = None
  <2>. DEFINE r == [NoBroker EXCEPT !.at = "connect", !.op = Operation]
  <2>1. r \in BrokerRecord /\ r.at = "connect" /\ r.op = Operation /\ r.out = None /\ r.sent = None
    BY <1>4, NoBrokerIs DEF BrokerRecord, BrokerSteps
  <2>. HIDE DEF r
  <2>. QED BY <1>2, <2>1, BrokerEffect DEF r
<1>8. DeskInv' /\ (~loose' => (\A w \in Worker : ProcOfStep(w)') /\ \A s \in Scope : Covered(s)')
  BY <1>1, QuietKeeps DEF desk
<1>9. WorkShape'
  BY <1>1, <1>5, <1>7
<1>10. WhoWorks'
  BY <1>1, <1>2, <1>3, <1>5, <1>6, <1>7 DEF WhoWorks
<1>11. ActionOfStep' /\ WhyOfStep'
  BY <1>1, <1>2, <1>3, <1>5, <1>7 DEF ActionOfStep, WhyOfStep, WhoWorks
<1>12. SaidOfStep'
  BY <1>1, <1>7 DEF SaidOfStep
<1>13. ~loose' => BeforeOfClient' /\ \A c \in Slot : BeforeOfBroker(c)'
  BY <1>1, <1>4, <1>5, <1>7 DEF Sound, BeforeOfClient, BeforeOfBroker, Untouched, desk
<1>14. ~loose' /\ ~broken' => WholeOfClient' /\ \A c \in Slot : WholeOfBroker(c)'
  BY <1>1, <1>5, <1>7 DEF Sound, WholeOfClient, WholeOfBroker, FailedActionRestores, Clear, GivenBack, desk
<1>. QED BY <1>8, <1>9, <1>10, <1>11, <1>12, <1>13, <1>14 DEF Sound

\* The consent is refused or the launch fails: no broker was started.
LEMMA LaunchFailsKeeps ==
    ASSUME HandoverInv, LaunchFails
    PROVE  ControlInv' /\ DeskInv' /\ (~loose' => Sound')
<1> USE ScopesApart DEF HandoverInv, ControlInv, WorkShape
<1>1. UNCHANGED <<desk, broker, proc, loose>> /\ client.at = "launch"
  BY DEF LaunchFails, Continues
<1>2. \/ Reports("preflight") /\ broken' = broken
      \/ Continues(FALSE) /\ broken' = (broken \/ UndoFails(FALSE))
  BY DEF LaunchFails
<1>3. /\ client.slot = None /\ client.action \in {"disable", "install", "migrate"}
      /\ proc[Client].at = "off"
  BY <1>1 DEF WhoWorks, ActionOfStep
<1>4. /\ client' \in ClientRecord /\ client'.slot = None /\ client'.action = client.action
      /\ broken => broken'
      /\ \/ client'.at = "idle" /\ client'.said = "preflight"
         \/ /\ client'.at = "userBack" /\ client'.phase = client.phase
            /\ broken' \/ client.phase = "act"
            /\ client.phase = "undo" \/ client.action = "disable"
         \/ client'.at = "idle" /\ client'.said = "ok"
         \/ client'.at = "launch" /\ client'.phase = "undo"
  <2>1. CASE Reports("preflight") /\ broken' = broken
    BY <2>1, ReportsEffect
  <2>2. CASE Continues(FALSE) /\ broken' = (broken \/ UndoFails(FALSE))
    <3>1. client.phase = "undo" => broken'
      BY <2>2 DEF UndoFails
    <3>2. client.phase \in {"act", "undo"}
      BY DEF ClientRecord
    <3>. QED BY <2>2, <3>1, <3>2, ContinuesEffect
  <2>. QED BY <1>2, <2>1, <2>2
<1>5. DeskInv' /\ (~loose' => (\A w \in Worker : ProcOfStep(w)') /\ \A s \in Scope : Covered(s)')
  BY <1>1, <1>4, QuietKeeps DEF desk
<1>6. WorkShape' /\ WhoWorks'
  BY <1>1, <1>3, <1>4 DEF WhoWorks
<1>7. ActionOfStep' /\ WhyOfStep' /\ SaidOfStep'
  BY <1>1, <1>3, <1>4 DEF ActionOfStep, WhyOfStep, SaidOfStep
<1>8. ~loose' => BeforeOfClient' /\ \A c \in Slot : BeforeOfBroker(c)'
  BY <1>1, <1>4 DEF Sound, BeforeOfClient, BeforeOfBroker, Untouched, desk
<1>9. ASSUME ~loose', ~broken' PROVE WholeOfClient' /\ \A c \in Slot : WholeOfBroker(c)'
  <2>1. \A c \in Slot : WholeOfBroker(c)'
    BY <1>1, <1>4, <1>9 DEF Sound, WholeOfBroker, Clear, GivenBack, desk
  <2>2. client.action = "disable" /\ client.phase = "act" => Untouched("machine")
    BY <1>1, <1>9 DEF Sound, BeforeOfClient
  <2>. QED BY <1>1, <1>4, <1>9, <2>1, <2>2
       DEF WholeOfClient, FailedActionRestores, Untouched, GivenBack, desk
<1>. QED BY <1>5, <1>6, <1>7, <1>8, <1>9 DEF Sound

\* The client sends the profile to its broker.
LEMMA SendProfileKeeps ==
    ASSUME HandoverInv, SendProfile
    PROVE  ControlInv' /\ DeskInv' /\ (~loose' => Sound')
<1> USE ScopesApart DEF HandoverInv, ControlInv, WorkShape
<1>1. /\ UNCHANGED <<desk, proc, broken, loose>> /\ client.at = "profile"
      /\ broker[client.slot].at = "profile" /\ Steps("await")
      /\ broker' = [broker EXCEPT ![client.slot].at = "run"]
  BY DEF SendProfile
<1>2. PICK b \in Slot : client.slot = b
  BY <1>1 DEF WhoWorks, ClientRecord
<1>3. /\ client' \in ClientRecord /\ client'.at = "await" /\ client'.slot = b
      /\ client'.action = client.action /\ client'.phase = client.phase
  BY <1>1, <1>2, StepsEffect DEF ClientSteps
<1>4. /\ broker' \in [Slot -> BrokerRecord] /\ \A c \in Slot : c # b => broker'[c] = broker[c]
      /\ broker'[b].at = "run" /\ broker'[b].op = broker[b].op /\ broker'[b].out = broker[b].out
      /\ broker'[b].sent = broker[b].sent /\ broker'[b].code = broker[b].code
  BY <1>1, <1>2 DEF BrokerRecord, BrokerSteps
<1>5. DeskInv' /\ (~loose' => (\A w \in Worker : ProcOfStep(w)') /\ \A s \in Scope : Covered(s)')
  BY <1>1, QuietKeeps DEF desk
<1>6. WorkShape'
  BY <1>1, <1>3, <1>4
<1>7. WhoWorks'
  BY <1>1, <1>2, <1>3, <1>4 DEF WhoWorks, Operation
<1>8. ActionOfStep' /\ WhyOfStep' /\ SaidOfStep'
  BY <1>1, <1>2, <1>3, <1>4 DEF ActionOfStep, WhyOfStep, SaidOfStep
<1>9. ~loose' => BeforeOfClient' /\ \A c \in Slot : BeforeOfBroker(c)'
  BY <1>1, <1>2, <1>3, <1>4 DEF Sound, BeforeOfClient, BeforeOfBroker, Untouched, desk
<1>10. ~loose' /\ ~broken' => WholeOfClient' /\ \A c \in Slot : WholeOfBroker(c)'
  BY <1>1, <1>3, <1>4 DEF Sound, WholeOfClient, WholeOfBroker, FailedActionRestores, Clear, GivenBack, desk
<1>. QED BY <1>5, <1>6, <1>7, <1>8, <1>9, <1>10 DEF Sound

\* The client sees its broker gone and reads its exit code.
LEMMA PeerExitedKeeps ==
    ASSUME HandoverInv, PeerExited \/ ReadExit
    PROVE  ControlInv' /\ DeskInv' /\ (~loose' => Sound')
<1> USE ScopesApart DEF HandoverInv, ControlInv, WorkShape
<1>1. /\ UNCHANGED <<desk, proc, loose>> /\ client.at \in {"profile", "await", "exitCode"}
      /\ broker[client.slot].at = "exited"
      /\ broker' = [broker EXCEPT ![client.slot] = NoBroker]
  BY DEF PeerExited, ReadExit, Continues
<1>2. PICK b \in Slot : client.slot = b
  BY <1>1 DEF WhoWorks, ClientRecord
<1>3. PICK ok \in BOOLEAN :
        /\ Continues(ok)
        /\ broken => broken'
        /\ client.phase = "undo" /\ ~ok => broken'
        /\ ok => broker[b].sent = "ok"
        /\ ~ok /\ client.action = "disable" /\ client.phase = "act" /\ ~broken' =>
             broker[b].out # "ok"
  <2>1. CASE PeerExited
    <3>1. /\ Continues(FALSE)
          /\ broken => broken'
          /\ client.phase = "undo" => broken'
          /\ client.action = "disable" /\ broker[b].out = "ok" => broken'
      BY <1>2, <2>1 DEF PeerExited, UndoFails, Unheard
    <3>. QED BY <3>1
  <2>2. CASE ReadExit
    <3>. DEFINE ok == broker[b].code = 0 /\ broker[b].sent = "ok"
    <3>1. ok \in BOOLEAN /\ Continues(ok) /\ broken' = (broken \/ UndoFails(ok))
      BY <1>2, <2>2 DEF ReadExit
    <3>2. client.at = "exitCode" /\ broker[b].sent # None
      BY <1>2, <2>2 DEF ReadExit, WhoWorks
    <3>3. ~ok /\ ~broken => broker[b].sent # "ok"
      BY DEF SaidOfStep
    <3>4. broker[b].out = broker[b].sent
      BY <3>2 DEF SaidOfStep
    <3>5. ok => broker[b].sent = "ok"
      OBVIOUS
    <3>. HIDE DEF ok
    <3>. QED BY <3>1, <3>3, <3>4, <3>5 DEF UndoFails
  <2>. QED BY <2>1, <2>2
<1>4. /\ client' \in ClientRecord /\ client'.slot = None /\ client'.action = client.action
      /\ \/ /\ client'.at = "userBack" /\ client'.phase = client.phase
            /\ client.phase = "undo" \/ (client.action = "disable" /\ ~ok)
         \/ /\ client'.at = "after" /\ client'.phase = "act" /\ client.action = "disable"
         \/ client'.at = "idle" /\ client'.said = "ok"
         \/ client'.at = "launch" /\ client'.phase = "undo"
  BY <1>3, ContinuesEffect
<1>5. /\ broker' \in [Slot -> BrokerRecord] /\ \A c \in Slot : c # b => broker'[c] = broker[c]
      /\ broker'[b] = NoBroker /\ proc[b].at = "off" /\ proc[Client].at = "off"
      /\ client.action \in {"disable", "install", "migrate"}
      /\ broker[b].op = Operation
  BY <1>1, <1>2, NoBrokerIs, BrokerEffect DEF WhoWorks, ActionOfStep
<1>6. DeskInv' /\ (~loose' => (\A w \in Worker : ProcOfStep(w)') /\ \A s \in Scope : Covered(s)')
  BY <1>1, <1>3, QuietKeeps DEF desk
<1>7. WorkShape' /\ WhoWorks'
  BY <1>1, <1>2, <1>4, <1>5, NoBrokerIs DEF WhoWorks
<1>8. ActionOfStep' /\ WhyOfStep'
  BY <1>1, <1>4, <1>5, NoBrokerIs DEF ActionOfStep, WhyOfStep
<1>9. SaidOfStep'
  BY <1>3, <1>5, NoBrokerIs DEF SaidOfStep
<1>10. ~loose' => BeforeOfClient' /\ \A c \in Slot : BeforeOfBroker(c)'
  BY <1>1, <1>4, <1>5, NoBrokerIs DEF Sound, BeforeOfClient, BeforeOfBroker, Untouched, desk
<1>11. ASSUME ~loose', ~broken' PROVE WholeOfClient' /\ \A c \in Slot : WholeOfBroker(c)'
  <2>1. \A c \in Slot : WholeOfBroker(c)'
    BY <1>1, <1>3, <1>5, <1>11, NoBrokerIs DEF Sound, WholeOfBroker, Clear, GivenBack, desk
  <2>2. WholeOfBroker(b)
    BY <1>1, <1>3, <1>11 DEF Sound
  <2>3. client.phase = "undo" => Clear("machine")
    <3> SUFFICES ASSUME client.phase = "undo" PROVE Clear("machine")
      OBVIOUS
    <3>1. ok /\ broker[b].op = "restore"
      BY <1>3, <1>5, <1>11 DEF Operation
    <3>2. broker[b].out = "ok"
      BY <1>3, <3>1 DEF SaidOfStep
    <3>. QED BY <1>1, <1>2, <2>2, <3>1, <3>2 DEF WholeOfBroker
  <2>4. client.phase = "act" /\ client.action = "disable" /\ ~ok => GivenBack("machine")
    BY <1>1, <1>2, <1>3, <1>5, <1>11, <2>2 DEF WholeOfBroker, Operation
  <2>5. client'.at = "userBack" /\ client'.phase = "undo" => Clear("machine")
    BY <1>4, <2>3
  <2>6. client'.at = "userBack" /\ client'.action = "disable" => GivenBack("machine")
    <3>1. client.phase \in {"act", "undo"}
      BY DEF ClientRecord
    <3>. QED BY <1>4, <2>3, <2>4, <3>1 DEF Clear, GivenBack
  <2>. QED BY <1>1, <1>4, <2>1, <2>5, <2>6
       DEF WholeOfClient, FailedActionRestores, Clear, GivenBack, desk
<1>. QED BY <1>6, <1>7, <1>8, <1>9, <1>10, <1>11 DEF Sound

\* The client stops waiting and terminates its broker, or leaves it running.
LEMMA TimeoutKeeps ==
    ASSUME HandoverInv, Timeout
    PROVE  ControlInv' /\ DeskInv' /\ (~loose' => Sound')
<1> USE ScopesApart DEF HandoverInv, ControlInv, WorkShape
<1>1. /\ UNCHANGED desk /\ client.at \in {"profile", "await", "exitCode"}
      /\ Continues(FALSE) /\ broken'
  BY DEF Timeout, GivesUp, Continues
<1>2. PICK b \in Slot : client.slot = b
  BY <1>1 DEF WhoWorks, ClientRecord
<1>3. \/ /\ broker' = [broker EXCEPT ![b] = NoBroker] /\ proc' = [proc EXCEPT ![b] = NoProc]
         /\ loose' = loose
      \/ UNCHANGED <<broker, proc>> /\ loose'
  <2>1. PICK confirmed \in BOOLEAN : Terminate(b, confirmed)
    BY <1>2 DEF Timeout
  <2>2. CASE confirmed
    BY <2>1, <2>2 DEF Terminate, Flags
  <2>3. CASE ~confirmed
    BY <2>1, <2>3 DEF Terminate
  <2>. QED BY <2>2, <2>3
<1>4. /\ client' \in ClientRecord /\ client'.slot = None /\ client'.action = client.action
      /\ \/ /\ client'.at = "userBack" /\ client'.phase = client.phase
            /\ client.phase = "undo" \/ client.action = "disable"
         \/ client'.at = "idle" /\ client'.said = "ok"
         \/ client'.at = "launch" /\ client'.phase = "undo"
  BY <1>1, ContinuesEffect
<1>5. /\ client.action \in {"disable", "install", "migrate"} /\ proc[Client].at = "off"
      /\ broker' \in [Slot -> BrokerRecord] /\ \A c \in Slot : broker'[c] \in {broker[c], NoBroker}
      /\ proc' \in [Worker -> ProcRecord] /\ \A w \in Worker : proc'[w] \in {proc[w], NoProc}
      /\ loose => loose'
      /\ ~loose' => broker'[b] = NoBroker
      /\ \A c \in Slot : broker'[c] = NoBroker => broker[c] = NoBroker \/ c = b
  <2>1. client.action \in {"disable", "install", "migrate"} /\ proc[Client].at = "off"
    BY <1>1 DEF WhoWorks, ActionOfStep
  <2>2. CASE /\ broker' = [broker EXCEPT ![b] = NoBroker] /\ proc' = [proc EXCEPT ![b] = NoProc]
             /\ loose' = loose
    BY <2>1, <2>2, NoBrokerIs, NoProcIs, BrokerEffect, ProcEffect
  <2>3. CASE UNCHANGED <<broker, proc>> /\ loose'
    BY <2>1, <2>3
  <2>. QED BY <1>3, <2>2, <2>3
<1>6. \A c \in Slot : proc'[c].at # "off" => broker'[c].at = "proc"
  <2>1. CASE /\ broker' = [broker EXCEPT ![b] = NoBroker] /\ proc' = [proc EXCEPT ![b] = NoProc]
             /\ loose' = loose
    <3>1. proc'[b].at = "off" /\ \A c \in Slot : c # b => proc'[c] = proc[c] /\ broker'[c] = broker[c]
      BY <2>1, NoProcIs, BrokerEffect, NoBrokerIs, ProcEffect
    <3>. QED BY <3>1 DEF WhoWorks
  <2>2. CASE UNCHANGED <<broker, proc>> /\ loose'
    BY <2>2 DEF WhoWorks
  <2>. QED BY <1>3, <2>1, <2>2
<1>7. DeskInv' /\ (~loose' => (\A w \in Worker : ProcOfStep(w)') /\ \A s \in Scope : Covered(s)')
  BY <1>1, <1>5, NoProcIs, QuietKeeps DEF desk
<1>8. WorkShape' /\ WhoWorks'
  <2>1. \A c \in Slot : ~loose' /\ broker'[c].at # "free" => FALSE
    BY <1>2, <1>5, NoBrokerIs DEF WhoWorks
  <2>2. proc'[Client].at = "off"
    BY <1>5, NoProcIs
  <2>. QED BY <1>4, <1>5, <1>6, <2>1, <2>2 DEF WhoWorks
<1>9. ActionOfStep'
  BY <1>1, <1>4, <1>5 DEF ActionOfStep
<1>10. WhyOfStep'
  <2>1. proc'[Client].at = "off"
    BY <1>5, NoProcIs
  <2>2. \A c \in Slot : proc'[c].at # "off" => proc'[c] = proc[c] /\ broker'[c] = broker[c]
    BY <1>5, <1>6, NoProcIs, NoBrokerIs
  <2>. QED BY <2>1, <2>2 DEF WhyOfStep
<1>11. SaidOfStep'
  BY <1>1, <1>5, NoBrokerIs DEF SaidOfStep
<1>12. ~loose' => BeforeOfClient' /\ \A c \in Slot : BeforeOfBroker(c)'
  BY <1>1, <1>4, <1>5, NoBrokerIs DEF Sound, BeforeOfClient, BeforeOfBroker, Untouched, desk
<1>. QED BY <1>1, <1>7, <1>8, <1>9, <1>10, <1>11, <1>12 DEF Sound

\* One broker goes on and keeps its operation; the client only listens.
LEMMA BrokerStepKeeps ==
    ASSUME HandoverInv, NEW b \in Slot, UNCHANGED <<desk, client, loose>>, broken => broken',
           broker[b].at \notin {"free", "exited"},
           broker' \in [Slot -> BrokerRecord], \A c \in Slot : c # b => broker'[c] = broker[c],
           proc' \in [Worker -> ProcRecord], \A w \in Worker : w # b => proc'[w] = proc[w],
           proc'[b].at # "off" => broker'[b].at = "proc",
           client.slot # b => broker'[b].at # "exited",
           broker'[b].at # "free" => broker'[b].op = broker[b].op,
           broker'[b].at = "free" => broker'[b] = NoBroker /\ client.slot # b,
           broker[b].sent # None => broker'[b].sent = broker[b].sent \/ client.slot # b,
           broker[b].op # "disable" => proc'[b].at = "off" \/ proc'[b].why = "restore",
           broker'[b].out # None => broker'[b].at \in {"report", "leave", "exited"},
           broker'[b].sent # None =>
             broker'[b].at \in {"leave", "exited"} /\ broker'[b].sent = broker'[b].out,
           broker'[b].sent = "ok" /\ ~broken' => broker'[b].code = 0,
           \/ proc'[b] = proc[b] \/ proc'[b].at \in {"off", "read"}
           \/ proc'[b].at = "observe" /\ proc'[b].why = "disable" /\ broker[b].at = "run"
              /\ broker[b].op = "disable",
           broker'[b].at \in {"connect", "profile", "run"} =>
             broker[b].at \in {"connect", "profile", "run"},
           ~loose /\ ~broken' => WholeOfBroker(b)'
    PROVE  ControlInv' /\ DeskInv' /\ (~loose' => Sound')
<1> USE ScopesApart, NoBrokerIs DEF HandoverInv, ControlInv, WorkShape
<1>1. DeskInv' /\ (~loose' => (\A w \in Worker : ProcOfStep(w)') /\ \A s \in Scope : Covered(s)')
  <2>1. ~loose /\ broker[b].at = "run" /\ broker[b].op = "disable" => Untouched(ScopeOf(b))
    BY DEF Sound, BeforeOfBroker
  <2>2. \A w \in Worker :
          \/ proc'[w] = proc[w]
          \/ proc'[w].at \in {"off", "read"}
          \/ /\ proc'[w].at = "observe" /\ proc'[w].why = "disable"
             /\ ~loose' => Untouched(ScopeOf(w))
    BY <2>1
  <2>. QED BY <2>2, QuietKeeps DEF desk
<1>2. WorkShape' /\ ActionOfStep'
  BY DEF ActionOfStep
<1>3. WhoWorks'
  <2>1. \A c \in Slot : proc'[c].at # "off" => broker'[c].at = "proc"
    BY DEF WhoWorks
  <2>2. proc'[Client] = proc[Client]
    OBVIOUS
  <2>3. Operation' = Operation
    BY DEF Operation
  <2>4. client.slot # None /\ broker'[client.slot].at # "free" => broker'[client.slot].op = Operation
    <3>1. client.slot # None => client.slot \in Slot
      BY DEF ClientRecord
    <3>. QED BY <3>1 DEF WhoWorks
  <2>5. client.slot # None /\ client.at = "exitCode" => broker'[client.slot].sent # None
    <3>1. client.slot # None => client.slot \in Slot
      BY DEF ClientRecord
    <3>. QED BY <3>1 DEF WhoWorks
  <2>6. \A c \in Slot : ~loose /\ broker'[c].at # "free" => client.slot = c
    BY DEF WhoWorks
  <2>. QED BY <2>1, <2>2, <2>3, <2>4, <2>5, <2>6 DEF WhoWorks
<1>4. WhyOfStep'
  <2>1. proc'[Client] = proc[Client]
    OBVIOUS
  <2>2. \A c \in Slot : proc'[c].at # "off" /\ broker'[c].op # "disable" => proc'[c].why = "restore"
    BY DEF WhyOfStep
  <2>. QED BY <2>1, <2>2 DEF WhyOfStep
<1>5. SaidOfStep'
  BY DEF SaidOfStep
<1>6. ~loose => BeforeOfClient' /\ \A c \in Slot : BeforeOfBroker(c)'
  <2>1. proc'[Client] = proc[Client]
    OBVIOUS
  <2>. QED BY <2>1 DEF Sound, BeforeOfClient, BeforeOfBroker, Untouched, desk
<1>7. ~loose /\ ~broken' => WholeOfClient' /\ \A c \in Slot : WholeOfBroker(c)'
  BY DEF Sound, WholeOfClient, WholeOfBroker, FailedActionRestores, Clear, GivenBack, desk
<1>. QED BY <1>1, <1>2, <1>3, <1>4, <1>5, <1>6, <1>7 DEF Sound

\* A broker connects.
LEMMA ConnectKeeps ==
    ASSUME HandoverInv, NEW b \in Slot, Broker(b), Connect(b)
    PROVE  ControlInv' /\ DeskInv' /\ (~loose' => Sound')
<1> USE ScopesApart DEF HandoverInv, ControlInv, WorkShape
<1>1. UNCHANGED <<desk, client, broken, loose, proc>> /\ broker[b].at = "connect"
  BY DEF Broker, Connect
<1>2. proc[b].at = "off" /\ broker[b].out = None /\ broker[b].sent = None
  BY <1>1 DEF WhoWorks, SaidOfStep
<1>3. \/ Leaves(b, 21)
      \/ \E at \in {"profile", "run"} : broker' = [broker EXCEPT ![b].at = at] /\ client.slot = b
  BY <1>1 DEF Connect, Listening
<1>4. CASE Leaves(b, 21)
  <2>1. ~loose => BeforeOfBroker(b)
    BY DEF Sound
  <2>2. client.slot = b \/ client.slot # b
    OBVIOUS
  <2>3. ~loose /\ ~broken' => WholeOfBroker(b)'
    BY <1>1, <1>2, <1>4, <2>1, LeavesEffect, NoBrokerIs
       DEF WholeOfBroker, BeforeOfBroker, Untouched, GivenBack, desk
  <2>. QED BY <1>1, <1>2, <1>4, <2>2, <2>3, LeavesEffect, NoBrokerIs, BrokerStepKeeps
<1>5. ASSUME NEW at \in {"profile", "run"}, broker' = [broker EXCEPT ![b].at = at], client.slot = b
      PROVE  ControlInv' /\ DeskInv' /\ (~loose' => Sound')
  <2>1. /\ broker' \in [Slot -> BrokerRecord] /\ \A c \in Slot : c # b => broker'[c] = broker[c]
        /\ broker'[b].at = at /\ broker'[b].op = broker[b].op /\ broker'[b].out = None
        /\ broker'[b].sent = None
    BY <1>2, <1>5 DEF BrokerRecord, BrokerSteps
  <2>2. WholeOfBroker(b)'
    BY <2>1 DEF WholeOfBroker
  <2>. QED BY <1>1, <1>2, <1>5, <2>1, <2>2, BrokerStepKeeps
<1>. QED BY <1>3, <1>4, <1>5

\* A broker has its outcome without a procedure.
LEMMA AnswersKeeps ==
    ASSUME HandoverInv, NEW b \in Slot, Broker(b), NoProfile(b) \/ Refuses(b) \/ Completes(b)
    PROVE  ControlInv' /\ DeskInv' /\ (~loose' => Sound')
<1> USE ScopesApart DEF HandoverInv, ControlInv, WorkShape
<1>1. /\ UNCHANGED <<desk, client, broken, loose, proc>> /\ broker[b].at \in {"profile", "run"}
      /\ \E out \in {"ok", "err"} :
           Answers(b, out) /\ (out = "ok" => broker[b].op \in {"install", "migrate"})
  BY DEF Broker, NoProfile, Refuses, Completes
<1>2. proc[b].at = "off" /\ broker[b].out = None /\ broker[b].sent = None
  BY <1>1 DEF WhoWorks, SaidOfStep
<1>3. /\ broker' \in [Slot -> BrokerRecord] /\ \A c \in Slot : c # b => broker'[c] = broker[c]
      /\ broker'[b].at = "report" /\ broker'[b].op = broker[b].op /\ broker'[b].sent = None
      /\ broker'[b].out = "ok" => broker[b].op \in {"install", "migrate"}
  BY <1>1, <1>2, AnswersEffect
<1>4. ~loose => WholeOfBroker(b)'
  <2>1. ~loose => BeforeOfBroker(b)
    BY DEF Sound
  <2>. QED BY <1>1, <1>3, <2>1 DEF WholeOfBroker, BeforeOfBroker, Untouched, GivenBack, desk
<1>. QED BY <1>1, <1>2, <1>3, <1>4, BrokerStepKeeps

\* A broker starts a procedure on the machine's scope.
LEMMA RunsProcedureKeeps ==
    ASSUME HandoverInv, NEW b \in Slot, Broker(b), RunsProcedure(b)
    PROVE  ControlInv' /\ DeskInv' /\ (~loose' => Sound')
<1> USE ScopesApart DEF HandoverInv, ControlInv, WorkShape
<1>1. /\ UNCHANGED <<desk, client, broken, loose>> /\ broker[b].at = "run"
      /\ broker' = [broker EXCEPT ![b].at = "proc"]
  BY DEF Broker, RunsProcedure
<1>2. proc[b].at = "off" /\ broker[b].out = None /\ broker[b].sent = None
  BY <1>1 DEF WhoWorks, SaidOfStep
<1>3. /\ broker' \in [Slot -> BrokerRecord] /\ \A c \in Slot : c # b => broker'[c] = broker[c]
      /\ broker'[b].at = "proc" /\ broker'[b].op = broker[b].op /\ broker'[b].out = None
      /\ broker'[b].sent = None
  BY <1>1, <1>2 DEF BrokerRecord, BrokerSteps
<1>4. /\ proc' \in [Worker -> ProcRecord] /\ \A w \in Worker : w # b => proc'[w] = proc[w]
      /\ \/ broker[b].op = "disable" /\ proc'[b].at = "observe" /\ proc'[b].why = "disable"
         \/ broker[b].op # "disable" /\ proc'[b].at = "read" /\ proc'[b].why = "restore"
  <2>1. CASE broker[b].op = "disable"
    <3>1. proc' = [proc EXCEPT ![b] = [NoProc EXCEPT !.at = "observe", !.why = "disable"]]
      BY <2>1 DEF RunsProcedure
    <3>. QED BY <2>1, <3>1, NoProcIs, ProcEffect
  <2>2. CASE broker[b].op # "disable"
    <3>1. proc' = [proc EXCEPT ![b] = [NoProc EXCEPT !.at = "read"]]
      BY <2>2 DEF RunsProcedure
    <3>2. "read" \in ProcSteps
      BY DEF ProcSteps
    <3>. QED BY <2>2, <3>1, <3>2, NoProcIs, ProcEffect
  <2>. QED BY <2>1, <2>2
<1>5. WholeOfBroker(b)'
  BY <1>3 DEF WholeOfBroker
<1>. QED BY <1>1, <1>2, <1>3, <1>4, <1>5, BrokerStepKeeps

\* A procedure of a broker has ended.
LEMMA FinishedKeeps ==
    ASSUME HandoverInv, NEW b \in Slot, Broker(b), Finished(b)
    PROVE  ControlInv' /\ DeskInv' /\ (~loose' => Sound')
<1> USE ScopesApart DEF HandoverInv, ControlInv, WorkShape
<1>1. /\ UNCHANGED <<desk, client, broken, loose>> /\ proc[b].at \in {"ok", "err"}
      /\ proc' = [proc EXCEPT ![b] = NoProc]
      /\ Answers(b, IF broker[b].op = "migrate" THEN "err" ELSE proc[b].at)
  BY DEF Broker, Finished
<1>2. broker[b].at = "proc" /\ broker[b].out = None /\ broker[b].sent = None
  BY <1>1 DEF WhoWorks, SaidOfStep
<1>3. PICK out \in {"ok", "err"} :
        Answers(b, out) /\ (broker[b].op # "migrate" => out = proc[b].at)
  BY <1>1
<1>4. /\ broker' \in [Slot -> BrokerRecord] /\ \A c \in Slot : c # b => broker'[c] = broker[c]
      /\ broker'[b].at = "report" /\ broker'[b].op = broker[b].op /\ broker'[b].sent = None
      /\ broker'[b].out = out
  BY <1>2, <1>3, AnswersEffect
<1>5. /\ proc' \in [Worker -> ProcRecord] /\ \A w \in Worker : w # b => proc'[w] = proc[w]
      /\ proc'[b].at = "off"
  BY <1>1, NoProcIs, ProcEffect
<1>6. ASSUME ~loose, ~broken' PROVE WholeOfBroker(b)'
  <2>1. ProcOfStep(b) /\ ~broken
    BY <1>1, <1>6 DEF Sound
  <2>2. broker[b].op = "disable" /\ out # "ok" => Untouched("machine") \/ Clear("machine")
    BY <1>1, <1>3, <2>1 DEF ProcOfStep, ProcRecord
  <2>3. broker[b].op = "restore" => Clear("machine")
    BY <1>1, <2>1 DEF ProcOfStep, WhyOfStep
  <2>. QED BY <1>1, <1>4, <2>2, <2>3 DEF WholeOfBroker, Untouched, Clear, GivenBack, desk
<1>. QED BY <1>1, <1>2, <1>4, <1>5, <1>6, BrokerStepKeeps

\* A broker reports.
LEMMA ReportKeeps ==
    ASSUME HandoverInv, NEW b \in Slot, Broker(b), Report(b)
    PROVE  ControlInv' /\ DeskInv' /\ (~loose' => Sound')
<1> USE ScopesApart DEF HandoverInv, ControlInv, WorkShape
<1>1. UNCHANGED <<desk, client, broken, loose, proc>> /\ broker[b].at = "report"
  BY DEF Broker, Report
<1>2. proc[b].at = "off" /\ broker[b].sent = None
  BY <1>1 DEF WhoWorks, SaidOfStep
<1>3. PICK sent \in {None, broker[b].out}, code \in {0, 21} :
        /\ broker' = [broker EXCEPT ![b].at = "leave", ![b].sent = sent, ![b].code = code]
        /\ sent = "ok" => code = 0
  BY DEF Report
<1>4. sent \in {None, "ok", "err"}
  BY <1>3 DEF BrokerRecord
<1>5. /\ broker' \in [Slot -> BrokerRecord] /\ \A c \in Slot : c # b => broker'[c] = broker[c]
      /\ broker'[b].at = "leave" /\ broker'[b].op = broker[b].op /\ broker'[b].sent = sent
      /\ broker'[b].code = code /\ broker'[b].out = broker[b].out
  <2>. DEFINE r == [broker[b] EXCEPT !.at = "leave", !.sent = sent, !.code = code]
  <2>1. /\ r \in BrokerRecord /\ r.at = "leave" /\ r.op = broker[b].op /\ r.sent = sent
        /\ r.code = code /\ r.out = broker[b].out
    <3>1. broker[b] \in BrokerRecord /\ code \in {0, 21}
      OBVIOUS
    <3>. QED BY ONLY <1>4, <3>1 DEF BrokerRecord, BrokerSteps, r
  <2>2. broker' = [broker EXCEPT ![b] = r]
    BY <1>3
  <2>. HIDE DEF r
  <2>. QED BY <2>1, <2>2, BrokerEffect
<1>6. ~loose /\ ~broken' => WholeOfBroker(b)'
  <2>1. ~loose /\ ~broken => WholeOfBroker(b)
    BY DEF Sound
  <2>. QED BY <1>1, <1>5, <2>1 DEF WholeOfBroker, Clear, GivenBack, desk
<1>7. broker'[b].sent # None => broker'[b].sent = broker'[b].out
  BY <1>3, <1>5
<1>. QED BY <1>1, <1>2, <1>3, <1>5, <1>6, <1>7, BrokerStepKeeps

\* A broker exits.
LEMMA LeaveKeeps ==
    ASSUME HandoverInv, NEW b \in Slot, Broker(b), Leave(b)
    PROVE  ControlInv' /\ DeskInv' /\ (~loose' => Sound')
<1> USE ScopesApart DEF HandoverInv, ControlInv, WorkShape
<1>1. /\ UNCHANGED <<desk, client, broken, loose, proc>> /\ broker[b].at = "leave"
      /\ broker[b].code \in {0, 21} /\ Leaves(b, broker[b].code)
  BY DEF Broker, Leave, BrokerRecord
<1>2. proc[b].at = "off"
  BY <1>1 DEF WhoWorks
<1>3. CASE client.slot = b
  <2>1. /\ broker' \in [Slot -> BrokerRecord] /\ \A c \in Slot : c # b => broker'[c] = broker[c]
        /\ broker'[b].at = "exited" /\ broker'[b].op = broker[b].op
        /\ broker'[b].out = broker[b].out /\ broker'[b].sent = broker[b].sent
        /\ broker'[b].code = broker[b].code
    BY <1>1, <1>3, LeavesEffect
  <2>2. ~loose /\ ~broken' => WholeOfBroker(b)'
    <3>1. ~loose /\ ~broken => WholeOfBroker(b)
      BY DEF Sound
    <3>. QED BY <1>1, <2>1, <3>1 DEF WholeOfBroker, Clear, GivenBack, desk
  <2>3. /\ broker'[b].sent # None => broker'[b].sent = broker'[b].out
        /\ broker'[b].sent = "ok" /\ ~broken' => broker'[b].code = 0
    BY <1>1, <2>1 DEF SaidOfStep
  <2>. QED BY <1>1, <1>2, <1>3, <2>1, <2>2, <2>3, BrokerStepKeeps
<1>4. CASE client.slot # b
  <2>1. /\ broker' \in [Slot -> BrokerRecord] /\ \A c \in Slot : c # b => broker'[c] = broker[c]
        /\ broker'[b] = NoBroker
    BY <1>1, <1>4, LeavesEffect
  <2>2. WholeOfBroker(b)'
    BY <2>1, NoBrokerIs DEF WholeOfBroker
  <2>. QED BY <1>1, <1>2, <1>4, <2>1, <2>2, NoBrokerIs, BrokerStepKeeps
<1>. QED BY <1>3, <1>4

\* A broker dies.
LEMMA BrokerDiesKeeps ==
    ASSUME HandoverInv, NEW b \in Slot, BrokerDies(b)
    PROVE  ControlInv' /\ DeskInv' /\ (~loose' => Sound')
<1> USE ScopesApart DEF HandoverInv, ControlInv, WorkShape
<1>1. /\ UNCHANGED <<desk, client, loose>> /\ broken' /\ broker[b].at \notin {"free", "exited"}
      /\ proc' = [proc EXCEPT ![b] = NoProc] /\ Leaves(b, 21)
  BY DEF BrokerDies, Alive
<1>2. /\ proc' \in [Worker -> ProcRecord] /\ \A w \in Worker : w # b => proc'[w] = proc[w]
      /\ proc'[b].at = "off"
  BY <1>1, NoProcIs, ProcEffect
<1>3. CASE client.slot = b
  <2>1. /\ broker' \in [Slot -> BrokerRecord] /\ \A c \in Slot : c # b => broker'[c] = broker[c]
        /\ broker'[b].at = "exited" /\ broker'[b].op = broker[b].op
        /\ broker'[b].out = broker[b].out /\ broker'[b].sent = broker[b].sent
    BY <1>1, <1>3, LeavesEffect
  <2>2. broker'[b].sent # None => broker'[b].sent = broker'[b].out
    BY <1>1, <2>1 DEF SaidOfStep
  <2>. QED BY <1>1, <1>2, <1>3, <2>1, <2>2, BrokerStepKeeps
<1>4. CASE client.slot # b
  <2>1. /\ broker' \in [Slot -> BrokerRecord] /\ \A c \in Slot : c # b => broker'[c] = broker[c]
        /\ broker'[b] = NoBroker
    BY <1>1, <1>4, LeavesEffect
  <2>. QED BY <1>1, <1>2, <1>4, <2>1, NoBrokerIs, BrokerStepKeeps
<1>. QED BY <1>3, <1>4

\* Every step of a broker keeps the invariant.
LEMMA BrokerKeeps ==
    ASSUME HandoverInv, NEW b \in Slot, Broker(b)
    PROVE  ControlInv' /\ DeskInv' /\ (~loose' => Sound')
  BY ConnectKeeps, AnswersKeeps, RunsProcedureKeeps, FinishedKeeps, ReportKeeps, LeaveKeeps DEF Broker

\* The client dies: its broker goes on as one nobody listens to.
LEMMA ClientDiesKeeps ==
    ASSUME HandoverInv, ClientDies
    PROVE  ControlInv' /\ DeskInv' /\ (~loose' => Sound')
<1> USE ScopesApart, NoBrokerIs DEF HandoverInv, ControlInv, WorkShape
<1>1. /\ UNCHANGED desk /\ broken' /\ client' = Resting
      /\ proc' = [proc EXCEPT ![Client] = NoProc]
      /\ broker' = [b \in Slot |-> IF Alive(b) THEN broker[b] ELSE NoBroker]
      /\ loose => loose'
      /\ ~loose' => \A b \in Slot : ~Alive(b)
  BY DEF ClientDies
<1>2. /\ proc' \in [Worker -> ProcRecord] /\ \A w \in Worker : w # Client => proc'[w] = proc[w]
      /\ proc'[Client].at = "off"
  BY <1>1, NoProcIs, ProcEffect
<1>3. /\ broker' \in [Slot -> BrokerRecord]
      /\ \A b \in Slot : broker'[b] = IF Alive(b) THEN broker[b] ELSE NoBroker
  BY <1>1
<1>4. /\ client' \in ClientRecord /\ client'.at = "idle" /\ client'.slot = None
      /\ client'.said = None /\ client'.action = None
  BY <1>1 DEF Resting, ClientRecord, ClientSteps
<1>5. DeskInv' /\ (~loose' => (\A w \in Worker : ProcOfStep(w)') /\ \A s \in Scope : Covered(s)')
  <2>1. \A w \in Worker : proc'[w] = proc[w] \/ proc'[w].at \in {"off", "read"}
    BY <1>2
  <2>. QED BY <1>1, <1>2, <2>1, QuietKeeps DEF desk
<1>6. WorkShape' /\ ActionOfStep' /\ WhyOfStep'
  <2>1. \A b \in Slot : proc'[b].at # "off" => broker'[b] = broker[b] /\ proc'[b] = proc[b]
    BY <1>2, <1>3 DEF WhoWorks, Alive
  <2>. QED BY <1>2, <1>3, <1>4, <2>1 DEF ActionOfStep, WhyOfStep
<1>7. WhoWorks'
  BY <1>1, <1>2, <1>3, <1>4 DEF WhoWorks, Alive
<1>8. SaidOfStep'
  BY <1>1, <1>3 DEF SaidOfStep
<1>9. ~loose' => BeforeOfClient' /\ \A b \in Slot : BeforeOfBroker(b)'
  BY <1>1, <1>3, <1>4 DEF BeforeOfClient, BeforeOfBroker
<1>. QED BY <1>1, <1>5, <1>6, <1>7, <1>8, <1>9 DEF Sound

\* The user asks for an action.
LEMMA BeginKeeps ==
    ASSUME HandoverInv, Begin
    PROVE  ControlInv' /\ DeskInv' /\ (~loose' => Sound')
<1> USE ScopesApart DEF HandoverInv, ControlInv, WorkShape
<1>1. /\ UNCHANGED <<entry, receipt, gone, late, broker, proc, broken, loose>> /\ fresh' = {}
      /\ client.at = "idle"
  BY DEF Begin
<1>2. PICK a \in Actions, want \in Nat :
        client' = [Resting EXCEPT !.action = a, !.want = want,
                     !.at = CASE a = "exit" -> "first"
                              [] a = "disable" -> "before"
                              [] a = "restore" -> "userBack"
                              [] OTHER -> "gate"]
  <2>1. tray.born \in Nat
    BY DEF OtherShape
  <2>2. PICK a \in Actions : \E want \in IF a = "exit" THEN 1 .. tray.born ELSE {0} :
          client' = [Resting EXCEPT !.action = a, !.want = want,
                       !.at = CASE a = "exit" -> "first"
                                [] a = "disable" -> "before"
                                [] a = "restore" -> "userBack"
                                [] OTHER -> "gate"]
    BY DEF Begin
  <2>3. (IF a = "exit" THEN 1 .. tray.born ELSE {0}) \subseteq Nat
    BY <2>1
  <2>. QED BY ONLY <2>2, <2>3
<1>3. PICK at \in {"first", "before", "userBack", "gate"} :
        /\ client' = [Resting EXCEPT !.action = a, !.want = want, !.at = at]
        /\ at = "first" => a = "exit"
        /\ at = "before" => a = "disable"
        /\ at = "userBack" => a = "restore"
        /\ at = "gate" => a \in {"install", "migrate"}
  BY <1>2 DEF Actions
<1>4. /\ client' \in ClientRecord /\ client'.at = at /\ client'.slot = None
      /\ client'.action = a /\ client'.phase = "act"
  BY <1>3 DEF Resting, ClientRecord, ClientSteps
<1>5. client.slot = None /\ proc[Client].at = "off"
  BY <1>1 DEF WhoWorks
<1>6. DeskInv' /\ (~loose' => (\A w \in Worker : ProcOfStep(w)') /\ \A s \in Scope : Covered(s)')
  BY <1>1, QuietKeeps
<1>7. WorkShape' /\ WhoWorks'
  BY <1>1, <1>4, <1>5 DEF WhoWorks
<1>8. ActionOfStep' /\ WhyOfStep' /\ SaidOfStep'
  BY <1>1, <1>3, <1>4, <1>5 DEF ActionOfStep, WhyOfStep, SaidOfStep
<1>9. BeforeOfClient' /\ \A b \in Slot : BeforeOfBroker(b)'
  BY <1>1 DEF BeforeOfClient, BeforeOfBroker, Untouched
<1>10. ~loose' /\ ~broken' => WholeOfClient' /\ \A b \in Slot : WholeOfBroker(b)'
  BY <1>1, <1>3, <1>4 DEF Sound, WholeOfClient, WholeOfBroker, FailedActionRestores, Clear, GivenBack
<1>. QED BY <1>6, <1>7, <1>8, <1>9, <1>10 DEF Sound

\* The user writes or deletes an entry.
LEMMA EditKeeps ==
    ASSUME HandoverInv, Edit
    PROVE  ControlInv' /\ DeskInv' /\ (~loose' => Sound')
<1> USE ScopesApart DEF HandoverInv, ControlInv, WorkShape
<1>1. UNCHANGED <<receipt, client, broker, proc, fresh, broken, loose>>
  BY DEF Edit
<1>2. PICK e \in Entry, c \in Content :
        /\ entry' = [entry EXCEPT ![e] = c] /\ gone' = [gone EXCEPT ![e] = None]
        /\ late' = late \cup {w \in Worker : proc[w].now = e}
  BY DEF Edit
<1>3. /\ DeskShape'
      /\ \A f \in Entry : gone'[f] # None => gone'[f] = gone[f] /\ entry'[f] = entry[f]
  BY <1>1, <1>2 DEF DeskInv, DeskShape
<1>8. ASSUME NEW w \in Worker PROVE Seen(w)'
  <2>1. Seen(w)
    BY DEF DeskInv
  <2>2. proc[w].now = e \/ entry'[proc[w].now] = entry[proc[w].now]
    BY <1>2 DEF DeskInv, DeskShape
  <2>. QED BY <1>1, <1>2, <2>1, <2>2 DEF Seen, Exact
<1>4. DeskInv'
  BY <1>1, <1>3, <1>8 DEF DeskInv, HeldFits, Fits, GoneIsAbsent
<1>5. ControlInv'
  BY <1>1 DEF WhoWorks, ActionOfStep, WhyOfStep, SaidOfStep, Operation
<1>6. /\ \A s \in Scope : Clear(s) => Clear(s)'
      /\ \A s \in Scope : GivenBack(s) => GivenBack(s)'
      /\ \A s \in Scope : Untouched(s) => Untouched(s)'
      /\ "user" \in Scope /\ "machine" \in Scope
  BY <1>1, <1>3 DEF Clear, GivenBack, Untouched, Scope
<1>7. ASSUME ~loose' PROVE Sound'
  <2>1. \A w \in Worker : ProcOfStep(w)'
    BY <1>1, <1>3, <1>6, <1>7 DEF Sound, ProcOfStep, MaySelect
  <2>2. \A s \in Scope : Covered(s)'
    BY <1>1, <1>3, <1>7 DEF Sound, Covered
  <2>3. BeforeOfClient' /\ \A b \in Slot : BeforeOfBroker(b)'
    BY <1>1, <1>6, <1>7 DEF Sound, BeforeOfClient, BeforeOfBroker
  <2>4. ASSUME ~broken' PROVE WholeOfClient' /\ \A b \in Slot : WholeOfBroker(b)'
    <3>1. WholeOfClient /\ \A b \in Slot : WholeOfBroker(b)
      BY <1>1, <1>7, <2>4 DEF Sound
    <3>2. FailedActionRestores'
      BY <1>1, <1>3, <3>1 DEF WholeOfClient, FailedActionRestores, DeskInv, DeskShape
    <3>. QED BY <1>1, <1>6, <3>1, <3>2 DEF WholeOfClient, WholeOfBroker
  <2>. QED BY <2>1, <2>2, <2>3, <2>4 DEF Sound
<1>. QED BY <1>4, <1>5, <1>7

\* MacTray comes and goes beside all of this.
LEMMA StutterKeeps ==
    ASSUME HandoverInv, UNCHANGED <<desk, client, broker, proc, broken, loose>>
    PROVE  ControlInv' /\ DeskInv' /\ (~loose' => Sound')
<1> USE DEF HandoverInv, ControlInv, WorkShape
<1>1. WhoWorks' /\ ActionOfStep' /\ WhyOfStep'
  BY DEF WhoWorks, ActionOfStep, WhyOfStep, Operation
<1>2. ~loose => BeforeOfClient' /\ (~broken => WholeOfClient')
  BY DEF Sound, BeforeOfClient, WholeOfClient, FailedActionRestores, Untouched, Clear, GivenBack, desk
<1>. QED BY <1>1, <1>2, ClientKeeps

-----------------------------------------------------------------------------
(***************************************************************************)
(* Theorems                                                                *)
(***************************************************************************)
\* Any step keeps the counters, MacTray's record and the flags.
LEMMA NextKeepsTheRest ==
    ASSUME HandoverInv, Next
    PROVE  OtherShape' /\ Flags'
<1> USE DEF HandoverInv
<1>1. begun' \in 0 .. MaxBegun
  <2>1. begun' = begun \/ (begun < MaxBegun /\ begun' = begun + 1)
    BY DEF Next, Begin, ClientWorks, TrayExit, Judge, OwnScope, Launch, LaunchFails, SendProfile,
       Receive, PeerExited, ReadExit, Timeout, Continues, Procedure, ClientDies, Outside, Edit,
       TrayComes, TrayGoes, Broker, BrokerDies
  <2>. QED BY <2>1, BoundAssumption DEF OtherShape
<1>2. trouble' \in 0 .. MaxTrouble
  <2>1. trouble' = trouble \/ (trouble < MaxTrouble /\ trouble' = trouble + 1)
    <3>1. \A ok : Try(ok) => trouble' = trouble \/ (trouble < MaxTrouble /\ trouble' = trouble + 1)
      BY DEF Try
    <3>2. CASE Begin \/ ClientWorks
      BY <3>1, <3>2 DEF Begin, ClientWorks, TrayExit, Identify, Notify, AwaitExit, CheckExit,
         Judge, Before, After, Gate, OwnScope, Launch, LaunchFails, SendProfile, Receive, PeerExited,
         ReadExit, Timeout, Procedure, Observe, SelectReceipt, Persist, Recheck, Compare, Delete, Remain,
         Read, Plan, Put, Write, Verify, Mark
    <3>3. CASE ClientDies \/ Outside
      BY <3>3 DEF ClientDies, Outside, Edit, TrayComes, TrayGoes, Calm
    <3>4. ASSUME NEW b \in Slot, Broker(b) \/ Procedure(b) \/ BrokerDies(b)
          PROVE  trouble' = trouble \/ (trouble < MaxTrouble /\ trouble' = trouble + 1)
      BY <3>1, <3>4 DEF Broker, Connect, NoProfile, Refuses, Completes, RunsProcedure, Finished,
         Report, Leave, BrokerDies, Calm, Procedure, Observe, SelectReceipt, Persist, Recheck,
         Compare, Delete, Remain, Read, Plan, Put, Write, Verify, Mark
    <3>. QED BY <3>2, <3>3, <3>4 DEF Next
  <2>. QED BY <2>1, BoundAssumption DEF OtherShape
<1>3. tray' \in [id : Nat, born : Nat, told : Nat]
  <2>1. CASE TrayExit
    BY <2>1 DEF OtherShape, TrayExit, Identify, Notify, AwaitExit, CheckExit
  <2>2. CASE Begin \/ TrayComes \/ TrayGoes
    <3> DEFINE T == [id : Nat, born : Nat, told : Nat]
    <3>1. tray \in T
      BY DEF OtherShape
    <3>2. tray.born + 1 \in Nat
      BY <3>1
    <3>3. Begin => tray' \in T
      BY ONLY <3>1 DEF Begin
    <3>4. TrayComes => tray' \in T
      BY ONLY <3>1, <3>2 DEF TrayComes
    <3>5. TrayGoes => tray' \in T
      BY ONLY <3>1 DEF TrayGoes
    <3>. QED BY <2>2, <3>3, <3>4, <3>5
  <2>3. CASE ~(TrayExit \/ Begin \/ TrayComes \/ TrayGoes)
    <3>1. tray' = tray
      BY <2>3 DEF Next, ClientWorks, Judge, OwnScope, Launch, LaunchFails, SendProfile, Receive,
         PeerExited, ReadExit, Timeout, Continues, Procedure, ClientDies, Outside, Edit, Broker,
         BrokerDies
    <3>. QED BY <3>1 DEF OtherShape
  <2>. QED BY <2>1, <2>2, <2>3
<1>4. service' \in BOOLEAN
  <2>1. service' = service \/ service' = TRUE
    BY DEF Next, Begin, ClientWorks, TrayExit, Judge, OwnScope, Launch, LaunchFails, SendProfile,
       Receive, PeerExited, ReadExit, Timeout, Continues, Procedure, ClientDies, Outside, Edit,
       TrayComes, TrayGoes, Broker, Connect, NoProfile, Refuses, Completes, RunsProcedure, Finished,
       Report, Leave, BrokerDies
  <2>. QED BY <2>1 DEF Flags
<1>5. loose' \in BOOLEAN
  <2>1. loose' = loose \/ \E x \in BOOLEAN : loose' = (loose \/ x)
    <3>1. Timeout => \E x \in BOOLEAN : loose' = (loose \/ x)
      BY DEF Timeout, Terminate
    <3>2. ClientDies => \E x \in BOOLEAN : loose' = (loose \/ x)
      BY DEF ClientDies
    <3>. QED BY <3>1, <3>2 DEF Next, Begin, ClientWorks, TrayExit, Judge, OwnScope, Launch,
       LaunchFails, SendProfile, Receive, PeerExited, ReadExit, Procedure, Outside, Edit,
       TrayComes, TrayGoes, Broker, BrokerDies
  <2>. QED BY <2>1 DEF Flags
<1>6. broken' \in BOOLEAN
  <2>1. \A w, ok : Ends(w, ok) => broken' \in BOOLEAN
    BY DEF Ends
  <2>2. \A w : Procedure(w) => broken' \in BOOLEAN
    BY <2>1 DEF Flags, Procedure, Observe, SelectReceipt, Persist, Recheck, Compare, Delete, Remain,
       Read, Plan, Put, Write, Verify, Mark
  <2>3. LaunchFails \/ PeerExited \/ ReadExit \/ Timeout => broken' \in BOOLEAN
    BY DEF Flags, LaunchFails, PeerExited, ReadExit, Timeout
  <2>. QED BY <2>2, <2>3 DEF Flags, Next, Begin, ClientWorks, TrayExit, Judge, OwnScope, Launch,
       SendProfile, Receive, ClientDies, Outside, Edit, TrayComes, TrayGoes, Broker, BrokerDies
<1>. QED BY <1>1, <1>2, <1>3, <1>4, <1>5, <1>6 DEF OtherShape, Flags

\* The invariant holds at first.
LEMMA HandoverInvInit == Init => HandoverInv
<1> SUFFICES ASSUME Init PROVE HandoverInv
  OBVIOUS
<1> USE ScopesApart, NoBrokerIs, NoProcIs DEF Init
<1>1. DeskShape
  BY DEF DeskShape, Content, Ours
<1>2. WorkShape
  BY DEF WorkShape, Resting, ClientRecord, ClientSteps
<1>3. HeldFits /\ GoneIsAbsent /\ \A w \in Worker : Seen(w)
  BY DEF HeldFits, GoneIsAbsent, Seen
<1>4. WhoWorks /\ ActionOfStep /\ WhyOfStep /\ SaidOfStep
  BY DEF WhoWorks, ActionOfStep, WhyOfStep, SaidOfStep, Resting
<1>5. OtherShape /\ Flags
  <2>1. tray \in [id : Nat, born : Nat, told : Nat]
    BY ONLY Init DEF Init
  <2>2. begun \in 0 .. MaxBegun /\ trouble \in 0 .. MaxTrouble
    BY ONLY Init, BoundAssumption DEF Init
  <2>3. Flags
    BY ONLY Init DEF Init, Flags
  <2>. QED BY <2>1, <2>2, <2>3 DEF OtherShape
<1>6. Sound
  BY DEF Sound, ProcOfStep, Covered, BeforeOfClient, BeforeOfBroker, WholeOfClient, WholeOfBroker,
     FailedActionRestores, Resting
<1>. QED BY <1>1, <1>2, <1>3, <1>4, <1>5, <1>6 DEF HandoverInv, ControlInv, DeskInv

\* Every step keeps the invariant.
LEMMA HandoverInvNext == HandoverInv /\ [Next]_vars => HandoverInv'
<1> SUFFICES ASSUME HandoverInv, [Next]_vars PROVE HandoverInv'
  OBVIOUS
<1>1. OtherShape' /\ Flags'
  <2>1. CASE Next
    BY <2>1, NextKeepsTheRest
  <2>2. CASE UNCHANGED vars
    BY <2>2 DEF HandoverInv, OtherShape, Flags, vars
  <2>. QED BY <2>1, <2>2
<1>2. ControlInv' /\ DeskInv' /\ (~loose' => Sound')
  <2>1. CASE Begin \/ ClientDies \/ Edit
    BY <2>1, BeginKeeps, ClientDiesKeeps, EditKeeps
  <2>2. CASE ClientWorks
    <3>1. Client \in Worker
      BY ScopesApart
    <3>. QED BY <2>2, <3>1, TrayExitKeeps, JudgeKeeps, StartOwnKeeps, FinishOwnKeeps, LaunchKeeps,
         LaunchFailsKeeps, SendProfileKeeps, ReceiveKeeps, PeerExitedKeeps, TimeoutKeeps,
         ProcedureKeeps DEF ClientWorks, OwnScope
  <2>3. CASE TrayComes \/ TrayGoes \/ UNCHANGED vars
    BY <2>3, StutterKeeps DEF TrayComes, TrayGoes, vars, desk
  <2>4. ASSUME NEW b \in Slot, Broker(b) \/ Procedure(b) \/ BrokerDies(b)
        PROVE  ControlInv' /\ DeskInv' /\ (~loose' => Sound')
    BY <2>4, ScopesApart, BrokerKeeps, ProcedureKeeps, BrokerDiesKeeps
  <2>. QED BY <2>1, <2>2, <2>3, <2>4 DEF Next, Outside
<1>. QED BY <1>1, <1>2 DEF HandoverInv

\* The invariant holds throughout.
LEMMA HandoverInvariantly == Spec => []HandoverInv
  BY HandoverInvInit, HandoverInvNext, PTL DEF Spec

\* Wherever a process dies and whatever the user does meanwhile, an entry that was
\* removed and that nobody replaced is held by a receipt that still asks for it
\* (disable_startup_scope and restore_startup_with), for every set of entries.
THEOREM RemovedIsCovered == Spec => []ReceiptCoversRemoved
<1>1. HandoverInv => ReceiptCoversRemoved
  BY ScopesApart DEF HandoverInv, Sound, Covered, ReceiptCoversRemoved
<1>. QED BY <1>1, HandoverInvariantly, PTL

\* One broker works at a time, and an action that reports a failure has given back
\* what it took (launch_elevated_broker, finish_action_with_startup_receipts).
THEOREM HandoverKeepsItsWord == Spec => []HandoverInvariant
<1>1. HandoverInv => HandoverTypeOK
  <2> SUFFICES ASSUME HandoverInv PROVE HandoverTypeOK
    OBVIOUS
  <2> USE DEF HandoverInv, ControlInv, DeskInv
  <2>1. /\ entry \in [Entry -> Content] /\ gone \in [Entry -> Ours \cup {None}]
        /\ fresh \subseteq Entry /\ late \subseteq Worker
    BY DEF DeskShape
  <2>2. \A s \in Scope :
          receipt[s] # None => /\ receipt[s] \in Receipt
                               /\ DOMAIN receipt[s].entries \subseteq EntriesOf(s)
                               /\ DOMAIN receipt[s].entries # {}
    BY DEF DeskShape, HeldFits, Fits
  <2>3. /\ client.at \in ClientSteps /\ client.action \in Actions \cup {None}
        /\ client.said \in {None, "ok", "failed", "refused", "preflight"}
        /\ client.at \in {"profile", "await", "exitCode"} => client.slot \in Slot
    BY ScopesApart DEF WorkShape, ClientRecord, WhoWorks
  <2>4. /\ \A b \in Slot : broker[b].at \in BrokerSteps /\ proc[b].at \in ProcSteps
        /\ \A b \in Slot : proc[b].at # "off" => broker[b].at = "proc"
        /\ proc[Client].at # "off" => client.at \in {"userOff", "userBack"}
    BY ScopesApart DEF WorkShape, BrokerRecord, ProcRecord, WhoWorks
  <2>. QED BY <2>1, <2>2, <2>3, <2>4 DEF HandoverTypeOK, OtherShape, Flags
<1>2. HandoverInv => OneBroker
  <2> SUFFICES ASSUME HandoverInv, ~loose PROVE Cardinality({b \in Slot : Alive(b)}) <= 1
    BY DEF OneBroker
  <2>1. {b \in Slot : Alive(b)} = {} \/ {b \in Slot : Alive(b)} = {client.slot}
    BY DEF HandoverInv, ControlInv, WhoWorks, Alive
  <2>2. Cardinality({}) = 0 /\ Cardinality({client.slot}) = 1
    BY ONLY FS_EmptySet, FS_Singleton
  <2>. QED BY ONLY <2>1, <2>2
<1>3. HandoverInv => FailedActionRestores
  BY DEF HandoverInv, Sound, WholeOfClient, FailedActionRestores
<1>. QED BY <1>1, <1>2, <1>3, HandoverInvariantly, PTL DEF HandoverInvariant

\* Unless somebody changed that very entry between our look at it and our next call
\* (remove_artifact_exact, restore_artifact_if_absent), no step of ours removes
\* anything but the bytes that the receipt holds or writes over anything; and none
\* tells another process than the named one to exit.
THEOREM UserStaysInControl == Spec => UserKeepsControl
<1>1. HandoverInv /\ [Next]_vars => [NeverOverwritesUserEdits /\ ExitOnlyTheNamed]_vars
  <2> SUFFICES ASSUME HandoverInv, Next PROVE NeverOverwritesUserEdits /\ ExitOnlyTheNamed
    OBVIOUS
  <2> USE ScopesApart DEF HandoverInv
  <2>1. ASSUME NEW w \in Worker, Procedure(w) PROVE NeverOverwritesUserEdits
    <3> SUFFICES ASSUME NEW e \in Entry, entry'[e] # entry[e]
                 PROVE  \/ entry[e] = "absent"
                        \/ /\ entry'[e] = "absent"
                           /\ ~loose => \E s \in Scope :
                                          /\ receipt[s] # None /\ e \in DOMAIN receipt[s].entries
                                          /\ receipt[s].entries[e] = entry[e]
                        \/ w \in late /\ proc[w].now = e /\ proc'[w] # proc[w]
      BY DEF NeverOverwritesUserEdits
    <3>1. Delete(w) \/ Write(w)
      BY <2>1 DEF Procedure, Observe, SelectReceipt, Persist, Recheck, Compare, Remain, Read, Plan,
         Put, Verify, Mark, desk
    <3>4. proc'[w] # proc[w]
      BY <3>1 DEF Delete, Write, Taken, Handled, Holding, ControlInv, WorkShape, ProcRecord
    <3>2. CASE Delete(w)
      <4>1. entry' = [entry EXCEPT ![proc[w].now] = "absent"] /\ proc[w].at = "delete"
        BY <3>2 DEF Delete, Taken
      <4>2. proc[w].now = e /\ entry'[e] = "absent"
        BY <4>1 DEF DeskInv, DeskShape
      <4>3. /\ Fits(proc[w].held, ScopeOf(w)) /\ e \in DOMAIN proc[w].held.entries
            /\ w \in late \/ Exact(w, e)
        BY <4>1, <4>2 DEF DeskInv, HeldFits, Seen
      <4>4. ~loose => receipt[ScopeOf(w)] = proc[w].held
        BY <4>1 DEF Sound, ProcOfStep
      <4>. QED BY <3>4, <4>2, <4>3, <4>4 DEF Exact, Fits
    <3>3. CASE Write(w)
      <4>1. /\ entry' = [entry EXCEPT ![proc[w].now] = proc[w].held.entries[proc[w].now]]
            /\ proc[w].at = "write"
        BY <3>3 DEF Write
      <4>2. proc[w].now = e
        BY <4>1 DEF DeskInv, DeskShape
      <4>. QED BY <3>4, <4>1, <4>2 DEF DeskInv, Seen
    <3>. QED BY <3>1, <3>2, <3>3
  <2>2. ASSUME ~Outside, ~\E w \in Worker : Procedure(w) PROVE NeverOverwritesUserEdits
    <3>1. entry' = entry
      BY <2>2 DEF Next, Begin, ClientWorks, TrayExit, Judge, OwnScope, Launch, LaunchFails,
         SendProfile, Receive, PeerExited, ReadExit, Timeout, Continues, ClientDies, Broker,
         BrokerDies, desk
    <3>. QED BY ONLY <3>1 DEF NeverOverwritesUserEdits
  <2>3. NeverOverwritesUserEdits
    BY <2>1, <2>2 DEF NeverOverwritesUserEdits
  <2>4. ExitOnlyTheNamed
    <3>1. CASE Notify
      BY <3>1 DEF ExitOnlyTheNamed, Notify, Named, OtherShape
    <3>2. CASE Begin \/ AwaitExit \/ TrayComes \/ TrayGoes
      BY <3>2 DEF ExitOnlyTheNamed, Begin, AwaitExit, TrayComes, TrayGoes, OtherShape
    <3>3. CASE ~(Notify \/ Begin \/ AwaitExit \/ TrayComes \/ TrayGoes)
      <4>1. tray' = tray
        BY <3>3 DEF Next, ClientWorks, TrayExit, Identify, CheckExit, Judge, OwnScope, Launch,
           LaunchFails, SendProfile, Receive, PeerExited, ReadExit, Timeout, Continues, Procedure,
           ClientDies, Outside, Edit, Broker, BrokerDies
      <4>. QED BY <4>1 DEF ExitOnlyTheNamed
    <3>. QED BY <3>1, <3>2, <3>3
  <2>. QED BY <2>3, <2>4
<1>. QED BY <1>1, HandoverInvariantly, PTL DEF Spec, UserKeepsControl
=============================================================================
