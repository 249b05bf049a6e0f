------------------------ MODULE ControlCenterProofs ------------------------
(***************************************************************************)
(* Proofs about the components of the control center: the preview manager  *)
(* with its helper processes, the run profile, and the profile editor.     *)
(***************************************************************************)
EXTENDS PreviewHelper, RunProfile, FiniteSetTheorems, TLAPS

(***************************************************************************)
(* The preview manager: no helper process is forgotten                     *)
(***************************************************************************)
Root == Roots \cup {NoRoot}
Kind == Verb \cup {"hello", "eof"} \cup ReplyKinds
Packet == [id : 0 .. IdSpace - 1, kind : Kind, ticket : Nat]
Process == [life : {"up", "dead"}, engine : Engine, root : Root, core : 0 .. 1, window : BOOLEAN,
            queue : Seq(Packet), out : Seq(Packet), responses : Seq(Packet),
            heard : BOOLEAN, reading : BOOLEAN]
Request == [at : {"idle", "ensure", "hello", "send", "await"}, verb : Verb, engine : Engine,
            root : Root, attempt : 0 .. 1, helper : Nat, id : 0 .. IdSpace - 1, ticket : Nat,
            from : Nat]

\* What the proofs need of the types.
PreviewShape ==
    /\ root \in Root
    /\ next \in 0 .. IdSpace - 1
    /\ ticket \in Nat
    /\ slot \in [Engine -> [helper : Nat, root : Root, core : 0 .. 1]]
    /\ proc \in Seq(Process)
    /\ cmd \in Request
    /\ app \in {"up", "gone"}

\* What a step may do to a process that exists: it keeps what it was started
\* with, and does not come back to life.
Successor(old, new) ==
    /\ new \in Process
    /\ new.engine = old.engine /\ new.root = old.root /\ new.core = old.core
    /\ new.life = "up" => old.life = "up"

\* Processes are only ever added.
Grown ==
    /\ proc' \in Seq(Process)
    /\ Len(proc') \in Nat /\ Len(proc') >= Len(proc)
    /\ \A p \in Helper : p \in 1 .. Len(proc') /\ Successor(proc[p], proc'[p])

LEMMA Replaces ==
    ASSUME NEW S, NEW s \in Seq(S), NEW i \in 1 .. Len(s), NEW x \in S,
           NEW t, t = [s EXCEPT ![i] = x]
    PROVE  /\ t \in Seq(S) /\ Len(t) = Len(s) /\ t[i] = x
           /\ \A j \in 1 .. Len(s) : j # i => t[j] = s[j]
OBVIOUS

LEMMA Appends ==
    ASSUME NEW S, NEW s \in Seq(S), NEW x \in S, NEW t, t = Append(s, x)
    PROVE  /\ t \in Seq(S) /\ Len(t) = Len(s) + 1 /\ t[Len(s) + 1] = x
           /\ \A j \in 1 .. Len(s) : t[j] = s[j]
OBVIOUS

\* One process is replaced by a successor of it.
LEMMA OneSucceeds ==
    ASSUME proc \in Seq(Process), NEW p \in Helper, NEW r, Successor(proc[p], r),
           proc' = [proc EXCEPT ![p] = r]
    PROVE  /\ Grown /\ Len(proc') = Len(proc) /\ proc'[p] = r
           /\ \A q \in Helper : q # p => proc'[q] = proc[q]
<1>1. r \in Process
  BY DEF Successor
<1>2. /\ proc' \in Seq(Process) /\ Len(proc') = Len(proc) /\ proc'[p] = r
      /\ \A j \in 1 .. Len(proc) : j # p => proc'[j] = proc[j]
  BY <1>1, Replaces DEF Helper
<1>3. \A q \in Helper : proc[q] \in Process
  BY DEF Helper
<1>4. \A q \in Helper : Successor(proc[q], proc'[q])
  BY <1>2, <1>3 DEF Helper, Successor
<1>5. Len(proc) \in Nat
  OBVIOUS
<1>. QED BY <1>2, <1>4, <1>5 DEF Grown, Helper

LEMMA KilledSucceeds ==
    ASSUME proc \in Seq(Process), NEW p \in Helper
    PROVE  Successor(proc[p], Kill(p)) /\ Kill(p).life = "dead"
<1>1. proc[p] \in Process /\ <<>> \in Seq(Packet)
  BY DEF Helper
<1>. QED BY <1>1 DEF Successor, Kill, Process

\* stop_engine: the helper in the slot, if there is one, is dead and forgotten.
LEMMA Stops ==
    ASSUME PreviewShape, NEW e \in Engine, slot[e].helper \in Helper \cup {Nobody}, StopEngine(e)
    PROVE  /\ Grown /\ Len(proc') = Len(proc)
           /\ \A q \in Helper : q # slot[e].helper => proc'[q] = proc[q]
           /\ slot[e].helper # Nobody => proc'[slot[e].helper].life = "dead"
           /\ slot' = [slot EXCEPT ![e] = EmptySlot]
<1>0. proc \in Seq(Process) /\ slot' = [slot EXCEPT ![e] = EmptySlot]
  BY DEF PreviewShape, StopEngine
<1>1. CASE slot[e].helper = Nobody
  <2>1. proc' = proc
    BY <1>1 DEF StopEngine
  <2>2. Grown
    BY <1>0, <2>1 DEF Grown, Helper, Successor
  <2>. QED BY <1>0, <1>1, <2>1, <2>2
<1>2. CASE slot[e].helper # Nobody
  <2> DEFINE h == slot[e].helper
  <2>1. h \in Helper /\ proc' = [proc EXCEPT ![h] = Kill(h)]
    BY <1>2 DEF StopEngine
  <2>2. Successor(proc[h], Kill(h)) /\ Kill(h).life = "dead"
    BY <1>0, <2>1, KilledSucceeds
  <2>. QED BY <1>0, <2>1, <2>2, OneSucceeds
<1>. QED BY <1>1, <1>2

\* A slot holds a helper of its engine, started from the slot's root, that has
\* reported the slot's version.
SlotsHold ==
    \A e \in Engine : slot[e].helper # Nobody =>
        /\ slot[e].helper \in Helper
        /\ proc[slot[e].helper].engine = e
        /\ proc[slot[e].helper].root = slot[e].root
        /\ proc[slot[e].helper].core = slot[e].core
        /\ e = "mactype" => slot[e].core # 0

\* A helper that runs is in the slot of its engine, or is the one whose HELLO
\* the command waits for.
NothingLeaks ==
    app = "up" =>
      \A p \in Helper : proc[p].life = "up" =>
          \/ slot[proc[p].engine].helper = p
          \/ cmd.at = "hello" /\ cmd.helper = p

\* What a command that is under way relies on.
CommandHolds ==
    /\ cmd.at = "idle" => cmd = NoCommand
    /\ cmd.at # "idle" => app = "up" /\ cmd.from <= Len(proc)
    /\ cmd.verb \in Probes => cmd.engine = "mactype"
    /\ cmd.at \in {"send", "await"} =>
         /\ cmd.verb \notin Probes
         /\ slot[cmd.engine].helper # Nobody /\ slot[cmd.engine].root = cmd.root
    /\ cmd.at = "await" => cmd.helper = slot[cmd.engine].helper
    /\ cmd.at = "hello" =>
         /\ cmd.helper \in Helper
         /\ proc[cmd.helper].engine = cmd.engine /\ proc[cmd.helper].root = cmd.root
         /\ slot[cmd.engine].helper = Nobody
         /\ Len(proc) > cmd.from
    /\ cmd.attempt = 1 /\ cmd.at \in {"send", "await"} => Len(proc) > cmd.from
    /\ cmd.attempt = 1 /\ cmd.at = "ensure" => slot[cmd.engine].helper = Nobody

ControlInv == PreviewShape /\ SlotsHold /\ NothingLeaks /\ CommandHolds

\* Identifiers advance by one and skip 0.
LEMMA NextIdIs ==
    ASSUME NEW n \in 0 .. IdSpace - 1
    PROVE  /\ NextId(n) = IF n + 1 = IdSpace THEN 1 ELSE n + 1
           /\ NextId(n) \in 1 .. IdSpace - 1
<1>1. IdSpace \in Nat /\ IdSpace > 3
  BY IdSpaceAssumption
<1>2. CASE n + 1 = IdSpace
  <2>1. (n + 1) % IdSpace = 0
    BY <1>1, <1>2
  <2>. QED BY <1>1, <1>2, <2>1 DEF NextId
<1>3. CASE n + 1 # IdSpace
  <2>1. (n + 1) % IdSpace = n + 1
    BY <1>1, <1>3
  <2>. QED BY <1>1, <1>3, <2>1 DEF NextId
<1>. QED BY <1>2, <1>3

LEMMA Draws ==
    ASSUME PreviewShape, NEW n \in 1 .. 2, TakeIds(n)
    PROVE  /\ next' \in 1 .. IdSpace - 1 /\ next' \in 0 .. IdSpace - 1
           /\ ticket' \in Nat /\ ticket' = ticket + n
<1>1. next \in 0 .. IdSpace - 1 /\ ticket \in Nat
  BY DEF PreviewShape
<1>2. NextId(next) \in 1 .. IdSpace - 1 /\ NextId(next) \in 0 .. IdSpace - 1
  BY <1>1, NextIdIs, IdSpaceAssumption
<1>3. NextId(NextId(next)) \in 1 .. IdSpace - 1
  BY <1>2, NextIdIs
<1>4. next' \in 1 .. IdSpace - 1 /\ ticket' = ticket + n
  BY <1>2, <1>3 DEF TakeIds
<1>. QED BY <1>1, <1>4, IdSpaceAssumption

\* Slots that kept their helpers, or lost them, are as good as before.
LEMMA SlotsStay ==
    ASSUME PreviewShape, SlotsHold, Grown,
           \A e \in Engine : slot'[e] = slot[e] \/ slot'[e] = EmptySlot
    PROVE  SlotsHold'
<1> SUFFICES ASSUME NEW e \in Engine, slot'[e].helper # Nobody
             PROVE  /\ slot'[e].helper \in Helper'
                    /\ proc'[slot'[e].helper].engine = e
                    /\ proc'[slot'[e].helper].root = slot'[e].root
                    /\ proc'[slot'[e].helper].core = slot'[e].core
                    /\ e = "mactype" => slot'[e].core # 0
  BY DEF SlotsHold
<1>1. slot'[e] = slot[e]
  BY DEF EmptySlot
<1>2. slot[e].helper \in Helper
  BY <1>1 DEF SlotsHold
<1>3. slot[e].helper \in Helper' /\ Successor(proc[slot[e].helper], proc'[slot[e].helper])
  BY <1>2 DEF Grown, Helper
<1>. QED BY <1>1, <1>3 DEF SlotsHold, Successor

LEMMA RequestIsTyped == NoCommand \in Request /\ EmptySlot \in [helper : Nat, root : Root, core : 0 .. 1]
BY IdSpaceAssumption DEF NoCommand, Request, EmptySlot, Root, Verb, Engine, Nobody

\* Nothing of the manager changes, and no process appears.
LEMMA WorldStays ==
    ASSUME ControlInv, Grown, Len(proc') = Len(proc), UNCHANGED <<next, slot, cmd, app, ticket>>, root' \in Root
    PROVE  ControlInv'
<1>1. PreviewShape'
  BY DEF ControlInv, PreviewShape, Grown
<1>2. SlotsHold'
  BY SlotsStay DEF ControlInv
<1>3. \A p \in Helper : Successor(proc[p], proc'[p])
  BY DEF Grown
<1>4. Helper' = Helper
  BY DEF Helper
<1>5. NothingLeaks'
  BY <1>3, <1>4 DEF ControlInv, NothingLeaks, Successor
<1>6. CommandHolds'
  BY <1>3, <1>4 DEF ControlInv, CommandHolds, Successor
<1>. QED BY <1>1, <1>2, <1>5, <1>6 DEF ControlInv

LEMMA ServeSucceeds ==
    ASSUME PreviewShape, NEW p \in Helper, Serve(p)
    PROVE  Grown /\ Len(proc') = Len(proc)
<1>1. proc \in Seq(Process) /\ proc[p] \in Process
  BY DEF PreviewShape, Helper
<1> DEFINE request == Head(proc[p].queue)
<1>2. request \in Packet /\ Tail(proc[p].queue) \in Seq(Packet) /\ proc[p].out \in Seq(Packet)
  BY <1>1 DEF Serve, Process
<1>3. PICK kind \in Replies(request.kind) :
         proc' = [proc EXCEPT ![p] =
                    [proc[p] EXCEPT !.queue = Tail(@), !.out = Append(@, Frame(request.id, kind, request.ticket)),
                              !.window = IF kind = "state" THEN request.kind = "show" ELSE @]]
  BY DEF Serve
<1>4. kind \in Kind
  BY <1>3 DEF Replies, Kind, ReplyKinds
<1>5. Frame(request.id, kind, request.ticket) \in Packet
  BY <1>2, <1>4 DEF Frame, Packet
<1>6. Append(proc[p].out, Frame(request.id, kind, request.ticket)) \in Seq(Packet)
  BY <1>2, <1>5
<1> DEFINE w == IF kind = "state" THEN request.kind = "show" ELSE proc[p].window
           r == [proc[p] EXCEPT !.queue = Tail(@), !.out = Append(@, Frame(request.id, kind, request.ticket)),
                              !.window = w]
<1>7. w \in BOOLEAN
  BY <1>1, Zenon DEF Process
<1> HIDE DEF w, request
<1>8. Successor(proc[p], r)
  BY <1>1, <1>2, <1>6, <1>7 DEF Successor, Process
<1>9. proc' = [proc EXCEPT ![p] = r]
  BY <1>3, Zenon DEF w
<1> HIDE DEF r
<1>. QED BY <1>1, <1>8, <1>9, OneSucceeds

\* Everything else a helper does, or that happens to it.
LEMMA HelperSucceeds ==
    ASSUME PreviewShape, NEW p \in Helper,
           CloseWindow(p) \/ Crash(p) \/ Route(p) \/ RouteEof(p) \/ EndOfInput(p)
    PROVE  Grown /\ Len(proc') = Len(proc)
<1>1. proc \in Seq(Process) /\ proc[p] \in Process
  BY DEF PreviewShape, Helper
<1>2. /\ proc[p].out \in Seq(Packet) /\ proc[p].responses \in Seq(Packet) /\ <<>> \in Seq(Packet)
      /\ TRUE \in BOOLEAN /\ FALSE \in BOOLEAN
  BY <1>1 DEF Process
<1>3. Frame(0, "state", 0) \in Packet /\ Eof \in Packet
  BY IdSpaceAssumption DEF Frame, Eof, Packet, Kind, ReplyKinds
<1>4. CASE CloseWindow(p)
  <2> DEFINE r == [proc[p] EXCEPT !.window = FALSE, !.out = Append(@, Frame(0, "state", 0))]
  <2>1. Append(proc[p].out, Frame(0, "state", 0)) \in Seq(Packet)
    BY <1>2, <1>3
  <2>2. Successor(proc[p], r)
    BY <1>1, <1>2, <2>1 DEF Successor, Process
  <2>3. proc' = [proc EXCEPT ![p] = r]
    BY <1>4 DEF CloseWindow
  <2> HIDE DEF r
  <2>. QED BY <1>1, <2>2, <2>3, OneSucceeds
<1>5. CASE Crash(p) \/ EndOfInput(p)
  <2> DEFINE r == [proc[p] EXCEPT !.life = "dead", !.queue = <<>>]
  <2>2. Successor(proc[p], r)
    BY <1>1, <1>2 DEF Successor, Process
  <2>3. proc' = [proc EXCEPT ![p] = r]
    BY <1>5 DEF Crash, EndOfInput
  <2> HIDE DEF r
  <2>. QED BY <1>1, <2>2, <2>3, OneSucceeds
<1>6. CASE Route(p)
  <2> DEFINE frame == Head(proc[p].out)
             a == [proc[p] EXCEPT !.out = Tail(@)]
             b == [proc[p] EXCEPT !.out = Tail(@), !.responses = Append(@, frame)]
             c == [proc[p] EXCEPT !.out = <<>>, !.reading = FALSE]
  <2>1. frame \in Packet /\ Tail(proc[p].out) \in Seq(Packet)
    BY <1>2, <1>6 DEF Route
  <2>2. Append(proc[p].responses, frame) \in Seq(Packet)
    BY <1>2, <2>1
  <2>3. \/ proc' = [proc EXCEPT ![p] = a] \/ proc' = [proc EXCEPT ![p] = b]
        \/ proc' = [proc EXCEPT ![p] = c]
    BY <1>6 DEF Route
  <2> HIDE DEF frame
  <2>4. Successor(proc[p], a) /\ Successor(proc[p], b) /\ Successor(proc[p], c)
    BY <1>1, <1>2, <2>1, <2>2 DEF Successor, Process
  <2> HIDE DEF a, b, c
  <2>. QED BY <1>1, <2>3, <2>4, OneSucceeds
<1>7. CASE RouteEof(p)
  <2> DEFINE answers == IF proc[p].heard THEN Append(proc[p].responses, Eof) ELSE proc[p].responses
             r == [proc[p] EXCEPT !.reading = FALSE, !.responses = answers]
  <2>1. answers \in Seq(Packet)
    BY <1>2, <1>3
  <2>2. proc' = [proc EXCEPT ![p] = r]
    BY <1>7 DEF RouteEof
  <2> HIDE DEF answers
  <2>3. Successor(proc[p], r)
    BY <1>1, <1>2, <2>1 DEF Successor, Process
  <2> HIDE DEF r
  <2>. QED BY <1>1, <2>2, <2>3, OneSucceeds
<1>. QED BY <1>4, <1>5, <1>6, <1>7

LEMMA HelperStepKeeps ==
    ASSUME ControlInv, NEW p \in Helper, HelperStep(p)
    PROVE  ControlInv'
<1>1. Grown /\ Len(proc') = Len(proc)
  BY ServeSucceeds, HelperSucceeds DEF HelperStep, ControlInv
<1>2. UNCHANGED <<next, slot, cmd, app, ticket>> /\ root' = root /\ root \in Root
  BY DEF HelperStep, Serve, CloseWindow, Crash, Route, RouteEof, EndOfInput, World, ControlInv, PreviewShape
<1>. QED BY <1>1, <1>2, WorldStays

\* Every helper that runs is in the slot of its engine.
AllHeld == \A p \in Helper : proc[p].life = "up" => slot[proc[p].engine].helper = p

LEMMA SlotsAreKnown ==
    ASSUME ControlInv, NEW e \in Engine
    PROVE  slot[e].helper \in Helper \cup {Nobody}
BY DEF ControlInv, SlotsHold

\* Stopping an engine leaves no helper of it behind.
LEMMA StopLeavesNone ==
    ASSUME ControlInv, app = "up", cmd.at # "hello", NEW e \in Engine, StopEngine(e)
    PROVE  /\ Grown /\ Len(proc') = Len(proc)
           /\ slot' \in [Engine -> [helper : Nat, root : Root, core : 0 .. 1]]
           /\ slot'[e].helper = Nobody
           /\ SlotsHold' /\ AllHeld'
<1>1. /\ Grown /\ Len(proc') = Len(proc)
      /\ slot[e].helper # Nobody => proc'[slot[e].helper].life = "dead"
      /\ slot' = [slot EXCEPT ![e] = EmptySlot]
  BY SlotsAreKnown, Stops DEF ControlInv
<1>2. /\ slot' \in [Engine -> [helper : Nat, root : Root, core : 0 .. 1]]
      /\ slot'[e] = EmptySlot /\ slot'[e].helper = Nobody
      /\ \A f \in Engine : f # e => slot'[f] = slot[f]
  BY <1>1, RequestIsTyped DEF ControlInv, PreviewShape, EmptySlot
<1>3. SlotsHold'
  BY <1>1, <1>2, SlotsStay DEF ControlInv
<1>4. AllHeld'
  <2> SUFFICES ASSUME NEW p \in Helper', proc'[p].life = "up" PROVE slot'[proc'[p].engine].helper = p
    BY DEF AllHeld
  <2>1. p \in Helper
    BY <1>1 DEF Helper
  <2>2. Successor(proc[p], proc'[p]) /\ proc[p] \in Process
    BY <1>1, <2>1 DEF Grown, ControlInv, PreviewShape, Helper
  <2>3. proc'[p].engine = proc[p].engine /\ slot[proc[p].engine].helper = p /\ proc[p].engine \in Engine
    BY <2>1, <2>2 DEF Successor, ControlInv, NothingLeaks, Process
  <2>4. p # Nobody
    BY <2>1 DEF Helper, Nobody
  <2>5. proc[p].engine # e
    BY <1>1, <2>3, <2>4
  <2>. QED BY <1>2, <2>3, <2>5
<1>. QED BY <1>1, <1>2, <1>3, <1>4

LEMMA AllHeldIsEnough ==
    ASSUME AllHeld'
    PROVE  NothingLeaks'
BY DEF AllHeld, NothingLeaks

LEMMA NothingIsHeldTwice ==
    ASSUME ControlInv, cmd.at # "hello", app = "up"
    PROVE  AllHeld
BY DEF ControlInv, NothingLeaks, AllHeld

LEMMA BeginKeeps ==
    ASSUME ControlInv, NEW v \in Verb, NEW e \in Engine, Begin(v, e)
    PROVE  ControlInv'
<1>1. /\ app = "up" /\ app' = "up" /\ cmd = NoCommand /\ root' = root /\ cmd' = Entering(v, e)
      /\ e = "plain" => v = "render"
  BY DEF Begin
<1>2. cmd.at = "idle"
  BY <1>1 DEF NoCommand
<1>3. Len(proc) \in Nat /\ root \in Root
  BY DEF ControlInv, PreviewShape
<1>4. cmd' \in Request /\ cmd'.at = "ensure" /\ cmd'.attempt = 0 /\ cmd'.verb = v /\ cmd'.engine = e
  BY <1>1, <1>3, RequestIsTyped DEF Entering, NoCommand, Request
<1>4a. cmd'.from = Len(proc)
  BY <1>1 DEF Entering, NoCommand
<1>5. v \in Probes => e = "mactype"
  BY <1>1 DEF Probes, Engine
<1>6. Len(proc') = Len(proc) => CommandHolds'
  BY <1>1, <1>3, <1>4, <1>4a, <1>5 DEF CommandHolds
<1>7. CASE v = "reconnect"
  <2>1. StopEngine(e) /\ TakeIds(1)
    BY <1>7 DEF Begin
  <2>2. /\ Grown /\ SlotsHold' /\ AllHeld' /\ Len(proc') = Len(proc)
        /\ slot' \in [Engine -> [helper : Nat, root : Root, core : 0 .. 1]]
    BY <1>1, <1>2, <2>1, StopLeavesNone
  <2>3. next' \in 0 .. IdSpace - 1 /\ ticket' \in Nat
    BY <2>1, Draws DEF ControlInv
  <2>4. PreviewShape'
    BY <1>1, <1>3, <1>4, <2>2, <2>3 DEF PreviewShape, Grown
  <2>. QED BY <1>6, <2>2, <2>4, AllHeldIsEnough DEF ControlInv
<1>8. CASE v # "reconnect"
  <2>1. UNCHANGED <<proc, next, slot, ticket>>
    BY <1>8 DEF Begin, manager
  <2>2. PreviewShape'
    BY <1>1, <1>3, <1>4, <2>1 DEF PreviewShape, ControlInv
  <2>3. SlotsHold'
    BY <2>1 DEF SlotsHold, ControlInv, Helper
  <2>4. AllHeld'
    BY <1>1, <1>2, <2>1, NothingIsHeldTwice DEF AllHeld, Helper
  <2>. QED BY <1>6, <2>1, <2>2, <2>3, <2>4, AllHeldIsEnough DEF ControlInv
<1>. QED BY <1>7, <1>8

LEMMA ReturnIs ==
    ASSUME NEW ok, NEW h, NEW a, NEW f, Return(ok, h, a, f)
    PROVE  cmd' = NoCommand /\ cmd' \in Request /\ cmd'.at = "idle" /\ cmd'.attempt = 0
           /\ cmd'.verb = "scan" /\ cmd'.engine = "mactype" /\ CommandHolds'
<1>1. cmd' = NoCommand
  BY DEF Return
<1>2. cmd'.at = "idle" /\ cmd'.attempt = 0 /\ cmd'.verb = "scan" /\ cmd'.engine = "mactype"
  BY <1>1 DEF NoCommand
<1>3. CommandHolds'
  BY <1>1, <1>2 DEF CommandHolds, NoCommand
<1>. QED BY <1>1, <1>2, <1>3, RequestIsTyped

LEMMA ReuseKeeps ==
    ASSUME ControlInv, Reuse
    PROVE  ControlInv'
<1>1. /\ cmd.at = "ensure" /\ KeepsHelper(cmd.engine, cmd.root)
      /\ UNCHANGED <<root, next, proc, app, ticket>>
  BY DEF Reuse
<1>2. UNCHANGED slot
  BY DEF Reuse
<1>3. cmd \in Request /\ app = "up" /\ cmd.from <= Len(proc)
  BY <1>1 DEF ControlInv, PreviewShape, CommandHolds
<1>4. cmd' \in Request /\ CommandHolds' /\ cmd'.at # "hello"
  <2>1. CASE cmd.verb \in Probes
    BY <2>1, ReturnIs DEF Reuse
  <2>2. CASE cmd.verb \notin Probes
    <3>1. cmd' = [cmd EXCEPT !.at = "send"]
      BY <2>2 DEF Reuse
    <3>2. /\ cmd' \in Request /\ cmd'.at = "send" /\ cmd'.verb = cmd.verb /\ cmd'.engine = cmd.engine
          /\ cmd'.root = cmd.root /\ cmd'.attempt = cmd.attempt /\ cmd'.from = cmd.from
      BY <1>3, <3>1 DEF Request
    <3>3. slot[cmd.engine].helper # Nobody /\ slot[cmd.engine].root = cmd.root
      BY <1>1 DEF KeepsHelper
    <3>4. cmd.attempt # 1
      BY <1>1, <3>3 DEF ControlInv, CommandHolds
    <3>. QED BY <1>1, <1>2, <1>3, <2>2, <3>2, <3>3, <3>4 DEF CommandHolds
  <2>. QED BY <2>1, <2>2
<1>5. PreviewShape'
  BY <1>1, <1>2, <1>4 DEF ControlInv, PreviewShape
<1>6. SlotsHold'
  BY <1>1, <1>2 DEF ControlInv, SlotsHold, Helper
<1>7. AllHeld'
  BY <1>1, <1>2, <1>3, NothingIsHeldTwice DEF AllHeld, Helper
<1>. QED BY <1>4, <1>5, <1>6, <1>7, AllHeldIsEnough DEF ControlInv

\* The process a start adds.
LEMMA SpawnedIs ==
    ASSUME NEW e \in Engine, NEW r \in Root, NEW core \in 0 .. 1, NEW hello \in Packet
    PROVE  /\ Spawned(e, r, core, hello) \in Process
           /\ Spawned(e, r, core, hello).engine = e /\ Spawned(e, r, core, hello).root = r
           /\ Spawned(e, r, core, hello).core = core
<1>1. <<hello>> \in Seq(Packet) /\ <<>> \in Seq(Packet) /\ TRUE \in BOOLEAN /\ FALSE \in BOOLEAN
  OBVIOUS
<1>. QED BY <1>1 DEF Spawned, Process

\* A start kills what the slot held, and appends the new process.
LEMMA StartIs ==
    ASSUME ControlInv, StartHelper
    PROVE  /\ cmd.at = "ensure" /\ app = "up" /\ cmd.engine \in Engine
           /\ Grown /\ Len(proc') = Len(proc) + 1
           /\ \A p \in Helper : p # slot[cmd.engine].helper => proc'[p] = proc[p]
           /\ slot[cmd.engine].helper # Nobody =>
                 proc'[slot[cmd.engine].helper] = Kill(slot[cmd.engine].helper)
           /\ TakeIds(2)
           /\ \E core \in 0 .. 1 :
                 /\ proc'[Len(proc) + 1] =
                      Spawned(cmd.engine, cmd.root, core, Frame(next', "hello", ticket'))
                 /\ proc'[Len(proc) + 1].engine = cmd.engine /\ proc'[Len(proc) + 1].root = cmd.root
           /\ cmd' = [cmd EXCEPT !.at = "hello", !.helper = Len(proc) + 1, !.id = next', !.ticket = ticket']
           /\ slot' = [slot EXCEPT ![cmd.engine] = EmptySlot]
<1> DEFINE e == cmd.engine
           old == slot[e].helper
           hello == Frame(next', "hello", ticket')
           left == IF old = Nobody THEN proc ELSE [proc EXCEPT ![old] = Kill(old)]
<1>1. /\ cmd.at = "ensure" /\ app = "up" /\ cmd \in Request /\ e \in Engine /\ cmd.root \in Root
      /\ proc \in Seq(Process) /\ Len(proc) \in Nat
  BY DEF StartHelper, ControlInv, CommandHolds, PreviewShape, Request
<1>2. /\ TakeIds(2)
      /\ slot' = [slot EXCEPT ![e] = EmptySlot]
      /\ cmd' = [cmd EXCEPT !.at = "hello", !.helper = Len(proc) + 1, !.id = next', !.ticket = ticket']
  BY DEF StartHelper
<1>3. PICK core \in 0 .. 1 : proc' = Append(left, Spawned(e, cmd.root, core, hello))
  BY DEF StartHelper
<1>4. next' \in 0 .. IdSpace - 1 /\ ticket' \in Nat
  BY <1>2, Draws DEF ControlInv
<1>5. hello \in Packet
  BY <1>4 DEF Frame, Packet, Kind
<1> HIDE DEF hello
<1>6. Spawned(e, cmd.root, core, hello) \in Process
      /\ Spawned(e, cmd.root, core, hello).engine = e /\ Spawned(e, cmd.root, core, hello).root = cmd.root
  BY <1>1, <1>5, SpawnedIs
<1> DEFINE new == Spawned(e, cmd.root, core, hello)
<1> HIDE DEF new
<1>7. old \in Helper \cup {Nobody}
  BY <1>1, SlotsAreKnown
<1>8. /\ left \in Seq(Process) /\ Len(left) = Len(proc)
      /\ \A p \in Helper : p # old => left[p] = proc[p]
      /\ old # Nobody => left[old] = Kill(old)
      /\ \A p \in Helper : Successor(proc[p], left[p])
  <2>1. \A p \in Helper : Successor(proc[p], proc[p])
    BY <1>1 DEF Successor, Helper
  <2>2. CASE old = Nobody
    BY <1>1, <2>1, <2>2
  <2>3. CASE old # Nobody
    <3>1. old \in Helper /\ old \in 1 .. Len(proc)
      BY <1>7, <2>3 DEF Helper
    <3>2. Successor(proc[old], Kill(old)) /\ Kill(old) \in Process
      BY <1>1, <3>1, KilledSucceeds DEF Successor
    <3>3. left = [proc EXCEPT ![old] = Kill(old)]
      BY <2>3
    <3> HIDE DEF left
    <3>4. /\ left \in Seq(Process) /\ Len(left) = Len(proc) /\ left[old] = Kill(old)
          /\ \A p \in 1 .. Len(proc) : p # old => left[p] = proc[p]
      BY <1>1, <3>1, <3>2, <3>3, Replaces
    <3>. QED BY <2>1, <2>3, <3>2, <3>4 DEF Helper
  <2>. QED BY <2>2, <2>3
<1> HIDE DEF left
<1>9. /\ proc' \in Seq(Process) /\ Len(proc') = Len(proc) + 1 /\ proc'[Len(proc) + 1] = new
      /\ \A p \in 1 .. Len(proc) : proc'[p] = left[p]
  BY <1>3, <1>6, <1>8, Appends DEF new
<1>10. Grown
  BY <1>1, <1>8, <1>9 DEF Grown, Helper
<1>11. /\ \A p \in Helper : p # old => proc'[p] = proc[p]
       /\ old # Nobody => proc'[old] = Kill(old)
  BY <1>7, <1>8, <1>9 DEF Helper
<1>. QED BY <1>1, <1>2, <1>6, <1>9, <1>10, <1>11 DEF new, hello

LEMMA StartKeeps ==
    ASSUME ControlInv, StartHelper
    PROVE  ControlInv'
<1> DEFINE e == cmd.engine
           n == Len(proc) + 1
<1>1. /\ cmd.at = "ensure" /\ app = "up" /\ e \in Engine
      /\ Grown /\ Len(proc') = n
      /\ \A p \in Helper : p # slot[e].helper => proc'[p] = proc[p]
      /\ slot[e].helper # Nobody => proc'[slot[e].helper] = Kill(slot[e].helper)
      /\ TakeIds(2)
      /\ proc'[n].engine = e /\ proc'[n].root = cmd.root
      /\ cmd' = [cmd EXCEPT !.at = "hello", !.helper = n, !.id = next', !.ticket = ticket']
      /\ slot' = [slot EXCEPT ![e] = EmptySlot]
  BY StartIs
<1>2. app' = "up" /\ root' = root
  BY <1>1 DEF StartHelper
<1>3. next' \in 0 .. IdSpace - 1 /\ ticket' \in Nat
  BY <1>1, Draws DEF ControlInv
<1>4. cmd \in Request /\ Len(proc) \in Nat /\ n \in Nat /\ n > Len(proc)
  BY DEF ControlInv, PreviewShape
<1> HIDE DEF n
<1>5. /\ cmd' \in Request /\ cmd'.at = "hello" /\ cmd'.helper = n /\ cmd'.engine = e
      /\ cmd'.root = cmd.root /\ cmd'.verb = cmd.verb /\ cmd'.from = cmd.from
  BY <1>1, <1>3, <1>4 DEF Request
<1>6. /\ slot' \in [Engine -> [helper : Nat, root : Root, core : 0 .. 1]]
      /\ slot'[e] = EmptySlot /\ slot'[e].helper = Nobody
      /\ \A f \in Engine : f # e => slot'[f] = slot[f]
  BY <1>1, RequestIsTyped DEF ControlInv, PreviewShape, EmptySlot
<1>7. PreviewShape'
  BY <1>1, <1>2, <1>3, <1>5, <1>6 DEF PreviewShape, ControlInv, Grown
<1>8. SlotsHold'
  BY <1>1, <1>6, SlotsStay DEF ControlInv
<1>9. NothingLeaks'
  <2> SUFFICES ASSUME NEW p \in Helper', proc'[p].life = "up", p # n
               PROVE  slot'[proc'[p].engine].helper = p
    BY <1>5 DEF NothingLeaks
  <2>1. p \in Helper
    BY <1>1, <1>4 DEF Helper, n
  <2>2. Successor(proc[p], proc'[p]) /\ proc[p] \in Process
    BY <1>1, <2>1 DEF Grown, ControlInv, PreviewShape, Helper
  <2>3. proc'[p].engine = proc[p].engine /\ slot[proc[p].engine].helper = p /\ proc[p].engine \in Engine
    BY <1>1, <2>1, <2>2 DEF Successor, ControlInv, NothingLeaks, Process
  <2>4. p # Nobody
    BY <2>1 DEF Helper, Nobody
  <2>5. Kill(p).life = "dead"
    BY <2>1, KilledSucceeds DEF ControlInv, PreviewShape
  <2>6. proc[p].engine # e
    BY <1>1, <2>3, <2>4, <2>5
  <2>. QED BY <1>6, <2>3, <2>6
<1>10. Len(proc') > cmd'.from /\ cmd'.from <= Len(proc') /\ n \in Helper'
  BY <1>1, <1>4, <1>5 DEF ControlInv, CommandHolds, Request, Helper
<1>11. CommandHolds'
  BY <1>1, <1>2, <1>4, <1>5, <1>6, <1>10 DEF CommandHolds, ControlInv, Helper
<1>. QED BY <1>7, <1>8, <1>9, <1>11 DEF ControlInv

LEMMA SpawnFailsKeeps ==
    ASSUME ControlInv, SpawnFails
    PROVE  ControlInv'
<1>1. /\ cmd.at = "ensure" /\ StopEngine(cmd.engine) /\ TakeIds(1)
      /\ Return(FALSE, Nobody, 0, TRUE) /\ root' = root /\ app' = app
  BY DEF SpawnFails
<1>2. app = "up" /\ cmd.engine \in Engine
  BY <1>1 DEF ControlInv, CommandHolds, PreviewShape, Request
<1>3. /\ Grown /\ SlotsHold' /\ AllHeld'
      /\ slot' \in [Engine -> [helper : Nat, root : Root, core : 0 .. 1]]
  BY <1>1, <1>2, StopLeavesNone
<1>4. next' \in 0 .. IdSpace - 1 /\ ticket' \in Nat
  BY <1>1, Draws DEF ControlInv
<1>5. cmd' \in Request /\ CommandHolds'
  BY <1>1, ReturnIs
<1>6. PreviewShape'
  BY <1>1, <1>3, <1>4, <1>5 DEF PreviewShape, ControlInv, Grown
<1>. QED BY <1>3, <1>5, <1>6, AllHeldIsEnough DEF ControlInv

\* Taking a response off its channel.
LEMMA Takes ==
    ASSUME proc \in Seq(Process), cmd.helper \in Helper, proc[cmd.helper].responses # <<>>, proc' = Take
    PROVE  /\ Grown /\ Len(proc') = Len(proc)
           /\ \A q \in Helper : proc'[q].life = proc[q].life
           /\ \A q \in Helper : q # cmd.helper => proc'[q] = proc[q]
           /\ proc'[cmd.helper] =
                [proc[cmd.helper] EXCEPT !.responses = Tail(proc[cmd.helper].responses)]
<1> DEFINE h == cmd.helper
           r == [proc[h] EXCEPT !.responses = Tail(proc[h].responses)]
<1>1. proc[h] \in Process
  BY DEF Helper
<1>2. Tail(proc[h].responses) \in Seq(Packet)
  BY <1>1 DEF Process
<1>3. Successor(proc[h], r) /\ r.life = proc[h].life
  BY <1>1, <1>2 DEF Successor, Process
<1>4. proc' = [proc EXCEPT ![h] = r]
  BY DEF Take
<1> HIDE DEF r
<1>5. /\ Grown /\ Len(proc') = Len(proc) /\ proc'[h] = r
      /\ \A q \in Helper : q # h => proc'[q] = proc[q]
  BY <1>3, <1>4, OneSucceeds
<1>. QED BY <1>3, <1>5 DEF r

LEMMA HelloAcceptedKeeps ==
    ASSUME ControlInv, HelloAccepted
    PROVE  ControlInv'
<1> DEFINE e == cmd.engine
           h == cmd.helper
           kept == [helper |-> h, root |-> cmd.root, core |-> proc[h].core]
<1>1. /\ cmd.at = "hello" /\ proc[h].responses # <<>> /\ ValidHello(Response) /\ proc' = Take
      /\ slot' = [slot EXCEPT ![e] = kept]
      /\ root' = root /\ next' = next /\ app' = app /\ ticket' = ticket
  BY DEF HelloAccepted
<1>2. /\ cmd \in Request /\ e \in Engine /\ cmd.root \in Root /\ proc \in Seq(Process)
      /\ h \in Helper /\ proc[h].engine = e /\ proc[h].root = cmd.root /\ app = "up"
      /\ Len(proc) > cmd.from /\ Len(proc) \in Nat /\ slot[e].helper = Nobody
      /\ cmd.from <= Len(proc)
  BY <1>1 DEF ControlInv, CommandHolds, PreviewShape, Request
<1>3. proc[h] \in Process /\ h \in Nat /\ h # Nobody
  BY <1>2 DEF Helper, Nobody
<1>4. /\ Grown /\ Len(proc') = Len(proc) /\ \A q \in Helper : proc'[q].life = proc[q].life
  BY <1>1, <1>2, Takes
<1>4a. \A q \in Helper : q \in Helper' /\ Successor(proc[q], proc'[q])
  BY <1>4 DEF Grown, Helper
<1>5. kept \in [helper : Nat, root : Root, core : 0 .. 1]
  BY <1>2, <1>3 DEF Process
<1>6. /\ slot' \in [Engine -> [helper : Nat, root : Root, core : 0 .. 1]]
      /\ slot'[e].helper = h /\ slot'[e].root = cmd.root /\ slot'[e].core = proc[h].core
      /\ \A f \in Engine : f # e => slot'[f] = slot[f]
  BY <1>1, <1>2, <1>5 DEF ControlInv, PreviewShape
<1> HIDE DEF kept
<1>7. /\ cmd' \in Request /\ CommandHolds' /\ cmd'.at # "hello"
  <2>1. CASE cmd.verb \in Probes
    BY <2>1, ReturnIs DEF HelloAccepted
  <2>2. CASE cmd.verb \notin Probes
    <3>1. cmd' = [cmd EXCEPT !.at = "send"]
      BY <2>2 DEF HelloAccepted
    <3>2. /\ cmd' \in Request /\ cmd'.at = "send" /\ cmd'.verb = cmd.verb /\ cmd'.engine = e
          /\ cmd'.root = cmd.root /\ cmd'.attempt = cmd.attempt /\ cmd'.from = cmd.from
      BY <1>2, <3>1 DEF Request
    <3>. QED BY <1>1, <1>2, <1>3, <1>4, <1>6, <2>2, <3>2 DEF CommandHolds
  <2>. QED BY <2>1, <2>2
<1>8. PreviewShape'
  BY <1>1, <1>4, <1>6, <1>7 DEF PreviewShape, ControlInv, Grown
<1>9. SlotsHold'
  <2> SUFFICES ASSUME NEW f \in Engine, slot'[f].helper # Nobody
               PROVE  /\ slot'[f].helper \in Helper'
                      /\ proc'[slot'[f].helper].engine = f
                      /\ proc'[slot'[f].helper].root = slot'[f].root
                      /\ proc'[slot'[f].helper].core = slot'[f].core
                      /\ f = "mactype" => slot'[f].core # 0
    BY DEF SlotsHold
  <2>1. CASE f = e
    <3>1. e = "mactype" => proc[h].core # 0
      BY <1>1 DEF ValidHello
    <3>. QED BY <1>2, <1>4a, <1>6, <2>1, <3>1 DEF Successor
  <2>2. CASE f # e
    BY <1>4a, <1>6, <2>2 DEF ControlInv, SlotsHold, Successor
  <2>. QED BY <2>1, <2>2
<1>10. AllHeld'
  <2> SUFFICES ASSUME NEW p \in Helper', proc'[p].life = "up" PROVE slot'[proc'[p].engine].helper = p
    BY DEF AllHeld
  <2>1. p \in Helper
    BY <1>4 DEF Helper
  <2>2. proc[p].life = "up" /\ proc'[p].engine = proc[p].engine /\ proc[p].engine \in Engine
    BY <1>2, <1>4, <1>4a, <2>1 DEF Successor, Process, Helper
  <2>3. slot[proc[p].engine].helper = p \/ p = h
    BY <1>1, <1>2, <2>1, <2>2 DEF ControlInv, NothingLeaks
  <2>4. p # Nobody
    BY <2>1 DEF Helper, Nobody
  <2>. QED BY <1>2, <1>6, <2>2, <2>3, <2>4
<1>. QED BY <1>7, <1>8, <1>9, <1>10, AllHeldIsEnough DEF ControlInv

LEMMA HelloFailsKeeps ==
    ASSUME ControlInv, HelloFails
    PROVE  ControlInv'
<1> DEFINE h == cmd.helper
<1>1. /\ cmd.at = "hello" /\ proc' = [proc EXCEPT ![h] = Kill(h)] /\ TakeIds(1) /\ UNCHANGED slot
      /\ Return(FALSE, h, 0, TRUE) /\ root' = root /\ app' = app
  BY DEF HelloFails, HelloRefused
<1>2. h \in Helper /\ proc \in Seq(Process) /\ app = "up"
  BY <1>1 DEF ControlInv, CommandHolds, PreviewShape
<1>3. Successor(proc[h], Kill(h)) /\ Kill(h).life = "dead"
  BY <1>2, KilledSucceeds
<1>4. /\ Grown /\ Len(proc') = Len(proc) /\ proc'[h] = Kill(h)
      /\ \A q \in Helper : q # h => proc'[q] = proc[q]
  BY <1>1, <1>2, <1>3, OneSucceeds
<1>5. next' \in 0 .. IdSpace - 1 /\ ticket' \in Nat
  BY <1>1, Draws DEF ControlInv
<1>6. cmd' \in Request /\ CommandHolds'
  BY <1>1, ReturnIs
<1>7. PreviewShape'
  BY <1>1, <1>4, <1>5, <1>6 DEF PreviewShape, ControlInv, Grown
<1>8. SlotsHold'
  BY <1>1, <1>4, SlotsStay DEF ControlInv
<1>9. AllHeld'
  <2> SUFFICES ASSUME NEW p \in Helper', proc'[p].life = "up" PROVE slot'[proc'[p].engine].helper = p
    BY DEF AllHeld
  <2>1. p \in Helper /\ p # h
    BY <1>3, <1>4 DEF Helper
  <2>. QED BY <1>1, <1>2, <1>4, <2>1 DEF ControlInv, NothingLeaks
<1>. QED BY <1>6, <1>7, <1>8, <1>9, AllHeldIsEnough DEF ControlInv

\* In a finite set of numbers, each member has a place of its own among the smaller
\* ones, and each place is taken.
LEMMA Places ==
    ASSUME NEW len \in Nat, NEW kept \in SUBSET (1 .. len)
    PROVE  LET Place(n) == Cardinality({m \in kept : m <= n})
           IN  /\ IsFiniteSet(kept) /\ Cardinality(kept) \in Nat
               /\ \A n \in kept : Place(n) \in 1 .. Cardinality(kept)
               /\ \A n, m \in kept : n < m => Place(n) < Place(m)
               /\ \A k \in 1 .. Cardinality(kept) : \E n \in kept : Place(n) = k
<1> DEFINE Below(n) == {m \in kept : m <= n}
           Place(n) == Cardinality(Below(n))
           c == Cardinality(kept)
<1>1. IsFiniteSet(1 .. len)
  BY FS_Interval
<1>2. IsFiniteSet(kept) /\ c \in Nat
  BY <1>1, FS_Subset, FS_CardinalityType
<1>3. \A n \in kept : IsFiniteSet(Below(n)) /\ Place(n) \in Nat /\ Place(n) <= c
  <2> TAKE n \in kept
  <2>1. Below(n) \in SUBSET kept
    OBVIOUS
  <2> HIDE DEF Below
  <2>. QED BY <1>2, <2>1, FS_Subset, FS_CardinalityType
<1>4. \A n \in kept : Place(n) # 0
  <2> TAKE n \in kept
  <2>1. n \in Below(n)
    OBVIOUS
  <2> HIDE DEF Below
  <2>. QED BY <1>3, <2>1, FS_EmptySet
<1>5. \A n, m \in kept : n < m => Place(n) < Place(m)
  <2> SUFFICES ASSUME NEW n \in kept, NEW m \in kept, n < m PROVE Place(n) < Place(m)
    OBVIOUS
  <2>0. \A k \in kept : k \in Nat
    OBVIOUS
  <2>1. Below(n) \in SUBSET Below(m) /\ m \in Below(m) /\ m \notin Below(n)
    <3>1. \A k \in kept : k <= n => k <= m
      BY <2>0
    <3>2. m <= m /\ ~(m <= n)
      BY <2>0
    <3>. QED BY <3>1, <3>2
  <2>2. IsFiniteSet(Below(m)) /\ Place(n) \in Nat /\ Place(m) \in Nat
    BY <1>3
  <2> HIDE DEF Below
  <2>3. Place(n) <= Place(m) /\ Place(n) # Place(m)
    BY <2>1, <2>2, FS_Subset
  <2>. QED BY <2>2, <2>3
<1>6. \A n \in kept : Place(n) \in 1 .. c
  BY <1>2, <1>3, <1>4
<1>7. \A k \in 1 .. c : \E n \in kept : Place(n) = k
  <2> DEFINE f == [n \in kept |-> Place(n)]
  <2> HIDE DEF Place
  <2>1. f \in [kept -> 1 .. c]
    BY <1>6
  <2>2. \A n, m \in kept : f[n] = f[m] => n = m
    <3> SUFFICES ASSUME NEW n \in kept, NEW m \in kept, Place(n) = Place(m) PROVE n = m
      OBVIOUS
    <3>1. n \in Nat /\ m \in Nat /\ Place(n) \in Nat /\ Place(m) \in Nat
      BY <1>6
    <3>2. ~(n < m) /\ ~(m < n)
      BY <1>5, <3>1
    <3>. QED BY <3>1, <3>2
  <2>3. f \in Injection(kept, 1 .. c)
    BY <2>1, <2>2 DEF Injection, IsInjective
  <2>4. IsFiniteSet(1 .. c) /\ Cardinality(1 .. c) = c
    BY <1>2, FS_Interval
  <2>5. f \in Surjection(kept, 1 .. c)
    BY <2>3, <2>4, FS_Injection
  <2>. QED BY <2>5 DEF Surjection
<1>. QED BY <1>2, <1>5, <1>6, <1>7

\* The renders still queued are gone, and everything that is left was there.
LEMMA RendersGo ==
    ASSUME NEW q \in Seq(Packet)
    PROVE  /\ WithoutRenders(q) \in Seq(Packet)
           /\ \A k \in 1 .. Len(WithoutRenders(q)) :
                 \E i \in 1 .. Len(q) : WithoutRenders(q)[k] = q[i] /\ q[i].kind # "render"
<1> DEFINE kept == {i \in DOMAIN q : q[i].kind # "render"}
           Place(i) == Cardinality({j \in kept : j <= i})
           c == Cardinality(kept)
           At(k) == CHOOSE i \in kept : Place(i) = k
           rest == [k \in 1 .. c |-> q[At(k)]]
<1>1. Len(q) \in Nat /\ DOMAIN q = 1 .. Len(q) /\ \A i \in 1 .. Len(q) : q[i] \in Packet
  OBVIOUS
<1>2. rest = WithoutRenders(q)
  BY DEF WithoutRenders
<1>3. kept \in SUBSET (1 .. Len(q)) /\ \A i \in kept : q[i].kind # "render"
  BY <1>1
<1> HIDE DEF kept
<1>4. c \in Nat /\ \A k \in 1 .. c : \E i \in kept : Place(i) = k
  BY <1>1, <1>3, Places
<1> HIDE DEF Place
<1>5. \A k \in 1 .. c : At(k) \in kept
  BY <1>4
<1> HIDE DEF At, c
<1>6. \A k \in 1 .. c : At(k) \in 1 .. Len(q) /\ q[At(k)] \in Packet /\ q[At(k)].kind # "render"
  BY <1>1, <1>3, <1>5
<1>7. rest \in [1 .. c -> Packet]
  BY <1>6
<1>8. rest \in Seq(Packet) /\ Len(rest) = c
  BY <1>4, <1>7
<1>. QED BY <1>2, <1>6, <1>8

LEMMA EnqueueIs ==
    ASSUME NEW q \in Seq(Packet), NEW f \in Packet
    PROVE  /\ Enqueue(q, f) \in Seq(Packet)
           /\ \A k \in 1 .. Len(Enqueue(q, f)) :
                 \/ k = Len(Enqueue(q, f)) /\ Enqueue(q, f)[k] = f
                 \/ \E i \in 1 .. Len(q) : Enqueue(q, f)[k] = q[i]
           /\ f.kind = "render" => \A k \in 1 .. Len(Enqueue(q, f)) :
                 Enqueue(q, f)[k].kind = "render" => k = Len(Enqueue(q, f))
           /\ f.kind # "render" => Enqueue(q, f) = Append(q, f)
<1> DEFINE s == IF f.kind = "render" THEN WithoutRenders(q) ELSE q
           t == Append(s, f)
<1>1. /\ s \in Seq(Packet)
      /\ \A k \in 1 .. Len(s) : \E i \in 1 .. Len(q) : s[k] = q[i]
      /\ f.kind = "render" => \A k \in 1 .. Len(s) : s[k].kind # "render"
  BY RendersGo
<1>2. t = Enqueue(q, f)
  BY DEF Enqueue
<1>3. f.kind # "render" => t = Append(q, f)
  OBVIOUS
<1> HIDE DEF s
<1>4. /\ t \in Seq(Packet) /\ Len(t) = Len(s) + 1 /\ t[Len(s) + 1] = f /\ Len(s) \in Nat
      /\ \A k \in 1 .. Len(s) : t[k] = s[k]
  BY <1>1
<1>5. \A k \in 1 .. Len(t) : k = Len(t) \/ k \in 1 .. Len(s)
  BY <1>4
<1> HIDE DEF t
<1>. QED BY <1>1, <1>2, <1>3, <1>4, <1>5

\* The request is queued at the helper of the slot.
LEMMA SendIs ==
    ASSUME ControlInv, Send
    PROVE  LET h == slot[cmd.engine].helper
               f == Frame(next', cmd.verb, ticket')
           IN  /\ cmd.at = "send" /\ h \in Helper /\ cmd.engine \in Engine /\ app = "up"
               /\ f \in Packet
               /\ Grown /\ Len(proc') = Len(proc)
               /\ proc'[h] = [proc[h] EXCEPT !.queue = Enqueue(proc[h].queue, f)]
               /\ \A q \in Helper : q # h => proc'[q] = proc[q]
               /\ TakeIds(1)
               /\ cmd' = [cmd EXCEPT !.at = "await", !.helper = h, !.id = next', !.ticket = ticket']
<1> DEFINE h == slot[cmd.engine].helper
           f == Frame(next', cmd.verb, ticket')
           r == [proc[h] EXCEPT !.queue = Enqueue(proc[h].queue, f)]
<1>1. /\ cmd.at = "send" /\ TakeIds(1)
      /\ proc' = [proc EXCEPT ![h].queue = Enqueue(@, f)]
      /\ cmd' = [cmd EXCEPT !.at = "await", !.helper = h, !.id = next', !.ticket = ticket']
  BY DEF Send
<1>2. /\ cmd \in Request /\ cmd.engine \in Engine /\ cmd.verb \in Verb /\ app = "up"
      /\ proc \in Seq(Process) /\ h # Nobody
  BY <1>1 DEF ControlInv, CommandHolds, PreviewShape, Request
<1>3. h \in Helper
  BY <1>2, SlotsAreKnown
<1>4. next' \in 0 .. IdSpace - 1 /\ ticket' \in Nat
  BY <1>1, Draws DEF ControlInv
<1>5. f \in Packet
  BY <1>2, <1>4 DEF Frame, Packet, Kind
<1> HIDE DEF h, f
<1>6. proc[h] \in Process /\ proc[h].queue \in Seq(Packet)
  <2>1. proc[h] \in Process
    BY <1>2, <1>3 DEF Helper
  <2>. QED BY <2>1 DEF Process
<1>7. proc' = [proc EXCEPT ![h] = r]
  BY <1>1
<1>8. Enqueue(proc[h].queue, f) \in Seq(Packet)
  BY <1>5, <1>6, EnqueueIs
<1>9. Successor(proc[h], r)
  BY <1>6, <1>8 DEF Successor, Process
<1> HIDE DEF r
<1>10. /\ Grown /\ Len(proc') = Len(proc) /\ proc'[h] = r
       /\ \A q \in Helper : q # h => proc'[q] = proc[q]
  BY <1>2, <1>3, <1>7, <1>9, OneSucceeds
<1>. QED BY <1>1, <1>2, <1>3, <1>5, <1>10 DEF r, h, f

LEMMA SendKeeps ==
    ASSUME ControlInv, Send
    PROVE  ControlInv'
<1> DEFINE h == slot[cmd.engine].helper
           f == Frame(next', cmd.verb, ticket')
<1>1. /\ cmd.at = "send" /\ h \in Helper /\ cmd.engine \in Engine /\ app = "up"
      /\ Grown /\ Len(proc') = Len(proc)
      /\ TakeIds(1)
      /\ cmd' = [cmd EXCEPT !.at = "await", !.helper = h, !.id = next', !.ticket = ticket']
  BY SendIs
<1>2. root' = root /\ app' = app /\ slot' = slot
  BY DEF Send
<1>3. next' \in 0 .. IdSpace - 1 /\ ticket' \in Nat /\ h \in Nat
  BY <1>1, Draws DEF ControlInv, Helper
<1>4. cmd \in Request
  BY DEF ControlInv, PreviewShape
<1> HIDE DEF h
<1>5. /\ cmd' \in Request /\ cmd'.at = "await" /\ cmd'.helper = h /\ cmd'.engine = cmd.engine
      /\ cmd'.root = cmd.root /\ cmd'.verb = cmd.verb /\ cmd'.from = cmd.from /\ cmd'.attempt = cmd.attempt
  BY <1>1, <1>3, <1>4 DEF Request
<1>6. PreviewShape'
  BY <1>1, <1>2, <1>3, <1>5 DEF PreviewShape, ControlInv, Grown
<1>7. SlotsHold'
  BY <1>1, <1>2, SlotsStay DEF ControlInv
<1>8. AllHeld'
  <2> SUFFICES ASSUME NEW p \in Helper', proc'[p].life = "up" PROVE slot'[proc'[p].engine].helper = p
    BY DEF AllHeld
  <2>1. p \in Helper
    BY <1>1 DEF Helper
  <2>2. Successor(proc[p], proc'[p])
    BY <1>1, <2>1 DEF Grown
  <2>. QED BY <1>1, <1>2, <2>1, <2>2 DEF ControlInv, NothingLeaks, Successor
<1>9. CommandHolds'
  BY <1>1, <1>2, <1>4, <1>5 DEF CommandHolds, ControlInv, h
<1>. QED BY <1>6, <1>7, <1>8, <1>9, AllHeldIsEnough DEF ControlInv

\* A first attempt that failed: the engine is stopped and the command starts over.
LEMMA FirstFailureKeeps ==
    ASSUME ControlInv, cmd.at \in {"send", "await"}, NEW drawn \in 1 .. 2, FirstFailure(drawn),
           root' = root, app' = app
    PROVE  ControlInv'
<1>1. /\ StopEngine(cmd.engine) /\ TakeIds(drawn)
      /\ cmd' = [cmd EXCEPT !.at = "ensure", !.attempt = 1, !.helper = Nobody, !.id = 0]
  BY DEF FirstFailure, Retry
<1>2. cmd \in Request /\ app = "up" /\ cmd.engine \in Engine /\ cmd.from <= Len(proc)
  BY DEF ControlInv, CommandHolds, PreviewShape, Request
<1>3. /\ Grown /\ SlotsHold' /\ AllHeld' /\ Len(proc') = Len(proc) /\ slot'[cmd.engine].helper = Nobody
      /\ slot' \in [Engine -> [helper : Nat, root : Root, core : 0 .. 1]]
  BY <1>1, <1>2, StopLeavesNone
<1>4. next' \in 0 .. IdSpace - 1 /\ ticket' \in Nat
  BY <1>1, Draws DEF ControlInv
<1>5. Nobody \in Nat /\ 0 \in 0 .. IdSpace - 1 /\ 1 \in 0 .. 1
  BY IdSpaceAssumption DEF Nobody
<1>6. /\ cmd' \in Request /\ cmd'.at = "ensure" /\ cmd'.attempt = 1 /\ cmd'.engine = cmd.engine
      /\ cmd'.verb = cmd.verb /\ cmd'.from = cmd.from
  BY <1>1, <1>2, <1>5 DEF Request
<1>7. CommandHolds'
  BY <1>2, <1>3, <1>6 DEF CommandHolds, ControlInv
<1>8. PreviewShape'
  BY <1>3, <1>4, <1>6 DEF PreviewShape, ControlInv, Grown
<1>. QED BY <1>3, <1>7, <1>8, AllHeldIsEnough DEF ControlInv

\* A command that returns without touching the slots or a process's life.
LEMMA ReturnKeeps ==
    ASSUME ControlInv, cmd.at \notin {"idle", "hello"}, cmd' = NoCommand,
           Grown, Len(proc') = Len(proc), UNCHANGED slot,
           next' \in 0 .. IdSpace - 1, ticket' \in Nat, root' = root, app' = app
    PROVE  ControlInv'
<1>1. cmd' \in Request /\ CommandHolds'
  BY RequestIsTyped DEF CommandHolds, NoCommand, Probes
<1>2. PreviewShape'
  BY <1>1 DEF PreviewShape, ControlInv, Grown
<1>3. SlotsHold'
  BY SlotsStay DEF ControlInv
<1>4. AllHeld'
  <2> SUFFICES ASSUME NEW p \in Helper', proc'[p].life = "up" PROVE slot'[proc'[p].engine].helper = p
    BY DEF AllHeld
  <2>1. p \in Helper
    BY DEF Helper
  <2>2. Successor(proc[p], proc'[p])
    BY <2>1 DEF Grown
  <2>3. app = "up"
    BY DEF ControlInv, CommandHolds
  <2>. QED BY <2>1, <2>2, <2>3 DEF ControlInv, NothingLeaks, Successor
<1>. QED BY <1>1, <1>2, <1>3, <1>4, AllHeldIsEnough DEF ControlInv

LEMMA NobodyMoves ==
    ASSUME PreviewShape, UNCHANGED proc
    PROVE  Grown /\ Len(proc') = Len(proc)
BY DEF PreviewShape, Grown, Successor, Helper

\* A second attempt that failed: the command returns and the helper stays.
LEMMA LastFailureIs ==
    ASSUME ControlInv, NEW drawn, NEW h, LastFailure(drawn, h)
    PROVE  cmd' = NoCommand /\ UNCHANGED slot /\ next' \in 0 .. IdSpace - 1 /\ ticket' \in Nat
<1>1. cmd' = NoCommand /\ UNCHANGED slot /\ (TakeIds(1) \/ UNCHANGED <<next, ticket>>)
  BY DEF LastFailure, Return
<1>2. TakeIds(1) => next' \in 0 .. IdSpace - 1 /\ ticket' \in Nat
  BY Draws DEF ControlInv
<1>. QED BY <1>1, <1>2 DEF ControlInv, PreviewShape

\* The helper whose answer is awaited is the one in the slot.
LEMMA AwaitedIsKnown ==
    ASSUME ControlInv, cmd.at = "await"
    PROVE  cmd.helper \in Helper /\ proc \in Seq(Process) /\ cmd.engine \in Engine
<1>1. cmd.engine \in Engine /\ proc \in Seq(Process)
  BY DEF ControlInv, PreviewShape, Request
<1>. QED BY <1>1, SlotsAreKnown DEF ControlInv, CommandHolds

LEMMA FailuresKeep ==
    ASSUME ControlInv, SendFails \/ WrongAnswer \/ Timeout
    PROVE  ControlInv'
<1>1. root' = root /\ app' = app
  BY DEF SendFails, WrongAnswer, Timeout
<1>2. cmd.at \in {"send", "await"}
  BY DEF SendFails, WrongAnswer, Timeout
<1>3. CASE cmd.attempt = 0
  <2>1. FirstFailure(1) \/ FirstFailure(2)
    BY <1>3 DEF SendFails, WrongAnswer, Timeout
  <2>. QED BY <1>1, <1>2, <2>1, FirstFailureKeeps
<1>4. CASE cmd.attempt # 0
  <2>1. /\ LastFailure(1, cmd.helper) \/ LastFailure(2, slot[cmd.engine].helper)
        /\ UNCHANGED proc \/ (WrongAnswer /\ proc' = Take)
    BY <1>4 DEF SendFails, WrongAnswer, Timeout
  <2>2. cmd' = NoCommand /\ UNCHANGED slot /\ next' \in 0 .. IdSpace - 1 /\ ticket' \in Nat
    BY <2>1, LastFailureIs
  <2>3. Grown /\ Len(proc') = Len(proc)
    <3>1. CASE UNCHANGED proc
      BY <3>1, NobodyMoves DEF ControlInv
    <3>2. CASE WrongAnswer /\ proc' = Take
      <4>1. cmd.at = "await" /\ proc[cmd.helper].responses # <<>>
        BY <3>2 DEF WrongAnswer
      <4>. QED BY <3>2, <4>1, AwaitedIsKnown, Takes
    <3>. QED BY <2>1, <3>1, <3>2
  <2>. QED BY <1>1, <1>2, <2>2, <2>3, ReturnKeeps
<1>. QED BY <1>3, <1>4

LEMMA AnsweredKeeps ==
    ASSUME ControlInv, Answered
    PROVE  ControlInv'
<1>1. /\ cmd.at = "await" /\ proc[cmd.helper].responses # <<>> /\ proc' = Take /\ UNCHANGED slot
      /\ cmd' = NoCommand /\ root' = root /\ next' = next /\ app' = app /\ ticket' = ticket
  BY DEF Answered, Return
<1>2. Grown /\ Len(proc') = Len(proc)
  BY <1>1, AwaitedIsKnown, Takes
<1>3. next' \in 0 .. IdSpace - 1 /\ ticket' \in Nat
  BY <1>1 DEF ControlInv, PreviewShape
<1>. QED BY <1>1, <1>2, <1>3, ReturnKeeps

\* Every process is replaced by a successor of it.
LEMMA AllSucceed ==
    ASSUME proc \in Seq(Process), DOMAIN proc' = Helper, proc' = [p \in Helper |-> proc'[p]],
           \A p \in Helper : Successor(proc[p], proc'[p])
    PROVE  Grown /\ Len(proc') = Len(proc)
<1>1. proc' \in [1 .. Len(proc) -> Process]
  BY DEF Successor, Helper
<1>2. Len(proc) \in Nat
  OBVIOUS
<1>3. proc' \in Seq(Process) /\ Len(proc') = Len(proc)
  BY <1>1, <1>2
<1>. QED BY <1>2, <1>3 DEF Grown, Helper

LEMMA EndsSucceed ==
    ASSUME PreviewShape, Quit \/ Killed
    PROVE  Grown /\ Len(proc') = Len(proc)
<1>1. proc \in Seq(Process) /\ <<>> \in Seq(Packet) /\ FALSE \in BOOLEAN
  BY DEF PreviewShape
<1> DEFINE a(p) == [proc[p] EXCEPT !.out = <<>>, !.reading = FALSE]
           b(p) == [Kill(p) EXCEPT !.out = <<>>, !.reading = FALSE]
           c(p) == [proc[p] EXCEPT !.out = <<>>, !.responses = <<>>, !.heard = FALSE, !.reading = FALSE]
<1>2. ASSUME NEW p \in Helper PROVE Successor(proc[p], a(p)) /\ Successor(proc[p], b(p)) /\ Successor(proc[p], c(p))
  <2>1. proc[p] \in Process
    BY <1>1 DEF Helper
  <2>2. Kill(p) \in Process /\ Successor(proc[p], Kill(p))
    BY <1>1, KilledSucceeds DEF Successor
  <2>3. Successor(proc[p], a(p)) /\ Successor(proc[p], c(p))
    BY <1>1, <2>1 DEF Successor, Process
  <2> DEFINE k == Kill(p)
             d == [k EXCEPT !.out = <<>>, !.reading = FALSE]
  <2>4. k \in Process /\ Successor(proc[p], k) /\ d = b(p)
    BY <2>2
  <2> HIDE DEF k
  <2>5. Successor(proc[p], d)
    BY <1>1, <2>4 DEF Successor, Process
  <2> HIDE DEF d
  <2>. QED BY <2>3, <2>4, <2>5
<1>3. CASE Quit
  <2>1. proc' = [p \in Helper |-> IF p \in {slot[e].helper : e \in Engine} THEN b(p) ELSE a(p)]
    BY <1>3 DEF Quit
  <2> HIDE DEF a, b
  <2>2. DOMAIN proc' = Helper /\ proc' = [p \in Helper |-> proc'[p]]
    BY <2>1
  <2>3. \A p \in Helper : Successor(proc[p], proc'[p])
    BY <1>2, <2>1
  <2>. QED BY <1>1, <2>2, <2>3, AllSucceed
<1>4. CASE Killed
  <2>1. proc' = [p \in Helper |-> c(p)]
    BY <1>4 DEF Killed
  <2> HIDE DEF c
  <2>2. DOMAIN proc' = Helper /\ proc' = [p \in Helper |-> proc'[p]]
    BY <2>1
  <2>3. \A p \in Helper : Successor(proc[p], proc'[p])
    BY <1>2, <2>1
  <2>. QED BY <1>1, <2>2, <2>3, AllSucceed
<1>. QED BY <1>3, <1>4

LEMMA EndsKeep ==
    ASSUME ControlInv, Quit \/ Killed
    PROVE  ControlInv'
<1>1. Grown /\ Len(proc') = Len(proc)
  BY EndsSucceed DEF ControlInv
<1>2. app' = "gone" /\ root' = root /\ cmd' = NoCommand
  BY DEF Quit, Killed
<1>3. slot' = slot \/ slot' = [e \in Engine |-> EmptySlot]
  BY DEF Quit, Killed
<1>4. slot' \in [Engine -> [helper : Nat, root : Root, core : 0 .. 1]]
  BY <1>3, RequestIsTyped DEF ControlInv, PreviewShape
<1>5. SlotsHold'
  BY <1>1, <1>3, SlotsStay DEF ControlInv
<1>6. next' \in 0 .. IdSpace - 1 /\ ticket' \in Nat
  <2>1. TakeIds(2) \/ UNCHANGED <<next, ticket>>
    BY DEF Quit, Killed
  <2>2. TakeIds(2) => next' \in 0 .. IdSpace - 1 /\ ticket' \in Nat
    BY Draws DEF ControlInv
  <2>. QED BY <2>1, <2>2 DEF ControlInv, PreviewShape
<1>7. cmd' \in Request /\ CommandHolds'
  BY <1>2, RequestIsTyped DEF CommandHolds, NoCommand, Probes
<1>8. PreviewShape'
  BY <1>1, <1>2, <1>4, <1>6, <1>7 DEF PreviewShape, ControlInv, Grown
<1>9. NothingLeaks'
  BY <1>2 DEF NothingLeaks
<1>. QED BY <1>5, <1>7, <1>8, <1>9 DEF ControlInv

LEMMA ControlInit ==
    ASSUME PreviewInit
    PROVE  ControlInv
<1>1. proc = <<>> /\ proc \in Seq(Process) /\ Len(proc) = 0 /\ Helper = {}
  BY DEF PreviewInit, Helper
<1>2. slot = [e \in Engine |-> EmptySlot]
  BY DEF PreviewInit
<1>3. PreviewShape
  BY <1>1, <1>2, RequestIsTyped, IdSpaceAssumption DEF PreviewInit, PreviewShape, Root
<1>4. SlotsHold
  BY <1>2 DEF SlotsHold, EmptySlot
<1>5. NothingLeaks
  BY <1>1 DEF NothingLeaks
<1>6. CommandHolds
  BY DEF PreviewInit, CommandHolds, NoCommand, Probes
<1>. QED BY <1>3, <1>4, <1>5, <1>6 DEF ControlInv

LEMMA ControlStep ==
    ASSUME ControlInv, [PreviewNext]_previewVars
    PROVE  ControlInv'
<1>1. CASE PreviewCommand
  BY <1>1, BeginKeeps DEF PreviewCommand
<1>2. CASE ManagerStep
  BY <1>2, ReuseKeeps, StartKeeps, SpawnFailsKeeps, HelloAcceptedKeeps, HelloFailsKeeps, SendKeeps,
     FailuresKeep, AnsweredKeeps DEF ManagerStep
<1>3. CASE \E p \in Helper : HelperStep(p)
  BY <1>3, HelperStepKeeps
<1>4. CASE RootChanges
  <2>1. root' \in Root /\ UNCHANGED <<next, slot, cmd, app, ticket, proc>>
    BY <1>4 DEF RootChanges, Root
  <2>. QED BY <2>1, NobodyMoves, WorldStays DEF ControlInv
<1>5. CASE Quit \/ Killed
  BY <1>5, EndsKeep
<1>6. CASE UNCHANGED previewVars
  <2>1. root' \in Root /\ UNCHANGED <<next, slot, cmd, app, ticket, proc>>
    BY <1>6 DEF previewVars, ControlInv, PreviewShape
  <2>. QED BY <2>1, NobodyMoves, WorldStays DEF ControlInv
<1>. QED BY <1>1, <1>2, <1>3, <1>4, <1>5, <1>6 DEF PreviewNext

LEMMA ControlHolds == PreviewSpec => []ControlInv
BY ControlInit, ControlStep, PTL DEF PreviewSpec

\* Whatever failed while a helper was started, replaced or asked: when no
\* command is in the manager, every helper that runs is in the slot of its
\* engine (helper.rs 272-301).
THEOREM NoHelperIsForgotten == PreviewSpec => []NoHelperLeaks
<1>1. ControlInv => NoHelperLeaks
  BY DEF ControlInv, NothingLeaks, NoHelperLeaks, NoCommand
<1>. QED BY <1>1, ControlHolds, PTL

-----------------------------------------------------------------------------
(***************************************************************************)
(* The preview manager: a command is answered by its own helper            *)
(***************************************************************************)
\* With n the last identifier and t the number drawn so far: the identifier that
\* was drawn d before the last one, as long as they have not gone round since.
Earlier(n, d) == IF n > d THEN n - d ELSE n - d + IdSpace - 1

\* A frame of a request, and one that answers none.
Stamped(f, n, t) ==
    /\ f.ticket \in 1 .. t /\ f.id # 0
    /\ t - f.ticket < IdSpace - 1 => f.id = Earlier(n, t - f.ticket)
Unasked(f) == f.id = 0 /\ f.ticket = 0

\* What the three sequences of a process hold; at most one render is queued.
Sound(r, n, t) ==
    /\ \A i \in 1 .. Len(r.queue) : Stamped(r.queue[i], n, t)
    /\ \A i, j \in 1 .. Len(r.queue) : r.queue[i].kind = "render" /\ r.queue[j].kind = "render" => i = j
    /\ \A i \in 1 .. Len(r.out) : Stamped(r.out[i], n, t) \/ Unasked(r.out[i])
    /\ \A i \in 1 .. Len(r.responses) : Stamped(r.responses[i], n, t) \/ Unasked(r.responses[i])

\* Nothing new comes into a process.
Dwindles(old, new) ==
    /\ new.queue \in {old.queue, <<>>} /\ new.out \in {old.out, <<>>}
    /\ new.responses \in {old.responses, <<>>}
       \/ (old.responses # <<>> /\ new.responses = Tail(old.responses))

\* The sequences of a process that answers the command c with ticket t.
Answers(r, c, t) ==
    /\ \A i \in 1 .. Len(r.queue) : r.queue[i].ticket = t => r.queue[i].kind = c.verb
    /\ \A i \in 1 .. Len(r.out) : r.out[i].ticket = t => r.out[i].kind \in Replies(c.verb)
    /\ \A i \in 1 .. Len(r.responses) :
          r.responses[i].ticket = t => r.responses[i].kind \in Replies(c.verb)

\* Every frame has the identifier of its request; the command that waits has the
\* last one, and only frames of its own kind carry its ticket.
FramesHold ==
    /\ \A p \in Helper : Sound(proc[p], next, ticket)
    /\ cmd.at \in {"hello", "await"} => cmd.id = next /\ next # 0 /\ cmd.ticket = ticket /\ ticket # 0
    /\ cmd.at = "await" => \A p \in Helper : Answers(proc[p], cmd, ticket)
    /\ EventsAreUnsolicited

\* One more identifier is drawn.
LEMMA StampStays ==
    ASSUME NEW n \in 0 .. IdSpace - 1, NEW t \in Nat, NEW f \in Packet, Stamped(f, n, t)
    PROVE  Stamped(f, NextId(n), t + 1)
<1>1. NextId(n) = IF n + 1 = IdSpace THEN 1 ELSE n + 1
  BY NextIdIs
<1>2. f.ticket \in Nat /\ f.id \in Nat /\ IdSpace \in Nat /\ IdSpace > 3
  BY IdSpaceAssumption DEF Packet
<1>. QED BY <1>1, <1>2 DEF Stamped, Earlier

LEMMA SoundStays ==
    ASSUME NEW n \in 0 .. IdSpace - 1, NEW t \in Nat, NEW r \in Process, Sound(r, n, t)
    PROVE  Sound(r, NextId(n), t + 1)
<1>1. /\ \A i \in 1 .. Len(r.queue) : r.queue[i] \in Packet
      /\ \A i \in 1 .. Len(r.out) : r.out[i] \in Packet
      /\ \A i \in 1 .. Len(r.responses) : r.responses[i] \in Packet
  BY DEF Process
<1>. QED BY <1>1, StampStays DEF Sound

LEMMA SoundDwindles ==
    ASSUME NEW n, NEW t, NEW r \in Process, NEW q \in Process, Sound(r, n, t), Dwindles(r, q)
    PROVE  Sound(q, n, t)
<1>0. r.responses \in Seq(Packet) /\ r.queue \in Seq(Packet) /\ r.out \in Seq(Packet)
  BY DEF Process
<1>1. \A i \in 1 .. Len(q.queue) : q.queue[i] = r.queue[i] /\ i \in 1 .. Len(r.queue)
  BY <1>0 DEF Dwindles
<1>2. \A i \in 1 .. Len(q.out) : q.out[i] = r.out[i] /\ i \in 1 .. Len(r.out)
  BY <1>0 DEF Dwindles
<1>3. \A i \in 1 .. Len(q.responses) : \E j \in 1 .. Len(r.responses) : q.responses[i] = r.responses[j]
  <2>1. CASE q.responses = r.responses
    BY <2>1
  <2>2. CASE q.responses = <<>>
    BY <2>2
  <2>3. CASE r.responses # <<>> /\ q.responses = Tail(r.responses)
    <3>1. \A i \in 1 .. Len(q.responses) : i + 1 \in 1 .. Len(r.responses) /\ q.responses[i] = r.responses[i + 1]
      BY <1>0, <2>3
    <3>. QED BY <3>1
  <2>. QED BY <2>1, <2>2, <2>3 DEF Dwindles
<1>. QED BY <1>1, <1>2, <1>3 DEF Sound

\* Drawing identifiers keeps what was sound.
LEMMA SoundDraws ==
    ASSUME PreviewShape, NEW r \in Process, Sound(r, next, ticket), NEW k \in 1 .. 2, TakeIds(k)
    PROVE  Sound(r, next', ticket')
<1>1. next \in 0 .. IdSpace - 1 /\ ticket \in Nat /\ ticket + 1 \in Nat
  BY DEF PreviewShape
<1>2. NextId(next) \in 0 .. IdSpace - 1
  BY <1>1, NextIdIs, IdSpaceAssumption
<1>3. Sound(r, NextId(next), ticket + 1)
  BY <1>1, SoundStays
<1>4. Sound(r, NextId(NextId(next)), (ticket + 1) + 1)
  BY <1>1, <1>2, <1>3, SoundStays
<1>5. (ticket + 1) + 1 = ticket + 2
  BY <1>1
<1>6. CASE k = 1
  BY <1>3, <1>6 DEF TakeIds
<1>7. CASE k = 2
  BY <1>4, <1>5, <1>7 DEF TakeIds
<1>. QED BY <1>6, <1>7

AllDwindle == \A p \in Helper : Dwindles(proc[p], proc'[p])

\* A step of the manager after which no command waits, and that sends nothing.
LEMMA SilenceKeepsFrames ==
    ASSUME ControlInv, FramesHold, Grown, Len(proc') = Len(proc), AllDwindle,
           cmd'.at \notin {"hello", "await"}, emitted' = emitted,
           TakeIds(1) \/ TakeIds(2) \/ UNCHANGED <<next, ticket>>
    PROVE  FramesHold'
<1>1. ASSUME NEW p \in Helper PROVE Sound(proc'[p], next', ticket')
  <2>1. proc[p] \in Process /\ proc'[p] \in Process
    BY <1>1 DEF ControlInv, PreviewShape, Grown, Successor, Helper
  <2>2. Sound(proc[p], next, ticket) /\ Dwindles(proc[p], proc'[p])
    BY <1>1 DEF FramesHold, AllDwindle
  <2>3. Sound(proc'[p], next, ticket)
    BY <2>1, <2>2, SoundDwindles
  <2>. QED BY <2>1, <2>3, SoundDraws DEF ControlInv
<1>2. \A p \in Helper' : Sound(proc'[p], next', ticket')
  BY <1>1 DEF Helper
<1>3. EventsAreUnsolicited'
  BY DEF FramesHold, EventsAreUnsolicited
<1>. QED BY <1>2, <1>3 DEF FramesHold

LEMMA NobodyDwindles ==
    ASSUME UNCHANGED proc
    PROVE  AllDwindle
BY DEF AllDwindle, Dwindles

LEMMA KillDwindles ==
    ASSUME proc \in Seq(Process), NEW h \in Helper, proc' = [proc EXCEPT ![h] = Kill(h)]
    PROVE  AllDwindle
<1>1. proc[h] \in Process /\ Kill(h) \in Process
  BY KilledSucceeds DEF Helper, Successor
<1>2. Kill(h).queue = <<>> /\ Kill(h).responses = <<>> /\ Kill(h).out = proc[h].out
  BY <1>1 DEF Kill, Process
<1>3. proc'[h] = Kill(h) /\ \A p \in Helper : p # h => proc'[p] = proc[p]
  BY <1>1, Replaces DEF Helper
<1>. QED BY <1>2, <1>3 DEF AllDwindle, Dwindles

LEMMA StopDwindles ==
    ASSUME ControlInv, NEW e \in Engine, StopEngine(e)
    PROVE  AllDwindle
<1>1. CASE slot[e].helper = Nobody
  BY <1>1, NobodyDwindles DEF StopEngine
<1>2. CASE slot[e].helper # Nobody
  BY <1>2, SlotsAreKnown, KillDwindles DEF StopEngine, ControlInv, PreviewShape
<1>. QED BY <1>1, <1>2

LEMMA TakeDwindles ==
    ASSUME proc \in Seq(Process), cmd.helper \in Helper, proc[cmd.helper].responses # <<>>, proc' = Take
    PROVE  AllDwindle
<1> DEFINE h == cmd.helper
           r == [proc[h] EXCEPT !.responses = Tail(proc[h].responses)]
<1>1. proc[h] \in Process /\ proc'[h] = r /\ \A p \in Helper : p # h => proc'[p] = proc[p]
  BY Takes DEF Helper
<1>2. r.queue = proc[h].queue /\ r.out = proc[h].out /\ r.responses = Tail(proc[h].responses)
  BY <1>1 DEF Process
<1> HIDE DEF r
<1>. QED BY <1>1, <1>2 DEF AllDwindle, Dwindles

LEMMA EndsDwindle ==
    ASSUME PreviewShape, Quit \/ Killed
    PROVE  AllDwindle
<1> SUFFICES ASSUME NEW p \in Helper PROVE Dwindles(proc[p], proc'[p])
  BY DEF AllDwindle
<1> DEFINE a == [proc[p] EXCEPT !.out = <<>>, !.reading = FALSE]
           k == Kill(p)
           b == [k EXCEPT !.out = <<>>, !.reading = FALSE]
           c == [proc[p] EXCEPT !.out = <<>>, !.responses = <<>>, !.heard = FALSE, !.reading = FALSE]
<1>1. proc[p] \in Process
  BY DEF PreviewShape, Helper
<1>2. k \in Process /\ k.queue = <<>> /\ k.responses = <<>>
  <2>1. k \in Process
    BY KilledSucceeds DEF Successor, PreviewShape
  <2>. QED BY <1>1, <2>1 DEF Kill, Process
<1>3. proc'[p] \in {a, b, c}
  <2>1. CASE Quit
    BY <2>1 DEF Quit
  <2>2. CASE Killed
    BY <2>2 DEF Killed
  <2>. QED BY <2>1, <2>2
<1> HIDE DEF k
<1>4. /\ a.queue = proc[p].queue /\ a.out = <<>> /\ a.responses = proc[p].responses
      /\ b.queue = <<>> /\ b.out = <<>> /\ b.responses = <<>>
      /\ c.queue = proc[p].queue /\ c.out = <<>> /\ c.responses = <<>>
  BY <1>1, <1>2 DEF Process
<1> HIDE DEF a, b, c
<1>. QED BY <1>3, <1>4 DEF Dwindles

LEMMA SilentStepsKeepFrames ==
    ASSUME ControlInv, FramesHold,
           \/ PreviewCommand \/ Reuse \/ SpawnFails \/ HelloAccepted \/ HelloFails
           \/ SendFails \/ Answered \/ WrongAnswer \/ Timeout \/ Quit \/ Killed
    PROVE  FramesHold'
<1>0. PreviewShape /\ proc \in Seq(Process) /\ cmd \in Request /\ cmd.engine \in Engine
  BY DEF ControlInv, PreviewShape, Request
<1>1. CASE PreviewCommand
  <2>1. PICK v \in Verb, e \in Engine : Begin(v, e)
    BY <1>1 DEF PreviewCommand
  <2>2. cmd'.at = "ensure" /\ emitted' = emitted /\ cmd.at = "idle" /\ app = "up"
    BY <2>1 DEF Begin, Entering, NoCommand
  <2>3. CASE v = "reconnect"
    <3>1. StopEngine(e) /\ TakeIds(1)
      BY <2>1, <2>3 DEF Begin
    <3>2. Grown /\ Len(proc') = Len(proc) /\ AllDwindle
      BY <2>2, <3>1, StopLeavesNone, StopDwindles
    <3>. QED BY <2>2, <3>1, <3>2, SilenceKeepsFrames
  <2>4. CASE v # "reconnect"
    <3>1. UNCHANGED <<proc, next, ticket>>
      BY <2>1, <2>4 DEF Begin, manager
    <3>. QED BY <1>0, <2>2, <3>1, NobodyMoves, NobodyDwindles, SilenceKeepsFrames
  <2>. QED BY <2>3, <2>4
<1>2. CASE Reuse
  <2>1. UNCHANGED <<proc, next, ticket>> /\ emitted' = emitted
    BY <1>2 DEF Reuse
  <2>2. cmd'.at \notin {"hello", "await"}
    <3>1. CASE cmd.verb \in Probes
      BY <1>2, <3>1 DEF Reuse, Return, NoCommand
    <3>2. CASE cmd.verb \notin Probes
      BY <1>0, <1>2, <3>2 DEF Reuse, Request
    <3>. QED BY <3>1, <3>2
  <2>. QED BY <1>0, <2>1, <2>2, NobodyMoves, NobodyDwindles, SilenceKeepsFrames
<1>3. CASE SpawnFails
  <2>1. /\ cmd.at = "ensure" /\ StopEngine(cmd.engine) /\ TakeIds(1) /\ cmd'.at = "idle" /\ emitted' = emitted
        /\ app = "up"
    BY <1>3 DEF SpawnFails, Return, NoCommand, ControlInv, CommandHolds
  <2>2. Grown /\ Len(proc') = Len(proc) /\ AllDwindle
    BY <1>0, <2>1, StopLeavesNone, StopDwindles
  <2>. QED BY <2>1, <2>2, SilenceKeepsFrames
<1>4. CASE HelloAccepted
  <2>1. /\ cmd.at = "hello" /\ proc[cmd.helper].responses # <<>> /\ proc' = Take
        /\ UNCHANGED <<next, ticket>> /\ emitted' = emitted
    BY <1>4 DEF HelloAccepted
  <2>2. cmd.helper \in Helper
    BY <2>1 DEF ControlInv, CommandHolds
  <2>3. cmd'.at \notin {"hello", "await"}
    <3>1. CASE cmd.verb \in Probes
      BY <1>4, <3>1 DEF HelloAccepted, Return, NoCommand
    <3>2. CASE cmd.verb \notin Probes
      BY <1>0, <1>4, <3>2 DEF HelloAccepted, Request
    <3>. QED BY <3>1, <3>2
  <2>. QED BY <1>0, <2>1, <2>2, <2>3, Takes, TakeDwindles, SilenceKeepsFrames
<1>5. CASE HelloFails
  <2>1. /\ cmd.at = "hello" /\ proc' = [proc EXCEPT ![cmd.helper] = Kill(cmd.helper)] /\ TakeIds(1)
        /\ cmd'.at = "idle" /\ emitted' = emitted
    BY <1>5 DEF HelloFails, HelloRefused, Return, NoCommand
  <2>2. cmd.helper \in Helper
    BY <2>1 DEF ControlInv, CommandHolds
  <2>3. Grown /\ Len(proc') = Len(proc)
    BY <1>0, <2>1, <2>2, KilledSucceeds, OneSucceeds
  <2>. QED BY <1>0, <2>1, <2>2, <2>3, KillDwindles, SilenceKeepsFrames
<1>6. CASE SendFails \/ WrongAnswer \/ Timeout
  <2>1. cmd.at \in {"send", "await"} /\ emitted' = emitted
    BY <1>6 DEF SendFails, WrongAnswer, Timeout
  <2>2. CASE cmd.attempt = 0
    <3>1. StopEngine(cmd.engine) /\ (TakeIds(1) \/ TakeIds(2)) /\ cmd' = [cmd EXCEPT !.at = "ensure", !.attempt = 1, !.helper = Nobody, !.id = 0]
      BY <1>6, <2>2 DEF SendFails, WrongAnswer, Timeout, FirstFailure, Retry
    <3>2. cmd'.at = "ensure" /\ app = "up" /\ cmd.at # "hello"
      BY <1>0, <2>1, <3>1 DEF Request, ControlInv, CommandHolds
    <3>3. Grown /\ Len(proc') = Len(proc) /\ AllDwindle
      BY <1>0, <3>1, <3>2, StopLeavesNone, StopDwindles
    <3>. QED BY <2>1, <3>1, <3>2, <3>3, SilenceKeepsFrames
  <2>3. CASE cmd.attempt # 0
    <3>1. /\ LastFailure(1, cmd.helper) \/ LastFailure(2, slot[cmd.engine].helper)
          /\ UNCHANGED proc \/ (WrongAnswer /\ proc' = Take)
      BY <1>6, <2>3 DEF SendFails, WrongAnswer, Timeout
    <3>2. cmd'.at = "idle" /\ (TakeIds(1) \/ UNCHANGED <<next, ticket>>)
      BY <3>1 DEF LastFailure, Return, NoCommand
    <3>3. Grown /\ Len(proc') = Len(proc) /\ AllDwindle
      <4>1. CASE UNCHANGED proc
        BY <1>0, <4>1, NobodyMoves, NobodyDwindles
      <4>2. CASE WrongAnswer /\ proc' = Take
        <5>1. cmd.at = "await" /\ proc[cmd.helper].responses # <<>>
          BY <4>2 DEF WrongAnswer
        <5>. QED BY <4>2, <5>1, AwaitedIsKnown, Takes, TakeDwindles
      <4>. QED BY <3>1, <4>1, <4>2
    <3>. QED BY <2>1, <3>2, <3>3, SilenceKeepsFrames
  <2>. QED BY <2>2, <2>3
<1>7. CASE Answered
  <2>1. /\ cmd.at = "await" /\ proc[cmd.helper].responses # <<>> /\ proc' = Take
        /\ UNCHANGED <<next, ticket>> /\ cmd'.at = "idle" /\ emitted' = emitted
    BY <1>7 DEF Answered, Return, NoCommand
  <2>. QED BY <2>1, AwaitedIsKnown, Takes, TakeDwindles, SilenceKeepsFrames
<1>8. CASE Quit \/ Killed
  <2>1. cmd' = NoCommand /\ emitted' = emitted
    BY <1>8 DEF Quit, Killed
  <2>2. TakeIds(2) \/ UNCHANGED <<next, ticket>>
    BY <1>8 DEF Quit, Killed
  <2>3. cmd'.at = "idle"
    BY <2>1 DEF NoCommand
  <2>. QED BY <1>0, <1>8, <2>1, <2>2, <2>3, EndsSucceed, EndsDwindle, SilenceKeepsFrames
<1>. QED BY <1>1, <1>2, <1>3, <1>4, <1>5, <1>6, <1>7, <1>8

\* A frame of the request that is being made.
LEMMA FreshIsStamped ==
    ASSUME NEW n \in 1 .. IdSpace - 1, NEW t \in Nat \ {0}, NEW kind
    PROVE  Stamped(Frame(n, kind, t), n, t)
BY IdSpaceAssumption DEF Stamped, Frame, Earlier

\* A start sends HELLO to the new process.
LEMMA StartKeepsFrames ==
    ASSUME ControlInv, FramesHold, StartHelper
    PROVE  FramesHold'
<1> DEFINE e == cmd.engine
           n == Len(proc) + 1
           hello == Frame(next', "hello", ticket')
<1>1. /\ Grown /\ Len(proc') = n
      /\ e \in Engine
      /\ \A p \in Helper : p # slot[e].helper => proc'[p] = proc[p]
      /\ slot[e].helper # Nobody => proc'[slot[e].helper] = Kill(slot[e].helper)
      /\ TakeIds(2)
      /\ \E core \in 0 .. 1 : proc'[n] = Spawned(e, cmd.root, core, hello)
      /\ cmd' = [cmd EXCEPT !.at = "hello", !.helper = n, !.id = next', !.ticket = ticket']
  BY StartIs
<1>2. emitted' = emitted
  BY DEF StartHelper
<1>3. next' \in 1 .. IdSpace - 1 /\ ticket' \in Nat /\ ticket' = ticket + 2 /\ ticket \in Nat
  BY <1>1, Draws DEF ControlInv, PreviewShape
<1>4. ticket' \in Nat \ {0} /\ next' # 0
  BY <1>3
<1>5. Stamped(hello, next', ticket')
  BY <1>3, <1>4, FreshIsStamped
<1> HIDE DEF hello
<1>6. Sound(proc'[n], next', ticket')
  <2>1. proc'[n].queue = <<hello>> /\ proc'[n].out = <<>> /\ proc'[n].responses = <<>>
    BY <1>1 DEF Spawned
  <2>. QED BY <1>5, <2>1 DEF Sound
<1>7. ASSUME NEW p \in Helper PROVE Sound(proc'[p], next', ticket')
  <2>1. proc[p] \in Process /\ proc'[p] \in Process /\ proc \in Seq(Process)
    BY <1>1, <1>7 DEF ControlInv, PreviewShape, Grown, Successor, Helper
  <2>2. Dwindles(proc[p], proc'[p])
    <3>1. CASE p = slot[e].helper
      <4>1. p # Nobody
        BY <1>7 DEF Helper, Nobody
      <4>2. proc'[p] = Kill(p)
        BY <1>1, <3>1, <4>1
      <4>3. Kill(p).queue = <<>> /\ Kill(p).responses = <<>> /\ Kill(p).out = proc[p].out
        BY <2>1 DEF Kill, Process
      <4>. QED BY <4>2, <4>3 DEF Dwindles
    <3>2. CASE p # slot[e].helper
      BY <1>1, <3>2, <1>7 DEF Dwindles
    <3>. QED BY <3>1, <3>2
  <2>3. Sound(proc'[p], next, ticket)
    BY <2>1, <2>2, SoundDwindles, <1>7 DEF FramesHold
  <2>. QED BY <1>1, <2>1, <2>3, SoundDraws DEF ControlInv
<1>8. \A p \in Helper' : p = n \/ p \in Helper
  BY <1>1 DEF Helper, ControlInv, PreviewShape
<1>9. cmd \in Request
  BY DEF ControlInv, PreviewShape
<1>10. cmd'.at = "hello" /\ cmd'.id = next' /\ cmd'.ticket = ticket'
  BY <1>1, <1>9 DEF Request
<1>11. EventsAreUnsolicited'
  BY <1>2 DEF FramesHold, EventsAreUnsolicited
<1>12. \A p \in Helper' : Sound(proc'[p], next', ticket')
  BY <1>6, <1>7, <1>8
<1>. QED BY <1>4, <1>10, <1>11, <1>12 DEF FramesHold

\* A request is queued: every other frame is older than it.
LEMMA SendKeepsFrames ==
    ASSUME ControlInv, FramesHold, Send
    PROVE  FramesHold'
<1> DEFINE h == slot[cmd.engine].helper
           f == Frame(next', cmd.verb, ticket')
           r == [proc[h] EXCEPT !.queue = Enqueue(proc[h].queue, f)]
<1>1. /\ cmd.at = "send" /\ h \in Helper /\ f \in Packet
      /\ Grown /\ Len(proc') = Len(proc)
      /\ proc'[h] = r
      /\ \A q \in Helper : q # h => proc'[q] = proc[q]
      /\ TakeIds(1)
      /\ cmd' = [cmd EXCEPT !.at = "await", !.helper = h, !.id = next', !.ticket = ticket']
  BY SendIs
<1>2. emitted' = emitted
  BY DEF Send
<1>3. next' \in 1 .. IdSpace - 1 /\ ticket' \in Nat /\ ticket' = ticket + 1 /\ ticket \in Nat
  BY <1>1, Draws DEF ControlInv, PreviewShape
<1>4. ticket' \in Nat \ {0} /\ next' # 0
  BY <1>3
<1>5. Stamped(f, next', ticket') /\ f.kind = cmd.verb
  BY <1>3, <1>4, FreshIsStamped DEF Frame
<1>6. cmd \in Request /\ proc \in Seq(Process)
  BY DEF ControlInv, PreviewShape
<1> HIDE DEF f, h
<1>7. cmd'.at = "await" /\ cmd'.id = next' /\ cmd'.ticket = ticket' /\ cmd'.verb = cmd.verb
  BY <1>1, <1>6 DEF Request
<1>8. \A p \in Helper : proc[p] \in Process
  BY <1>6 DEF Helper
<1>9. \A p \in Helper : Sound(proc[p], next', ticket')
  BY <1>1, <1>8, SoundDraws DEF FramesHold, ControlInv
<1>10. /\ r.out = proc[h].out /\ r.responses = proc[h].responses /\ r.queue = Enqueue(proc[h].queue, f)
       /\ proc[h].queue \in Seq(Packet)
  BY <1>1, <1>8 DEF Process
<1> HIDE DEF r
<1> DEFINE q == Enqueue(proc[h].queue, f)
<1>11. /\ q \in Seq(Packet)
       /\ \A k \in 1 .. Len(q) : (k = Len(q) /\ q[k] = f) \/ \E i \in 1 .. Len(proc[h].queue) : q[k] = proc[h].queue[i]
       /\ f.kind = "render" => \A k \in 1 .. Len(q) : q[k].kind = "render" => k = Len(q)
       /\ f.kind # "render" => q = Append(proc[h].queue, f)
  <2>1. proc[h].queue \in Seq(Packet) /\ f \in Packet
    BY <1>1, <1>10
  <2>. QED BY <2>1, EnqueueIs
<1>12. \A i, j \in 1 .. Len(q) : q[i].kind = "render" /\ q[j].kind = "render" => i = j
  <2>1. CASE f.kind = "render"
    BY <1>11, <2>1
  <2>2. CASE f.kind # "render"
    <3> DEFINE s == proc[h].queue
    <3>1. \A i, j \in 1 .. Len(s) : s[i].kind = "render" /\ s[j].kind = "render" => i = j
      BY <1>1, <1>9 DEF Sound
    <3>2. q = Append(s, f) /\ s \in Seq(Packet)
      BY <1>10, <1>11, <2>2
    <3> HIDE DEF q, s
    <3>3. \A i \in 1 .. Len(q) : (i \in 1 .. Len(s) /\ q[i] = s[i]) \/ q[i] = f
      BY <1>1, <3>2
    <3>. QED BY <2>2, <3>1, <3>3
  <2>. QED BY <2>1, <2>2
<1> HIDE DEF q
<1>13. Sound(r, next', ticket')
  BY <1>1, <1>5, <1>9, <1>10, <1>11, <1>12 DEF Sound, q
<1>14. \A p \in Helper : Sound(proc'[p], next', ticket')
  BY <1>1, <1>9, <1>13
<1>15. \A p \in Helper : Answers(proc'[p], cmd', ticket')
  <2>1. \A g : Stamped(g, next, ticket) \/ Unasked(g) => g.ticket # ticket'
    BY <1>3 DEF Stamped, Unasked
  <2>2. \A p \in Helper : Sound(proc[p], next, ticket)
    BY DEF FramesHold
  <2>3. ASSUME NEW p \in Helper, p # h PROVE Answers(proc[p], cmd', ticket')
    BY <2>1, <2>2, <2>3 DEF Answers, Sound
  <2>4. Answers(r, cmd', ticket')
    <3>1. \A k \in 1 .. Len(q) : q[k].ticket = ticket' => q[k].kind = cmd.verb
      BY <1>1, <1>5, <1>11, <2>1, <2>2 DEF Sound
    <3>. QED BY <1>1, <1>7, <1>10, <2>1, <2>2, <3>1 DEF Answers, Sound, q
  <2>. QED BY <1>1, <2>3, <2>4
<1>16. EventsAreUnsolicited'
  BY <1>2 DEF FramesHold, EventsAreUnsolicited
<1>17. Helper' = Helper
  BY <1>1 DEF Helper
<1>. QED BY <1>4, <1>7, <1>14, <1>15, <1>16, <1>17 DEF FramesHold

\* The kind of an answer does not depend on anything but the kind of its request.
LEMMA ServeKeepsFrames ==
    ASSUME ControlInv, FramesHold, NEW p \in Helper, Serve(p)
    PROVE  FramesHold'
<1>1. proc \in Seq(Process) /\ proc[p] \in Process /\ \A x \in Helper : proc[x] \in Process
  BY DEF ControlInv, PreviewShape, Helper
<1> DEFINE queue == proc[p].queue
           request == Head(queue)
<1>2. queue \in Seq(Packet) /\ queue # <<>> /\ proc[p].out \in Seq(Packet)
  BY <1>1 DEF Serve, Process
<1>3. PICK kind \in Replies(request.kind) :
         proc' = [proc EXCEPT ![p] =
                    [proc[p] EXCEPT !.queue = Tail(@), !.out = Append(@, Frame(request.id, kind, request.ticket)),
                              !.window = IF kind = "state" THEN request.kind = "show" ELSE @]]
  BY DEF Serve
<1>4. UNCHANGED <<root, next, slot, cmd, app, done, ticket, commands>> /\ emitted' = emitted
  BY DEF Serve, World
<1> DEFINE answer == Frame(request.id, kind, request.ticket)
<1>5. /\ proc'[p].queue = Tail(queue) /\ proc'[p].out = Append(proc[p].out, answer)
      /\ proc'[p].responses = proc[p].responses
      /\ \A x \in Helper : x # p => proc'[x] = proc[x]
  <2> DEFINE w == IF kind = "state" THEN request.kind = "show" ELSE proc[p].window
             r == [proc[p] EXCEPT !.queue = Tail(queue), !.out = Append(proc[p].out, answer), !.window = w]
  <2>1. proc' = [proc EXCEPT ![p] = r]
    BY <1>3, Zenon
  <2> HIDE DEF w
  <2>2. r.queue = Tail(queue) /\ r.out = Append(proc[p].out, answer) /\ r.responses = proc[p].responses
    BY <1>1 DEF Process
  <2> HIDE DEF r
  <2>3. proc'[p] = r /\ \A x \in Helper : x # p => proc'[x] = proc[x]
    BY <1>1, <2>1 DEF Helper
  <2>. QED BY <2>2, <2>3
<1>6. Len(proc') = Len(proc) /\ Helper' = Helper
  BY ServeSucceeds DEF ControlInv, Helper
<1>7. Sound(proc[p], next, ticket)
  BY DEF FramesHold
<1>8. Stamped(request, next, ticket)
  <2>1. 1 \in 1 .. Len(queue) /\ request = queue[1]
    BY <1>2
  <2>. QED BY <1>7, <2>1 DEF Sound
<1>9. answer.id = request.id /\ answer.ticket = request.ticket /\ answer.kind = kind
  BY DEF Frame
<1>10. Stamped(answer, next, ticket)
  BY <1>8, <1>9 DEF Stamped
<1> DEFINE less == Tail(queue)
           more == Append(proc[p].out, answer)
<1>11. \A i \in 1 .. Len(less) : i + 1 \in 1 .. Len(queue) /\ less[i] = queue[i + 1]
  BY <1>2
<1>12. \A i \in 1 .. Len(more) : (i \in 1 .. Len(proc[p].out) /\ more[i] = proc[p].out[i]) \/ more[i] = answer
  <2> DEFINE s == proc[p].out
  <2>1. s \in Seq(Packet) /\ more = Append(s, answer)
    BY <1>2
  <2> HIDE DEF s, more, answer
  <2>2. \A i \in 1 .. Len(more) : (i \in 1 .. Len(s) /\ more[i] = s[i]) \/ more[i] = answer
    BY <2>1
  <2>. QED BY <2>2 DEF s
<1> HIDE DEF less, more, answer, request
<1>13. \A i, j \in 1 .. Len(less) : less[i].kind = "render" /\ less[j].kind = "render" => i = j
  <2> SUFFICES ASSUME NEW i \in 1 .. Len(less), NEW j \in 1 .. Len(less),
                      less[i].kind = "render", less[j].kind = "render"
               PROVE  i = j
    OBVIOUS
  <2>1. i + 1 = j + 1
    BY <1>7, <1>11 DEF Sound
  <2>2. Len(less) \in Nat
    BY <1>2 DEF less
  <2>. QED BY <2>1, <2>2
<1>14. Sound(proc'[p], next, ticket)
  <2>1. \A i \in 1 .. Len(less) : Stamped(less[i], next, ticket)
    BY <1>7, <1>11 DEF Sound
  <2>2. \A i \in 1 .. Len(more) : Stamped(more[i], next, ticket) \/ Unasked(more[i])
    BY <1>7, <1>10, <1>12 DEF Sound
  <2>. QED BY <1>5, <1>7, <1>13, <2>1, <2>2 DEF Sound, less, more
<1>15. \A x \in Helper : Sound(proc'[x], next', ticket')
  BY <1>4, <1>5, <1>14 DEF FramesHold
<1>16. ASSUME cmd.at = "await" PROVE Answers(proc'[p], cmd, ticket)
  <2>1. Answers(proc[p], cmd, ticket)
    BY <1>16 DEF FramesHold
  <2>2. request.ticket = ticket => request.kind = cmd.verb
    <3>1. 1 \in 1 .. Len(queue) /\ request = queue[1]
      BY <1>2 DEF request
    <3>. QED BY <2>1, <3>1 DEF Answers
  <2>3. \A i \in 1 .. Len(less) : less[i].ticket = ticket => less[i].kind = cmd.verb
    BY <1>11, <2>1 DEF Answers
  <2>4. \A i \in 1 .. Len(more) : more[i].ticket = ticket => more[i].kind \in Replies(cmd.verb)
    BY <1>3, <1>9, <1>12, <2>1, <2>2 DEF Answers
  <2>. QED BY <1>5, <2>1, <2>3, <2>4 DEF Answers, less, more
<1>17. cmd'.at = "await" => \A x \in Helper : Answers(proc'[x], cmd', ticket')
  BY <1>4, <1>5, <1>16 DEF FramesHold
<1>. QED BY <1>4, <1>6, <1>15, <1>17 DEF FramesHold, EventsAreUnsolicited

\* A process of which one sequence grows by a frame that is no answer, or is
\* passed on from the output to the channel.
LEMMA OneStaysSound ==
    ASSUME ControlInv, FramesHold, NEW p \in Helper, Len(proc') = Len(proc),
           \A x \in Helper : x # p => proc'[x] = proc[x],
           UNCHANGED <<next, ticket, cmd>>, EventsAreUnsolicited',
           Sound(proc'[p], next, ticket),
           cmd.at = "await" => Answers(proc'[p], cmd, ticket)
    PROVE  FramesHold'
<1>1. Helper' = Helper
  BY DEF Helper
<1>. QED BY <1>1 DEF FramesHold

LEMMA GainsOne ==
    ASSUME NEW s \in Seq(Packet), NEW g, NEW t \in {s, Append(s, g)}
    PROVE  \A i \in 1 .. Len(t) : (i \in 1 .. Len(s) /\ t[i] = s[i]) \/ t[i] = g
OBVIOUS

LEMMA HelperStepKeepsFrames ==
    ASSUME ControlInv, FramesHold, NEW p \in Helper,
           CloseWindow(p) \/ Crash(p) \/ Route(p) \/ RouteEof(p) \/ EndOfInput(p)
    PROVE  FramesHold'
<1>1. proc \in Seq(Process) /\ proc[p] \in Process
  BY DEF ControlInv, PreviewShape, Helper
<1>2. /\ proc[p].out \in Seq(Packet) /\ proc[p].responses \in Seq(Packet) /\ proc[p].queue \in Seq(Packet)
  BY <1>1 DEF Process
<1>3. Len(proc') = Len(proc) /\ UNCHANGED <<next, ticket, cmd>>
  BY HelperSucceeds DEF ControlInv, CloseWindow, Crash, Route, RouteEof, EndOfInput, World
<1>4. Sound(proc[p], next, ticket) /\ EventsAreUnsolicited /\ (cmd.at = "await" => Answers(proc[p], cmd, ticket))
  BY DEF FramesHold
<1>5. ticket # 0 \/ cmd.at # "await"
  BY DEF FramesHold
<1>6. CASE CloseWindow(p) \/ RouteEof(p)
  <2> DEFINE closing == Frame(0, "state", 0)
  <2>1. Unasked(closing) /\ closing.ticket = 0 /\ Unasked(Eof) /\ Eof.ticket = 0
    BY DEF Frame, Eof, Unasked
  <2> HIDE DEF closing
  <2>2. /\ proc'[p].queue = proc[p].queue
        /\ proc'[p].out \in {proc[p].out, Append(proc[p].out, closing)}
        /\ proc'[p].responses \in {proc[p].responses, Append(proc[p].responses, Eof)}
        /\ \A x \in Helper : x # p => proc'[x] = proc[x]
        /\ emitted' = emitted
    <3>1. CASE CloseWindow(p)
      <4> DEFINE r == [proc[p] EXCEPT !.window = FALSE, !.out = Append(@, closing)]
      <4>1. proc' = [proc EXCEPT ![p] = r] /\ emitted' = emitted
        BY <3>1 DEF CloseWindow, closing
      <4>2. r.queue = proc[p].queue /\ r.out = Append(proc[p].out, closing) /\ r.responses = proc[p].responses
        BY <1>1 DEF Process
      <4> HIDE DEF r
      <4>. QED BY <1>1, <4>1, <4>2 DEF Helper
    <3>2. CASE RouteEof(p)
      <4> DEFINE answers == IF proc[p].heard THEN Append(proc[p].responses, Eof) ELSE proc[p].responses
                 r == [proc[p] EXCEPT !.reading = FALSE, !.responses = answers]
      <4>1. proc' = [proc EXCEPT ![p] = r] /\ emitted' = emitted
        BY <3>2 DEF RouteEof
      <4>2. answers \in {proc[p].responses, Append(proc[p].responses, Eof)}
        OBVIOUS
      <4> HIDE DEF answers
      <4>3. r.queue = proc[p].queue /\ r.out = proc[p].out /\ r.responses = answers
        BY <1>1 DEF Process
      <4> HIDE DEF r
      <4>. QED BY <1>1, <4>1, <4>2, <4>3 DEF Helper
    <3>. QED BY <1>6, <3>1, <3>2
  <2>4. /\ \A i \in 1 .. Len(proc'[p].out) :
              (i \in 1 .. Len(proc[p].out) /\ proc'[p].out[i] = proc[p].out[i]) \/ proc'[p].out[i] = closing
        /\ \A i \in 1 .. Len(proc'[p].responses) :
              (i \in 1 .. Len(proc[p].responses) /\ proc'[p].responses[i] = proc[p].responses[i])
              \/ proc'[p].responses[i] = Eof
    <3>1. \A i \in 1 .. Len(proc'[p].out) :
              (i \in 1 .. Len(proc[p].out) /\ proc'[p].out[i] = proc[p].out[i]) \/ proc'[p].out[i] = closing
      <4> DEFINE o == proc'[p].out
                 u == proc[p].out
      <4>1. u \in Seq(Packet) /\ o \in {u, Append(u, closing)}
        BY <1>2, <2>2
      <4> HIDE DEF o, u
      <4>2. \A i \in 1 .. Len(o) : (i \in 1 .. Len(u) /\ o[i] = u[i]) \/ o[i] = closing
        BY <4>1, GainsOne
      <4>. QED BY <4>2 DEF o, u
    <3>2. \A i \in 1 .. Len(proc'[p].responses) :
              (i \in 1 .. Len(proc[p].responses) /\ proc'[p].responses[i] = proc[p].responses[i])
              \/ proc'[p].responses[i] = Eof
      <4> DEFINE o == proc'[p].responses
                 u == proc[p].responses
      <4>1. u \in Seq(Packet) /\ o \in {u, Append(u, Eof)}
        BY <1>2, <2>2
      <4> HIDE DEF o, u
      <4>2. \A i \in 1 .. Len(o) : (i \in 1 .. Len(u) /\ o[i] = u[i]) \/ o[i] = Eof
        BY <4>1, GainsOne
      <4>. QED BY <4>2 DEF o, u
    <3>. QED BY <3>1, <3>2
  <2>5. Sound(proc'[p], next, ticket)
    BY <1>4, <2>1, <2>2, <2>4 DEF Sound
  <2>6. ticket # 0 /\ Answers(proc[p], cmd, ticket) => Answers(proc'[p], cmd, ticket)
    BY <2>1, <2>2, <2>4 DEF Answers
  <2>7. EventsAreUnsolicited'
    BY <1>4, <2>2 DEF EventsAreUnsolicited
  <2>. QED BY <1>3, <1>4, <1>5, <2>2, <2>5, <2>6, <2>7, OneStaysSound
<1>7. CASE Crash(p) \/ EndOfInput(p)
  <2> DEFINE r == [proc[p] EXCEPT !.life = "dead", !.queue = <<>>]
  <2>1. proc' = [proc EXCEPT ![p] = r] /\ emitted' = emitted
    BY <1>7 DEF Crash, EndOfInput
  <2>2. r.queue = <<>> /\ r.out = proc[p].out /\ r.responses = proc[p].responses
    BY <1>1 DEF Process
  <2> HIDE DEF r
  <2>3. proc'[p] = r /\ \A x \in Helper : x # p => proc'[x] = proc[x]
    BY <1>1, <2>1 DEF Helper
  <2>4. Sound(proc'[p], next, ticket)
    BY <1>4, <2>2, <2>3 DEF Sound
  <2>5. Answers(proc[p], cmd, ticket) => Answers(proc'[p], cmd, ticket)
    BY <2>2, <2>3 DEF Answers
  <2>6. EventsAreUnsolicited'
    BY <1>4, <2>1 DEF EventsAreUnsolicited
  <2>. QED BY <1>3, <1>4, <2>3, <2>4, <2>5, <2>6, OneStaysSound
<1>8. CASE Route(p)
  <2> DEFINE frame == Head(proc[p].out)
             a == [proc[p] EXCEPT !.out = Tail(@)]
             b == [proc[p] EXCEPT !.out = Tail(@), !.responses = Append(@, frame)]
             c == [proc[p] EXCEPT !.out = <<>>, !.reading = FALSE]
  <2>1. proc[p].out # <<>> /\ 1 \in 1 .. Len(proc[p].out) /\ frame = proc[p].out[1]
    BY <1>2, <1>8 DEF Route
  <2>2. \/ proc' = [proc EXCEPT ![p] = a] \/ proc' = [proc EXCEPT ![p] = b]
        \/ proc' = [proc EXCEPT ![p] = c]
    BY <1>8 DEF Route
  <2>3. emitted' = emitted \/ (frame.id = 0 /\ emitted' = emitted \cup EventOf(frame))
    BY <1>8 DEF Route
  <2>4. /\ a.queue = proc[p].queue /\ a.out = Tail(proc[p].out) /\ a.responses = proc[p].responses
        /\ b.queue = proc[p].queue /\ b.out = Tail(proc[p].out) /\ b.responses = Append(proc[p].responses, frame)
        /\ c.queue = proc[p].queue /\ c.out = <<>> /\ c.responses = proc[p].responses
    BY <1>1 DEF Process
  <2> HIDE DEF a, b, c, frame
  <2>5. /\ proc'[p] \in {a, b, c} /\ \A x \in Helper : x # p => proc'[x] = proc[x]
    BY <1>1, <2>2 DEF Helper
  <2>6. Stamped(frame, next, ticket) \/ Unasked(frame)
    BY <1>4, <2>1 DEF Sound
  <2>7. EventsAreUnsolicited'
    <3>1. frame.id = 0 => frame.ticket = 0
      BY <2>6 DEF Stamped, Unasked
    <3>. QED BY <1>4, <2>3, <3>1 DEF EventsAreUnsolicited, EventOf
  <2>8. \A i \in 1 .. Len(proc'[p].out) : \E j \in 1 .. Len(proc[p].out) : proc'[p].out[i] = proc[p].out[j]
    <3>1. proc'[p].out \in {Tail(proc[p].out), <<>>}
      BY <2>4, <2>5
    <3>2. \A i \in 1 .. Len(Tail(proc[p].out)) :
             i + 1 \in 1 .. Len(proc[p].out) /\ Tail(proc[p].out)[i] = proc[p].out[i + 1]
      BY <1>2, <2>1
    <3>3. \A i \in 1 .. Len(Tail(proc[p].out)) :
             \E j \in 1 .. Len(proc[p].out) : Tail(proc[p].out)[i] = proc[p].out[j]
      BY <3>2
    <3>4. CASE proc'[p].out = <<>>
      BY <3>4
    <3>. QED BY <3>1, <3>3, <3>4
  <2>9. \A i \in 1 .. Len(proc'[p].responses) :
              (i \in 1 .. Len(proc[p].responses) /\ proc'[p].responses[i] = proc[p].responses[i])
              \/ proc'[p].responses[i] = frame
    <3>1. proc'[p].responses \in {proc[p].responses, Append(proc[p].responses, frame)}
      BY <2>4, <2>5
    <3> DEFINE o == proc'[p].responses
               u == proc[p].responses
    <3>2. u \in Seq(Packet) /\ o \in {u, Append(u, frame)}
      BY <1>2, <3>1
    <3> HIDE DEF o, u
    <3>3. \A i \in 1 .. Len(o) : (i \in 1 .. Len(u) /\ o[i] = u[i]) \/ o[i] = frame
      BY <3>2, GainsOne
    <3>. QED BY <3>3 DEF o, u
  <2>10. proc'[p].queue = proc[p].queue
    BY <2>4, <2>5
  <2>11. Sound(proc'[p], next, ticket)
    BY <1>4, <2>6, <2>8, <2>9, <2>10 DEF Sound
  <2>12. Answers(proc[p], cmd, ticket) => Answers(proc'[p], cmd, ticket)
    BY <2>1, <2>8, <2>9, <2>10 DEF Answers
  <2>. QED BY <1>3, <1>4, <2>5, <2>7, <2>11, <2>12, OneStaysSound
<1>. QED BY <1>6, <1>7, <1>8

LEMMA FramesInit ==
    ASSUME PreviewInit
    PROVE  FramesHold
<1>1. Helper = {}
  BY DEF PreviewInit, Helper
<1>2. cmd.at = "idle" /\ emitted = {}
  BY DEF PreviewInit, NoCommand
<1>. QED BY <1>1, <1>2 DEF FramesHold, EventsAreUnsolicited

LEMMA FramesStep ==
    ASSUME ControlInv, FramesHold, [PreviewNext]_previewVars
    PROVE  FramesHold'
<1>1. CASE PreviewCommand \/ Quit \/ Killed
  BY <1>1, SilentStepsKeepFrames
<1>2. CASE ManagerStep
  BY <1>2, SilentStepsKeepFrames, StartKeepsFrames, SendKeepsFrames DEF ManagerStep
<1>3. CASE \E p \in Helper : HelperStep(p)
  BY <1>3, ServeKeepsFrames, HelperStepKeepsFrames DEF HelperStep
<1>4. CASE RootChanges \/ UNCHANGED previewVars
  <2>1. UNCHANGED <<next, cmd, ticket, proc, emitted>>
    BY <1>4 DEF RootChanges, previewVars
  <2>. QED BY <2>1 DEF FramesHold, Helper, EventsAreUnsolicited
<1>. QED BY <1>1, <1>2, <1>3, <1>4 DEF PreviewNext

\* No answer waits in a channel while the identifiers go all the way round: 2^64
\* requests in the code.
NoLap ==
    \A p \in Helper : \A i \in 1 .. Len(proc[p].responses) :
        ticket - proc[p].responses[i].ticket < IdSpace - 1 \/ Unasked(proc[p].responses[i])

\* What the last command returned, and from whom.
DoneHolds ==
    /\ AnswerIsOurs /\ FailureIsFresh
    /\ done.ok /\ done.helper # Nobody => done.helper \in Helper

\* An answer that is accepted is the answer to the request.
LEMMA AcceptedIsOurs ==
    ASSUME ControlInv, FramesHold, NoLap, Answered
    PROVE  /\ Response.ticket = cmd.ticket
           /\ Response.kind = WantedKind(cmd.verb)
<1> DEFINE s == proc[cmd.helper].responses
<1>1. cmd.at = "await" /\ s # <<>> /\ Accepts(Response)
  BY DEF Answered
<1>2. cmd.helper \in Helper /\ proc \in Seq(Process)
  BY <1>1, AwaitedIsKnown
<1>3. s \in Seq(Packet)
  <2>1. proc[cmd.helper] \in Process
    BY <1>2 DEF Helper
  <2>. QED BY <2>1 DEF Process
<1>4. 1 \in 1 .. Len(s) /\ Response = s[1] /\ s[1] \in Packet
  BY <1>1, <1>3 DEF Response
<1>5. cmd.id = next /\ next # 0 /\ cmd.ticket = ticket /\ Answers(proc[cmd.helper], cmd, ticket)
  BY <1>1, <1>2 DEF FramesHold
<1>6. Response.id = next /\ Response.kind \notin {"eof", "error"}
  BY <1>1, <1>5 DEF Accepts
<1>7. Stamped(Response, next, ticket) \/ Unasked(Response)
  BY <1>2, <1>4 DEF FramesHold, Sound
<1>8. Stamped(Response, next, ticket)
  BY <1>5, <1>6, <1>7 DEF Unasked
<1>9. ticket - Response.ticket < IdSpace - 1
  BY <1>2, <1>4, <1>5, <1>6 DEF NoLap, Unasked
<1>10. next \in 0 .. IdSpace - 1 /\ ticket \in Nat /\ Response.ticket \in 1 .. ticket
  BY <1>8 DEF ControlInv, PreviewShape, Stamped
<1>11. next = Earlier(next, ticket - Response.ticket)
  BY <1>6, <1>8, <1>9 DEF Stamped
<1>12. Response.ticket = ticket
  BY <1>9, <1>10, <1>11, IdSpaceAssumption DEF Earlier
<1>13. Response.kind \in Replies(cmd.verb)
  BY <1>4, <1>5, <1>12 DEF Answers
<1>14. cmd.verb \in Verb /\ cmd.verb \notin Probes
  BY <1>1 DEF ControlInv, PreviewShape, CommandHolds, Request
<1>15. Response.kind = WantedKind(cmd.verb)
  BY <1>6, <1>13, <1>14 DEF Replies, WantedKind, Verb, Probes
<1>. QED BY <1>5, <1>12, <1>15

\* Whatever happens, processes are only added, and keep what they were started with.
LEMMA AllGrow ==
    ASSUME ControlInv, [PreviewNext]_previewVars
    PROVE  Grown
<1>0. PreviewShape /\ cmd.engine \in Engine
  BY DEF ControlInv, PreviewShape, Request
<1>1. CASE UNCHANGED proc
  BY <1>0, <1>1, NobodyMoves
<1>2. CASE PreviewCommand
  <2>1. PICK v \in Verb, e \in Engine : Begin(v, e)
    BY <1>2 DEF PreviewCommand
  <2>2. app = "up" /\ cmd.at # "hello" /\ (StopEngine(e) \/ UNCHANGED proc)
    BY <2>1 DEF Begin, NoCommand
  <2>. QED BY <1>1, <2>2, StopLeavesNone
<1>3. CASE SpawnFails \/ (cmd.at \in {"send", "await"} /\ (FirstFailure(1) \/ FirstFailure(2)))
  <2>1. StopEngine(cmd.engine) /\ cmd.at \notin {"idle", "hello"}
    BY <1>3 DEF SpawnFails, FirstFailure
  <2>2. app = "up"
    BY <2>1 DEF ControlInv, CommandHolds
  <2>. QED BY <1>0, <2>1, <2>2, StopLeavesNone
<1>4. CASE StartHelper
  BY <1>4, StartIs
<1>5. CASE HelloAccepted \/ Answered \/ (WrongAnswer /\ proc' = Take)
  <2>1. cmd.at \in {"hello", "await"} /\ proc[cmd.helper].responses # <<>> /\ proc' = Take
    BY <1>5 DEF HelloAccepted, Answered, WrongAnswer
  <2>2. cmd.helper \in Helper /\ proc \in Seq(Process)
    BY <1>0, <2>1, AwaitedIsKnown DEF ControlInv, CommandHolds, PreviewShape
  <2>. QED BY <2>1, <2>2, Takes
<1>6. CASE HelloFails
  <2>1. cmd.helper \in Helper /\ proc \in Seq(Process) /\ proc' = [proc EXCEPT ![cmd.helper] = Kill(cmd.helper)]
    BY <1>0, <1>6 DEF HelloFails, HelloRefused, ControlInv, CommandHolds, PreviewShape
  <2>2. Successor(proc[cmd.helper], Kill(cmd.helper))
    BY <2>1, KilledSucceeds
  <2>. QED BY <2>1, <2>2, OneSucceeds
<1>7. CASE Send
  BY <1>7, SendIs
<1>8. CASE \E p \in Helper : HelperStep(p)
  BY <1>0, <1>8, ServeSucceeds, HelperSucceeds DEF HelperStep
<1>9. CASE Quit \/ Killed
  BY <1>0, <1>9, EndsSucceed
<1>10. CASE SendFails \/ WrongAnswer \/ Timeout
  <2>1. CASE cmd.attempt = 0
    BY <1>3, <1>10, <2>1 DEF SendFails, WrongAnswer, Timeout
  <2>2. CASE cmd.attempt # 0
    BY <1>1, <1>5, <1>10, <2>2 DEF SendFails, WrongAnswer, Timeout
  <2>. QED BY <2>1, <2>2
<1>11. CASE Reuse \/ RootChanges \/ UNCHANGED previewVars
  <2>1. UNCHANGED proc
    BY <1>11 DEF Reuse, RootChanges, previewVars
  <2>. QED BY <1>1, <2>1
<1>12. CASE ManagerStep
  BY <1>3, <1>4, <1>5, <1>6, <1>7, <1>10, <1>11, <1>12 DEF ManagerStep
<1>. QED BY <1>2, <1>8, <1>9, <1>11, <1>12 DEF PreviewNext

\* The last result stays true while processes are added.
LEMMA DoneStays ==
    ASSUME DoneHolds, Grown, done' = done
    PROVE  DoneHolds'
<1>1. done.ok /\ done.helper # Nobody =>
        /\ done.helper \in Helper' /\ Successor(proc[done.helper], proc'[done.helper])
  BY DEF DoneHolds, Grown, Helper
<1>2. AnswerIsOurs'
  BY <1>1 DEF DoneHolds, AnswerIsOurs, Successor
<1>. QED BY <1>1, <1>2 DEF DoneHolds, FailureIsFresh

LEMMA Returns ==
    ASSUME NEW ok, NEW h, NEW a, NEW f, Return(ok, h, a, f)
    PROVE  /\ done'.ok = ok /\ done'.verb = cmd.verb /\ done'.engine = cmd.engine /\ done'.root = cmd.root
           /\ done'.helper = h /\ done'.asked = cmd.ticket /\ done'.answered = a /\ done'.fresh = f
           /\ ok = TRUE => done'.core = slot'[cmd.engine].core
BY DEF Return

\* A command that fails has started a helper itself, or could not.
LEMMA FreshFailure ==
    ASSUME NEW h, NEW a, NEW f, Return(FALSE, h, a, f), f = TRUE
    PROVE  DoneHolds'
<1>1. done'.ok = FALSE /\ done'.fresh = TRUE
  BY Returns
<1>. QED BY <1>1 DEF DoneHolds, AnswerIsOurs, FailureIsFresh

\* A command that succeeds was served by a helper of its engine and its root.
LEMMA Served ==
    ASSUME ControlInv, Grown, NEW h \in Helper, NEW a, NEW f, Return(TRUE, h, a, f),
           proc[h].engine = cmd.engine, proc[h].root = cmd.root,
           cmd.verb \notin Probes => a = cmd.ticket,
           cmd.verb \in Probes => slot'[cmd.engine].core = proc[h].core /\ proc[h].core # 0
    PROVE  DoneHolds'
<1>1. /\ done'.ok = TRUE /\ done'.verb = cmd.verb /\ done'.engine = cmd.engine /\ done'.root = cmd.root
      /\ done'.helper = h /\ done'.asked = cmd.ticket /\ done'.answered = a
      /\ done'.core = slot'[cmd.engine].core
  BY Returns
<1>2. h \in Helper' /\ Successor(proc[h], proc'[h])
  BY DEF Grown, Helper
<1>3. AnswerIsOurs'
  BY <1>1, <1>2 DEF AnswerIsOurs, Successor
<1>. QED BY <1>1, <1>2, <1>3 DEF DoneHolds, FailureIsFresh

LEMMA DoneStep ==
    ASSUME ControlInv, FramesHold, NoLap, DoneHolds, [PreviewNext]_previewVars
    PROVE  DoneHolds'
<1>0. Grown
  BY AllGrow
<1>1. CASE done' = done
  BY <1>0, <1>1, DoneStays
<1>2. cmd.engine \in Engine /\ cmd.attempt \in 0 .. 1
  BY DEF ControlInv, PreviewShape, Request
<1>3. CASE Reuse
  <2>1. CASE cmd.verb \in Probes
    <3> DEFINE h == slot[cmd.engine].helper
    <3>1. /\ h # Nobody /\ slot[cmd.engine].root = cmd.root /\ slot' = slot /\ proc' = proc
          /\ Return(TRUE, h, 0, StartedOne)
      BY <1>3, <2>1 DEF Reuse, KeepsHelper
    <3>2. /\ h \in Helper /\ proc[h].engine = cmd.engine /\ proc[h].root = cmd.root
          /\ slot[cmd.engine].core = proc[h].core
      BY <1>2, <3>1 DEF ControlInv, SlotsHold
    <3>3. proc[h].core # 0
      BY <1>2, <2>1, <3>1, <3>2 DEF ControlInv, SlotsHold, CommandHolds
    <3> HIDE DEF h
    <3>. QED BY <1>0, <2>1, <3>1, <3>2, <3>3, Served
  <2>2. CASE cmd.verb \notin Probes
    BY <1>1, <1>3, <2>2 DEF Reuse
  <2>. QED BY <2>1, <2>2
<1>4. CASE HelloAccepted
  <2>1. CASE cmd.verb \in Probes
    <3>1. /\ cmd.at = "hello" /\ ValidHello(Response) /\ Return(TRUE, cmd.helper, 0, TRUE)
          /\ slot' = [slot EXCEPT ![cmd.engine] =
                        [helper |-> cmd.helper, root |-> cmd.root, core |-> proc[cmd.helper].core]]
      BY <1>4, <2>1 DEF HelloAccepted
    <3>2. cmd.helper \in Helper /\ proc[cmd.helper].engine = cmd.engine /\ proc[cmd.helper].root = cmd.root
      BY <3>1 DEF ControlInv, CommandHolds
    <3>3. slot'[cmd.engine].core = proc[cmd.helper].core
      BY <1>2, <3>1 DEF ControlInv, PreviewShape
    <3>4. proc[cmd.helper].core # 0
      BY <2>1, <3>1 DEF ControlInv, CommandHolds, ValidHello
    <3>. QED BY <1>0, <2>1, <3>1, <3>2, <3>3, <3>4, Served
  <2>2. CASE cmd.verb \notin Probes
    BY <1>1, <1>4, <2>2 DEF HelloAccepted
  <2>. QED BY <2>1, <2>2
<1>5. CASE Answered
  <2>1. /\ cmd.at = "await" /\ cmd.helper = slot[cmd.engine].helper
        /\ Return(Response.kind = WantedKind(cmd.verb), cmd.helper, Response.ticket, StartedOne)
    BY <1>5 DEF Answered, ControlInv, CommandHolds
  <2>2. (Response.kind = WantedKind(cmd.verb)) = TRUE /\ Response.ticket = cmd.ticket
    BY <1>5, AcceptedIsOurs
  <2>3. /\ cmd.verb \notin Probes /\ cmd.helper # Nobody /\ slot[cmd.engine].root = cmd.root
    BY <2>1 DEF ControlInv, CommandHolds
  <2>4. cmd.helper \in Helper /\ proc[cmd.helper].engine = cmd.engine /\ proc[cmd.helper].root = cmd.root
    BY <1>2, <2>1, <2>3 DEF ControlInv, SlotsHold
  <2>5. Return(TRUE, cmd.helper, Response.ticket, StartedOne)
    BY <2>1, <2>2
  <2>. QED BY <1>0, <2>2, <2>3, <2>4, <2>5, Served
<1>6. CASE SpawnFails \/ HelloFails
  <2>1. Return(FALSE, Nobody, 0, TRUE) \/ Return(FALSE, cmd.helper, 0, TRUE)
    BY <1>6 DEF SpawnFails, HelloFails, HelloRefused
  <2>. QED BY <2>1, FreshFailure
<1>7. CASE SendFails \/ WrongAnswer \/ Timeout
  <2>1. CASE cmd.attempt = 0
    <3>1. done' = done
      BY <1>7, <2>1 DEF SendFails, WrongAnswer, Timeout, FirstFailure
    <3>. QED BY <1>1, <3>1
  <2>2. CASE cmd.attempt = 1
    <3>1. cmd.at \in {"send", "await"}
      BY <1>7 DEF SendFails, WrongAnswer, Timeout
    <3>2. \/ Return(FALSE, cmd.helper, 0, StartedOne)
          \/ Return(FALSE, slot[cmd.engine].helper, 0, StartedOne)
      <4>1. LastFailure(1, cmd.helper) \/ LastFailure(2, slot[cmd.engine].helper)
        BY <1>7, <2>2 DEF SendFails, WrongAnswer, Timeout
      <4>. QED BY <4>1, Zenon DEF LastFailure
    <3>3. StartedOne = TRUE
      BY <2>2, <3>1 DEF ControlInv, CommandHolds, StartedOne
    <3>. QED BY <3>2, <3>3, FreshFailure
  <2>. QED BY <1>2, <2>1, <2>2
<1>8. CASE PreviewCommand \/ StartHelper \/ Send \/ (\E p \in Helper : HelperStep(p)) \/ RootChanges \/ Quit \/ Killed
           \/ UNCHANGED previewVars
  <2>1. done' = done
    BY <1>8 DEF PreviewCommand, Begin, StartHelper, Send, HelperStep, Serve, CloseWindow, Crash, Route, RouteEof,
       EndOfInput, World, RootChanges, Quit, Killed, previewVars
  <2>. QED BY <1>1, <2>1
<1>. QED BY <1>3, <1>4, <1>5, <1>6, <1>7, <1>8 DEF PreviewNext, ManagerStep

LEMMA DoneInit ==
    ASSUME PreviewInit
    PROVE  DoneHolds
BY DEF PreviewInit, DoneHolds, AnswerIsOurs, FailureIsFresh, Nothing, Nobody

\* The type invariant says no more than what was proved of the frames.
LEMMA TypesHold ==
    ASSUME ControlInv, FramesHold
    PROVE  PreviewTypeOK
<1>1. /\ root \in Roots \cup {NoRoot} /\ next \in 0 .. IdSpace - 1 /\ ticket \in Nat
      /\ slot \in [Engine -> [helper : Nat, root : Root, core : 0 .. 1]]
      /\ proc \in Seq(Process) /\ cmd \in Request /\ app \in {"up", "gone"}
  BY DEF ControlInv, PreviewShape, Root
<1>2. slot \in [Engine -> [helper : {Nobody} \cup Helper, root : Roots \cup {NoRoot}, core : 0 .. 1]]
  BY <1>1, SlotsAreKnown DEF Root
<1>3. ASSUME NEW p \in Helper
      PROVE  /\ proc[p].life \in {"up", "dead"}
             /\ proc[p].engine \in Engine
             /\ proc[p].root \in Roots \cup {NoRoot}
             /\ {proc[p].window, proc[p].heard, proc[p].reading} \subseteq BOOLEAN
             /\ proc[p].queue \in Seq(Frames) /\ proc[p].out \in Seq(Frames) /\ proc[p].responses \in Seq(Frames)
             /\ Cardinality(Renders(proc[p].queue)) <= 1
  <2>1. proc[p] \in Process
    BY <1>1 DEF Helper
  <2>2. Sound(proc[p], next, ticket)
    BY DEF FramesHold
  <2>3. /\ proc[p].queue \in Seq(Packet) /\ proc[p].out \in Seq(Packet) /\ proc[p].responses \in Seq(Packet)
    BY <2>1 DEF Process
  <2>4. ASSUME NEW s \in Seq(Packet),
               \A i \in 1 .. Len(s) : Stamped(s[i], next, ticket) \/ Unasked(s[i])
        PROVE  s \in Seq(Frames)
    <3>1. \A i \in 1 .. Len(s) : s[i] \in Packet /\ s[i].ticket \in 0 .. ticket
      BY <1>1, <2>4 DEF Stamped, Unasked
    <3>2. \A f \in Packet : f.ticket \in 0 .. ticket => f \in Frames
      BY DEF Packet, Frames, Kind
    <3>3. \A i \in 1 .. Len(s) : s[i] \in Frames
      BY <3>1, <3>2
    <3>4. DOMAIN s = 1 .. Len(s) /\ Len(s) \in Nat /\ s = [i \in 1 .. Len(s) |-> s[i]]
      BY <2>4
    <3>5. s \in [1 .. Len(s) -> Frames]
      BY <3>3, <3>4
    <3>. QED BY <3>4, <3>5
  <2>5. proc[p].queue \in Seq(Frames) /\ proc[p].out \in Seq(Frames) /\ proc[p].responses \in Seq(Frames)
    BY <2>2, <2>3, <2>4 DEF Sound
  <2>6. Cardinality(Renders(proc[p].queue)) <= 1
    <3> DEFINE R == Renders(proc[p].queue)
    <3>1. \A i, j \in R : i = j
      BY <2>2 DEF Sound, Renders
    <3> HIDE DEF R
    <3>2. R = {} \/ \E i \in R : R = {i}
      BY <3>1
    <3>3. Cardinality(R) <= 1
      BY <3>2, FS_EmptySet, FS_Singleton
    <3>. QED BY <3>3 DEF R
  <2>7. /\ proc[p].life \in {"up", "dead"} /\ proc[p].engine \in Engine /\ proc[p].root \in Roots \cup {NoRoot}
    BY <2>1 DEF Process, Root
  <2>8. proc[p].window \in BOOLEAN /\ proc[p].heard \in BOOLEAN /\ proc[p].reading \in BOOLEAN
    BY <2>1, Zenon DEF Process
  <2>9. {proc[p].window, proc[p].heard, proc[p].reading} \subseteq BOOLEAN
    BY <2>8, Zenon
  <2>. QED BY <2>5, <2>6, <2>7, <2>9
<1>4. cmd.at \in {"idle", "ensure", "hello", "send", "await"}
  BY <1>1 DEF Request
<1>5. cmd.at \in {"hello", "await"} => cmd.helper \in Helper
  BY AwaitedIsKnown DEF ControlInv, CommandHolds
<1>. QED BY <1>1, <1>2, <1>3, <1>4, <1>5 DEF PreviewTypeOK

LEMMA FramesAreSound == PreviewSpec => [](ControlInv /\ FramesHold)
<1>1. PreviewInit => FramesHold
  BY FramesInit
<1>2. ControlInv /\ FramesHold /\ [PreviewNext]_previewVars => FramesHold'
  BY FramesStep
<1>. QED BY <1>1, <1>2, ControlHolds, PTL DEF PreviewSpec

\* However often the identifiers wrap: no answer to a request reaches the user
\* interface as an event, and every variable keeps its type, the queue of a
\* helper with at most one render in it.
THEOREM NoAnswerIsDiverted == PreviewSpec => [](PreviewTypeOK /\ EventsAreUnsolicited)
<1>1. ControlInv /\ FramesHold => PreviewTypeOK /\ EventsAreUnsolicited
  BY TypesHold DEF FramesHold
<1>. QED BY <1>1, FramesAreSound, PTL

\* As long as no answer stays in a channel while the identifiers go all the way
\* round, a command that succeeds returns the answer to its own request, from a
\* helper of its engine and of its root, and one that fails has failed on a helper
\* it started itself or could not start.
THEOREM CommandsAreServed == PreviewSpec /\ []NoLap => []ManagerInvariant
<1>1. PreviewInit => DoneHolds
  BY DoneInit
<1>2. ControlInv /\ FramesHold /\ NoLap /\ DoneHolds /\ [PreviewNext]_previewVars => DoneHolds'
  BY DoneStep
<1>3. ControlInv /\ FramesHold /\ DoneHolds => ManagerInvariant
  BY TypesHold DEF ManagerInvariant, DoneHolds, FramesHold
<1>. QED BY <1>1, <1>2, <1>3, FramesAreSound, PTL DEF PreviewSpec

\* The identifiers a command has drawn at most where it is now: 8 when it returns.
Spent(at, attempt) ==
    CASE at = "ensure" -> IF attempt = 0 THEN 1 ELSE 5
      [] at \in {"hello", "send"} -> IF attempt = 0 THEN 3 ELSE 7
      [] at = "await" -> IF attempt = 0 THEN 4 ELSE 8
      [] OTHER -> 8

\* A command draws 8 identifiers at most, and the end of the manager two.
TicketsCounted ==
    /\ commands \in 0 .. MaxCommands
    /\ ticket + 8 <= 8 * commands + Spent(cmd.at, cmd.attempt) + (IF app = "gone" THEN 2 ELSE 0)

\* A step between two commands, or of one that draws what its place allows.
LEMMA CountStays ==
    ASSUME ControlInv, TicketsCounted, UNCHANGED <<commands, app>>, NEW n \in 0 .. 2, ticket' = ticket + n,
           Spent(cmd.at, cmd.attempt) + n <= Spent(cmd'.at, cmd'.attempt)
    PROVE  TicketsCounted'
<1>1. ticket \in Nat /\ commands \in 0 .. MaxCommands /\ MaxCommands \in Nat
  BY BoundsAssumption DEF ControlInv, PreviewShape, TicketsCounted
<1>2. Spent(cmd.at, cmd.attempt) \in 0 .. 8 /\ Spent(cmd'.at, cmd'.attempt) \in 0 .. 8
  BY DEF Spent
<1> DEFINE a == Spent(cmd.at, cmd.attempt)
           b == Spent(cmd'.at, cmd'.attempt)
           g == IF app = "gone" THEN 2 ELSE 0
<1>3. ticket + 8 <= 8 * commands + a + g /\ g \in 0 .. 2
  BY DEF TicketsCounted
<1> HIDE DEF a, b, g
<1>4. ticket' + 8 <= 8 * commands + b + g
  BY <1>1, <1>2, <1>3 DEF a, b
<1>. QED BY <1>1, <1>4 DEF TicketsCounted, b, g

LEMMA Counts ==
    ASSUME ControlInv, NEW n \in 1 .. 2, TakeIds(n)
    PROVE  ticket' = ticket + n
BY DEF TakeIds

LEMMA DrawsAtMost ==
    ASSUME NEW t \in Nat, NEW u \in Nat, NEW c \in Nat
    PROVE  /\ t + 8 <= 8 * c + 8 + 0 /\ u <= t + 1 => u + 8 <= 8 * (c + 1) + 1 + 0
           /\ \A a \in 0 .. 8 : t + 8 <= 8 * c + a + 0 /\ u <= t + 2 => u + 8 <= 8 * c + 8 + 2
OBVIOUS

LEMMA CountStep ==
    ASSUME ControlInv, TicketsCounted, [PreviewNext]_previewVars
    PROVE  TicketsCounted'
<1>0. /\ ticket \in Nat /\ commands \in 0 .. MaxCommands /\ MaxCommands \in Nat /\ app \in {"up", "gone"}
      /\ cmd \in Request /\ cmd.attempt \in 0 .. 1 /\ ticket = ticket + 0
  BY BoundsAssumption DEF ControlInv, PreviewShape, TicketsCounted, Request
<1>1. CASE UNCHANGED <<commands, app, cmd, ticket>>
  <2>1. Spent(cmd.at, cmd.attempt) + 0 <= Spent(cmd'.at, cmd'.attempt)
    BY <1>1 DEF Spent
  <2>. QED BY <1>0, <1>1, <2>1, CountStays
<1>2. CASE PreviewCommand
  <2>1. PICK v \in Verb, e \in Engine : Begin(v, e)
    BY <1>2 DEF PreviewCommand
  <2>2. /\ app = "up" /\ app' = "up" /\ cmd = NoCommand /\ commands < MaxCommands /\ commands' = commands + 1
        /\ cmd' = Entering(v, e) /\ (TakeIds(1) \/ ticket' = ticket)
    BY <2>1 DEF Begin, manager
  <2>3. Spent(cmd.at, cmd.attempt) = 8 /\ Spent(cmd'.at, cmd'.attempt) = 1
    BY <2>2 DEF Spent, NoCommand, Entering
  <2>4. ticket' \in {ticket, ticket + 1}
    BY <2>2, Counts
  <2>5. ticket + 8 <= 8 * commands + 8 + 0
    BY <2>2, <2>3 DEF TicketsCounted
  <2>6. ticket' + 8 <= 8 * commands' + 1 + 0 /\ commands' \in 0 .. MaxCommands
    <3>1. ticket \in Nat /\ commands \in Nat /\ MaxCommands \in Nat
      BY <1>0
    <3>2. ticket' \in Nat /\ ticket' <= ticket + 1
      BY <2>4, <3>1
    <3>3. commands' \in 0 .. MaxCommands /\ commands' = commands + 1
      BY <2>2, <3>1
    <3>4. ticket' + 8 <= 8 * (commands + 1) + 1 + 0
      BY <2>5, <3>1, <3>2, DrawsAtMost
    <3>. QED BY <3>3, <3>4
  <2>7. app' # "gone"
    BY <2>2
  <2>. QED BY <2>3, <2>6, <2>7 DEF TicketsCounted
<1>3. CASE Reuse
  <2>1. UNCHANGED <<commands, app, ticket>> /\ cmd.at = "ensure"
    BY <1>3 DEF Reuse
  <2>2. cmd' = NoCommand \/ cmd' = [cmd EXCEPT !.at = "send"]
    BY <1>3 DEF Reuse, Return
  <2>3. Spent(cmd.at, cmd.attempt) + 0 <= Spent(cmd'.at, cmd'.attempt)
    BY <1>0, <2>1, <2>2 DEF Spent, NoCommand, Request
  <2>. QED BY <1>0, <2>1, <2>3, CountStays
<1>4. CASE StartHelper
  <2>1. UNCHANGED <<commands, app>> /\ cmd.at = "ensure" /\ TakeIds(2)
    BY <1>4 DEF StartHelper
  <2>2. cmd'.at = "hello" /\ cmd'.attempt = cmd.attempt
    BY <1>0, <1>4 DEF StartHelper, Request
  <2>3. Spent(cmd.at, cmd.attempt) + 2 <= Spent(cmd'.at, cmd'.attempt)
    BY <1>0, <2>1, <2>2 DEF Spent
  <2>4. ticket' = ticket + 2
    BY <2>1, Counts
  <2>. QED BY <2>1, <2>3, <2>4, CountStays
<1>5. CASE SpawnFails \/ HelloFails
  <2>1. UNCHANGED <<commands, app>> /\ cmd.at \in {"ensure", "hello"} /\ TakeIds(1) /\ cmd' = NoCommand
    BY <1>5 DEF SpawnFails, HelloFails, HelloRefused, Return
  <2>2. Spent(cmd.at, cmd.attempt) + 1 <= Spent(cmd'.at, cmd'.attempt)
    BY <1>0, <2>1 DEF Spent, NoCommand
  <2>3. ticket' = ticket + 1
    BY <2>1, Counts
  <2>. QED BY <2>1, <2>2, <2>3, CountStays
<1>6. CASE HelloAccepted \/ Answered
  <2>1. UNCHANGED <<commands, app, ticket>>
    BY <1>6 DEF HelloAccepted, Answered
  <2>2. \/ cmd' = NoCommand
        \/ cmd.at = "hello" /\ cmd' = [cmd EXCEPT !.at = "send"]
    BY <1>6 DEF HelloAccepted, Answered, Return
  <2>3. Spent(cmd.at, cmd.attempt) + 0 <= Spent(cmd'.at, cmd'.attempt)
    BY <1>0, <2>2 DEF Spent, NoCommand, Request
  <2>. QED BY <1>0, <2>1, <2>3, CountStays
<1>7. CASE Send
  <2>1. UNCHANGED <<commands, app>> /\ cmd.at = "send" /\ TakeIds(1)
    BY <1>7 DEF Send
  <2>2. cmd'.at = "await" /\ cmd'.attempt = cmd.attempt
    BY <1>0, <1>7 DEF Send, Request
  <2>3. Spent(cmd.at, cmd.attempt) + 1 <= Spent(cmd'.at, cmd'.attempt)
    BY <1>0, <2>1, <2>2 DEF Spent
  <2>4. ticket' = ticket + 1
    BY <2>1, Counts
  <2>. QED BY <2>1, <2>3, <2>4, CountStays
<1>8. CASE SendFails \/ WrongAnswer \/ Timeout
  <2>0. UNCHANGED <<commands, app>>
    BY <1>8 DEF SendFails, WrongAnswer, Timeout
  <2>1. CASE cmd.attempt = 0
    <3>1. \/ cmd.at = "send" /\ FirstFailure(2)
          \/ cmd.at = "await" /\ FirstFailure(1)
      BY <1>8, <2>1 DEF SendFails, WrongAnswer, Timeout
    <3>2. cmd'.at = "ensure" /\ cmd'.attempt = 1
      BY <1>0, <3>1 DEF FirstFailure, Retry, Request
    <3>3. Spent(cmd'.at, cmd'.attempt) = 5 /\ Spent("send", cmd.attempt) = 3 /\ Spent("await", cmd.attempt) = 4
      BY <2>1, <3>2 DEF Spent
    <3>4. CASE cmd.at = "send" /\ FirstFailure(2)
      <4>1. ticket' = ticket + 2
        BY <3>4, Counts DEF FirstFailure
      <4>. QED BY <2>0, <3>3, <3>4, <4>1, CountStays
    <3>5. CASE cmd.at = "await" /\ FirstFailure(1)
      <4>1. ticket' = ticket + 1
        BY <3>5, Counts DEF FirstFailure
      <4>. QED BY <2>0, <3>3, <3>5, <4>1, CountStays
    <3>. QED BY <3>1, <3>4, <3>5
  <2>2. CASE cmd.attempt = 1
    <3>1. \/ cmd.at = "send" /\ LastFailure(2, slot[cmd.engine].helper)
          \/ cmd.at = "await" /\ LastFailure(1, cmd.helper)
      BY <1>8, <2>2 DEF SendFails, WrongAnswer, Timeout
    <3>2. cmd' = NoCommand
      BY <3>1 DEF LastFailure, Return
    <3>3. Spent(cmd'.at, cmd'.attempt) = 8 /\ Spent("send", cmd.attempt) = 7 /\ Spent("await", cmd.attempt) = 8
      BY <2>2, <3>2 DEF Spent, NoCommand
    <3>4. CASE cmd.at = "send" /\ LastFailure(2, slot[cmd.engine].helper)
      <4>1. ticket' = ticket + 1
        BY <3>4, Counts DEF LastFailure
      <4>. QED BY <2>0, <3>3, <3>4, <4>1, CountStays
    <3>5. CASE cmd.at = "await" /\ LastFailure(1, cmd.helper)
      <4>1. ticket' = ticket + 0
        BY <1>0, <3>5 DEF LastFailure
      <4>. QED BY <2>0, <3>3, <3>5, <4>1, CountStays
    <3>. QED BY <3>1, <3>4, <3>5
  <2>. QED BY <1>0, <2>1, <2>2
<1>9. CASE Quit \/ Killed
  <2>1. app = "up" /\ app' = "gone" /\ cmd' = NoCommand /\ commands' = commands
    BY <1>9 DEF Quit, Killed
  <2>2. Spent(cmd'.at, cmd'.attempt) = 8 /\ Spent(cmd.at, cmd.attempt) \in 0 .. 8
    BY <2>1 DEF Spent, NoCommand
  <2>3. ticket' \in {ticket, ticket + 2}
    <3>1. TakeIds(2) \/ ticket' = ticket
      BY <1>9 DEF Quit, Killed
    <3>. QED BY <3>1, Counts
  <2> DEFINE a == Spent(cmd.at, cmd.attempt)
  <2>4. ticket + 8 <= 8 * commands + a + 0
    BY <2>1 DEF TicketsCounted
  <2> HIDE DEF a
  <2>5. ticket' + 8 <= 8 * commands + 8 + 2
    <3>1. ticket \in Nat /\ commands \in Nat /\ a \in 0 .. 8
      BY <1>0, <2>2 DEF a
    <3>2. ticket' \in Nat /\ ticket' <= ticket + 2
      BY <2>3, <3>1
    <3>. QED BY <2>4, <3>1, <3>2, DrawsAtMost
  <2>. QED BY <1>0, <2>1, <2>2, <2>5 DEF TicketsCounted
<1>10. CASE (\E p \in Helper : HelperStep(p)) \/ RootChanges \/ UNCHANGED previewVars
  <2>1. UNCHANGED <<commands, app, cmd, ticket>>
    BY <1>10 DEF HelperStep, Serve, CloseWindow, Crash, Route, RouteEof, EndOfInput, World, RootChanges, previewVars
  <2>. QED BY <1>1, <2>1
<1>. QED BY <1>2, <1>3, <1>4, <1>5, <1>6, <1>7, <1>8, <1>9, <1>10 DEF PreviewNext, ManagerStep

\* In a session of so few commands that their identifiers do not go round, every
\* command is answered by its own helper or fails on a fresh one.
THEOREM SessionsAreServed ==
    ASSUME 8 * MaxCommands + 2 < IdSpace
    PROVE  PreviewSpec => []ManagerInvariant
<1>1. PreviewInit => TicketsCounted
  BY BoundsAssumption DEF PreviewInit, TicketsCounted, NoCommand, Spent
<1>2. ControlInv /\ TicketsCounted /\ [PreviewNext]_previewVars => TicketsCounted'
  BY CountStep
<1>3. ControlInv /\ FramesHold /\ TicketsCounted => NoLap
  <2> SUFFICES ASSUME ControlInv, FramesHold, TicketsCounted, NEW p \in Helper, NEW i \in 1 .. Len(proc[p].responses)
               PROVE  ticket - proc[p].responses[i].ticket < IdSpace - 1 \/ Unasked(proc[p].responses[i])
    BY DEF NoLap
  <2>1. Stamped(proc[p].responses[i], next, ticket) \/ Unasked(proc[p].responses[i])
    BY DEF FramesHold, Sound
  <2>2. ticket \in Nat /\ IdSpace \in Nat /\ MaxCommands \in Nat /\ commands \in 0 .. MaxCommands
    BY IdSpaceAssumption, BoundsAssumption DEF ControlInv, PreviewShape, TicketsCounted
  <2>3. ticket <= 8 * commands + 2
    <3>1. Spent(cmd.at, cmd.attempt) \in 0 .. 8
      BY DEF Spent
    <3>. QED BY <2>2, <3>1 DEF TicketsCounted
  <2>4. ticket <= 8 * MaxCommands + 2
    BY <2>2, <2>3
  <2>. QED BY <2>1, <2>2, <2>4 DEF Stamped
<1>. QED BY <1>1, <1>2, <1>3, FramesAreSound, CommandsAreServed, PTL DEF PreviewSpec

-----------------------------------------------------------------------------
(***************************************************************************)
(* The run profile: the service follows the user                           *)
(***************************************************************************)
Stations == {"off", "stage", "point", "load", "plan", "execute", "choice", "end"}
Starters == {"start", "activate", "apply"}
Operations == Starters \cup Controls \cup {"designate", "republish"}
Jobs(B) == [at : Stations, op : Operations \cup {None}, bytes : B, source : B,
            plan : {None, "live", "hold", "local"}, moved : BOOLEAN, alone : BOOLEAN]
Services(B) == [runtime : {"absent", "stopped", "running"}, profile : B]

\* The records have their fields; what a profile consists of does not matter here.
JobShape == \E B : job \in [Thread -> Jobs(B)]
RunShape ==
    /\ JobShape
    /\ \E B : service \in Services(B)
    /\ paused \in BOOLEAN /\ unsettled \in BOOLEAN /\ halted \in BOOLEAN

\* The places each operation passes through; only the main thread does anything
\* but apply.
Placed(t, j) ==
    /\ j.op \in Operations
    /\ j.op \in Controls => j.at \in {"execute", "choice"} /\ j.moved = FALSE /\ j.plan = None
    /\ j.op = "designate" => j.at \in {"stage", "point", "plan", "execute", "choice", "end"}
    /\ j.op = "republish" => j.at \in {"plan", "execute", "stage", "point", "end"}
    /\ j.op \in Starters => j.at \in {"stage", "point", "load", "plan", "execute", "choice"}
    /\ j.op \in {"start", "activate"} => j.at # "plan" /\ j.plan = None
    /\ t # Main => j.op = "apply"

\* What an operation that has met no other one knows of the pointer and the
\* service.
Fits(j, pointed, s) ==
    /\ j.op \in Starters \cup {"designate"} /\ j.at \in {"plan", "execute"} => j.bytes = pointed
    /\ j.op \notin Controls /\ j.at \in {"choice", "end"} /\ j.plan # "local" => s.profile = pointed
    /\ j.op = "republish" /\ j.at \in {"stage", "point"} /\ j.plan # "local" => s.profile = j.bytes
    /\ j.op \in Designations /\ j.at = "execute" =>
         \/ j.plan = "live" /\ s.runtime = "running"
         \/ j.plan = "hold" /\ s.runtime = "stopped"
    /\ j.op = "stop" /\ j.at = "choice" => s.runtime # "running"

\* What may go on after the user has stopped the service.
Harmless(j) ==
    \/ j.op = "remove"
    \/ /\ j.op \in {"designate", "republish"}
       /\ j.plan # "live" /\ j.at # "choice"
       /\ j.at = "execute" => j.plan = "hold"

Still(j) == j.moved = FALSE /\ (j.alone = TRUE \/ j.op \in Controls)
Agreed == active # None => service.profile = active.profile

\* Each operation is where it can be; one that is alone is the only one.
JobsHold ==
    \A t \in Busy :
      /\ Placed(t, job[t])
      /\ job[t].alone = TRUE => Busy = {t} /\ Fits(job[t], active.profile, service)
\* Pointer and service agree whenever nothing is half done.
CalmHolds == unsettled = FALSE /\ (\A t \in Busy : Still(job[t])) => Agreed
HaltHolds ==
    halted = TRUE => paused = TRUE /\ service.runtime # "running" /\ \A t \in Busy : Harmless(job[t])

RunInv == RunShape /\ JobsHold /\ CalmHolds /\ HaltHolds

\* One thread's job is replaced.
LEMMA StepIs ==
    ASSUME JobShape, NEW t \in Thread, NEW B, NEW j \in Jobs(B), Step(t, j)
    PROVE  /\ JobShape' /\ job'[t] = j
           /\ \A u \in Thread : u # t => job'[u] = job[u]
           /\ Busy' \ {t} = Busy \ {t}
           /\ t \in Busy' <=> j.at # "off"
<1>1. PICK C : job \in [Thread -> Jobs(C)]
  BY DEF JobShape
<1>2. job' = [job EXCEPT ![t] = j]
  BY DEF Step
<1>3. \A r \in Jobs(B) : r \in Jobs(B \cup C)
  BY DEF Jobs
<1>4. \A r \in Jobs(C) : r \in Jobs(B \cup C)
  BY DEF Jobs
<1>5. job'[t] = j /\ \A u \in Thread : u # t => job'[u] = job[u]
  BY <1>1, <1>2
<1>6. job' \in [Thread -> Jobs(B \cup C)]
  BY <1>1, <1>2, <1>3, <1>4
<1>7. JobShape'
  BY <1>6 DEF JobShape
<1>8. Busy' \ {t} = Busy \ {t} /\ (t \in Busy' <=> j.at # "off")
  BY <1>5 DEF Busy
<1>. QED BY <1>5, <1>7, <1>8

\* A step of one thread keeps the invariant if what it leaves is as it should be.
LEMMA ThreadKeeps ==
    ASSUME RunInv, NEW t \in Busy, NEW B, NEW j \in Jobs(B), Step(t, j),
           \E C : service' \in Services(C),
           paused' \in BOOLEAN, unsettled' \in BOOLEAN, halted' \in BOOLEAN,
           j.at # "off" =>
             /\ j.alone = job[t].alone /\ Placed(t, j)
             /\ j.alone = TRUE => Fits(j, active'.profile, service'),
           unsettled' = FALSE /\ (\A u \in Busy \ {t} : Still(job[u])) /\ (j.at # "off" => Still(j)) => Agreed',
           halted' = TRUE =>
             /\ paused' = TRUE /\ service'.runtime # "running" /\ (j.at # "off" => Harmless(j))
             /\ halted = TRUE \/ job[t].alone = TRUE
    PROVE  RunInv'
<1>0. t \in Thread /\ JobShape
  BY DEF Busy, RunInv, RunShape
<1>1. /\ JobShape' /\ job'[t] = j /\ \A u \in Thread : u # t => job'[u] = job[u]
      /\ Busy' \ {t} = Busy \ {t} /\ (t \in Busy' <=> j.at # "off")
  BY <1>0, StepIs
<1>2. RunShape'
  BY <1>1 DEF RunShape
<1>3. \A u \in Busy \ {t} : u \in Thread /\ job'[u] = job[u]
  BY <1>1 DEF Busy
<1>4. JobsHold'
  <2> SUFFICES ASSUME NEW u \in Busy'
               PROVE  /\ Placed(u, job'[u])
                      /\ job'[u].alone = TRUE => Busy' = {u} /\ Fits(job'[u], active'.profile, service')
    BY DEF JobsHold
  <2>1. CASE u = t
    <3>1. j.at # "off" /\ job'[u] = j
      BY <1>1, <2>1
    <3>2. j.alone = TRUE => Busy = {t}
      BY <3>1 DEF RunInv, JobsHold
    <3>3. j.alone = TRUE => Busy' = {t}
      BY <1>1, <2>1, <3>2
    <3>. QED BY <2>1, <3>1, <3>3
  <2>2. CASE u # t
    <3>1. u \in Busy \ {t} /\ job'[u] = job[u]
      BY <1>1, <1>3, <2>2
    <3>2. Placed(u, job[u]) /\ (job[u].alone = TRUE => Busy = {u})
      BY <3>1 DEF RunInv, JobsHold
    <3>3. ~(job[u].alone = TRUE)
      BY <2>2, <3>2
    <3>. QED BY <3>1, <3>2, <3>3
  <2>. QED BY <2>1, <2>2
<1>5. CalmHolds'
  <2> SUFFICES ASSUME unsettled' = FALSE, \A u \in Busy' : Still(job'[u]) PROVE Agreed'
    BY DEF CalmHolds
  <2>1. \A u \in Busy \ {t} : Still(job[u])
    BY <1>1, <1>3
  <2>2. j.at # "off" => Still(j)
    BY <1>1
  <2>. QED BY <2>1, <2>2
<1>6. HaltHolds'
  <2> SUFFICES ASSUME halted' = TRUE, NEW u \in Busy' PROVE Harmless(job'[u])
    BY DEF HaltHolds
  <2>1. CASE u = t
    BY <1>1, <2>1
  <2>2. CASE u # t
    <3>1. u \in Busy \ {t} /\ job'[u] = job[u]
      BY <1>1, <1>3, <2>2
    <3>2. halted = TRUE
      BY <3>1 DEF RunInv, JobsHold
    <3>. QED BY <3>1, <3>2 DEF RunInv, HaltHolds
  <2>. QED BY <2>1, <2>2
<1>. QED BY <1>2, <1>4, <1>5, <1>6 DEF RunInv

LEMMA OffIs == /\ \E B : Off \in Jobs(B)
               /\ Off.at = "off" /\ Off.moved = FALSE /\ Off.alone = TRUE /\ Off.plan = None
<1>1. Off \in Jobs({None})
  BY DEF Off, Jobs, Stations
<1>. QED BY <1>1 DEF Off

\* What is known of a thread that is at work.
LEMMA JobIs ==
    ASSUME RunInv, NEW t \in Busy
    PROVE  /\ t \in Thread /\ Placed(t, job[t]) /\ job[t].at # "off"
           /\ \E B : job[t] \in Jobs(B)
           /\ job[t].alone = TRUE => Busy = {t} /\ Fits(job[t], active.profile, service)
           /\ halted = TRUE => Harmless(job[t])
           /\ job[t].alone \in BOOLEAN /\ job[t].moved \in BOOLEAN
<1>1. t \in Thread /\ job[t].at # "off"
  BY DEF Busy
<1>2. PICK B : job \in [Thread -> Jobs(B)]
  BY DEF RunInv, RunShape, JobShape
<1>3. job[t] \in Jobs(B)
  BY <1>1, <1>2
<1>4. job[t].alone \in BOOLEAN /\ job[t].moved \in BOOLEAN
  BY <1>3, Zenon DEF Jobs
<1>. QED BY <1>1, <1>3, <1>4 DEF RunInv, JobsHold, HaltHolds

\* An operation that fails leaves pointer and service as they are.
LEMMA FailKeeps ==
    ASSUME RunInv, NEW t \in Busy, Fails(t), UNCHANGED <<active, service, paused>>
    PROVE  RunInv'
<1>1. /\ Step(t, Off) /\ unsettled' = (unsettled \/ job[t].moved \/ ~job[t].alone) /\ halted' = halted
  BY DEF Fails
<1>2. PICK B : Off \in Jobs(B)
  BY OffIs
<1>3. /\ paused \in BOOLEAN /\ unsettled \in BOOLEAN /\ halted \in BOOLEAN /\ \E C : service \in Services(C)
  BY DEF RunInv, RunShape
<1>4. job[t].alone \in BOOLEAN /\ job[t].moved \in BOOLEAN
  BY JobIs
<1>5. unsettled' = FALSE => unsettled = FALSE /\ job[t].moved = FALSE /\ job[t].alone = TRUE
  BY <1>1, <1>3, <1>4, Zenon
<1>6. unsettled' \in BOOLEAN
  BY <1>1, Zenon
<1>7. unsettled' = FALSE /\ (\A u \in Busy \ {t} : Still(job[u])) => Agreed'
  <2> SUFFICES ASSUME unsettled' = FALSE, \A u \in Busy \ {t} : Still(job[u]) PROVE Agreed'
    OBVIOUS
  <2>1. Still(job[t])
    BY <1>5 DEF Still
  <2>2. \A u \in Busy : Still(job[u])
    BY <2>1
  <2>3. Agreed
    BY <1>5, <2>2 DEF RunInv, CalmHolds
  <2>. QED BY <2>3 DEF Agreed
<1>8. halted' = TRUE => paused' = TRUE /\ service'.runtime # "running" /\ halted = TRUE
  BY <1>1 DEF RunInv, HaltHolds
<1>9. \E C : service' \in Services(C)
  BY <1>3
<1>10. Off.at = "off" /\ paused' \in BOOLEAN /\ halted' \in BOOLEAN
  BY <1>1, <1>3, OffIs
<1>. QED BY <1>1, <1>2, <1>6, <1>7, <1>8, <1>9, <1>10, ThreadKeeps

\* A step in which neither the pointer nor the service changes, nor anything else
\* of the job than its place, its bytes and its plan.
LEMMA WalkKeeps ==
    ASSUME RunInv, NEW t \in Busy, NEW B, NEW j \in Jobs(B), Step(t, j), j.at # "off",
           j.op = job[t].op, j.moved = job[t].moved, j.alone = job[t].alone,
           UNCHANGED <<service, paused, unsettled, halted, active>>,
           Placed(t, j), j.alone = TRUE => Fits(j, active.profile, service),
           halted = TRUE => Harmless(j)
    PROVE  RunInv'
<1>1. /\ paused' \in BOOLEAN /\ unsettled' \in BOOLEAN /\ halted' \in BOOLEAN /\ \E C : service' \in Services(C)
  BY DEF RunInv, RunShape
<1>2. unsettled' = FALSE /\ (\A u \in Busy \ {t} : Still(job[u])) /\ Still(j) => Agreed'
  <2> SUFFICES ASSUME unsettled' = FALSE, \A u \in Busy \ {t} : Still(job[u]), Still(j) PROVE Agreed'
    OBVIOUS
  <2>1. \A u \in Busy : Still(job[u])
    BY DEF Still
  <2>2. Agreed
    BY <2>1 DEF RunInv, CalmHolds
  <2>. QED BY <2>2 DEF Agreed
<1>3. halted' = TRUE => paused' = TRUE /\ service'.runtime # "running" /\ Harmless(j) /\ halted = TRUE
  BY DEF RunInv, HaltHolds
<1>4. j.alone = TRUE => Fits(j, active'.profile, service')
  OBVIOUS
<1>. QED BY <1>1, <1>2, <1>3, <1>4, ThreadKeeps

LEMMA StageKeeps ==
    ASSUME RunInv, NEW t \in Thread, Stage(t)
    PROVE  RunInv'
<1>1. t \in Busy /\ job[t].at = "stage"
  BY DEF Stage, Busy
<1>2. CASE Fails(t)
  BY <1>1, <1>2, FailKeeps DEF Stage
<1>3. CASE Continues(t, "point")
  <2> DEFINE j == [job[t] EXCEPT !.at = "point"]
  <2>1. PICK B : job[t] \in Jobs(B)
    BY <1>1, JobIs
  <2>2. /\ j \in Jobs(B) /\ j.at = "point" /\ j.op = job[t].op /\ j.moved = job[t].moved /\ j.alone = job[t].alone
        /\ j.plan = job[t].plan /\ j.bytes = job[t].bytes
    BY <2>1 DEF Jobs, Stations
  <2>3. Step(t, j) /\ UNCHANGED <<service, paused, unsettled, halted, active>>
    BY <1>3 DEF Stage, Continues
  <2> HIDE DEF j
  <2>4. Placed(t, j)
    BY <1>1, <2>2, JobIs DEF Placed, Controls, Starters
  <2>5. j.alone = TRUE => Fits(j, active.profile, service)
    BY <1>1, <2>2, JobIs DEF Fits
  <2>6. halted = TRUE => Harmless(j)
    BY <1>1, <2>2, JobIs DEF Harmless
  <2>7. j.at # "off"
    BY <2>2
  <2>. QED BY <1>1, <2>2, <2>3, <2>4, <2>5, <2>6, <2>7, WalkKeeps
<1>. QED BY <1>2, <1>3 DEF Stage

LEMMA PointKeeps ==
    ASSUME RunInv, NEW t \in Thread, Point(t)
    PROVE  RunInv'
<1>1. t \in Busy /\ job[t].at = "point"
  BY DEF Point, Busy
<1>2. CASE Fails(t) /\ UNCHANGED active
  BY <1>1, <1>2, FailKeeps DEF Point
<1>3. CASE ~(Fails(t) /\ UNCHANGED active)
  <2>1. /\ active' = [profile |-> job[t].bytes, source |-> job[t].source] /\ UNCHANGED <<service, paused>>
        /\ IF job[t].bytes \in spoilt
             THEN /\ Step(t, Off) /\ unsettled' = TRUE /\ UNCHANGED halted
             ELSE /\ Step(t, [job[t] EXCEPT !.at = Reached(job[t].op),
                                            !.moved = job[t].op # "republish" \/ job[t].plan = "local"])
                  /\ UNCHANGED <<unsettled, halted>>
    BY <1>3 DEF Point
  <2>2. active'.profile = job[t].bytes
    BY <2>1
  <2>3. /\ paused' \in BOOLEAN /\ unsettled' \in BOOLEAN /\ halted' \in BOOLEAN /\ \E C : service' \in Services(C)
        /\ halted' = halted
    BY <2>1 DEF RunInv, RunShape
  <2>4. halted' = TRUE => paused' = TRUE /\ service'.runtime # "running" /\ halted = TRUE
    BY <2>1, <2>3 DEF RunInv, HaltHolds
  <2>5. CASE job[t].bytes \in spoilt
    <3>1. Step(t, Off) /\ ~(unsettled' = FALSE)
      BY <2>1, <2>5
    <3>. QED BY <1>1, <2>3, <2>4, <3>1, OffIs, ThreadKeeps
  <2>6. CASE job[t].bytes \notin spoilt
    <3> DEFINE m == job[t].op # "republish" \/ job[t].plan = "local"
               j == [job[t] EXCEPT !.at = Reached(job[t].op), !.moved = m]
    <3>1. PICK B : job[t] \in Jobs(B)
      BY <1>1, JobIs
    <3>2. Placed(t, job[t]) /\ (job[t].alone = TRUE => Fits(job[t], active.profile, service))
          /\ (halted = TRUE => Harmless(job[t]))
      BY <1>1, JobIs
    <3>3. job[t].op \in Starters \cup {"designate", "republish"}
      BY <1>1, <3>2 DEF Placed, Operations, Controls
    <3>4. /\ Reached(job[t].op) \in {"plan", "execute", "end", "load"}
          /\ job[t].op = "designate" => Reached(job[t].op) = "plan"
          /\ job[t].op = "start" => Reached(job[t].op) = "execute"
          /\ job[t].op = "republish" => Reached(job[t].op) = "end"
          /\ job[t].op \in {"activate", "apply"} => Reached(job[t].op) = "load"
      BY <3>3 DEF Reached, Starters
    <3>5. m \in BOOLEAN /\ (m = FALSE => job[t].op = "republish" /\ job[t].plan # "local")
      BY Zenon
    <3>6. Step(t, j) /\ unsettled' = unsettled
      BY <2>1, <2>6
    <3> HIDE DEF m
    <3>7. /\ j \in Jobs(B) /\ j.at = Reached(job[t].op) /\ j.op = job[t].op /\ j.moved = m
          /\ j.alone = job[t].alone /\ j.plan = job[t].plan /\ j.bytes = job[t].bytes
      BY <3>1, <3>4, <3>5 DEF Jobs, Stations
    <3> HIDE DEF j
    <3>8. Placed(t, j)
      BY <3>2, <3>3, <3>4, <3>7 DEF Placed, Starters, Controls
    <3>9. j.alone = TRUE => Fits(j, active'.profile, service')
      <4> SUFFICES ASSUME j.alone = TRUE PROVE Fits(j, active'.profile, service')
        OBVIOUS
      <4>1. Fits(job[t], active.profile, service) /\ service' = service
        BY <2>1, <3>2, <3>7
      <4>. QED BY <1>1, <2>2, <3>3, <3>4, <3>7, <4>1 DEF Fits, Starters, Designations
    <3>10. halted = TRUE => Harmless(j)
      BY <3>2, <3>4, <3>7 DEF Harmless
    <3>11. unsettled' = FALSE /\ (\A u \in Busy \ {t} : Still(job[u])) /\ Still(j) => Agreed'
      <4> SUFFICES ASSUME Still(j) PROVE service'.profile = active'.profile
        BY DEF Agreed
      <4>1. j.moved = FALSE
        BY DEF Still
      <4>2. job[t].op = "republish" /\ job[t].plan # "local"
        BY <3>5, <3>7, <4>1
      <4>3. job[t].alone = TRUE
        BY <3>7, <4>2 DEF Still, Controls
      <4>. QED BY <1>1, <2>1, <2>2, <3>2, <4>2, <4>3 DEF Fits
    <3>12. j.at # "off"
      BY <3>4, <3>7
    <3>. QED BY <1>1, <2>3, <2>4, <3>6, <3>7, <3>8, <3>9, <3>10, <3>11, <3>12, ThreadKeeps
  <2>. QED BY <2>5, <2>6
<1>. QED BY <1>2, <1>3

LEMMA LoadKeeps ==
    ASSUME RunInv, NEW t \in Thread, Load(t)
    PROVE  RunInv'
<1>1. t \in Busy /\ job[t].at = "load" /\ UNCHANGED <<active, service, paused>>
  BY DEF Load, Busy
<1>2. CASE Fails(t)
  BY <1>1, <1>2, FailKeeps
<1>3. CASE ~Fails(t)
  <2> DEFINE a == IF job[t].op = "apply" THEN "plan" ELSE "execute"
             j == [job[t] EXCEPT !.at = a, !.bytes = active.profile]
  <2>1. PICK B : job[t] \in Jobs(B)
    BY <1>1, JobIs
  <2>2. Step(t, j) /\ UNCHANGED <<unsettled, halted>>
    BY <1>3 DEF Load
  <2>3. a \in {"plan", "execute"} /\ (a = "plan" <=> job[t].op = "apply")
    OBVIOUS
  <2> HIDE DEF a
  <2>4. /\ j \in Jobs(B \cup {active.profile}) /\ j.at = a /\ j.op = job[t].op /\ j.moved = job[t].moved
        /\ j.alone = job[t].alone /\ j.plan = job[t].plan /\ j.bytes = active.profile
    BY <2>1, <2>3 DEF Jobs, Stations
  <2> HIDE DEF j
  <2>5. Placed(t, job[t]) /\ (halted = TRUE => Harmless(job[t]))
    BY <1>1, JobIs
  <2>6. job[t].op \in Starters
    BY <1>1, <2>5 DEF Placed, Operations, Controls
  <2>7. Placed(t, j)
    BY <2>3, <2>4, <2>5, <2>6 DEF Placed, Starters, Controls
  <2>8. Fits(j, active.profile, service)
    BY <2>3, <2>4, <2>6 DEF Fits, Starters, Designations
  <2>9. halted # TRUE
    BY <2>5, <2>6 DEF Harmless, Starters
  <2>10. j.at # "off"
    BY <2>3, <2>4
  <2>. QED BY <1>1, <2>2, <2>4, <2>7, <2>8, <2>9, <2>10, WalkKeeps
<1>. QED BY <1>2, <1>3

\* designation_plan.
LEMMA PlanIs ==
    ASSUME NEW runtime, NEW blocked \in BOOLEAN
    PROVE  /\ PlanFor(runtime, blocked) \in {"live", "hold", "local"}
           /\ PlanFor(runtime, blocked) = "live" <=> runtime = "running"
           /\ PlanFor(runtime, blocked) = "hold" => runtime = "stopped"
BY DEF PlanFor

LEMMA AfterIs ==
    ASSUME NEW t, NEW plan
    PROVE  /\ job[t].op = "republish" => After(t, plan) = "stage"
           /\ job[t].op = "designate" /\ plan # "live" => After(t, plan) = "end"
           /\ job[t].op = "designate" /\ plan = "live" => After(t, plan) = "choice"
           /\ job[t].op \notin {"republish", "designate"} => After(t, plan) = "choice"
           /\ After(t, plan) \in {"stage", "end", "choice"}
BY DEF After

LEMMA PlanKeeps ==
    ASSUME RunInv, NEW t \in Thread, Plan(t)
    PROVE  RunInv'
<1>1. t \in Busy /\ job[t].at = "plan" /\ UNCHANGED <<active, service, paused, unsettled, halted>>
  BY DEF Plan, Busy
<1>2. PICK blocked \in BOOLEAN :
         Step(t, [job[t] EXCEPT !.plan = PlanFor(service.runtime, blocked),
                                !.at = IF PlanFor(service.runtime, blocked) = "local"
                                       THEN After(t, PlanFor(service.runtime, blocked)) ELSE "execute"])
  BY DEF Plan
<1> DEFINE p == PlanFor(service.runtime, blocked)
           a == IF p = "local" THEN After(t, p) ELSE "execute"
           j == [job[t] EXCEPT !.plan = p, !.at = a]
<1>3. PICK B : job[t] \in Jobs(B)
  BY <1>1, JobIs
<1>4. Step(t, j)
  BY <1>2
<1>5. /\ p \in {"live", "hold", "local"} /\ (p = "live" <=> service.runtime = "running")
      /\ p = "hold" => service.runtime = "stopped"
  BY PlanIs
<1>6. /\ p # "local" => a = "execute"
      /\ p = "local" => a \in {"stage", "end", "choice"}
      /\ p = "local" /\ job[t].op = "republish" => a = "stage"
      /\ p = "local" /\ job[t].op = "designate" => a = "end"
      /\ p = "local" /\ job[t].op \notin {"republish", "designate"} => a = "choice"
  BY <1>5, AfterIs
<1> HIDE DEF p, a
<1>7. /\ j \in Jobs(B) /\ j.at = a /\ j.op = job[t].op /\ j.moved = job[t].moved
      /\ j.alone = job[t].alone /\ j.plan = p /\ j.bytes = job[t].bytes
  BY <1>3, <1>5, <1>6 DEF Jobs, Stations
<1> HIDE DEF j
<1>8. /\ Placed(t, job[t]) /\ (halted = TRUE => Harmless(job[t]))
      /\ job[t].alone = TRUE => Fits(job[t], active.profile, service)
  BY <1>1, JobIs
<1>9. job[t].op \in {"apply", "designate", "republish"}
  BY <1>1, <1>8 DEF Placed, Operations, Controls, Starters
<1>10. Placed(t, j)
  BY <1>5, <1>6, <1>7, <1>8, <1>9 DEF Placed, Controls, Starters
<1>11. j.alone = TRUE => Fits(j, active.profile, service)
  BY <1>1, <1>5, <1>6, <1>7, <1>8, <1>9 DEF Fits, Starters, Designations
<1>12. halted = TRUE => Harmless(j)
  <2>1. halted = TRUE => service.runtime # "running"
    BY DEF RunInv, HaltHolds
  <2>. QED BY <1>5, <1>6, <1>7, <1>8, <1>9, <2>1 DEF Harmless
<1>13. j.at # "off"
  BY <1>5, <1>6, <1>7
<1>. QED BY <1>1, <1>4, <1>7, <1>10, <1>11, <1>12, <1>13, WalkKeeps

\* What the broker does to the service for each operation.
LEMMA OutcomeIs ==
    ASSUME RunInv, NEW j, j.op \in Operations, j.op \in Controls => j.plan # "hold", NEW blocked \in BOOLEAN,
           NEW s, s = Outcome(j, blocked), NEW p, p = PlanFor(service.runtime, blocked)
    PROVE  /\ \E C : s \in Services(C)
           /\ j.op \in Controls => s.profile = service.profile /\ s.runtime # "running"
           /\ j.op \notin Controls /\ j.plan # "hold" => s.profile = j.bytes /\ s.runtime = "running"
           /\ j.op \notin Controls /\ j.plan = "hold" =>
                 /\ p = "local" => s = service
                 /\ p # "local" => s.profile = j.bytes
                 /\ s.runtime = service.runtime
<1> DEFINE absent == [service EXCEPT !.runtime = "absent"]
           stopped == [service EXCEPT !.runtime = "stopped"]
           given == [service EXCEPT !.profile = j.bytes]
<1>1. PICK C : service \in Services(C)
  BY DEF RunInv, RunShape
<1>2. p \in {"live", "hold", "local"} /\ (p = "live" <=> service.runtime = "running")
  BY PlanIs
<1>3. /\ absent \in Services(C) /\ absent.profile = service.profile /\ absent.runtime = "absent"
      /\ stopped \in Services(C) /\ stopped.profile = service.profile /\ stopped.runtime = "stopped"
  BY <1>1 DEF Services
<1>4. given \in Services(C \cup {j.bytes}) /\ given.profile = j.bytes /\ given.runtime = service.runtime
  BY <1>1 DEF Services
<1>5. /\ Published(j.bytes) \in Services({j.bytes}) /\ Published(j.bytes).profile = j.bytes
      /\ Published(j.bytes).runtime = "running"
  BY DEF Published, Services
<1>6. CASE j.op \in Controls
  <2>1. s = absent \/ s = stopped
    <3>1. j.op = "stop" \/ j.op = "remove" \/ j.op = "install"
      BY <1>6 DEF Controls
    <3>2. CASE j.op = "stop"
      BY <1>6, <3>2 DEF Outcome
    <3>3. CASE j.op = "remove"
      BY <1>6, <3>3 DEF Outcome
    <3>4. CASE j.op = "install"
      BY <1>6, <3>4 DEF Outcome
    <3>. QED BY <3>1, <3>2, <3>3, <3>4
  <2> HIDE DEF absent, stopped
  <2>. QED BY <1>3, <1>6, <2>1
<1>7. CASE j.op \notin Controls /\ j.plan # "hold"
  <2>1. s = Published(j.bytes)
    BY <1>7 DEF Outcome, Controls
  <2>. QED BY <1>5, <1>7, <2>1
<1>8. CASE j.op \notin Controls /\ j.plan = "hold"
  <2>1. /\ p = "live" => s = Published(j.bytes)
        /\ p = "hold" => s = given
        /\ p = "local" => s = service
    BY <1>8 DEF Outcome, Controls
  <2> HIDE DEF given
  <2>. QED BY <1>1, <1>2, <1>4, <1>5, <1>8, <2>1
<1>. QED BY <1>6, <1>7, <1>8

LEMMA ExecuteKeeps ==
    ASSUME RunInv, NEW t \in Thread, Execute(t)
    PROVE  RunInv'
<1>1. t \in Busy /\ job[t].at = "execute" /\ UNCHANGED <<active, paused, unsettled, halted>>
  BY DEF Execute, Busy
<1>2. PICK blocked \in BOOLEAN :
         /\ service' = Outcome(job[t], blocked)
         /\ LET plan == IF job[t].plan = "hold" THEN PlanFor(service.runtime, blocked)
                        ELSE job[t].plan IN
            Step(t, [job[t] EXCEPT !.at = After(t, job[t].plan), !.plan = plan,
                                   !.moved = @ \/ job[t].op = "republish"])
  BY DEF Execute
<1> DEFINE p == IF job[t].plan = "hold" THEN PlanFor(service.runtime, blocked) ELSE job[t].plan
           a == After(t, job[t].plan)
           m == job[t].moved \/ job[t].op = "republish"
           j == [job[t] EXCEPT !.at = a, !.plan = p, !.moved = m]
<1>3. PICK B : job[t] \in Jobs(B)
  BY <1>1, JobIs
<1>4. Step(t, j)
  BY <1>2
<1>5. /\ Placed(t, job[t]) /\ (halted = TRUE => Harmless(job[t]))
      /\ job[t].alone = TRUE => Busy = {t} /\ Fits(job[t], active.profile, service)
      /\ job[t].moved \in BOOLEAN
  BY <1>1, JobIs
<1>6. m \in BOOLEAN /\ (m = FALSE => job[t].moved = FALSE /\ job[t].op # "republish")
      /\ (job[t].op # "republish" /\ job[t].moved = FALSE => m = FALSE)
  BY <1>5, Zenon
<1>7. /\ job[t].plan = "hold" => p = PlanFor(service.runtime, blocked)
      /\ job[t].plan # "hold" => p = job[t].plan
      /\ p \in {None, "live", "hold", "local"}
  <2>1. job[t].plan \in {None, "live", "hold", "local"}
    BY <1>3 DEF Jobs
  <2>. QED BY <2>1, PlanIs
<1>8. /\ job[t].op = "republish" => a = "stage"
      /\ job[t].op = "designate" /\ job[t].plan # "live" => a = "end"
      /\ job[t].op = "designate" /\ job[t].plan = "live" => a = "choice"
      /\ job[t].op \notin {"republish", "designate"} => a = "choice"
      /\ a \in {"stage", "end", "choice"}
  BY AfterIs
<1>9. /\ \E C : service' \in Services(C)
      /\ job[t].op \in Controls => service'.profile = service.profile /\ service'.runtime # "running"
      /\ job[t].op \notin Controls /\ job[t].plan # "hold" =>
            service'.profile = job[t].bytes /\ service'.runtime = "running"
      /\ job[t].op \notin Controls /\ job[t].plan = "hold" =>
            /\ p = "local" => service' = service
            /\ p # "local" => service'.profile = job[t].bytes
            /\ service'.runtime = service.runtime
  <2>1. job[t].op \in Operations /\ (job[t].op \in Controls => job[t].plan # "hold")
    BY <1>5, NoneAssumption DEF Placed
  <2>. QED BY <1>2, <1>7, <2>1, OutcomeIs
<1> HIDE DEF p, a, m
<1>10. /\ j \in Jobs(B) /\ j.at = a /\ j.op = job[t].op /\ j.moved = m
       /\ j.alone = job[t].alone /\ j.plan = p /\ j.bytes = job[t].bytes
  BY <1>3, <1>6, <1>7, <1>8 DEF Jobs, Stations
<1> HIDE DEF j
<1>11. Placed(t, j)
  <2>1. job[t].op \in {"start", "activate"} \cup Controls => p = None
    BY <1>5, <1>7, NoneAssumption DEF Placed
  <2>2. job[t].op \in Controls => m = FALSE
    BY <1>5, <1>6 DEF Placed, Controls
  <2>. QED BY <1>5, <1>8, <1>10, <2>1, <2>2 DEF Placed, Controls, Starters
<1>12. j.alone = TRUE => Fits(j, active'.profile, service')
  <2> SUFFICES ASSUME j.alone = TRUE PROVE Fits(j, active'.profile, service')
    OBVIOUS
  <2>1. Fits(job[t], active.profile, service) /\ active' = active
    BY <1>1, <1>5, <1>10
  <2>2. CASE job[t].op \in Controls
    BY <1>8, <1>9, <1>10, <2>2 DEF Fits, Controls, Starters, Designations
  <2>3. CASE job[t].op \notin Controls
    <3>1. job[t].op \in Starters \cup {"designate", "republish"}
      BY <1>5, <2>3 DEF Placed, Operations
    <3>2. p # "local" => service'.profile = job[t].bytes
      BY <1>7, <1>9, <2>3
    <3>3. job[t].op # "republish" => job[t].bytes = active.profile
      BY <1>1, <2>1, <3>1 DEF Fits
    <3>4. a # "execute" /\ a # "plan" /\ a # "point" /\ (a = "stage" => job[t].op = "republish")
      BY <1>8
    <3>5. job[t].op # "stop"
      BY <2>3 DEF Controls
    <3>6. a \in {"choice", "end"} => job[t].op # "republish"
      BY <1>8
    <3>. QED BY <1>10, <2>1, <3>2, <3>3, <3>4, <3>5, <3>6 DEF Fits
  <2>. QED BY <2>2, <2>3
<1>13. unsettled' = FALSE /\ (\A u \in Busy \ {t} : Still(job[u])) /\ Still(j) => Agreed'
  <2> SUFFICES ASSUME unsettled' = FALSE, \A u \in Busy \ {t} : Still(job[u]), Still(j) PROVE Agreed'
    OBVIOUS
  <2>1. job[t].moved = FALSE /\ job[t].op # "republish" /\ (job[t].alone = TRUE \/ job[t].op \in Controls)
    BY <1>6, <1>10 DEF Still
  <2>2. \A u \in Busy : Still(job[u])
    BY <2>1 DEF Still
  <2>3. Agreed
    BY <1>1, <2>2 DEF RunInv, CalmHolds
  <2>4. CASE job[t].op \in Controls
    BY <1>1, <1>9, <2>3, <2>4 DEF Agreed
  <2>5. CASE job[t].op \notin Controls
    <3>1. job[t].bytes = active.profile
      BY <1>1, <1>5, <2>1, <2>5 DEF Fits, Placed, Operations
    <3>2. service' = service \/ service'.profile = job[t].bytes
      BY <1>7, <1>9, <2>5
    <3>. QED BY <1>1, <2>3, <3>1, <3>2 DEF Agreed
  <2>. QED BY <2>4, <2>5
<1>14. halted' = TRUE => paused' = TRUE /\ service'.runtime # "running" /\ Harmless(j) /\ halted = TRUE
  <2> SUFFICES ASSUME halted = TRUE PROVE paused = TRUE /\ service'.runtime # "running" /\ Harmless(j)
    BY <1>1
  <2>1. paused = TRUE /\ service.runtime # "running" /\ Harmless(job[t])
    BY <1>5 DEF RunInv, HaltHolds
  <2>2. CASE job[t].op = "remove"
    BY <1>9, <1>10, <2>1, <2>2 DEF Controls, Harmless
  <2>3. CASE job[t].op # "remove"
    <3>1. job[t].op \in {"designate", "republish"} /\ job[t].plan = "hold"
      BY <1>1, <2>1, <2>3 DEF Harmless
    <3>2. p # "live" /\ service'.runtime = service.runtime
      BY <1>7, <1>9, <2>1, <3>1, PlanIs DEF Controls
    <3>. QED BY <1>8, <1>10, <2>1, <3>1, <3>2 DEF Harmless
  <2>. QED BY <2>2, <2>3
<1>15. j.at # "off" /\ paused' \in BOOLEAN /\ unsettled' \in BOOLEAN /\ halted' \in BOOLEAN
  BY <1>1, <1>8, <1>10 DEF RunInv, RunShape
<1>. QED BY <1>1, <1>4, <1>9, <1>10, <1>11, <1>12, <1>13, <1>14, <1>15, ThreadKeeps

LEMMA ExecuteFailsKeeps ==
    ASSUME RunInv, NEW t \in Thread, ExecuteFails(t)
    PROVE  RunInv'
<1>1. /\ t \in Busy /\ job[t].at = "execute" /\ Step(t, Off) /\ paused' = paused /\ halted' = halted /\ active' = active
      /\ unsettled' = (unsettled \/ job[t].moved \/ ~job[t].alone \/ service'.profile # service.profile)
      /\ service' \in {service, Outcome(job[t], FALSE)} \cup
                      (IF service.runtime = "running" THEN {[service EXCEPT !.runtime = "stopped"]} ELSE {})
  BY DEF ExecuteFails, Busy
<1>2. /\ Placed(t, job[t]) /\ (halted = TRUE => Harmless(job[t]))
      /\ job[t].moved \in BOOLEAN /\ job[t].alone \in BOOLEAN
  BY <1>1, JobIs
<1>3. unsettled \in BOOLEAN /\ paused \in BOOLEAN /\ halted \in BOOLEAN
  BY DEF RunInv, RunShape
<1>4. /\ unsettled' \in BOOLEAN
      /\ unsettled' = FALSE => /\ unsettled = FALSE /\ job[t].moved = FALSE /\ job[t].alone = TRUE
                               /\ service'.profile = service.profile
  BY <1>1, <1>2, <1>3, Zenon
<1>5. job[t].op \in Operations /\ (job[t].op \in Controls => job[t].plan # "hold")
  BY <1>2, NoneAssumption DEF Placed
<1> DEFINE s == Outcome(job[t], FALSE)
<1>6. /\ \E C : s \in Services(C)
      /\ job[t].op \in Controls => s.runtime # "running"
      /\ job[t].op \notin Controls /\ job[t].plan = "hold" => s.runtime = service.runtime
  BY <1>5, OutcomeIs
<1> HIDE DEF s
<1>7. PICK D : service \in Services(D)
  BY DEF RunInv, RunShape
<1>8. service' = service \/ service' = s \/ service' = [service EXCEPT !.runtime = "stopped"]
  BY <1>1 DEF s
<1>9. \E C : service' \in Services(C)
  <2>1. [service EXCEPT !.runtime = "stopped"] \in Services(D)
    BY <1>7 DEF Services
  <2>. QED BY <1>6, <1>7, <1>8, <2>1
<1>10. unsettled' = FALSE /\ (\A u \in Busy \ {t} : Still(job[u])) => Agreed'
  <2> SUFFICES ASSUME unsettled' = FALSE, \A u \in Busy \ {t} : Still(job[u]) PROVE Agreed'
    OBVIOUS
  <2>1. \A u \in Busy : Still(job[u])
    BY <1>4 DEF Still
  <2>2. Agreed
    BY <1>4, <2>1 DEF RunInv, CalmHolds
  <2>. QED BY <1>1, <1>4, <2>2 DEF Agreed
<1>11. halted' = TRUE => paused' = TRUE /\ service'.runtime # "running" /\ halted = TRUE
  <2> SUFFICES ASSUME halted = TRUE PROVE paused = TRUE /\ service'.runtime # "running"
    BY <1>1
  <2>1. paused = TRUE /\ service.runtime # "running" /\ Harmless(job[t])
    BY <1>2 DEF RunInv, HaltHolds
  <2>2. s.runtime # "running"
    BY <1>1, <1>6, <2>1 DEF Harmless, Controls
  <2>3. [service EXCEPT !.runtime = "stopped"].runtime = "stopped"
    BY <1>7 DEF Services
  <2>. QED BY <1>8, <2>1, <2>2, <2>3
<1>12. Off.at = "off" /\ paused' \in BOOLEAN /\ halted' \in BOOLEAN
  BY <1>1, <1>3, OffIs
<1>. QED BY <1>1, <1>4, <1>9, <1>10, <1>11, <1>12, OffIs, ThreadKeeps

\* An operation that ends well has settled pointer and service, or says that it
\* has not.
LEMMA SuccessSettles ==
    ASSUME RunInv, NEW t \in Busy, job[t].at \in {"choice", "end"}, Succeeds(t),
           UNCHANGED <<active, service>>
    PROVE  /\ unsettled' \in BOOLEAN
           /\ unsettled' = FALSE /\ (\A u \in Busy \ {t} : Still(job[u])) => Agreed'
<1>1. unsettled' = IF job[t].op \in Controls THEN unsettled ELSE (job[t].plan = "local" \/ ~job[t].alone)
  BY DEF Succeeds, Settles
<1>2. /\ Placed(t, job[t]) /\ job[t].alone \in BOOLEAN
      /\ job[t].alone = TRUE => Fits(job[t], active.profile, service)
  BY JobIs
<1>3. unsettled \in BOOLEAN
  BY DEF RunInv, RunShape
<1>4. CASE job[t].op \in Controls
  <2>1. unsettled' = unsettled /\ Still(job[t])
    BY <1>1, <1>2, <1>4 DEF Placed, Still
  <2>2. unsettled' = FALSE /\ (\A u \in Busy \ {t} : Still(job[u])) => Agreed
    BY <2>1 DEF RunInv, CalmHolds
  <2>. QED BY <1>3, <2>1, <2>2 DEF Agreed
<1>5. CASE job[t].op \notin Controls
  <2>1. unsettled' = (job[t].plan = "local" \/ ~job[t].alone)
    BY <1>1, <1>5
  <2>2. unsettled' \in BOOLEAN /\ (unsettled' = FALSE => job[t].plan # "local" /\ job[t].alone = TRUE)
    BY <1>2, <2>1, Zenon
  <2>. QED BY <1>2, <1>5, <2>2 DEF Fits, Agreed
<1>. QED BY <1>4, <1>5

LEMMA ChoiceKeeps ==
    ASSUME RunInv, NEW t \in Thread, Choice(t)
    PROVE  RunInv'
<1>1. t \in Busy /\ job[t].at = "choice" /\ UNCHANGED <<active, service>>
  BY DEF Choice, Busy
<1>2. CASE Fails(t) /\ UNCHANGED paused
  BY <1>1, <1>2, FailKeeps
<1>3. CASE ~(Fails(t) /\ UNCHANGED paused)
  <2>1. paused' = (job[t].op \in {"stop", "remove"}) /\ Succeeds(t)
    BY <1>3 DEF Choice
  <2>2. /\ unsettled' \in BOOLEAN
        /\ unsettled' = FALSE /\ (\A u \in Busy \ {t} : Still(job[u])) => Agreed'
    BY <1>1, <2>1, SuccessSettles
  <2>3. Step(t, Off) /\ halted' = IF job[t].op = "stop" THEN job[t].alone ELSE halted
    BY <2>1 DEF Succeeds
  <2>4. /\ Placed(t, job[t]) /\ job[t].alone \in BOOLEAN /\ (halted = TRUE => Harmless(job[t]))
        /\ job[t].alone = TRUE => Fits(job[t], active.profile, service)
    BY <1>1, JobIs
  <2>5. halted \in BOOLEAN /\ \E C : service' \in Services(C)
    BY <1>1 DEF RunInv, RunShape
  <2>6. paused' \in BOOLEAN /\ (job[t].op \in {"stop", "remove"} => paused' = TRUE)
    <3>1. paused' \in BOOLEAN
      <4> DEFINE q == job[t].op \in {"stop", "remove"}
      <4>1. q \in BOOLEAN
        OBVIOUS
      <4> HIDE DEF q
      <4>2. paused' = q
        BY <2>1 DEF q
      <4>. QED BY <4>1, <4>2
    <3>2. CASE job[t].op \in {"stop", "remove"}
      BY <2>1, <3>1, <3>2
    <3>. QED BY <3>1, <3>2
  <2>7. halted' \in BOOLEAN
    BY <2>3, <2>4, <2>5
  <2>8. halted' = TRUE => /\ paused' = TRUE /\ service'.runtime # "running"
                          /\ halted = TRUE \/ job[t].alone = TRUE
    <3>1. CASE job[t].op = "stop"
      BY <1>1, <2>3, <2>4, <2>6, <3>1 DEF Fits
    <3>2. CASE job[t].op # "stop"
      <4>1. halted' = TRUE => halted = TRUE
        BY <2>3, <3>2
      <4>2. halted = TRUE => job[t].op = "remove" /\ service.runtime # "running"
        BY <1>1, <2>4 DEF Harmless, RunInv, HaltHolds
      <4>. QED BY <1>1, <2>6, <4>1, <4>2
    <3>. QED BY <3>1, <3>2
  <2>9. Off.at = "off"
    BY OffIs
  <2>. QED BY <1>1, <2>2, <2>3, <2>5, <2>6, <2>7, <2>8, <2>9, OffIs, ThreadKeeps
<1>. QED BY <1>2, <1>3

LEMMA EndsKeeps ==
    ASSUME RunInv, NEW t \in Thread, Ends(t)
    PROVE  RunInv'
<1>1. t \in Busy /\ job[t].at = "end" /\ UNCHANGED <<active, service, paused>> /\ Succeeds(t)
  BY DEF Ends, Busy
<1>2. /\ unsettled' \in BOOLEAN
      /\ unsettled' = FALSE /\ (\A u \in Busy \ {t} : Still(job[u])) => Agreed'
  BY <1>1, SuccessSettles
<1>3. job[t].op # "stop"
  BY <1>1, JobIs DEF Placed, Controls
<1>4. Step(t, Off) /\ halted' = halted
  BY <1>1, <1>3 DEF Succeeds
<1>5. /\ halted' \in BOOLEAN /\ paused' \in BOOLEAN /\ \E C : service' \in Services(C)
  BY <1>1, <1>4 DEF RunInv, RunShape
<1>6. halted' = TRUE => paused' = TRUE /\ service'.runtime # "running" /\ halted = TRUE
  BY <1>1, <1>4 DEF RunInv, HaltHolds
<1>7. Off.at = "off"
  BY OffIs
<1>. QED BY <1>1, <1>2, <1>4, <1>5, <1>6, <1>7, OffIs, ThreadKeeps

\* A new operation ends the solitude of the others.
LEMMA BeginsKeeps ==
    ASSUME RunInv, NEW t \in Thread, job[t].at = "off", NEW B, NEW j \in Jobs(B), Begins(t, j),
           j.at # "off", j.plan = None, Placed(t, j),
           \/ j.op # "republish" /\ j.at \in {"stage", "load"}
           \/ j.op = "republish" /\ j.at = "plan"
           \/ j.op \in Controls /\ j.at = "execute",
           halted' = TRUE => Harmless(j)
    PROVE  RunInv'
<1>1. /\ job' = [u \in Thread |-> IF u = t THEN [j EXCEPT !.alone = (Busy = {})]
                                  ELSE [job[u] EXCEPT !.alone = @ /\ u \notin Busy]]
      /\ halted' = (halted /\ j.op \notin {"start", "activate", "install"})
      /\ UNCHANGED <<active, service, paused, unsettled>>
  BY DEF Begins
<1>2. PICK C : job \in [Thread -> Jobs(C)]
  BY DEF RunInv, RunShape, JobShape
<1> DEFINE b == (Busy = {})
           n == [j EXCEPT !.alone = b]
           c(u) == (job[u].alone /\ u \notin Busy)
           r(u) == [job[u] EXCEPT !.alone = c(u)]
<1>3. b \in BOOLEAN /\ (b = TRUE <=> Busy = {})
  BY Zenon
<1>4. \A u \in Thread : c(u) \in BOOLEAN /\ (u \in Busy => c(u) = FALSE)
  BY Zenon
<1>5. job' = [u \in Thread |-> IF u = t THEN n ELSE r(u)]
  BY <1>1
<1> HIDE DEF b, c
<1>6. /\ n \in Jobs(B) /\ n.alone = b /\ n.at = j.at /\ n.op = j.op /\ n.plan = j.plan /\ n.moved = j.moved
      /\ n.bytes = j.bytes
  BY <1>3 DEF Jobs
<1>7. \A u \in Thread : /\ r(u) \in Jobs(C) /\ r(u).alone = c(u) /\ r(u).at = job[u].at /\ r(u).op = job[u].op
                        /\ r(u).plan = job[u].plan /\ r(u).moved = job[u].moved
  BY <1>2, <1>4 DEF Jobs
<1> HIDE DEF n, r
<1>8. job'[t] = n /\ \A u \in Thread : u # t => job'[u] = r(u)
  BY <1>5
<1>9. JobShape'
  <2>1. n \in Jobs(B \cup C) /\ \A u \in Thread : r(u) \in Jobs(B \cup C)
    BY <1>6, <1>7 DEF Jobs
  <2>2. job' \in [Thread -> Jobs(B \cup C)]
    BY <1>5, <2>1
  <2>. QED BY <2>2 DEF JobShape
<1>10. t \notin Busy /\ Busy' = Busy \cup {t}
  BY <1>6, <1>7, <1>8 DEF Busy
<1>11. \A u \in Busy : u \in Thread /\ u # t
  BY <1>10 DEF Busy
<1>12. RunShape'
  <2>1. halted' \in BOOLEAN
    BY <1>1, Zenon
  <2>. QED BY <1>1, <1>9, <2>1 DEF RunInv, RunShape
<1>13. JobsHold'
  <2> SUFFICES ASSUME NEW u \in Busy'
               PROVE  /\ Placed(u, job'[u])
                      /\ job'[u].alone = TRUE => Busy' = {u} /\ Fits(job'[u], active'.profile, service')
    BY DEF JobsHold
  <2>1. CASE u = t
    <3>1. job'[u] = n
      BY <1>8, <2>1
    <3>2. Placed(t, n)
      BY <1>6 DEF Placed
    <3>3. n.alone = TRUE => Busy' = {t}
      BY <1>3, <1>6, <1>10
    <3>4. Fits(n, active'.profile, service')
      <4>1. CASE j.op # "republish" /\ j.at \in {"stage", "load"}
        BY <1>6, <4>1 DEF Fits
      <4>2. CASE j.op = "republish" /\ j.at = "plan"
        BY <1>6, <4>2 DEF Fits, Starters
      <4>3. CASE j.op \in Controls /\ j.at = "execute"
        BY <1>6, <4>3 DEF Fits, Starters, Controls, Designations
      <4>. QED BY <4>1, <4>2, <4>3
    <3>. QED BY <2>1, <3>1, <3>2, <3>3, <3>4
  <2>2. CASE u # t
    <3>1. u \in Busy /\ job'[u] = r(u) /\ u \in Thread
      BY <1>8, <1>10, <1>11, <2>2
    <3>2. Placed(u, job[u])
      BY <3>1 DEF RunInv, JobsHold
    <3>3. Placed(u, r(u)) /\ r(u).alone = FALSE
      BY <1>4, <1>7, <3>1, <3>2 DEF Placed
    <3>. QED BY <3>1, <3>3
  <2>. QED BY <2>1, <2>2
<1>14. CalmHolds'
  <2> SUFFICES ASSUME unsettled' = FALSE, \A u \in Busy' : Still(job'[u]) PROVE Agreed'
    BY DEF CalmHolds
  <2>1. \A u \in Busy : Still(r(u)) /\ r(u).alone = FALSE /\ r(u).op = job[u].op /\ r(u).moved = job[u].moved
    BY <1>4, <1>7, <1>8, <1>10, <1>11
  <2>2. \A u \in Busy : Still(job[u])
    BY <2>1 DEF Still
  <2>3. Agreed
    BY <1>1, <2>2 DEF RunInv, CalmHolds
  <2>. QED BY <1>1, <2>3 DEF Agreed
<1>15. HaltHolds'
  <2> SUFFICES ASSUME halted' = TRUE
               PROVE  paused' = TRUE /\ service'.runtime # "running" /\ \A u \in Busy' : Harmless(job'[u])
    BY DEF HaltHolds
  <2>1. halted = TRUE
    <3>1. halted \in BOOLEAN
      BY DEF RunInv, RunShape
    <3>. QED BY <1>1, <3>1, Zenon
  <2>2. paused = TRUE /\ service.runtime # "running" /\ \A u \in Busy : Harmless(job[u])
    BY <2>1 DEF RunInv, HaltHolds
  <2>3. Harmless(n)
    BY <1>6 DEF Harmless
  <2>4. \A u \in Busy : Harmless(r(u))
    BY <1>7, <1>11, <2>2 DEF Harmless
  <2>. QED BY <1>1, <1>8, <1>10, <1>11, <2>2, <2>3, <2>4
<1>. QED BY <1>12, <1>13, <1>14, <1>15 DEF RunInv

LEMMA NewIs ==
    ASSUME NEW op \in Operations, NEW at \in Stations, NEW bytes, NEW source, NEW j, j = New(op, at, bytes, source)
    PROVE  \E B : j \in Jobs(B)
<1>1. j \in Jobs({None, bytes, source})
  BY DEF New, Off, Jobs
<1>. QED BY <1>1

\* After a Stop nothing begins that starts the service: the tray menu looks at the
\* marker.
LEMMA CommandsKeep ==
    ASSUME RunInv, Command \/ \E t \in Tray : TrayApply(t)
    PROVE  RunInv'
<1>1. PICK t \in Thread, op \in Operations, at \in Stations :
        /\ job[t].at = "off" /\ \E bytes, source : Begins(t, New(op, at, bytes, source))
        /\ op \in Controls => at = "execute" /\ (op = "stop" => service.runtime = "running")
        /\ op = "designate" => at = "stage"
        /\ op = "republish" => at = "plan"
        /\ op \in Starters => at \in {"stage", "load"}
        /\ t # Main => op = "apply"
        /\ op = "apply" => TrayMay
  <2>0. Main \in Thread /\ \A t \in Tray : t \in Thread
    BY DEF Thread
  <2>1. CASE Designate
    BY <2>0, <2>1 DEF Designate, MainFree, Operations, Stations, Controls, Starters
  <2>2. CASE Republish
    BY <2>0, <2>2 DEF Republish, MainFree, Operations, Stations, Controls, Starters
  <2>3. CASE Start
    <3>1. /\ job[Main].at = "off"
          /\ Begins(Main, New("start", "load", None, None))
             \/ Begins(Main, New("start", "stage", file[DefaultProfile], DefaultProfile))
      BY <2>3 DEF Start, MainFree, Ensures
    <3>. QED BY <2>0, <3>1 DEF Operations, Stations, Controls, Starters
  <2>4. CASE Activate
    <3>1. /\ job[Main].at = "off"
          /\ Begins(Main, New("activate", "load", None, None))
             \/ Begins(Main, New("activate", "stage", file[DefaultProfile], DefaultProfile))
      BY <2>4 DEF Activate, MainFree, Ensures
    <3>. QED BY <2>0, <3>1 DEF Operations, Stations, Controls, Starters
  <2>5. CASE Control
    BY <2>0, <2>5 DEF Control, MainFree, Operations, Stations, Controls, Starters
  <2>6. CASE \E t \in Tray : TrayApply(t)
    <3>1. PICK t \in Tray : TrayApply(t)
      BY <2>6
    <3>2. /\ job[t].at = "off" /\ TrayMay
          /\ Begins(t, New("apply", "load", None, None))
             \/ Begins(t, New("apply", "stage", file[DefaultProfile], DefaultProfile))
      BY <3>1 DEF TrayApply, Ensures
    <3>. QED BY <2>0, <3>2 DEF Operations, Stations, Controls, Starters
  <2>. QED BY <2>1, <2>2, <2>3, <2>4, <2>5, <2>6 DEF Command
<1>1a. PICK bytes, source : Begins(t, New(op, at, bytes, source))
  BY <1>1
<1> DEFINE j == New(op, at, bytes, source)
<1>0. j = New(op, at, bytes, source)
  OBVIOUS
<1> HIDE DEF j
<1>2. PICK B : j \in Jobs(B)
  BY <1>0, NewIs
<1>3. j.op = op /\ j.at = at /\ j.plan = None /\ j.moved = FALSE
  BY <1>0 DEF New, Off
<1>4. Begins(t, j)
  BY <1>0, <1>1a
<1>5. at # "off"
  BY <1>1 DEF Operations
<1>6. Placed(t, j)
  BY <1>1, <1>3 DEF Placed, Operations, Starters, Controls
<1>7. \/ j.op # "republish" /\ j.at \in {"stage", "load"}
      \/ j.op = "republish" /\ j.at = "plan"
      \/ j.op \in Controls /\ j.at = "execute"
  BY <1>1, <1>3 DEF Operations
<1>8. halted' = TRUE => Harmless(j)
  <2> SUFFICES ASSUME halted' = TRUE PROVE Harmless(j)
    OBVIOUS
  <2>1. halted' = (halted /\ j.op \notin {"start", "activate", "install"})
    BY <1>4 DEF Begins
  <2>2. halted \in BOOLEAN
    BY DEF RunInv, RunShape
  <2>3. halted = TRUE /\ j.op \notin {"start", "activate", "install"}
    BY <2>1, <2>2, Zenon
  <2>4. paused = TRUE /\ service.runtime # "running"
    BY <2>3 DEF RunInv, HaltHolds
  <2>5. op # "apply" /\ op # "stop"
    BY <1>1, <2>4 DEF TrayMay, Controls
  <2>6. op \in {"designate", "republish", "remove"}
    BY <1>3, <2>3, <2>5 DEF Operations, Starters, Controls
  <2>. QED BY <1>1, <1>3, <2>6, NoneAssumption DEF Harmless
<1>. QED BY <1>1, <1>2, <1>3, <1>4, <1>5, <1>6, <1>7, <1>8, BeginsKeeps

LEMMA DiesKeeps ==
    ASSUME RunInv, Dies
    PROVE  RunInv'
<1>1. /\ job' = [t \in Thread |-> Off] /\ UNCHANGED <<active, paused>>
      /\ service' \in {service} \cup {Outcome(job[t], FALSE) : t \in {u \in Busy : job[u].at = "execute"}}
      /\ unsettled' = (unsettled \/ service' # service \/ \E t \in Busy : job[t].moved \/ ~job[t].alone)
      /\ halted' = (halted /\ service'.runtime # "running")
  BY DEF Dies
<1>2. unsettled \in BOOLEAN /\ paused \in BOOLEAN /\ halted \in BOOLEAN /\ \E C : service \in Services(C)
  BY DEF RunInv, RunShape
<1>3. Busy' = {}
  BY <1>1, OffIs DEF Busy
<1>4. JobShape'
  <2>1. PICK B : Off \in Jobs(B)
    BY OffIs
  <2>2. job' \in [Thread -> Jobs(B)]
    BY <1>1, <2>1
  <2>. QED BY <2>2 DEF JobShape
<1>5. \E C : service' \in Services(C)
  <2>1. CASE service' = service
    BY <1>2, <2>1
  <2>2. CASE service' # service
    <3>1. PICK t \in Busy : job[t].at = "execute" /\ service' = Outcome(job[t], FALSE)
      BY <1>1, <2>2
    <3>2. job[t].op \in Operations /\ (job[t].op \in Controls => job[t].plan # "hold")
      BY JobIs, NoneAssumption DEF Placed
    <3>. QED BY <3>1, <3>2, OutcomeIs
  <2>. QED BY <2>1, <2>2
<1>6. unsettled' \in BOOLEAN /\ halted' \in BOOLEAN
  BY <1>1, Zenon
<1>7. RunShape'
  BY <1>1, <1>2, <1>4, <1>5, <1>6 DEF RunShape
<1>8. CalmHolds'
  <2> SUFFICES ASSUME unsettled' = FALSE PROVE Agreed'
    BY DEF CalmHolds
  <2>1. \A t \in Busy : job[t].moved \in BOOLEAN /\ job[t].alone \in BOOLEAN
    BY JobIs
  <2>2. /\ unsettled = FALSE /\ service' = service
        /\ \A t \in Busy : job[t].moved = FALSE /\ job[t].alone = TRUE
    BY <1>1, <1>2, <2>1, Zenon
  <2>3. Agreed
    BY <2>2 DEF RunInv, CalmHolds, Still
  <2>. QED BY <1>1, <2>2, <2>3 DEF Agreed
<1>9. HaltHolds'
  <2> SUFFICES ASSUME halted' = TRUE PROVE paused' = TRUE /\ service'.runtime # "running"
    BY <1>3 DEF HaltHolds
  <2>1. halted = TRUE /\ service'.runtime # "running"
    BY <1>1, <1>2, Zenon
  <2>. QED BY <1>1, <2>1 DEF RunInv, HaltHolds
<1>10. JobsHold'
  BY <1>3 DEF JobsHold
<1>. QED BY <1>7, <1>8, <1>9, <1>10 DEF RunInv

LEMMA OthersKeep ==
    ASSUME RunInv, OthersControl
    PROVE  RunInv'
<1>1. /\ service' = [service EXCEPT !.runtime = IF @ = "running" THEN "stopped" ELSE "running"]
      /\ job' = [t \in Thread |-> [job[t] EXCEPT !.alone = @ /\ t \notin Busy]]
      /\ halted' = FALSE /\ UNCHANGED <<active, paused, unsettled>>
  BY DEF OthersControl
<1>2. PICK C : job \in [Thread -> Jobs(C)]
  BY DEF RunInv, RunShape, JobShape
<1>3. PICK D : service \in Services(D)
  BY DEF RunInv, RunShape
<1>4. service' \in Services(D) /\ service'.profile = service.profile
  BY <1>1, <1>3 DEF Services
<1> DEFINE c(u) == (job[u].alone /\ u \notin Busy)
           r(u) == [job[u] EXCEPT !.alone = c(u)]
<1>5. \A u \in Thread : c(u) \in BOOLEAN /\ (u \in Busy => c(u) = FALSE)
  BY Zenon
<1>6. job' = [u \in Thread |-> r(u)]
  BY <1>1
<1> HIDE DEF c
<1>7. \A u \in Thread : /\ r(u) \in Jobs(C) /\ r(u).alone = c(u) /\ r(u).at = job[u].at /\ r(u).op = job[u].op
                        /\ r(u).plan = job[u].plan /\ r(u).moved = job[u].moved
  BY <1>2, <1>5 DEF Jobs
<1> HIDE DEF r
<1>8. \A u \in Thread : job'[u] = r(u)
  BY <1>6
<1>9. JobShape'
  <2>1. job' \in [Thread -> Jobs(C)]
    BY <1>6, <1>7
  <2>. QED BY <2>1 DEF JobShape
<1>10. Busy' = Busy /\ \A u \in Busy : u \in Thread
  BY <1>7, <1>8 DEF Busy
<1>11. RunShape'
  BY <1>1, <1>4, <1>9 DEF RunInv, RunShape
<1>12. JobsHold'
  <2> SUFFICES ASSUME NEW u \in Busy' PROVE Placed(u, job'[u]) /\ ~(job'[u].alone = TRUE)
    BY DEF JobsHold
  <2>1. u \in Busy /\ u \in Thread /\ job'[u] = r(u)
    BY <1>8, <1>10
  <2>2. Placed(u, job[u])
    BY <2>1 DEF RunInv, JobsHold
  <2>. QED BY <1>5, <1>7, <2>1, <2>2 DEF Placed
<1>13. CalmHolds'
  <2> SUFFICES ASSUME unsettled' = FALSE, \A u \in Busy' : Still(job'[u]) PROVE Agreed'
    BY DEF CalmHolds
  <2>1. \A u \in Busy : Still(r(u)) /\ r(u).alone = FALSE /\ r(u).op = job[u].op /\ r(u).moved = job[u].moved
    BY <1>5, <1>7, <1>8, <1>10
  <2>2. \A u \in Busy : Still(job[u])
    BY <2>1 DEF Still
  <2>3. Agreed
    BY <1>1, <2>2 DEF RunInv, CalmHolds
  <2>. QED BY <1>1, <1>4, <2>3 DEF Agreed
<1>14. HaltHolds'
  BY <1>1 DEF HaltHolds
<1>. QED BY <1>11, <1>12, <1>13, <1>14 DEF RunInv

LEMMA RunInitHolds ==
    ASSUME Init
    PROVE  RunInv
<1>1. /\ service \in [runtime : {"absent", "stopped", "running"}, profile : {None}] /\ paused = FALSE
      /\ job = [t \in Thread |-> Off] /\ unsettled = FALSE /\ halted = FALSE /\ active = None
  BY DEF Init, RunInit
<1>2. Busy = {}
  BY <1>1, OffIs DEF Busy
<1>3. JobShape
  <2>1. PICK B : Off \in Jobs(B)
    BY OffIs
  <2>2. job \in [Thread -> Jobs(B)]
    BY <1>1, <2>1
  <2>. QED BY <2>2 DEF JobShape
<1>4. service \in Services({None})
  BY <1>1 DEF Services
<1>5. RunShape
  BY <1>1, <1>3, <1>4 DEF RunShape
<1>. QED BY <1>1, <1>2, <1>5 DEF RunInv, JobsHold, CalmHolds, HaltHolds, Agreed

LEMMA RunStep ==
    ASSUME RunInv, [Next]_vars
    PROVE  RunInv'
<1>1. CASE Editor \/ Spoil \/ UNCHANGED vars
  <2>1. UNCHANGED <<active, service, paused, job, unsettled, halted>>
    BY <1>1 DEF Editor, Spoil, vars, runVars
  <2>2. Busy' = Busy
    BY <2>1 DEF Busy
  <2>. QED BY <2>1, <2>2 DEF RunInv, RunShape, JobShape, JobsHold, CalmHolds, HaltHolds, Agreed
<1>2. CASE Command \/ \E t \in Tray : TrayApply(t)
  BY <1>2, CommandsKeep
<1>3. CASE Dies
  BY <1>3, DiesKeeps
<1>4. CASE OthersControl
  BY <1>4, OthersKeep
<1>5. CASE \E t \in Thread : ThreadStep(t)
  BY <1>5, StageKeeps, PointKeeps, LoadKeeps, PlanKeeps, ExecuteKeeps, ExecuteFailsKeeps, ChoiceKeeps, EndsKeeps
     DEF ThreadStep
<1>. QED BY <1>1, <1>2, <1>3, <1>4, <1>5 DEF Next

\* Publishing a profile that was planned for the service as it is.
LEMMA DesignationIsQuiet ==
    ASSUME RunInv
    PROVE  DesignationKeepsRuntime
<1> SUFFICES ASSUME NEW t \in Thread, Execute(t), job[t].op \in Designations, job[t].alone
             PROVE  service'.runtime = service.runtime
  BY DEF DesignationKeepsRuntime
<1>1. t \in Busy /\ job[t].at = "execute"
  BY DEF Execute, Busy
<1>2. PICK blocked \in BOOLEAN : service' = Outcome(job[t], blocked)
  BY DEF Execute
<1>3. Placed(t, job[t]) /\ job[t].alone \in BOOLEAN /\ (job[t].alone = TRUE => Fits(job[t], active.profile, service))
  BY <1>1, JobIs
<1>4. job[t].alone = TRUE
  BY <1>3, Zenon
<1>5. \/ job[t].plan = "live" /\ service.runtime = "running"
      \/ job[t].plan = "hold" /\ service.runtime = "stopped"
  BY <1>1, <1>3, <1>4 DEF Fits
<1>6. job[t].op \in Operations /\ job[t].op \notin Controls
  BY <1>3 DEF Placed, Designations, Controls
<1>. QED BY <1>2, <1>5, <1>6, OutcomeIs

\* What the control center says of the service, and does to it, follows the user's
\* last word, for any number of tray threads, profiles, failures and crashes:
\* a profile that is said to be published is the one the service was given, a Stop
\* holds, and choosing a profile neither starts nor stops the service.
THEOREM TheServiceFollows == Spec => ServiceFollowsTheUser
<1>1. Init => RunInv
  BY RunInitHolds
<1>2. RunInv /\ [Next]_vars => RunInv'
  BY RunStep
<1>3. RunInv => PublishedMeansServed /\ StopIsRemembered
  <2> SUFFICES ASSUME RunInv PROVE PublishedMeansServed /\ StopIsRemembered
    OBVIOUS
  <2>1. unsettled \in BOOLEAN /\ halted \in BOOLEAN /\ paused \in BOOLEAN
    BY DEF RunInv, RunShape
  <2>2. PublishedMeansServed
    <3> SUFFICES ASSUME Busy = {}, ~unsettled, Publication = "published"
                 PROVE  service.profile = file[active.source]
      BY DEF PublishedMeansServed, Quiet
    <3>1. Whole /\ file[active.source] = active.profile
      BY DEF Publication
    <3>2. unsettled = FALSE
      BY <2>1, Zenon
    <3>3. Agreed
      BY <3>2 DEF RunInv, CalmHolds
    <3>. QED BY <3>1, <3>3 DEF Whole, Agreed
  <2>3. StopIsRemembered
    <3>1. halted => halted = TRUE
      BY <2>1, Zenon
    <3>2. paused = TRUE => paused
      BY Zenon
    <3>. QED BY <3>1, <3>2 DEF RunInv, HaltHolds, StopIsRemembered
  <2>. QED BY <2>2, <2>3
<1>4. RunInv => DesignationKeepsRuntime
  BY DesignationIsQuiet
<1>. QED BY <1>1, <1>2, <1>3, <1>4, PTL DEF Spec, ServiceFollowsTheUser

-----------------------------------------------------------------------------
(***************************************************************************)
(* The profile editor: what is clean is saved, and what is shown is written *)
(***************************************************************************)

\* A set of numbers that is not empty has a least element.
LEMMA LeastNumber ==
    ASSUME NEW T \in SUBSET Nat, T # {}
    PROVE  \E x \in T : \A y \in T : x <= y
<1> DEFINE Less == OpToRel(<, Nat)
<1>1. IsWellFoundedOn(Less, Nat)
    BY NatLessThanWellFounded
<1>2. \A x, y \in Nat : x < y => <<x, y>> \in Less
    BY DEF OpToRel
<1> HIDE DEF Less
<1>3. PICK x \in T : \A y \in T : ~(<<y, x>> \in Less)
    BY <1>1, WFMin
<1>4. \A y \in T : ~(y < x)
    <2> TAKE y \in T
    <2>1. <<y, x>> \notin Less
        BY <1>3
    <2>2. x \in Nat /\ y \in Nat
        OBVIOUS
    <2> QED BY <1>2, <2>1, <2>2
<1>5. \A y \in T : x <= y
    BY <1>4
<1> QED BY <1>5

\* Induction, for a property given as the set of the numbers that have it.
LEMMA SetInduction ==
    ASSUME NEW S, 0 \in S, \A n \in Nat : n \in S => n + 1 \in S
    PROVE  \A n \in Nat : n \in S
<1> SUFFICES ASSUME NEW T, T = {n \in Nat : n \notin S}, T # {} PROVE FALSE
    OBVIOUS
<1>1. PICK x \in T : \A y \in T : x <= y
    BY LeastNumber
<1> QED BY <1>1

\* One that is bounded has a greatest element, too.
LEMMA GreatestNumber ==
    ASSUME NEW n \in Nat, NEW S \in SUBSET (1 .. n), S # {}
    PROVE  /\ \E x \in S : \A y \in S : y <= x
           /\ Latest(S) \in S /\ (\A y \in S : y <= Latest(S))
           /\ Max(S) \in S /\ (\A y \in S : y <= Max(S))
           /\ Min(S) \in S /\ (\A y \in S : Min(S) <= y)
<1> DEFINE T == {n - x : x \in S}
<1>1. T \in SUBSET Nat /\ T # {}
    <2>1. \A x \in S : n - x \in Nat
        OBVIOUS
    <2> QED BY <2>1
<1>2. PICK z \in T : \A y \in T : z <= y
    BY <1>1, LeastNumber
<1>3. PICK x \in S : z = n - x
    BY <1>2
<1>4. ASSUME NEW y \in S PROVE y <= x
    <2>1. n - x <= n - y
        BY <1>2, <1>3
    <2> QED BY <2>1
<1>5. \E w \in S : \A y \in S : y <= w
    BY <1>4
<1>6. Latest(S) \in S /\ \A y \in S : y <= Latest(S)
    BY <1>5, Zenon DEF Latest
<1>7. \E w \in S : \A y \in S : w >= y
    BY <1>4
<1>8. Max(S) \in S /\ \A y \in S : Max(S) >= y
    BY <1>7, Zenon DEF Max
<1>9. \E w \in S : \A y \in S : w <= y
    BY LeastNumber
<1>10. Min(S) \in S /\ \A y \in S : Min(S) <= y
    BY <1>9, Zenon DEF Min
<1>11. \A y \in S : y <= Max(S)
    BY <1>8
<1> QED BY <1>5, <1>6, <1>8, <1>10, <1>11

LEMMA RangesAreFinite ==
    ASSUME NEW n \in Nat, NEW T \in SUBSET (1 .. n)
    PROVE  IsFiniteSet(T) /\ Cardinality(T) \in Nat /\ T \subseteq Nat
<1>1. IsFiniteSet(1 .. n)
    BY FS_Interval
<1>2. IsFiniteSet(T)
    BY <1>1, FS_Subset
<1>3. Cardinality(T) \in Nat
    BY <1>2, FS_CardinalityType
<1> QED BY <1>2, <1>3

\* The rank of a member, and that every rank up to the number of members is taken.
Rank(S, x) == Cardinality({y \in S : y <= x})

LEMMA RankIs ==
    ASSUME NEW n \in Nat, NEW S \in SUBSET (1 .. n), NEW i \in 1 .. Cardinality(S)
    PROVE  \E x \in S : Rank(S, x) = i
<1>0. S \subseteq Nat /\ \A T \in SUBSET (1 .. n) : IsFiniteSet(T) /\ Cardinality(T) \in Nat
    BY RangesAreFinite
<1>1. \A x \in S : Rank(S, x) \in Nat
    <2> TAKE x \in S
    <2>1. {y \in S : y <= x} \in SUBSET (1 .. n)
        OBVIOUS
    <2> QED BY <1>0, <2>1 DEF Rank
<1> DEFINE T == {x \in S : i <= Rank(S, x)}
<1>2. S # {}
    BY FS_EmptySet
<1>3. T \in SUBSET Nat /\ T # {}
    <2>1. PICK x \in S : \A y \in S : y <= x
        BY <1>2, GreatestNumber
    <2>2. {y \in S : y <= x} = S
        BY <2>1
    <2>3. Rank(S, x) = Cardinality(S)
        BY <2>2 DEF Rank
    <2>4. x \in T
        BY <1>0, <2>3
    <2> QED BY <1>0, <2>4
<1>4. PICK x \in T : \A y \in T : x <= y
    BY <1>3, LeastNumber
<1> DEFINE P == {y \in S : y < x}
<1>5. x \in S /\ i <= Rank(S, x) /\ x \in Nat
    BY <1>4
<1>6. Rank(S, x) = Cardinality(P) + 1
    <2>1. {y \in S : y <= x} = P \cup {x} /\ x \notin P
        <3>1. \A y \in S : y <= x <=> y < x \/ y = x
            BY <1>0, <1>5
        <3>2. ~(x < x)
            BY <1>5
        <3> QED BY <1>5, <3>1, <3>2
    <2>2. P \in SUBSET (1 .. n)
        OBVIOUS
    <2>3. IsFiniteSet(P)
        BY <1>0, <2>2
    <2> HIDE DEF P
    <2>4. Cardinality(P \cup {x}) = Cardinality(P) + 1
        BY <2>1, <2>3, FS_AddElement
    <2> QED BY <2>1, <2>4 DEF Rank
<1>7. P \in SUBSET (1 .. n) /\ Cardinality(P) \in Nat
    <2>1. P \in SUBSET (1 .. n)
        OBVIOUS
    <2> QED BY <1>0, <2>1
<1>8. Cardinality(P) < i
    <2>1. CASE P = {}
        BY <2>1, FS_EmptySet
    <2>2. CASE P # {}
        <3>1. PICK p \in P : \A y \in P : y <= p
            BY <1>7, <2>2, GreatestNumber
        <3>2. {y \in S : y <= p} = P
            <4>1. \A y \in S : y <= p <=> y < x
                <5> TAKE y \in S
                <5>1. y \in Nat /\ p \in Nat /\ p < x
                    BY <1>0, <3>1
                <5>2. y < x => y <= p
                    BY <3>1
                <5>3. y <= p => y < x
                    BY <1>5, <5>1
                <5> QED BY <5>2, <5>3
            <4> QED BY <4>1
        <3>3. Rank(S, p) = Cardinality(P)
            BY <3>2 DEF Rank
        <3>4. p \notin T
            BY <1>4, <1>5, <3>1
        <3> QED BY <1>7, <3>1, <3>3, <3>4
    <2> QED BY <2>1, <2>2
<1>9. Rank(S, x) = i
    <2> HIDE DEF P
    <2> QED BY <1>5, <1>6, <1>7, <1>8
<1> QED BY <1>5, <1>9

\* The lines with the given numbers, in their order.
LEMMA OrderedIs ==
    ASSUME NEW n \in Seq(IniNode), NEW S \in SUBSET (1 .. Len(n))
    PROVE  \E f : /\ Ordered(n, S) \in Seq(IniNode) /\ Len(Ordered(n, S)) = Cardinality(S) /\ Cardinality(S) \in Nat
                  /\ \A i \in 1 .. Cardinality(S) : f[i] \in S /\ Ordered(n, S)[i] = n[f[i]]
                  /\ \A i, j \in 1 .. Cardinality(S) : f[i] = f[j] => i = j
<1> DEFINE f == [i \in 1 .. Cardinality(S) |-> CHOOSE x \in S : Rank(S, x) = i]
<1>0. Len(n) \in Nat
    OBVIOUS
<1>1. Cardinality(S) \in Nat
    BY <1>0, RangesAreFinite
<1>2. ASSUME NEW i \in 1 .. Cardinality(S) PROVE f[i] \in S /\ Rank(S, f[i]) = i
    <2>1. \E x \in S : Rank(S, x) = i
        BY <1>0, RankIs
    <2>2. f[i] = CHOOSE x \in S : Rank(S, x) = i
        OBVIOUS
    <2> QED BY <2>1, <2>2, Zenon
<1>3. Ordered(n, S) = [i \in 1 .. Cardinality(S) |-> n[f[i]]]
    BY DEF Ordered, Rank
<1> HIDE DEF f
<1>4. \A i \in 1 .. Cardinality(S) : n[f[i]] \in IniNode
    <2> TAKE i \in 1 .. Cardinality(S)
    <2>1. f[i] \in 1 .. Len(n)
        BY <1>2
    <2> QED BY <2>1
<1>5. Ordered(n, S) \in Seq(IniNode) /\ Len(Ordered(n, S)) = Cardinality(S)
    BY <1>1, <1>3, <1>4
<1>6. \A i, j \in 1 .. Cardinality(S) : f[i] = f[j] => i = j
    BY <1>2
<1>7. \A i \in 1 .. Cardinality(S) : f[i] \in S /\ Ordered(n, S)[i] = n[f[i]]
    BY <1>2, <1>3
<1> QED BY <1>1, <1>5, <1>6, <1>7

\* Lines that all have an ending, or all but one; and the lines of a file, where
\* only the last may lack it.
AllEnded(n) == \A i \in 1 .. Len(n) : n[i].ended
OneOpen(n) == \A i, j \in 1 .. Len(n) : ~n[i].ended /\ ~n[j].ended => i = j
IsText(b) == b \in Seq(IniNode) /\ \A i \in 1 .. Len(b) - 1 : b[i].ended

\* An edit makes no ending disappear.
Keeps(n, m) ==
    /\ m \in Seq(IniNode)
    /\ OneOpen(n) => OneOpen(m)
    /\ AllEnded(n) => AllEnded(m)

LEMMA KeepsTwice ==
    ASSUME NEW n, NEW m, NEW o, Keeps(n, m), Keeps(m, o)
    PROVE  Keeps(n, o)
BY DEF Keeps

\* It is enough that every line without an ending was one before.
LEMMA KeepsBy ==
    ASSUME NEW n, NEW m, NEW g, n \in Seq(IniNode), m \in Seq(IniNode),
           \A i \in 1 .. Len(m) : m[i].ended \/ (g[i] \in 1 .. Len(n) /\ m[i].ended = n[g[i]].ended),
           \A i, j \in 1 .. Len(m) : ~m[i].ended /\ ~m[j].ended /\ g[i] = g[j] => i = j
    PROVE  Keeps(n, m)
<1>1. ASSUME OneOpen(n) PROVE OneOpen(m)
    <2> SUFFICES ASSUME NEW i \in 1 .. Len(m), NEW j \in 1 .. Len(m), ~m[i].ended, ~m[j].ended PROVE i = j
        BY DEF OneOpen
    <2>1. g[i] \in 1 .. Len(n) /\ g[j] \in 1 .. Len(n) /\ ~n[g[i]].ended /\ ~n[g[j]].ended
        OBVIOUS
    <2>2. g[i] = g[j]
        BY <1>1, <2>1 DEF OneOpen
    <2> QED BY <2>2
<1>2. ASSUME AllEnded(n) PROVE AllEnded(m)
    BY <1>2 DEF AllEnded
<1> QED BY <1>1, <1>2 DEF Keeps

LEMMA LineTypes ==
    /\ \A s \in Section : Header(s) \in IniNode /\ Header(s).ended /\ Header(s).kind = "section" /\ Header(s).name = s
    /\ \A k \in Key \cup Shape \cup Entry, v \in Value : KeyValue(k, v) \in IniNode /\ KeyValue(k, v).ended
    /\ \A e \in Entry : Listed(e) \in IniNode /\ Listed(e).ended
BY DEF Header, KeyValue, Listed, IniNode

LEMMA SectionNames ==
    /\ "General" \in Section /\ Individual \in Section /\ List \subseteq Section
    /\ \A i \in DOMAIN General : General[i] \in Section
BY DEF Section, General, Range

\* A header is in the section it begins.
LEMMA HeaderInSection ==
    ASSUME NEW m \in Seq(IniNode), NEW i \in 1 .. Len(m), m[i].kind = "section"
    PROVE  SectionAt(m, i) = m[i].name
<1> DEFINE I == {j \in 1 .. i : m[j].kind = "section"}
<1>0. Len(m) \in Nat /\ i \in Nat
    OBVIOUS
<1>1. i \in I /\ I \in SUBSET (1 .. i)
    OBVIOUS
<1>2. Max(I) \in I /\ \A y \in I : y <= Max(I)
    BY <1>0, <1>1, GreatestNumber
<1>3. Max(I) = i
    <2> DEFINE x == Max(I)
    <2>1. x \in 1 .. i /\ i <= x
        BY <1>1, <1>2
    <2> HIDE DEF x
    <2> QED BY <1>0, <2>1 DEF x
<1>4. SelectLastInSubSeq(m, 1, i, LAMBDA l : l.kind = "section") = i
    BY <1>1, <1>3 DEF SelectLastInSubSeq
<1> QED BY <1>0, <1>4 DEF SectionAt

LEMMA WithSectionIs ==
    ASSUME NEW n \in Seq(IniNode), NEW s \in Section, NEW m, m = WithSection(n, s)
    PROVE  /\ Keeps(n, m)
           /\ \E i \in 1 .. Len(m) : m[i].kind = "section" /\ m[i].name = s
<1>1. CASE \E i \in DOMAIN n : n[i].kind = "section" /\ n[i].name = s
    <2>1. m = n /\ DOMAIN n = 1 .. Len(n)
        BY <1>1 DEF WithSection
    <2> QED BY <1>1, <2>1 DEF Keeps
<1>2. CASE ~\E i \in DOMAIN n : n[i].kind = "section" /\ n[i].name = s
    <2> DEFINE h == Header(s)
    <2>1. m = Append(n, h)
        BY <1>2 DEF WithSection
    <2>2. h \in IniNode /\ h.ended /\ h.kind = "section" /\ h.name = s
        BY LineTypes
    <2> HIDE DEF h
    <2>3. /\ m \in Seq(IniNode) /\ Len(n) \in Nat /\ Len(m) = Len(n) + 1 /\ m[Len(n) + 1] = h
          /\ \A i \in 1 .. Len(n) : m[i] = n[i]
        BY <2>1, <2>2
    <2> DEFINE g == [i \in 1 .. Len(m) |-> i]
    <2>4. \A i \in 1 .. Len(m) : m[i].ended \/ (g[i] \in 1 .. Len(n) /\ m[i].ended = n[g[i]].ended)
        <3> TAKE i \in 1 .. Len(m)
        <3>1. CASE i = Len(n) + 1
            BY <2>2, <2>3, <3>1
        <3>2. CASE i # Len(n) + 1
            <4>1. i \in 1 .. Len(n)
                BY <2>3, <3>2
            <4> QED BY <2>3, <4>1
        <3> QED BY <3>1, <3>2
    <2>5. \A i, j \in 1 .. Len(m) : ~m[i].ended /\ ~m[j].ended /\ g[i] = g[j] => i = j
        OBVIOUS
    <2>6. Keeps(n, m)
        <3> HIDE DEF g
        <3>1. m \in Seq(IniNode)
            BY <2>3
        <3>2. n \in Seq(IniNode)
            OBVIOUS
        <3> QED BY <2>4, <2>5, <3>1, <3>2, KeepsBy
    <2>7. Len(n) + 1 \in 1 .. Len(m)
        BY <2>3
    <2> QED BY <2>2, <2>3, <2>6, <2>7
<1> QED BY <1>1, <1>2

\* A line with an ending is put between two others.
LEMMA InsertKeeps ==
    ASSUME NEW n \in Seq(IniNode), NEW p \in 1 .. Len(n) + 1, NEW line \in IniNode, line.ended
    PROVE  Keeps(n, InsertAt(n, p, line))
<1>0. Len(n) \in Nat /\ p \in Nat
    OBVIOUS
<1> DEFINE a == SubSeq(n, 1, p - 1)
           b == SubSeq(n, p, Len(n))
           m == a \o <<line>> \o b
<1>1. a \in Seq(IniNode) /\ Len(a) = p - 1 /\ \A i \in 1 .. p - 1 : a[i] = n[i]
    BY <1>0
<1>2. b \in Seq(IniNode) /\ Len(b) = Len(n) - p + 1 /\ \A i \in 1 .. Len(n) - p + 1 : b[i] = n[p + i - 1]
    BY <1>0
<1> HIDE DEF a, b
<1>3. m \in Seq(IniNode) /\ Len(m) = Len(n) + 1
    <2>1. <<line>> \in Seq(IniNode) /\ Len(<<line>>) = 1
        OBVIOUS
    <2> DEFINE c == a \o <<line>>
    <2>2. c \in Seq(IniNode) /\ Len(c) = p /\ m = c \o b
        BY <1>0, <1>1, <2>1
    <2> HIDE DEF c, m
    <2>3. m \in Seq(IniNode) /\ Len(m) = p + (Len(n) - p + 1)
        BY <1>2, <2>2
    <2> QED BY <1>0, <2>3
<1>4. ASSUME NEW i \in 1 .. Len(m)
      PROVE  /\ i < p => m[i] = n[i]
             /\ i = p => m[i] = line
             /\ i > p => m[i] = n[i - 1]
    <2>1. CASE i < p
        BY <1>0, <1>1, <1>2, <1>3, <2>1
    <2>2. CASE i = p
        BY <1>0, <1>1, <1>2, <1>3, <2>2
    <2>3. CASE i > p
        <3>1. i - p \in 1 .. Len(n) - p + 1
            BY <1>0, <1>3, <2>3
        <3>2. m[i] = b[i - p]
            BY <1>0, <1>1, <1>2, <1>3, <2>3, <3>1
        <3>3. b[i - p] = n[p + (i - p) - 1]
            BY <1>2, <3>1
        <3>4. p + (i - p) - 1 = i - 1 /\ ~(i < p) /\ ~(i = p)
            BY <1>0, <1>3, <2>3
        <3> HIDE DEF m
        <3> QED BY <3>2, <3>3, <3>4
    <2> QED BY <1>0, <2>1, <2>2, <2>3
<1> HIDE DEF m
<1> DEFINE g == [i \in 1 .. Len(m) |-> IF i < p THEN i ELSE i - 1]
<1>5. \A i \in 1 .. Len(m) : m[i].ended \/ (g[i] \in 1 .. Len(n) /\ m[i].ended = n[g[i]].ended)
    <2> TAKE i \in 1 .. Len(m)
    <2>1. CASE i < p
        BY <1>0, <1>4, <2>1
    <2>2. CASE i = p
        BY <1>4, <2>2
    <2>3. CASE i > p
        BY <1>0, <1>3, <1>4, <2>3
    <2> QED BY <1>0, <2>1, <2>2, <2>3
<1>6. \A i, j \in 1 .. Len(m) : ~m[i].ended /\ ~m[j].ended /\ g[i] = g[j] => i = j
    <2> SUFFICES ASSUME NEW i \in 1 .. Len(m), NEW j \in 1 .. Len(m), ~m[i].ended, ~m[j].ended, g[i] = g[j] PROVE i = j
        OBVIOUS
    <2>1. i # p /\ j # p
        BY <1>4
    <2> QED BY <1>0, <2>1
<1>7. Keeps(n, m)
    <2> HIDE DEF g
    <2>1. m \in Seq(IniNode)
        BY <1>3
    <2> QED BY <1>5, <1>6, <2>1, KeepsBy
<1> QED BY <1>7 DEF m, a, b, InsertAt

LEMMA InsertedKeeps ==
    ASSUME NEW n \in Seq(IniNode), NEW s \in Section, NEW line \in IniNode, line.ended
    PROVE  Keeps(n, Inserted(n, s, line))
<1> DEFINE m == WithSection(n, s)
           S == Lines(m, s, {"section", "key", "entry"})
<1>1. Keeps(n, m) /\ \E i \in 1 .. Len(m) : m[i].kind = "section" /\ m[i].name = s
    BY WithSectionIs
<1> HIDE DEF m
<1>2. m \in Seq(IniNode) /\ Len(m) \in Nat /\ DOMAIN m = 1 .. Len(m)
    BY <1>1 DEF Keeps
<1>3. PICK i \in 1 .. Len(m) : m[i].kind = "section" /\ m[i].name = s
    BY <1>1
<1>4. i \in S /\ S \in SUBSET (1 .. Len(m))
    BY <1>2, <1>3, HeaderInSection DEF Lines
<1>5. Latest(S) \in 1 .. Len(m)
    BY <1>2, <1>4, GreatestNumber
<1> DEFINE at == Latest(S)
<1>6. at + 1 \in 1 .. Len(m) + 1
    <2> HIDE DEF at
    <2> QED BY <1>2, <1>5 DEF at
<1>7. Keeps(m, InsertAt(m, at + 1, line))
    <2> HIDE DEF at
    <2> QED BY <1>2, <1>6, InsertKeeps
<1>8. Inserted(n, s, line) = InsertAt(m, at + 1, line)
    BY DEF Inserted, m
<1> QED BY <1>1, <1>7, <1>8, KeepsTwice

\* A line changes its value, or some lines go.
LEMMA SelectionKeeps ==
    ASSUME NEW n \in Seq(IniNode), NEW S \in SUBSET (1 .. Len(n))
    PROVE  Keeps(n, Ordered(n, S))
<1>1. PICK f : /\ Ordered(n, S) \in Seq(IniNode) /\ Len(Ordered(n, S)) = Cardinality(S)
               /\ \A i \in 1 .. Cardinality(S) : f[i] \in S /\ Ordered(n, S)[i] = n[f[i]]
               /\ \A i, j \in 1 .. Cardinality(S) : f[i] = f[j] => i = j
    BY OrderedIs
<1> DEFINE m == Ordered(n, S)
<1>2. m \in Seq(IniNode)
    BY <1>1
<1>3. \A i \in 1 .. Len(m) : m[i].ended \/ (f[i] \in 1 .. Len(n) /\ m[i].ended = n[f[i]].ended)
    BY <1>1
<1>4. \A i, j \in 1 .. Len(m) : ~m[i].ended /\ ~m[j].ended /\ f[i] = f[j] => i = j
    BY <1>1
<1> HIDE DEF m
<1>5. Keeps(n, m)
    BY <1>2, <1>3, <1>4, KeepsBy
<1> QED BY <1>5 DEF m

LEMMA ChangeKeeps ==
    ASSUME NEW n \in Seq(IniNode), NEW p \in 1 .. Len(n), NEW v \in Value
    PROVE  Keeps(n, [n EXCEPT ![p].value = v])
<1> DEFINE m == [n EXCEPT ![p].value = v]
<1>1. \A i \in 1 .. Len(n) : m[i] = IF i = p THEN [n[p] EXCEPT !.value = v] ELSE n[i]
    OBVIOUS
<1>2. n[p] \in IniNode
    OBVIOUS
<1>3. [n[p] EXCEPT !.value = v] \in IniNode /\ [n[p] EXCEPT !.value = v].ended = n[p].ended
    BY <1>2 DEF IniNode
<1>4. m \in Seq(IniNode) /\ Len(m) = Len(n)
    BY <1>3
<1>5. \A i \in 1 .. Len(n) : m[i].ended = n[i].ended
    BY <1>1, <1>3
<1> HIDE DEF m
<1>6. Keeps(n, m)
    BY <1>4, <1>5 DEF Keeps, OneOpen, AllEnded
<1> QED BY <1>6 DEF m

\* set_raw_value.
LEMMA SetRawValueKeeps ==
    ASSUME NEW n \in Seq(IniNode), NEW k \in Key \cup Shape, NEW v \in Value \cup {None}
    PROVE  Keeps(n, SetRawValue(n, k, v))
<1> DEFINE held == {i \in DOMAIN General : Holds(n, General[i], k) # {}}
<1>0. Len(n) \in Nat /\ DOMAIN n = 1 .. Len(n)
    OBVIOUS
<1>1. CASE v = None
    <2> DEFINE S == DOMAIN n \ UNION {Holds(n, General[i], k) : i \in DOMAIN General}
    <2>1. SetRawValue(n, k, v) = Ordered(n, S)
        BY <1>1 DEF SetRawValue
    <2>2. S \in SUBSET (1 .. Len(n))
        BY <1>0
    <2> HIDE DEF S
    <2> QED BY <2>1, <2>2, SelectionKeeps
<1>2. CASE v # None /\ held = {}
    <2>1. SetRawValue(n, k, v) = Inserted(n, "General", KeyValue(k, v))
        BY <1>2 DEF SetRawValue
    <2>2. KeyValue(k, v) \in IniNode /\ KeyValue(k, v).ended
        BY <1>2, LineTypes
    <2>3. "General" \in Section
        BY SectionNames
    <2> QED BY <2>1, <2>2, <2>3, InsertedKeeps
<1>3. CASE v # None /\ held # {}
    <2> DEFINE first == CHOOSE i \in held : \A j \in held : i <= j
               S == Holds(n, General[first], k)
    <2>1. DOMAIN General = 1 .. 2
        BY DEF General
    <2>2. \E i \in held : \A j \in held : i <= j
        <3>1. held \in SUBSET Nat
            BY <2>1
        <3> HIDE DEF held
        <3> QED BY <1>3, <3>1, LeastNumber
    <2>3. first \in held
        BY <2>2, Zenon
    <2>4. S # {} /\ S \in SUBSET (1 .. Len(n))
        BY <2>3, <1>0 DEF Holds, Lines
    <2>5. SetRawValue(n, k, v) = [n EXCEPT ![Latest(S)].value = v]
        BY <1>3 DEF SetRawValue
    <2> HIDE DEF S, first, held
    <2>6. Latest(S) \in 1 .. Len(n)
        BY <1>0, <2>4, GreatestNumber
    <2> DEFINE p == Latest(S)
    <2> HIDE DEF p
    <2>7. p \in 1 .. Len(n) /\ SetRawValue(n, k, v) = [n EXCEPT ![p].value = v]
        BY <2>5, <2>6 DEF p
    <2>8. Keeps(n, [n EXCEPT ![p].value = v])
        BY <1>3, <2>7, ChangeKeeps
    <2> QED BY <2>7, <2>8
<1> QED BY <1>1, <1>2, <1>3

\* The keys of a change, in some order.
LEMMA KeysInOrder ==
    ASSUME NEW S, IsFiniteSet(S), NEW keys, keys = SetToSeq(S)
    PROVE  Len(keys) \in Nat /\ \A i \in 1 .. Len(keys) : keys[i] \in S
<1>1. Cardinality(S) \in Nat /\ ExistsBijection(1 .. Cardinality(S), S)
    BY FS_CardinalityType
<1> DEFINE c == Cardinality(S)
<1>2. \E f \in [1 .. c -> S] : IsInjective(f)
    BY <1>1, Zenon DEF ExistsBijection, Bijection, Injection
<1>3. SetToSeq(S) \in [1 .. c -> S]
    BY <1>2, Zenon DEF SetToSeq
<1> HIDE DEF c
<1>4. c \in Nat /\ keys \in [1 .. c -> S]
    BY <1>1, <1>3 DEF c
<1>5. keys \in Seq(S) /\ Len(keys) = c
    BY <1>4
<1> QED BY <1>4, <1>5

\* One of several settings, and all of them one after the other.
SetOne(n, values, sparing, k) ==
    IF sparing /\ HasValue(n, k, values[k]) THEN n ELSE SetRawValue(n, k, values[k])
Settings(n, values, sparing, keys, m, g) ==
    g = [i \in 0 .. m |-> IF i = 0 THEN n ELSE SetOne(g[i - 1], values, sparing, keys[i])]

LEMMA SettingsExist ==
    ASSUME NEW n, NEW values, NEW sparing, NEW keys, NEW l \in Nat
    PROVE  \E g : Settings(n, values, sparing, keys, l, g)
<1> DEFINE S == {m \in Nat : \E g : Settings(n, values, sparing, keys, m, g)}
<1>1. 0 \in S
    <2> DEFINE g == [i \in 0 .. 0 |-> n]
    <2>1. \A i \in 0 .. 0 : i = 0
        OBVIOUS
    <2>2. g = [i \in 0 .. 0 |-> IF i = 0 THEN n ELSE SetOne(g[i - 1], values, sparing, keys[i])]
        BY <2>1
    <2> QED BY <2>2 DEF Settings
<1>2. ASSUME NEW m \in Nat, m \in S PROVE m + 1 \in S
    <2>2. PICK g : Settings(n, values, sparing, keys, m, g)
        BY <1>2
    <2> DEFINE h == [i \in 0 .. m + 1 |-> IF i <= m THEN g[i] ELSE SetOne(g[m], values, sparing, keys[m + 1])]
    <2>5. \A i \in 0 .. m : g[i] = IF i = 0 THEN n ELSE SetOne(g[i - 1], values, sparing, keys[i])
        BY <2>2 DEF Settings
    <2>6. \A i \in 0 .. m + 1 : h[i] = IF i = 0 THEN n ELSE SetOne(h[i - 1], values, sparing, keys[i])
        <3> TAKE i \in 0 .. m + 1
        <3>1. CASE i <= m
            BY <2>5, <3>1
        <3>2. CASE i = m + 1
            BY <3>2
        <3> QED BY <3>1, <3>2
    <2>7. h = [i \in 0 .. m + 1 |-> h[i]]
        OBVIOUS
    <2> HIDE DEF h
    <2>8. h = [i \in 0 .. m + 1 |-> IF i = 0 THEN n ELSE SetOne(h[i - 1], values, sparing, keys[i])]
        BY <2>6, <2>7
    <2> QED BY <2>8 DEF Settings
<1> HIDE DEF S
<1>3. \A m \in Nat : m \in S
    BY <1>1, <1>2, SetInduction
<1> USE DEF S
<1> QED BY <1>3

\* set_advanced and reset_settings_to_defaults: every line keeps its ending, and
\* a sparing change where nothing is to be changed changes nothing.
LEMMA SetAllKeeps ==
    ASSUME NEW n \in Seq(IniNode), NEW S \in SUBSET (Key \cup Shape), IsFiniteSet(S),
           NEW values \in [S -> Value \cup {None}], NEW sparing \in BOOLEAN
    PROVE  /\ Keeps(n, SetAll(n, values, sparing))
           /\ sparing /\ (\A k \in S : HasValue(n, k, values[k])) => SetAll(n, values, sparing) = n
<1> DEFINE keys == SetToSeq(DOMAIN values)
           l == Len(keys)
           Def(g) == g = [i \in 0 .. l |->
                            IF i = 0 THEN n
                            ELSE IF sparing /\ HasValue(g[i - 1], keys[i], values[keys[i]]) THEN g[i - 1]
                            ELSE SetRawValue(g[i - 1], keys[i], values[keys[i]])]
<1>1. l \in Nat /\ \A i \in 1 .. l : keys[i] \in S
    <2>1. keys = SetToSeq(S)
        OBVIOUS
    <2> QED BY <2>1, KeysInOrder
<1>2. SetAll(n, values, sparing) = (CHOOSE g : Def(g))[l]
    BY DEF SetAll
<1>3. \A g : Def(g) <=> Settings(n, values, sparing, keys, l, g)
    BY DEF Settings, SetOne
<1>4. \E g : Def(g)
    <2> HIDE DEF keys, l, Def
    <2> QED BY <1>1, <1>3, SettingsExist
<1> HIDE DEF Def, l, keys
<1>5. Def(CHOOSE g : Def(g))
    BY <1>4, Zenon
<1> DEFINE c == CHOOSE g : Def(g)
<1> HIDE DEF c
<1>6. Settings(n, values, sparing, keys, l, c) /\ SetAll(n, values, sparing) = c[l]
    BY <1>2, <1>3, <1>5 DEF c
<1>7. \A i \in 0 .. l : c[i] = IF i = 0 THEN n ELSE SetOne(c[i - 1], values, sparing, keys[i])
    BY <1>6 DEF Settings
<1>8. \A m \in Nat : m <= l => Keeps(n, c[m])
    <2> DEFINE T == {m \in Nat : m <= l => Keeps(n, c[m])}
    <2>1. 0 \in T
        <3>1. c[0] = n
            BY <1>1, <1>7
        <3>2. Keeps(n, n)
            BY DEF Keeps
        <3> QED BY <3>1, <3>2
    <2>2. ASSUME NEW m \in Nat, m \in T PROVE m + 1 \in T
        <3> SUFFICES ASSUME m + 1 <= l PROVE Keeps(n, c[m + 1])
            OBVIOUS
        <3> DEFINE k == keys[m + 1]
        <3>1. c[m + 1] = SetOne(c[m], values, sparing, k) /\ Keeps(n, c[m]) /\ k \in S
            <4>1. m + 1 \in 0 .. l /\ m + 1 # 0 /\ (m + 1) - 1 = m /\ m <= l /\ m + 1 \in 1 .. l
                BY <1>1
            <4> QED BY <1>1, <1>7, <2>2, <4>1
        <3> HIDE DEF k
        <3>2. c[m] \in Seq(IniNode) /\ values[k] \in Value \cup {None} /\ k \in Key \cup Shape
            BY <3>1 DEF Keeps
        <3>3. Keeps(c[m], SetRawValue(c[m], k, values[k]))
            BY <3>2, SetRawValueKeeps
        <3>4. CASE c[m + 1] = c[m]
            BY <3>1, <3>4
        <3>5. CASE c[m + 1] = SetRawValue(c[m], k, values[k])
            BY <3>1, <3>3, <3>5, KeepsTwice
        <3> QED BY <3>1, <3>4, <3>5 DEF SetOne
    <2> HIDE DEF T
    <2>3. \A m \in Nat : m \in T
        BY <2>1, <2>2, SetInduction
    <2> QED BY <2>3 DEF T
<1>9. ASSUME sparing, \A k \in S : HasValue(n, k, values[k])
      PROVE  \A m \in Nat : m <= l => c[m] = n
    <2> DEFINE T == {m \in Nat : m <= l => c[m] = n}
    <2>1. 0 \in T
        BY <1>1, <1>7
    <2>2. ASSUME NEW m \in Nat, m \in T PROVE m + 1 \in T
        <3> SUFFICES ASSUME m + 1 <= l PROVE c[m + 1] = n
            OBVIOUS
        <3> DEFINE k == keys[m + 1]
        <3>1. c[m + 1] = SetOne(n, values, sparing, k) /\ k \in S
            <4>1. m + 1 \in 0 .. l /\ m + 1 # 0 /\ (m + 1) - 1 = m /\ m <= l /\ m + 1 \in 1 .. l
                BY <1>1
            <4> QED BY <1>1, <1>7, <2>2, <4>1
        <3> HIDE DEF k
        <3> QED BY <1>9, <3>1 DEF SetOne
    <2> HIDE DEF T
    <2>3. \A m \in Nat : m \in T
        BY <2>1, <2>2, SetInduction
    <2> QED BY <2>3 DEF T
<1> QED BY <1>1, <1>6, <1>8, <1>9

\* Some lines go, and new ones take their place before the rest.
LEMMA SpliceKeeps ==
    ASSUME NEW m \in Seq(IniNode), NEW e \in 0 .. Len(m), NEW K \in SUBSET (1 .. e),
           NEW new \in Seq(IniNode), AllEnded(new)
    PROVE  Keeps(m, Ordered(m, K) \o new \o SubSeq(m, e + 1, Len(m)))
<1>0. Len(m) \in Nat /\ e \in Nat /\ K \in SUBSET (1 .. Len(m)) /\ Len(new) \in Nat
    OBVIOUS
<1>1. PICK f : /\ Ordered(m, K) \in Seq(IniNode) /\ Len(Ordered(m, K)) = Cardinality(K) /\ Cardinality(K) \in Nat
               /\ \A i \in 1 .. Cardinality(K) : f[i] \in K /\ Ordered(m, K)[i] = m[f[i]]
               /\ \A i, j \in 1 .. Cardinality(K) : f[i] = f[j] => i = j
    <2>1. K \in SUBSET (1 .. Len(m))
        BY <1>0
    <2> QED BY <2>1, OrderedIs
<1> DEFINE a == Ordered(m, K)
           b == SubSeq(m, e + 1, Len(m))
           c == Cardinality(K)
           d == c + Len(new)
           ab == a \o new
           r == ab \o b
<1>2. b \in Seq(IniNode) /\ Len(b) = Len(m) - e /\ \A i \in 1 .. Len(m) - e : b[i] = m[e + i]
    BY <1>0
<1>3. /\ a \in Seq(IniNode) /\ Len(a) = c /\ c \in Nat
      /\ \A i \in 1 .. c : f[i] \in K /\ a[i] = m[f[i]]
      /\ \A i, j \in 1 .. c : f[i] = f[j] => i = j
    BY <1>1
<1>3a. d \in Nat /\ d = c + Len(new)
    BY <1>0, <1>3
<1> HIDE DEF a, b, c, d
<1>4. /\ ab \in Seq(IniNode) /\ Len(ab) = d
      /\ \A i \in 1 .. c : ab[i] = a[i]
      /\ \A i \in 1 .. d : i > c => ab[i] = new[i - c] /\ i - c \in 1 .. Len(new)
    BY <1>0, <1>3, <1>3a
<1> HIDE DEF ab
<1>5. /\ r \in Seq(IniNode) /\ Len(r) = d + (Len(m) - e)
      /\ \A i \in 1 .. d : r[i] = ab[i]
      /\ \A i \in 1 .. Len(r) : i > d => r[i] = b[i - d] /\ i - d \in 1 .. Len(m) - e
    <2>1. Len(b) \in Nat /\ Len(m) - e \in Nat
        BY <1>0, <1>2
    <2>2. r \in Seq(IniNode) /\ Len(r) = d + Len(b)
        <3>1. ab \in Seq(IniNode) /\ b \in Seq(IniNode) /\ Len(ab) = d
            BY <1>2, <1>4
        <3>2. \A x, y \in Seq(IniNode) : x \o y \in Seq(IniNode) /\ Len(x \o y) = Len(x) + Len(y)
            OBVIOUS
        <3>3. ab \o b \in Seq(IniNode) /\ Len(ab \o b) = Len(ab) + Len(b)
            BY <3>1, <3>2, Zenon
        <3> QED BY <3>1, <3>3
    <2>3. \A i \in 1 .. d : r[i] = ab[i]
        BY <1>2, <1>3a, <1>4, <2>1
    <2>4. ASSUME NEW i \in 1 .. Len(r), i > d PROVE r[i] = b[i - d] /\ i - d \in 1 .. Len(m) - e
        <3> DEFINE j == i - d
        <3>1. j \in 1 .. Len(b) /\ i = d + j
            BY <1>3a, <2>1, <2>2, <2>4
        <3>2. ab \in Seq(IniNode) /\ b \in Seq(IniNode) /\ Len(ab) = d
            BY <1>2, <1>4
        <3>3. \A x, y \in Seq(IniNode) : \A z \in 1 .. Len(y) : (x \o y)[Len(x) + z] = y[z]
            OBVIOUS
        <3> HIDE DEF j
        <3>4. (ab \o b)[Len(ab) + j] = b[j]
            BY <3>1, <3>2, <3>3, Zenon
        <3>5. r[i] = b[j]
            BY <3>1, <3>2, <3>4
        <3>6. j \in 1 .. Len(m) - e
            BY <1>2, <3>1
        <3> QED BY <3>5, <3>6 DEF j
    <2> HIDE DEF r
    <2> QED BY <1>2, <2>2, <2>3, <2>4
<1> HIDE DEF r
<1> DEFINE g == [i \in 1 .. Len(r) |-> IF i <= c THEN f[i] ELSE e + (i - d)]
<1>6. ASSUME NEW i \in 1 .. Len(r)
      PROVE  /\ i <= c => i \in 1 .. c /\ g[i] = f[i] /\ g[i] \in 1 .. e /\ r[i] = m[f[i]]
             /\ i > c /\ i <= d => r[i].ended
             /\ i > d => g[i] = e + (i - d) /\ g[i] \in e + 1 .. Len(m) /\ r[i] = m[e + (i - d)]
    <2>0. i \in Nat /\ Len(r) \in Nat
        BY <1>5
    <2>1. CASE i <= c
        <3>1. i \in 1 .. c /\ i \in 1 .. d
            BY <1>0, <1>3, <1>3a, <2>0, <2>1
        <3>2. r[i] = ab[i] /\ ab[i] = a[i] /\ a[i] = m[f[i]] /\ f[i] \in K
            BY <1>3, <1>4, <1>5, <3>1
        <3>3. g[i] = f[i] /\ f[i] \in 1 .. e
            BY <2>1, <3>2
        <3>4. ~(i > c) /\ ~(i > d)
            BY <1>0, <1>3, <1>3a, <2>0, <2>1
        <3> HIDE DEF g
        <3> QED BY <3>1, <3>2, <3>3, <3>4
    <2>2. CASE i > c /\ i <= d
        <3>1. i \in 1 .. d
            BY <1>3a, <2>0, <2>2
        <3>2. r[i] = new[i - c] /\ i - c \in 1 .. Len(new)
            BY <1>4, <1>5, <2>2, <3>1
        <3>3. r[i].ended
            BY <3>2 DEF AllEnded
        <3>4. ~(i <= c) /\ ~(i > d)
            BY <1>3, <1>3a, <2>0, <2>2
        <3> QED BY <3>3, <3>4
    <2>3. CASE i > d
        <3>1. r[i] = b[i - d] /\ i - d \in 1 .. Len(m) - e
            BY <1>5, <2>3
        <3>2. b[i - d] = m[e + (i - d)]
            BY <1>2, <3>1
        <3>3. ~(i <= c) /\ ~(i <= d)
            BY <1>0, <1>3, <1>3a, <2>0, <2>3
        <3>4. g[i] = e + (i - d)
            BY <3>3
        <3>5. e + (i - d) \in e + 1 .. Len(m)
            <4> DEFINE z == i - d
            <4>1. z \in 1 .. Len(m) - e
                BY <3>1
            <4> HIDE DEF z
            <4>2. e + z \in e + 1 .. Len(m)
                BY <1>0, <4>1
            <4> QED BY <4>2 DEF z
        <3> HIDE DEF g
        <3> QED BY <3>1, <3>2, <3>3, <3>4, <3>5
    <2> QED BY <1>3, <1>3a, <2>0, <2>1, <2>2, <2>3
<1> HIDE DEF g
<1>7. ASSUME NEW i \in 1 .. Len(r) PROVE r[i].ended \/ (g[i] \in 1 .. Len(m) /\ r[i].ended = m[g[i]].ended)
    <2>1. i \in Nat /\ (i <= c \/ (i > c /\ i <= d) \/ i > d)
        BY <1>3, <1>3a
    <2>2. CASE i <= c
        BY <1>0, <1>6, <2>2
    <2>3. CASE i > c /\ i <= d
        BY <1>6, <2>3
    <2>4. CASE i > d
        <3>1. g[i] \in 1 .. Len(m)
            BY <1>0, <1>6, <2>4
        <3> QED BY <1>6, <2>4, <3>1
    <2> QED BY <2>1, <2>2, <2>3, <2>4
<1>8. ASSUME NEW i \in 1 .. Len(r), NEW j \in 1 .. Len(r), ~r[i].ended, ~r[j].ended, g[i] = g[j] PROVE i = j
    <2>1. /\ i \in Nat /\ (i <= c \/ (i > c /\ i <= d) \/ i > d)
          /\ j \in Nat /\ (j <= c \/ (j > c /\ j <= d) \/ j > d)
        BY <1>3, <1>3a
    <2>2. (i <= c \/ i > d) /\ (j <= c \/ j > d)
        BY <1>6, <1>8, <2>1
    <2>3. CASE i <= c /\ j <= c
        BY <1>3, <1>6, <1>8, <2>3
    <2>4. CASE i > d /\ j > d
        <3>1. e + (i - d) = e + (j - d)
            BY <1>6, <1>8, <2>4
        <3> QED BY <1>0, <1>3a, <2>1, <3>1
    <2>5. CASE i <= c /\ j > d
        <3>1. g[i] <= e /\ g[i] > e
            BY <1>0, <1>6, <1>8, <2>5
        <3> QED BY <1>0, <1>6, <2>5, <3>1
    <2>6. CASE i > d /\ j <= c
        <3>1. g[i] <= e /\ g[i] > e
            BY <1>0, <1>6, <1>8, <2>6
        <3> QED BY <1>0, <1>6, <2>6, <3>1
    <2> QED BY <2>2, <2>3, <2>4, <2>5, <2>6
<1>9. Keeps(m, r)
    <2>1. \A i \in 1 .. Len(r) : r[i].ended \/ (g[i] \in 1 .. Len(m) /\ r[i].ended = m[g[i]].ended)
        BY <1>7
    <2>2. \A i, j \in 1 .. Len(r) : ~r[i].ended /\ ~r[j].ended /\ g[i] = g[j] => i = j
        BY <1>8
    <2>3. r \in Seq(IniNode)
        BY <1>5
    <2> QED BY <2>1, <2>2, <2>3, KeepsBy
<1> QED BY <1>9 DEF r, ab, a, b

\* replace_list_section and set_individuals.
LEMMA ReplaceSectionKeeps ==
    ASSUME NEW n \in Seq(IniNode), NEW s \in Section, NEW dropped, NEW new \in Seq(IniNode), AllEnded(new)
    PROVE  Keeps(n, ReplaceSection(n, s, dropped, new))
<1> DEFINE m == WithSection(n, s)
           start == SelectInSeq(m, LAMBDA l : l.kind = "section" /\ l.name = s)
           I == {i \in 1 .. Len(m) : m[i].kind = "section" /\ m[i].name = s}
           follow == SelectInSubSeq(m, start + 1, Len(m), LAMBDA l : l.kind = "section")
           J == {i \in start + 1 .. Len(m) : m[i].kind = "section"}
           end == IF follow = 0 THEN Len(m) ELSE follow - 1
           kept == {i \in 1 .. end : i > start => m[i].kind \notin dropped}
<1>1. ReplaceSection(n, s, dropped, new) = Ordered(m, kept) \o new \o SubSeq(m, end + 1, Len(m))
    BY DEF ReplaceSection
<1>2. Keeps(n, m) /\ \E i \in 1 .. Len(m) : m[i].kind = "section" /\ m[i].name = s
    BY WithSectionIs
<1> HIDE DEF m
<1>3. m \in Seq(IniNode) /\ Len(m) \in Nat
    BY <1>2 DEF Keeps
<1>4. start \in 1 .. Len(m)
    <2>1. I # {} /\ I \in SUBSET (1 .. Len(m))
        BY <1>2
    <2>2. start = Min(I)
        BY <2>1 DEF SelectInSeq
    <2>3. Min(I) \in I
        <3> HIDE DEF I
        <3> QED BY <1>3, <2>1, GreatestNumber
    <2> QED BY <2>1, <2>2, <2>3
<1>5. follow = 0 \/ follow \in start + 1 .. Len(m)
    <2>1. CASE J = {}
        BY <2>1 DEF SelectInSubSeq
    <2>2. CASE J # {}
        <3>1. follow = Min(J)
            BY <2>2 DEF SelectInSubSeq
        <3> HIDE DEF start
        <3>2. J \in SUBSET (1 .. Len(m)) /\ J \in SUBSET (start + 1 .. Len(m))
            BY <1>3, <1>4
        <3> HIDE DEF J
        <3>3. Min(J) \in J
            BY <1>3, <2>2, <3>2, GreatestNumber
        <3> QED BY <3>1, <3>2, <3>3
    <2> QED BY <2>1, <2>2
<1> HIDE DEF start, follow
<1>6. end \in 0 .. Len(m)
    BY <1>3, <1>4, <1>5
<1>7. kept \in SUBSET (1 .. end)
    OBVIOUS
<1> HIDE DEF end, kept
<1>8. Keeps(m, Ordered(m, kept) \o new \o SubSeq(m, end + 1, Len(m)))
    BY <1>3, <1>6, <1>7, SpliceKeeps
<1> QED BY <1>1, <1>2, <1>8, KeepsTwice

LEMMA ReplaceListKeeps ==
    ASSUME NEW n \in Seq(IniNode), NEW s \in List, NEW entries \in Short
    PROVE  Keeps(n, ReplaceListSection(n, s, entries))
<1> DEFINE new == [i \in DOMAIN entries |-> Listed(entries[i])]
<1>1. new \in Seq(IniNode) /\ AllEnded(new)
    <2>1. entries \in Seq(Entry)
        <3>1. <<>> \in Seq(Entry) /\ \A e \in Entry : <<e>> \in Seq(Entry)
            OBVIOUS
        <3> QED BY <3>1 DEF Short
    <2>2. \A i \in 1 .. Len(entries) : entries[i] \in Entry /\ DOMAIN entries = 1 .. Len(entries) /\ Len(entries) \in Nat
        BY <2>1
    <2>3. \A i \in 1 .. Len(entries) : Listed(entries[i]) \in IniNode /\ Listed(entries[i]).ended
        BY <2>2, LineTypes
    <2>4. DOMAIN entries = 1 .. Len(entries) /\ Len(entries) \in Nat
        BY <2>1
    <2>5. new \in Seq(IniNode) /\ Len(new) = Len(entries)
        BY <2>3, <2>4
    <2> QED BY <2>3, <2>4, <2>5 DEF AllEnded
<1> HIDE DEF new
<1>2. s \in Section
    BY SectionNames
<1>3. Keeps(n, ReplaceSection(n, s, {"entry", "key"}, new))
    BY <1>1, <1>2, ReplaceSectionKeeps
<1> QED BY <1>3 DEF ReplaceListSection, new

LEMMA ReplaceFontsKeeps ==
    ASSUME NEW n \in Seq(IniNode), NEW fonts \in {<<>>} \cup {<<<<e, Fallback>>>> : e \in Entry}
    PROVE  Keeps(n, ReplaceSection(n, Individual, {"key"},
                       [i \in DOMAIN fonts |-> KeyValue(fonts[i][1], fonts[i][2])]))
<1> DEFINE new == [i \in DOMAIN fonts |-> KeyValue(fonts[i][1], fonts[i][2])]
<1>1. new \in Seq(IniNode) /\ AllEnded(new)
    <2>1. fonts \in Seq(Entry \X {Fallback})
        <3> DEFINE Pair == Entry \X {Fallback}
        <3>1. \A e \in Entry : <<e, Fallback>> \in Pair
            OBVIOUS
        <3> HIDE DEF Pair
        <3>2. <<>> \in Seq(Pair) /\ \A p \in Pair : <<p>> \in Seq(Pair)
            OBVIOUS
        <3>3. fonts \in Seq(Pair)
            BY <3>1, <3>2
        <3> QED BY <3>3 DEF Pair
    <2>2. \A i \in 1 .. Len(fonts) : fonts[i][1] \in Entry /\ fonts[i][2] = Fallback
        BY <2>1
    <2>3. \A i \in 1 .. Len(fonts) : KeyValue(fonts[i][1], fonts[i][2]) \in IniNode /\ KeyValue(fonts[i][1], fonts[i][2]).ended
        BY <2>2, LineTypes, FactoryAssumption
    <2>4. DOMAIN fonts = 1 .. Len(fonts) /\ Len(fonts) \in Nat
        BY <2>1
    <2>5. new \in Seq(IniNode) /\ Len(new) = Len(fonts)
        BY <2>3, <2>4
    <2> QED BY <2>3, <2>4, <2>5 DEF AllEnded
<1> HIDE DEF new
<1>2. Individual \in Section
    BY SectionNames
<1>3. Keeps(n, ReplaceSection(n, Individual, {"key"}, new))
    BY <1>1, <1>2, ReplaceSectionKeeps
<1> QED BY <1>3 DEF new

\* Two lines read as one.
LEMMA FusedType ==
    ASSUME NEW a \in IniNode, NEW b \in IniNode
    PROVE  Fused(a, b) \in IniNode /\ Fused(a, b).ended = b.ended
BY DEF Fused, IniNode

\* What is read back from a file.
LEMMA TextIs ==
    ASSUME NEW b, IsText(b)
    PROVE  /\ b \in Seq(IniNode) /\ OneOpen(b) /\ Encoded(b) = b
           /\ ~Ragged(b) => AllEnded(b)
<1>0. b \in Seq(IniNode) /\ Len(b) \in Nat /\ \A i \in 1 .. Len(b) - 1 : b[i].ended
    BY DEF IsText
<1>1. \A i \in 1 .. Len(b) : ~b[i].ended => i = Len(b)
    <2> TAKE i \in 1 .. Len(b)
    <2>1. i # Len(b) => i \in 1 .. Len(b) - 1
        BY <1>0
    <2> QED BY <1>0, <2>1
<1>2. OneOpen(b)
    BY <1>1 DEF OneOpen
<1>3. Encoded(b) = b
    BY <1>0 DEF Encoded
<1>4. ASSUME ~Ragged(b) PROVE AllEnded(b)
    <2>1. CASE b = <<>>
        BY <2>1 DEF AllEnded
    <2>2. CASE b # <<>>
        <3>1. b[Len(b)].ended
            BY <1>4, <2>2 DEF Ragged, Last
        <3> QED BY <1>1, <3>1 DEF AllEnded
    <2> QED BY <2>1, <2>2
<1> QED BY <1>0, <1>2, <1>3, <1>4

\* encoded: at most two lines are joined, and then only the last may lack its ending.
LEMMA EncodedIs ==
    ASSUME NEW n \in Seq(IniNode), OneOpen(n)
    PROVE  IsText(Encoded(n)) /\ (AllEnded(n) => Encoded(n) = n)
<1> DEFINE gaps == {i \in 1 .. Len(n) - 1 : ~n[i].ended}
<1>0. Len(n) \in Nat
    OBVIOUS
<1>1. CASE gaps = {}
    <2>1. Encoded(n) = n
        BY <1>1 DEF Encoded
    <2> QED BY <1>1, <2>1 DEF IsText
<1>2. CASE gaps # {}
    <2> DEFINE i == Latest(gaps)
    <2>1. gaps \in SUBSET (1 .. Len(n))
        BY <1>0
    <2>2. i \in gaps
        <3> HIDE DEF gaps
        <3> QED BY <1>0, <1>2, <2>1, GreatestNumber
    <2>3. Encoded(n) = SubSeq(n, 1, i - 1) \o <<Fused(n[i], n[i + 1])>> \o SubSeq(n, i + 2, Len(n))
        BY <1>2 DEF Encoded
    <2> HIDE DEF i
    <2>4. i \in 1 .. Len(n) - 1 /\ ~n[i].ended
        BY <2>2
    <2> HIDE DEF gaps
    <2>5. \A j \in 1 .. Len(n) : j # i => n[j].ended
        <3>1. i \in 1 .. Len(n)
            BY <1>0, <2>4
        <3> QED BY <2>4, <3>1 DEF OneOpen
    <2>6. ~AllEnded(n)
        <3>1. i \in 1 .. Len(n)
            BY <1>0, <2>4
        <3> QED BY <2>4, <3>1 DEF AllEnded
    <2> DEFINE a == SubSeq(n, 1, i - 1)
               f == Fused(n[i], n[i + 1])
               b == SubSeq(n, i + 2, Len(n))
               c == a \o <<f>>
               r == c \o b
    <2>7. f \in IniNode /\ f.ended
        <3>1. i \in 1 .. Len(n) /\ i + 1 \in 1 .. Len(n) /\ i + 1 # i
            BY <1>0, <2>4
        <3>2. n[i] \in IniNode /\ n[i + 1] \in IniNode /\ n[i + 1].ended
            BY <2>5, <3>1
        <3> QED BY <3>2, FusedType
    <2> HIDE DEF f
    <2>8. a \in Seq(IniNode) /\ Len(a) = i - 1 /\ \A j \in 1 .. i - 1 : a[j] = n[j]
        BY <1>0, <2>4
    <2>9. b \in Seq(IniNode) /\ Len(b) = Len(n) - i - 1 /\ \A j \in 1 .. Len(n) - i - 1 : b[j] = n[i + 1 + j]
        BY <1>0, <2>4
    <2> HIDE DEF a, b
    <2>10. <<f>> \in Seq(IniNode) /\ Len(<<f>>) = 1 /\ <<f>>[1] = f
        BY <2>7
    <2>11. c \in Seq(IniNode) /\ Len(c) = i /\ (\A j \in 1 .. i - 1 : c[j] = a[j]) /\ c[i] = f
        BY <2>4, <2>7, <2>8, <2>10
    <2> HIDE DEF c
    <2>12. r \in Seq(IniNode) /\ Len(r) = Len(c) + Len(b)
        <3>1. c \in Seq(IniNode) /\ b \in Seq(IniNode)
            BY <2>9, <2>11
        <3> QED BY <3>1
    <2>13. \A j \in 1 .. i : r[j] = c[j]
        <3>1. c \in Seq(IniNode) /\ b \in Seq(IniNode) /\ Len(c) = i
            BY <2>9, <2>11
        <3> QED BY <3>1
    <2>14. \A j \in 1 .. Len(b) : r[i + j] = b[j]
        <3>1. c \in Seq(IniNode) /\ b \in Seq(IniNode) /\ Len(c) = i
            BY <2>9, <2>11
        <3> QED BY <3>1
    <2> HIDE DEF r
    <2>15. ASSUME NEW j \in 1 .. Len(r) PROVE r[j].ended
        <3>0. j \in Nat /\ Len(r) = Len(n) - 1 /\ Len(b) = Len(n) - i - 1
            BY <1>0, <2>4, <2>9, <2>11, <2>12
        <3>1. CASE j < i
            <4>1. j \in 1 .. i - 1 /\ j \in 1 .. i /\ j \in 1 .. Len(n) /\ j # i
                BY <1>0, <2>4, <3>0, <3>1
            <4>2. r[j] = n[j]
                BY <2>8, <2>11, <2>13, <4>1
            <4> QED BY <2>5, <4>1, <4>2
        <3>2. CASE j = i
            BY <2>4, <2>7, <2>11, <2>13, <3>2
        <3>3. CASE j > i
            <4> DEFINE k == j - i
            <4>1. k \in 1 .. Len(b) /\ i + k = j /\ i + 1 + k \in 1 .. Len(n) /\ i + 1 + k # i
                BY <1>0, <2>4, <3>0, <3>3
            <4> HIDE DEF k
            <4>2. r[i + k] = b[k] /\ b[k] = n[i + 1 + k]
                BY <2>9, <2>14, <4>1
            <4> QED BY <2>5, <4>1, <4>2
        <3> QED BY <2>4, <3>0, <3>1, <3>2, <3>3
    <2>16. IsText(r)
        <3>1. \A j \in 1 .. Len(r) - 1 : j \in 1 .. Len(r)
            BY <2>12
        <3> QED BY <2>12, <2>15, <3>1 DEF IsText
    <2> QED BY <2>3, <2>6, <2>16 DEF r, c, a, b, f
<1> QED BY <1>1, <1>2

-----------------------------------------------------------------------------
(* The document and its history.                                           *)

Touched == Key \cup Shape \cup List \cup {Individual}

\* A revision: no line without an ending inside, unless the file the document
\* came from is ragged, and no unsaved change that is not noted.
SoundRevision(r, base, open) ==
    /\ r.nodes \in Seq(IniNode) /\ OneOpen(r.nodes)
    /\ ~open => AllEnded(r.nodes)
    /\ r.dirty \in SUBSET Touched
    /\ r.dirty = {} => Encoded(r.nodes) = base

SoundHistory(h, base, open) ==
    h \in Seq([nodes : Seq(IniNode), dirty : SUBSET Touched]) /\ \A i \in 1 .. Len(h) : SoundRevision(h[i], base, open)

SoundDocument(d, open) ==
    /\ d \in [path : Path, nodes : Seq(IniNode), base : Seq(IniNode), dirty : SUBSET Touched,
              undo : Seq([nodes : Seq(IniNode), dirty : SUBSET Touched]),
              redo : Seq([nodes : Seq(IniNode), dirty : SUBSET Touched])]
    /\ SoundRevision(Revision(d), d.base, open) /\ IsText(d.base)
    /\ SoundHistory(d.undo, d.base, open) /\ SoundHistory(d.redo, d.base, open)
    /\ Len(d.undo) + Len(d.redo) <= HISTORY_LIMIT

\* from_bytes.
LEMMA FromBytesIs ==
    ASSUME NEW p \in Path, NEW b, IsText(b)
    PROVE  SoundDocument(FromBytes(p, b), Ragged(b)) /\ Ragged(b) \in BOOLEAN
<1> DEFINE Rev == [nodes : Seq(IniNode), dirty : SUBSET Touched]
           d == FromBytes(p, b)
<1>1. b \in Seq(IniNode) /\ OneOpen(b) /\ Encoded(b) = b /\ (~Ragged(b) => AllEnded(b))
    BY TextIs
<1>2. <<>> \in Seq(Rev) /\ Len(<<>>) = 0 /\ 1 .. Len(<<>>) = {}
    OBVIOUS
<1>3. d = [path |-> p, nodes |-> b, base |-> b, dirty |-> {}, undo |-> <<>>, redo |-> <<>>]
    BY DEF FromBytes
<1> HIDE DEF d
<1>4. d.path = p /\ d.nodes = b /\ d.base = b /\ d.dirty = {} /\ d.undo = <<>> /\ d.redo = <<>>
    BY <1>3
<1>5. SoundRevision(Revision(d), d.base, Ragged(b))
    BY <1>1, <1>4 DEF SoundRevision, Revision
<1>6. SoundHistory(d.undo, d.base, Ragged(b)) /\ SoundHistory(d.redo, d.base, Ragged(b))
    BY <1>2, <1>4 DEF SoundHistory
<1>7. d \in [path : Path, nodes : Seq(IniNode), base : Seq(IniNode), dirty : SUBSET Touched, undo : Seq(Rev), redo : Seq(Rev)]
    BY <1>1, <1>2, <1>3
<1>8. Len(d.undo) + Len(d.redo) <= HISTORY_LIMIT
    BY <1>2, <1>4, LimitAssumption
<1>9. Ragged(b) \in BOOLEAN
    BY DEF Ragged
<1> QED BY <1>4, <1>5, <1>6, <1>7, <1>8, <1>9 DEF SoundDocument, d

\* A revision is added to a history.
LEMMA HistoryAppend ==
    ASSUME NEW h, NEW base, NEW open, SoundHistory(h, base, open),
           NEW r \in [nodes : Seq(IniNode), dirty : SUBSET Touched], SoundRevision(r, base, open)
    PROVE  SoundHistory(Append(h, r), base, open) /\ Len(Append(h, r)) = Len(h) + 1 /\ Len(h) \in Nat
<1> DEFINE Rev == [nodes : Seq(IniNode), dirty : SUBSET Touched]
<1>1. h \in Seq(Rev) /\ r \in Rev /\ \A i \in 1 .. Len(h) : SoundRevision(h[i], base, open)
    BY DEF SoundHistory
<1> HIDE DEF Rev
<1> DEFINE m == Append(h, r)
<1>2. m \in Seq(Rev) /\ Len(m) = Len(h) + 1 /\ Len(h) \in Nat /\ m[Len(h) + 1] = r /\ \A i \in 1 .. Len(h) : m[i] = h[i]
    BY <1>1
<1>3. ASSUME NEW i \in 1 .. Len(m) PROVE SoundRevision(m[i], base, open)
    <2>1. i \in 1 .. Len(h) \/ i = Len(h) + 1
        BY <1>2
    <2> QED BY <1>1, <1>2, <2>1
<1> HIDE DEF m
<1> QED BY <1>2, <1>3 DEF SoundHistory, m, Rev

LEMMA HistoryParts ==
    ASSUME NEW h, NEW base, NEW open, SoundHistory(h, base, open), h # <<>>
    PROVE  /\ SoundHistory(Front(h), base, open) /\ Len(Front(h)) = Len(h) - 1
           /\ SoundHistory(Tail(h), base, open) /\ Len(Tail(h)) = Len(h) - 1
           /\ Last(h) \in [nodes : Seq(IniNode), dirty : SUBSET Touched] /\ SoundRevision(Last(h), base, open)
           /\ Len(h) \in Nat /\ Len(h) > 0
<1> DEFINE Rev == [nodes : Seq(IniNode), dirty : SUBSET Touched]
<1>1. h \in Seq(Rev) /\ \A i \in 1 .. Len(h) : SoundRevision(h[i], base, open)
    BY DEF SoundHistory
<1> HIDE DEF Rev
<1>2. Len(h) \in Nat /\ Len(h) > 0
    BY <1>1
<1>3. /\ Front(h) \in Seq(Rev) /\ Len(Front(h)) = Len(h) - 1
      /\ \A i \in 1 .. Len(h) - 1 : Front(h)[i] = h[i]
    <2> DEFINE l == Len(h) - 1
    <2>1. l \in Nat /\ l <= Len(h) /\ l = Len(h) - 1
        BY <1>2
    <2> HIDE DEF l
    <2>2. SubSeq(h, 1, l) \in Seq(Rev)
        BY <1>1, <2>1
    <2>3. Len(SubSeq(h, 1, l)) = l
        BY <1>1, <2>1
    <2>4. \A i \in 1 .. l : SubSeq(h, 1, l)[i] = h[i]
        BY <1>1, <2>1
    <2>5. Front(h) = SubSeq(h, 1, l)
        BY DEF Front, l
    <2> QED BY <2>1, <2>2, <2>3, <2>4, <2>5
<1>4. /\ Tail(h) \in Seq(Rev) /\ Len(Tail(h)) = Len(h) - 1
      /\ \A i \in 1 .. Len(h) - 1 : Tail(h)[i] = h[i + 1]
    BY <1>1, <1>2
<1>5. \A i \in 1 .. Len(h) - 1 : i \in 1 .. Len(h) /\ i + 1 \in 1 .. Len(h)
    BY <1>2
<1>6. \A i \in 1 .. Len(Front(h)) : SoundRevision(Front(h)[i], base, open)
    BY <1>1, <1>3, <1>5
<1>7. \A i \in 1 .. Len(Tail(h)) : SoundRevision(Tail(h)[i], base, open)
    BY <1>1, <1>4, <1>5
<1>8. Last(h) \in Rev /\ SoundRevision(Last(h), base, open)
    BY <1>1, <1>2 DEF Last
<1> QED BY <1>2, <1>3, <1>4, <1>6, <1>7, <1>8 DEF SoundHistory, Rev

\* record_edit: an edit that keeps the endings, and that notes what it changed.
LEMMA RecordEditIs ==
    ASSUME NEW d, NEW open \in BOOLEAN, SoundDocument(d, open), NEW n, Keeps(d.nodes, n),
           NEW keys \in SUBSET Touched, keys = {} => n = d.nodes
    PROVE  SoundDocument(RecordEdit(d, n, keys), open)
<1> DEFINE Rev == [nodes : Seq(IniNode), dirty : SUBSET Touched]
           e == [d EXCEPT !.nodes = n, !.dirty = @ \cup keys]
           r == Revision(d)
           u == Pushed(d.undo, r)
           f == [e EXCEPT !.undo = u, !.redo = <<>>]
<1>1. /\ d \in [path : Path, nodes : Seq(IniNode), base : Seq(IniNode), dirty : SUBSET Touched,
                undo : Seq(Rev), redo : Seq(Rev)]
      /\ SoundRevision(r, d.base, open) /\ IsText(d.base)
      /\ SoundHistory(d.undo, d.base, open) /\ SoundHistory(d.redo, d.base, open)
      /\ Len(d.undo) + Len(d.redo) <= HISTORY_LIMIT
    BY DEF SoundDocument
<1>2. r = [nodes |-> d.nodes, dirty |-> d.dirty] /\ r \in Rev /\ r.nodes = d.nodes /\ r.dirty = d.dirty
    BY <1>1 DEF Revision
<1>3. /\ e \in [path : Path, nodes : Seq(IniNode), base : Seq(IniNode), dirty : SUBSET Touched,
                undo : Seq(Rev), redo : Seq(Rev)]
      /\ e.nodes = n /\ e.dirty = d.dirty \cup keys /\ e.base = d.base /\ e.undo = d.undo /\ e.redo = d.redo
    <2>1. n \in Seq(IniNode)
        BY DEF Keeps
    <2> HIDE DEF Rev
    <2> QED BY <1>1, <2>1
<1>4. Revision(e) = [nodes |-> n, dirty |-> d.dirty \cup keys]
    BY <1>3 DEF Revision
<1> HIDE DEF e
<1>5. RecordEdit(d, n, keys) = IF Revision(e) = r THEN d ELSE f
    BY DEF RecordEdit, e
<1>6. SoundRevision(Revision(e), d.base, open)
    <2> DEFINE q == Revision(e)
    <2>1. q.nodes = n /\ q.dirty = d.dirty \cup keys
        BY <1>4
    <2> HIDE DEF q
    <2>2. /\ d.nodes \in Seq(IniNode) /\ OneOpen(d.nodes) /\ (~open => AllEnded(d.nodes))
          /\ d.dirty \in SUBSET Touched /\ (d.dirty = {} => Encoded(d.nodes) = d.base)
        BY <1>1, <1>2 DEF SoundRevision
    <2>3. n \in Seq(IniNode) /\ OneOpen(n) /\ (~open => AllEnded(n))
        BY <2>2 DEF Keeps
    <2>4. ASSUME d.dirty \cup keys = {} PROVE Encoded(n) = d.base
        BY <2>2, <2>4
    <2>5. SoundRevision(q, d.base, open)
        BY <2>1, <2>2, <2>3, <2>4 DEF SoundRevision
    <2> QED BY <2>5 DEF q
<1>7. SoundHistory(u, d.base, open) /\ Len(u) \in Nat /\ Len(u) <= HISTORY_LIMIT
    <2> DEFINE h == IF Len(d.undo) = HISTORY_LIMIT THEN Tail(d.undo) ELSE d.undo
    <2>1. HISTORY_LIMIT \in Nat /\ HISTORY_LIMIT > 0
        BY LimitAssumption
    <2>2. Len(d.undo) \in Nat /\ Len(d.redo) \in Nat
        <3> HIDE DEF Rev
        <3> QED BY <1>1
    <2>3. SoundHistory(h, d.base, open) /\ Len(h) < HISTORY_LIMIT
        <3>1. CASE Len(d.undo) = HISTORY_LIMIT
            <4>1. d.undo # <<>>
                BY <2>1, <3>1
            <4>2. SoundHistory(Tail(d.undo), d.base, open) /\ Len(Tail(d.undo)) = Len(d.undo) - 1
                BY <1>1, <4>1, HistoryParts
            <4> QED BY <2>1, <3>1, <4>2
        <3>2. CASE Len(d.undo) # HISTORY_LIMIT
            BY <1>1, <2>1, <2>2, <3>2
        <3> QED BY <3>1, <3>2
    <2> HIDE DEF h, r
    <2>4. SoundHistory(Append(h, r), d.base, open) /\ Len(Append(h, r)) = Len(h) + 1 /\ Len(h) \in Nat
        BY <1>1, <1>2, <2>3, HistoryAppend
    <2>5. u = Append(h, r)
        BY DEF Pushed, h
    <2> QED BY <2>1, <2>3, <2>4, <2>5
<1>8. CASE Revision(e) = r
    BY <1>5, <1>8
<1>9. CASE Revision(e) # r
    <2> HIDE DEF u, r
    <2>1. /\ f.nodes = n /\ f.dirty = d.dirty \cup keys /\ f.base = d.base /\ f.undo = u /\ f.redo = <<>>
          /\ f \in [path : Path, nodes : Seq(IniNode), base : Seq(IniNode), dirty : SUBSET Touched,
                    undo : Seq(Rev), redo : Seq(Rev)]
        <3>1. u \in Seq(Rev) /\ <<>> \in Seq(Rev)
            BY <1>7 DEF SoundHistory
        <3> HIDE DEF Rev
        <3> QED BY <1>3, <3>1
    <2> HIDE DEF f
    <2>2. SoundRevision(Revision(f), f.base, open)
        BY <1>4, <1>6, <2>1 DEF Revision
    <2>3. SoundHistory(f.redo, f.base, open) /\ Len(f.redo) = 0
        <3>1. <<>> \in Seq(Rev) /\ Len(<<>>) = 0 /\ 1 .. Len(<<>>) = {}
            OBVIOUS
        <3> QED BY <2>1, <3>1 DEF SoundHistory
    <2>4. Len(f.undo) + Len(f.redo) <= HISTORY_LIMIT
        BY <1>7, <2>1, <2>3
    <2>5. SoundDocument(f, open)
        BY <1>1, <1>7, <2>1, <2>2, <2>3, <2>4 DEF SoundDocument
    <2> QED BY <1>5, <1>9, <2>5
<1> QED BY <1>8, <1>9

\* undo and redo move a revision from one history to the other.
LEMMA UndoneIs ==
    ASSUME NEW d, NEW open \in BOOLEAN, SoundDocument(d, open), d.undo # <<>>
    PROVE  SoundDocument(Undone(d), open)
<1> DEFINE Rev == [nodes : Seq(IniNode), dirty : SUBSET Touched]
           r == Last(d.undo)
           q == Revision(d)
           u == Front(d.undo)
           v == Append(d.redo, q)
           e == [d EXCEPT !.nodes = r.nodes, !.dirty = r.dirty, !.undo = u, !.redo = v]
<1>1. /\ d \in [path : Path, nodes : Seq(IniNode), base : Seq(IniNode), dirty : SUBSET Touched,
                undo : Seq(Rev), redo : Seq(Rev)]
      /\ SoundRevision(q, d.base, open) /\ IsText(d.base)
      /\ SoundHistory(d.undo, d.base, open) /\ SoundHistory(d.redo, d.base, open)
      /\ Len(d.undo) + Len(d.redo) <= HISTORY_LIMIT
    BY DEF SoundDocument
<1>2. q \in Rev
    BY <1>1 DEF Revision
<1>3. /\ SoundHistory(u, d.base, open) /\ Len(u) = Len(d.undo) - 1 /\ r \in Rev /\ SoundRevision(r, d.base, open)
      /\ Len(d.undo) \in Nat /\ Len(d.undo) > 0
    BY <1>1, HistoryParts
<1>4. SoundHistory(v, d.base, open) /\ Len(v) = Len(d.redo) + 1 /\ Len(d.redo) \in Nat
    <2> HIDE DEF q
    <2> QED BY <1>1, <1>2, HistoryAppend
<1>5. Undone(d) = e
    BY DEF Undone
<1> HIDE DEF r, q, u, v
<1>6. /\ e.nodes = r.nodes /\ e.dirty = r.dirty /\ e.base = d.base /\ e.undo = u /\ e.redo = v
      /\ e \in [path : Path, nodes : Seq(IniNode), base : Seq(IniNode), dirty : SUBSET Touched,
                undo : Seq(Rev), redo : Seq(Rev)]
    <2>1. u \in Seq(Rev) /\ v \in Seq(Rev) /\ r.nodes \in Seq(IniNode) /\ r.dirty \in SUBSET Touched
        BY <1>3, <1>4 DEF SoundHistory
    <2> HIDE DEF Rev
    <2> QED BY <1>1, <2>1
<1> HIDE DEF e
<1>7. SoundRevision(Revision(e), e.base, open)
    BY <1>3, <1>6 DEF Revision, SoundRevision
<1>8. Len(e.undo) + Len(e.redo) <= HISTORY_LIMIT
    BY <1>1, <1>3, <1>4, <1>6, LimitAssumption
<1>9. SoundDocument(e, open)
    BY <1>1, <1>3, <1>4, <1>6, <1>7, <1>8 DEF SoundDocument
<1> QED BY <1>5, <1>9

LEMMA RedoneIs ==
    ASSUME NEW d, NEW open \in BOOLEAN, SoundDocument(d, open), d.redo # <<>>
    PROVE  SoundDocument(Redone(d), open)
<1> DEFINE Rev == [nodes : Seq(IniNode), dirty : SUBSET Touched]
           r == Last(d.redo)
           q == Revision(d)
           u == Front(d.redo)
           v == Append(d.undo, q)
           e == [d EXCEPT !.nodes = r.nodes, !.dirty = r.dirty, !.redo = u, !.undo = v]
<1>1. /\ d \in [path : Path, nodes : Seq(IniNode), base : Seq(IniNode), dirty : SUBSET Touched,
                undo : Seq(Rev), redo : Seq(Rev)]
      /\ SoundRevision(q, d.base, open) /\ IsText(d.base)
      /\ SoundHistory(d.undo, d.base, open) /\ SoundHistory(d.redo, d.base, open)
      /\ Len(d.undo) + Len(d.redo) <= HISTORY_LIMIT
    BY DEF SoundDocument
<1>2. q \in Rev
    BY <1>1 DEF Revision
<1>3. /\ SoundHistory(u, d.base, open) /\ Len(u) = Len(d.redo) - 1 /\ r \in Rev /\ SoundRevision(r, d.base, open)
      /\ Len(d.redo) \in Nat /\ Len(d.redo) > 0
    BY <1>1, HistoryParts
<1>4. SoundHistory(v, d.base, open) /\ Len(v) = Len(d.undo) + 1 /\ Len(d.undo) \in Nat
    <2> HIDE DEF q
    <2> QED BY <1>1, <1>2, HistoryAppend
<1>5. Redone(d) = e
    BY DEF Redone
<1> HIDE DEF r, q, u, v
<1>6. /\ e.nodes = r.nodes /\ e.dirty = r.dirty /\ e.base = d.base /\ e.redo = u /\ e.undo = v
      /\ e \in [path : Path, nodes : Seq(IniNode), base : Seq(IniNode), dirty : SUBSET Touched,
                undo : Seq(Rev), redo : Seq(Rev)]
    <2>1. u \in Seq(Rev) /\ v \in Seq(Rev) /\ r.nodes \in Seq(IniNode) /\ r.dirty \in SUBSET Touched
        BY <1>3, <1>4 DEF SoundHistory
    <2> HIDE DEF Rev
    <2> QED BY <1>1, <2>1
<1> HIDE DEF e
<1>7. SoundRevision(Revision(e), e.base, open)
    BY <1>3, <1>6 DEF Revision, SoundRevision
<1>8. Len(e.undo) + Len(e.redo) <= HISTORY_LIMIT
    BY <1>1, <1>3, <1>4, <1>6, LimitAssumption
<1>9. SoundDocument(e, open)
    BY <1>1, <1>3, <1>4, <1>6, <1>7, <1>8 DEF SoundDocument
<1> QED BY <1>5, <1>9

\* save_profile drops the history.
LEMMA SavedIs ==
    ASSUME NEW d, NEW open \in BOOLEAN, SoundDocument(d, open)
    PROVE  SoundDocument(Saved(d), open) /\ IsText(Encoded(d.nodes))
<1> DEFINE Rev == [nodes : Seq(IniNode), dirty : SUBSET Touched]
           b == Encoded(d.nodes)
           e == [d EXCEPT !.base = b, !.dirty = {}, !.undo = <<>>, !.redo = <<>>]
<1>1. /\ d \in [path : Path, nodes : Seq(IniNode), base : Seq(IniNode), dirty : SUBSET Touched,
                undo : Seq(Rev), redo : Seq(Rev)]
      /\ SoundRevision(Revision(d), d.base, open)
    BY DEF SoundDocument
<1>2. d.nodes \in Seq(IniNode) /\ OneOpen(d.nodes) /\ (~open => AllEnded(d.nodes))
    BY <1>1 DEF SoundRevision, Revision
<1>3. IsText(b) /\ b \in Seq(IniNode)
    BY <1>2, EncodedIs DEF IsText
<1>4. Saved(d) = e
    BY DEF Saved
<1>5. <<>> \in Seq(Rev) /\ Len(<<>>) = 0 /\ 1 .. Len(<<>>) = {}
    OBVIOUS
<1>6. b = Encoded(d.nodes)
    OBVIOUS
<1> HIDE DEF b
<1>7. /\ e.nodes = d.nodes /\ e.dirty = {} /\ e.base = b /\ e.undo = <<>> /\ e.redo = <<>>
      /\ e \in [path : Path, nodes : Seq(IniNode), base : Seq(IniNode), dirty : SUBSET Touched,
                undo : Seq(Rev), redo : Seq(Rev)]
    <2> HIDE DEF Rev
    <2> QED BY <1>1, <1>3, <1>5
<1> HIDE DEF e
<1>8. SoundRevision(Revision(e), e.base, open)
    BY <1>2, <1>6, <1>7 DEF Revision, SoundRevision
<1>9. SoundHistory(e.undo, e.base, open) /\ SoundHistory(e.redo, e.base, open)
    BY <1>5, <1>7 DEF SoundHistory
<1>10. Len(e.undo) + Len(e.redo) <= HISTORY_LIMIT
    BY <1>5, <1>7, LimitAssumption
<1>11. SoundDocument(e, open)
    BY <1>3, <1>7, <1>8, <1>9, <1>10 DEF SoundDocument
<1> QED BY <1>3, <1>4, <1>6, <1>11

\* What a profile file may hold.
Contents == {None} \cup {b \in Seq(IniNode) : IsText(b)}

\* What holds of the editor at every step.
EditorInv ==
    /\ doc # None => SoundDocument(doc, ragged)
    /\ file \in [Path -> Contents] /\ backup \in [Path -> Contents]
    /\ saving \in BOOLEAN /\ (saving => doc # None) /\ ragged \in BOOLEAN
    /\ work \in 0 .. MaxWork

LEMMA ContentsAre ==
    /\ None \in Contents
    /\ \A b \in Contents : b # None => IsText(b)
    /\ \A b : IsText(b) => b \in Contents
    /\ \A b \in Originals : b \in Contents
    /\ IsText(<<>>)
<1>1. \A b \in Originals : IsText(b)
    BY OriginalsAssumption DEF IsText
<1>2. IsText(<<>>)
    BY DEF IsText
<1>3. \A b : IsText(b) => b \in Contents
    BY DEF Contents, IsText
<1> QED BY <1>1, <1>2, <1>3 DEF Contents

\* Clean means saved, shown means written, and everything has its type.
LEMMA EditorInvUse ==
    EditorInv => EditorTypeOK /\ CleanMeansSaved /\ ShownIsWritten
<1> SUFFICES ASSUME EditorInv PROVE EditorTypeOK /\ CleanMeansSaved /\ ShownIsWritten
    OBVIOUS
<1> USE DEF EditorInv
<1>1. \A p \in Path : (file[p] = None \/ file[p] \in Seq(IniNode)) /\ (backup[p] = None \/ backup[p] \in Seq(IniNode))
    <2> TAKE p \in Path
    <2>1. file[p] \in Contents /\ backup[p] \in Contents
        OBVIOUS
    <2> QED BY <2>1 DEF Contents
<1>2. ASSUME doc # None
      PROVE  /\ doc.path \in Path /\ doc.nodes \in Seq(IniNode) /\ doc.base \in Seq(IniNode)
             /\ doc.dirty \subseteq Touched /\ Len(doc.undo) + Len(doc.redo) <= HISTORY_LIMIT
             /\ doc.dirty = {} => Encoded(doc.nodes) = doc.base
             /\ ~ragged => Encoded(doc.nodes) = doc.nodes
    <2>1. SoundDocument(doc, ragged)
        BY <1>2
    <2>2. /\ doc.path \in Path /\ doc.nodes \in Seq(IniNode) /\ doc.base \in Seq(IniNode)
          /\ doc.dirty \subseteq Touched /\ Len(doc.undo) + Len(doc.redo) <= HISTORY_LIMIT
        BY <2>1 DEF SoundDocument
    <2>3. /\ OneOpen(doc.nodes) /\ (~ragged => AllEnded(doc.nodes))
          /\ doc.dirty = {} => Encoded(doc.nodes) = doc.base
        <3>1. SoundRevision(Revision(doc), doc.base, ragged)
            BY <2>1 DEF SoundDocument
        <3> QED BY <3>1 DEF SoundRevision, Revision
    <2>4. ~ragged => Encoded(doc.nodes) = doc.nodes
        BY <2>2, <2>3, EncodedIs
    <2> QED BY <2>2, <2>3, <2>4
<1>3. CleanMeansSaved
    BY <1>2 DEF CleanMeansSaved
<1>4. ShownIsWritten
    BY <1>2 DEF ShownIsWritten
<1>5. EditorTypeOK
    BY <1>1, <1>2 DEF EditorTypeOK, Touched
<1> QED BY <1>3, <1>4, <1>5

\* What an edit asks for keeps the endings and is noted.
LEMMA EditsAreNoted ==
    ASSUME NEW d, NEW open \in BOOLEAN, SoundDocument(d, open)
    PROVE  /\ \A k \in Key, v \in Value : SoundDocument(RecordEdit(d, SetRawValue(d.nodes, k, v), {k}), open)
           /\ \A fonts \in {<<>>} \cup {<<<<e, Fallback>>>> : e \in Entry} :
                 SoundDocument(RecordEdit(d, ReplaceSection(d.nodes, Individual, {"key"},
                     [i \in DOMAIN fonts |-> KeyValue(fonts[i][1], fonts[i][2])]), {Individual}), open)
           /\ \A s \in List, entries \in Short :
                 SoundDocument(RecordEdit(d, ReplaceListSection(d.nodes, s, entries), {s}), open)
           /\ \A shapes \in [Shape -> {Fallback, None}], entries \in Short :
                 SoundDocument(RecordEdit(d, ReplaceListSection(SetAll(d.nodes, shapes, FALSE), FontSubstitutes, entries),
                                          Shape \cup {FontSubstitutes}), open)
           /\ SoundDocument(RecordEdit(d, SetAll(d.nodes, Factory, TRUE),
                                       {k \in Key : ~HasValue(d.nodes, k, Factory[k])}), open)
<1>0. d.nodes \in Seq(IniNode)
    BY DEF SoundDocument
<1>1. ASSUME NEW k \in Key, NEW v \in Value
      PROVE  SoundDocument(RecordEdit(d, SetRawValue(d.nodes, k, v), {k}), open)
    <2>1. Keeps(d.nodes, SetRawValue(d.nodes, k, v))
        BY <1>0, SetRawValueKeeps
    <2>2. {k} \in SUBSET Touched /\ {k} # {}
        BY DEF Touched
    <2> QED BY <2>1, <2>2, RecordEditIs
<1>2. ASSUME NEW fonts \in {<<>>} \cup {<<<<e, Fallback>>>> : e \in Entry}
      PROVE  SoundDocument(RecordEdit(d, ReplaceSection(d.nodes, Individual, {"key"},
                     [i \in DOMAIN fonts |-> KeyValue(fonts[i][1], fonts[i][2])]), {Individual}), open)
    <2> DEFINE n == ReplaceSection(d.nodes, Individual, {"key"},
                       [i \in DOMAIN fonts |-> KeyValue(fonts[i][1], fonts[i][2])])
    <2>1. Keeps(d.nodes, n)
        BY <1>0, ReplaceFontsKeeps
    <2>2. {Individual} \in SUBSET Touched /\ {Individual} # {}
        BY DEF Touched
    <2> HIDE DEF n
    <2>3. SoundDocument(RecordEdit(d, n, {Individual}), open)
        BY <2>1, <2>2, RecordEditIs
    <2> QED BY <2>3 DEF n
<1>3. ASSUME NEW s \in List, NEW entries \in Short
      PROVE  SoundDocument(RecordEdit(d, ReplaceListSection(d.nodes, s, entries), {s}), open)
    <2>1. Keeps(d.nodes, ReplaceListSection(d.nodes, s, entries))
        BY <1>0, ReplaceListKeeps
    <2>2. {s} \in SUBSET Touched /\ {s} # {}
        BY DEF Touched
    <2> QED BY <2>1, <2>2, RecordEditIs
<1>4. ASSUME NEW shapes \in [Shape -> {Fallback, None}], NEW entries \in Short
      PROVE  SoundDocument(RecordEdit(d, ReplaceListSection(SetAll(d.nodes, shapes, FALSE), FontSubstitutes, entries),
                                      Shape \cup {FontSubstitutes}), open)
    <2> DEFINE m == SetAll(d.nodes, shapes, FALSE)
               n == ReplaceListSection(m, FontSubstitutes, entries)
               keys == Shape \cup {FontSubstitutes}
    <2>1. Keeps(d.nodes, m)
        <3>1. shapes \in [Shape -> Value \cup {None}] /\ Shape \in SUBSET (Key \cup Shape)
            BY FactoryAssumption
        <3> QED BY <1>0, <3>1, SettingsAssumption, SetAllKeeps
    <2> HIDE DEF m
    <2>2. Keeps(m, n)
        BY <2>1, ListAssumption, ReplaceListKeeps DEF Keeps
    <2> HIDE DEF n
    <2>3. Keeps(d.nodes, n)
        BY <2>1, <2>2, KeepsTwice
    <2>4. keys \in SUBSET Touched /\ keys # {}
        BY ListAssumption DEF Touched
    <2> HIDE DEF keys
    <2>5. SoundDocument(RecordEdit(d, n, keys), open)
        BY <2>3, <2>4, RecordEditIs
    <2> QED BY <2>5 DEF n, m, keys
<1>5. SoundDocument(RecordEdit(d, SetAll(d.nodes, Factory, TRUE),
                               {k \in Key : ~HasValue(d.nodes, k, Factory[k])}), open)
    <2> DEFINE n == SetAll(d.nodes, Factory, TRUE)
               keys == {k \in Key : ~HasValue(d.nodes, k, Factory[k])}
    <2>1. Keeps(d.nodes, n) /\ ((\A k \in Key : HasValue(d.nodes, k, Factory[k])) => n = d.nodes)
        <3>1. Factory \in [Key -> Value \cup {None}] /\ Key \in SUBSET (Key \cup Shape)
            BY FactoryAssumption
        <3> QED BY <1>0, <3>1, SettingsAssumption, SetAllKeeps
    <2>2. keys \in SUBSET Touched /\ (keys = {} => \A k \in Key : HasValue(d.nodes, k, Factory[k]))
        BY DEF Touched
    <2> HIDE DEF n, keys
    <2>3. SoundDocument(RecordEdit(d, n, keys), open)
        BY <2>1, <2>2, RecordEditIs
    <2> QED BY <2>3 DEF n, keys
<1> QED BY <1>1, <1>2, <1>3, <1>4, <1>5

LEMMA EditorInvInit ==
    EditorInit => EditorInv
<1> SUFFICES ASSUME EditorInit PROVE EditorInv
    OBVIOUS
<1> USE DEF EditorInit
<1>1. file \in [Path -> Contents]
    <2>1. \A p \in Path : file[p] \in Contents
        BY ContentsAre
    <2> QED BY <2>1
<1>2. backup \in [Path -> Contents]
    BY ContentsAre
<1>3. 0 \in 0 .. MaxWork
    BY LimitAssumption
<1> QED BY <1>1, <1>2, <1>3 DEF EditorInv

LEMMA WorksIs ==
    ASSUME work \in 0 .. MaxWork, Works
    PROVE  work' \in 0 .. MaxWork
BY LimitAssumption DEF Works

\* Opening a document.
LEMMA OpensKeeps ==
    ASSUME NEW p \in Path, NEW b, IsText(b), Opens(p, b)
    PROVE  SoundDocument(doc, ragged)' /\ ragged' \in BOOLEAN
<1> DEFINE d == FromBytes(p, b)
           q == Ragged(b)
<1>1. SoundDocument(d, q) /\ q \in BOOLEAN
    BY FromBytesIs
<1>2. doc' = d /\ ragged' = q
    BY DEF Opens
<1> HIDE DEF d, q
<1> QED BY <1>1, <1>2

\* The commands of the editor, and what others do to its files.
LEMMA EditorInvNext ==
    ASSUME EditorInv, EditorCommand \/ SaveReplace \/ SaveFails \/ OthersWrite
    PROVE  EditorInv'
<1> USE DEF EditorInv
<1>0. \A p \in Path : file[p] \in Contents /\ backup[p] \in Contents
    OBVIOUS
<1>1. ASSUME Document(doc'), UNCHANGED <<file, backup, saving, ragged>>, Idle, doc # None, SoundDocument(doc', ragged)
      PROVE  EditorInv'
    <2>1. work' \in 0 .. MaxWork
        BY <1>1, WorksIs DEF Idle
    <2>2. saving = FALSE
        BY <1>1 DEF Idle
    <2>3. SoundDocument(doc, ragged)'
        BY <1>1
    <2> QED BY <1>1, <2>1, <2>2, <2>3
<1>2. CASE OpenProfile
    <2>1. PICK p \in Path : file[p] # None /\ Opens(p, file[p])
        BY <1>2 DEF OpenProfile
    <2>2. IsText(file[p])
        BY <1>0, <2>1, ContentsAre
    <2>3. SoundDocument(doc, ragged)' /\ ragged' \in BOOLEAN
        BY <2>1, <2>2, OpensKeeps
    <2>4. work' \in 0 .. MaxWork
        BY <1>2, WorksIs DEF OpenProfile, Idle
    <2> QED BY <1>2, <2>3, <2>4 DEF OpenProfile, Idle
<1>3. CASE DiscardChanges
    <2>1. doc.path \in Path
        BY <1>3 DEF DiscardChanges, SoundDocument
    <2>2. IsText(file[doc.path])
        BY <1>0, <1>3, <2>1, ContentsAre DEF DiscardChanges
    <2>3. SoundDocument(doc, ragged)' /\ ragged' \in BOOLEAN
        BY <1>3, <2>1, <2>2, OpensKeeps DEF DiscardChanges
    <2>4. work' \in 0 .. MaxWork
        BY <1>3, WorksIs DEF DiscardChanges, Idle
    <2> QED BY <1>3, <2>3, <2>4 DEF DiscardChanges, Idle
<1>4. CASE Edits
    <2>0. ASSUME doc # None, Idle
          PROVE  /\ \A k \in Key, v \in Value : SoundDocument(RecordEdit(doc, SetRawValue(doc.nodes, k, v), {k}), ragged)
                 /\ \A fonts \in {<<>>} \cup {<<<<e, Fallback>>>> : e \in Entry} :
                       SoundDocument(RecordEdit(doc, ReplaceSection(doc.nodes, Individual, {"key"},
                           [i \in DOMAIN fonts |-> KeyValue(fonts[i][1], fonts[i][2])]), {Individual}), ragged)
                 /\ \A s \in List, entries \in Short :
                       SoundDocument(RecordEdit(doc, ReplaceListSection(doc.nodes, s, entries), {s}), ragged)
                 /\ \A shapes \in [Shape -> {Fallback, None}], entries \in Short :
                       SoundDocument(RecordEdit(doc, ReplaceListSection(SetAll(doc.nodes, shapes, FALSE), FontSubstitutes, entries),
                                                Shape \cup {FontSubstitutes}), ragged)
                 /\ SoundDocument(RecordEdit(doc, SetAll(doc.nodes, Factory, TRUE),
                                             {k \in Key : ~HasValue(doc.nodes, k, Factory[k])}), ragged)
        <3>1. SoundDocument(doc, ragged) /\ ragged \in BOOLEAN
            BY <2>0
        <3> QED BY <3>1, EditsAreNoted
    <2>1. ASSUME NEW k \in Key, NEW v \in Value, UpdateSetting(k, v) PROVE EditorInv'
        <3>1. SoundDocument(RecordEdit(doc, SetRawValue(doc.nodes, k, v), {k}), ragged)
            BY <2>0, <2>1 DEF UpdateSetting
        <3> QED BY <1>1, <2>1, <3>1 DEF UpdateSetting, Document
    <2>2. ASSUME NEW fonts \in {<<>>} \cup {<<<<e, Fallback>>>> : e \in Entry}, UpdateIndividuals(fonts) PROVE EditorInv'
        <3> DEFINE e == RecordEdit(doc, ReplaceSection(doc.nodes, Individual, {"key"},
                           [i \in DOMAIN fonts |-> KeyValue(fonts[i][1], fonts[i][2])]), {Individual})
        <3>1. SoundDocument(e, ragged)
            BY <2>0, <2>2 DEF UpdateIndividuals
        <3>2. Idle /\ doc # None /\ Document(e)
            BY <2>2 DEF UpdateIndividuals
        <3> HIDE DEF e
        <3> QED BY <1>1, <3>1, <3>2 DEF Document
    <2>3. ASSUME NEW s \in List, NEW entries \in Short, UpdateList(s, entries) PROVE EditorInv'
        <3>1. SoundDocument(RecordEdit(doc, ReplaceListSection(doc.nodes, s, entries), {s}), ragged)
            BY <2>0, <2>3 DEF UpdateList
        <3> QED BY <1>1, <2>3, <3>1 DEF UpdateList, Document
    <2>4. ASSUME NEW shapes \in [Shape -> {Fallback, None}], NEW entries \in Short, UpdateAdvanced(shapes, entries) PROVE EditorInv'
        <3> DEFINE e == RecordEdit(doc, ReplaceListSection(SetAll(doc.nodes, shapes, FALSE), FontSubstitutes, entries),
                                   Shape \cup {FontSubstitutes})
        <3>1. SoundDocument(e, ragged)
            BY <2>0, <2>4 DEF UpdateAdvanced
        <3>2. Idle /\ doc # None /\ Document(e)
            BY <2>4 DEF UpdateAdvanced
        <3> HIDE DEF e
        <3> QED BY <1>1, <3>1, <3>2 DEF Document
    <2>5. CASE ResetDefaults
        <3> DEFINE e == RecordEdit(doc, SetAll(doc.nodes, Factory, TRUE), {k \in Key : ~HasValue(doc.nodes, k, Factory[k])})
        <3>1. SoundDocument(e, ragged)
            BY <2>0, <2>5 DEF ResetDefaults
        <3>2. Idle /\ doc # None /\ Document(e)
            BY <2>5 DEF ResetDefaults
        <3> HIDE DEF e
        <3> QED BY <1>1, <3>1, <3>2 DEF Document
    <2>6. CASE Undo
        <3>1. SoundDocument(Undone(doc), ragged)
            BY <2>6, UndoneIs DEF Undo
        <3> QED BY <1>1, <2>6, <3>1 DEF Undo, Document
    <2>7. CASE Redo
        <3>1. SoundDocument(Redone(doc), ragged)
            BY <2>7, RedoneIs DEF Redo
        <3> QED BY <1>1, <2>7, <3>1 DEF Redo, Document
    <2> QED BY <1>4, <2>1, <2>2, <2>3, <2>4, <2>5, <2>6, <2>7 DEF Edits
<1>5. CASE SaveCheck
    <2>1. work' \in 0 .. MaxWork
        BY <1>5, WorksIs DEF SaveCheck, Idle
    <2>2. SoundDocument(doc, ragged)'
        BY <1>5 DEF SaveCheck
    <2> QED BY <1>5, <2>1, <2>2 DEF SaveCheck
<1>6. CASE Duplicate
    <2>1. work' \in 0 .. MaxWork
        BY <1>6, WorksIs DEF Duplicate, Idle
    <2>2. IsText(Encoded(doc.nodes))
        BY <1>6, SavedIs DEF Duplicate
    <2>3. PICK p \in Personal :
             \/ file' = [file EXCEPT ![p] = Encoded(doc.nodes)] /\ Opens(p, Encoded(doc.nodes))
             \/ file' = [file EXCEPT ![p] = <<>>] /\ UNCHANGED <<doc, ragged>>
        BY <1>6 DEF Duplicate
    <2>4. p \in Path
        BY DEF Path
    <2>5. Encoded(doc.nodes) \in Contents /\ <<>> \in Contents
        BY <2>2, ContentsAre
    <2>6. CASE file' = [file EXCEPT ![p] = Encoded(doc.nodes)] /\ Opens(p, Encoded(doc.nodes))
        <3>1. SoundDocument(doc, ragged)' /\ ragged' \in BOOLEAN
            BY <2>2, <2>4, <2>6, OpensKeeps
        <3>2. file' \in [Path -> Contents]
            BY <2>5, <2>6
        <3> QED BY <1>6, <2>1, <3>1, <3>2 DEF Duplicate, Idle
    <2>7. CASE file' = [file EXCEPT ![p] = <<>>] /\ UNCHANGED <<doc, ragged>>
        <3>1. file' \in [Path -> Contents]
            BY <2>5, <2>7
        <3>2. SoundDocument(doc, ragged)'
            BY <1>6, <2>7 DEF Duplicate
        <3> QED BY <1>6, <2>1, <2>7, <3>1, <3>2 DEF Duplicate, Idle
    <2> QED BY <2>3, <2>6, <2>7
<1>7. CASE Import
    <2>1. work' \in 0 .. MaxWork
        BY <1>7, WorksIs DEF Import, Idle
    <2>2. PICK source \in Path, p \in Personal :
             file[source] # None /\ file' = [file EXCEPT ![p] = file[source]] /\ Opens(p, file[source])
        BY <1>7 DEF Import
    <2>3. p \in Path
        BY DEF Path
    <2>4. file[source] \in Contents /\ IsText(file[source])
        BY <1>0, <2>2, ContentsAre
    <2>5. SoundDocument(doc, ragged)' /\ ragged' \in BOOLEAN
        BY <2>2, <2>3, <2>4, OpensKeeps
    <2>6. file' \in [Path -> Contents]
        BY <2>2, <2>4
    <2> QED BY <1>7, <2>1, <2>5, <2>6 DEF Import, Idle
<1>8. CASE Export
    <2>1. work' \in 0 .. MaxWork
        BY <1>8, WorksIs DEF Export, Idle
    <2>2. IsText(Encoded(doc.nodes))
        BY <1>8, SavedIs DEF Export
    <2>3. Encoded(doc.nodes) \in Contents /\ <<>> \in Contents
        BY <2>2, ContentsAre
    <2>4. file' \in [Path -> Contents]
        BY <1>8, <2>3 DEF Export
    <2>5. SoundDocument(doc, ragged)'
        BY <1>8 DEF Export
    <2> QED BY <1>8, <2>1, <2>4, <2>5 DEF Export
<1>9. CASE SaveReplace
    <2>1. doc # None
        BY <1>9 DEF SaveReplace
    <2>2. SoundDocument(Saved(doc), ragged) /\ IsText(Encoded(doc.nodes))
        BY <2>1, SavedIs
    <2>3. SoundDocument(doc, ragged)'
        BY <1>9, <2>2 DEF SaveReplace
    <2>4. doc.path \in Path
        BY <2>1 DEF SoundDocument
    <2>5. file' \in [Path -> Contents] /\ backup' \in [Path -> Contents]
        BY <1>0, <1>9, <2>2, <2>4, ContentsAre DEF SaveReplace, ReplaceFile
    <2> QED BY <1>9, <2>3, <2>5 DEF SaveReplace
<1>10. CASE SaveFails
    <2>1. work' \in 0 .. MaxWork
        BY <1>10, WorksIs DEF SaveFails
    <2>2. SoundDocument(doc, ragged)'
        BY <1>10 DEF SaveFails
    <2> QED BY <1>10, <2>1, <2>2 DEF SaveFails
<1>11. CASE OthersWrite
    <2>1. work' \in 0 .. MaxWork
        BY <1>11, WorksIs DEF OthersWrite
    <2>2. file' \in [Path -> Contents]
        BY <1>11, ContentsAre DEF OthersWrite
    <2>3. doc # None => SoundDocument(doc, ragged)'
        BY <1>11 DEF OthersWrite
    <2> QED BY <1>11, <2>1, <2>2, <2>3 DEF OthersWrite
<1> QED BY <1>2, <1>3, <1>4, <1>5, <1>6, <1>7, <1>8, <1>9, <1>10, <1>11 DEF EditorCommand

-----------------------------------------------------------------------------
(* What the threads carry.                                                 *)

Texts == Seq(IniNode) \ {<<>>}

\* A thread that publishes has a text, from the time it has one in sight; what it
\* points at has been staged; and one that may still stage knows the file the
\* text came from.
Cargo(j, staged) ==
    /\ j.op \in Controls => j.bytes = None
    /\ j.op \notin Controls /\ j.at # "load" => j.bytes \in Texts
    /\ j.at = "point" => j.bytes \in staged
    /\ j.at \in {"stage", "point"} \/ j.op = "republish" => j.source \in Path

CargoInv ==
    /\ runtimes \in SUBSET Texts /\ spoilt \in SUBSET runtimes
    /\ active # None => active.profile \in runtimes /\ active.source \in Path
    /\ \A t \in Busy : Cargo(job[t], runtimes)

\* One thread's job is replaced, and more may be staged.
LEMMA CargoStep ==
    ASSUME RunInv, CargoInv, NEW t \in Thread, NEW B, NEW j \in Jobs(B), Step(t, j),
           j.at # "off" => Cargo(j, runtimes'), runtimes \subseteq runtimes', runtimes' \in SUBSET Texts,
           spoilt' \in SUBSET runtimes', active' # None => active'.profile \in runtimes' /\ active'.source \in Path
    PROVE  CargoInv'
<1>1. /\ job'[t] = j /\ (\A u \in Thread : u # t => job'[u] = job[u])
      /\ Busy' \ {t} = Busy \ {t} /\ (t \in Busy' <=> j.at # "off")
    BY StepIs DEF RunInv, RunShape
<1>2. ASSUME NEW u \in Busy' PROVE Cargo(job'[u], runtimes')
    <2>1. CASE u = t
        BY <1>1, <1>2, <2>1
    <2>2. CASE u # t
        <3>1. u \in Busy /\ u \in Thread /\ job'[u] = job[u]
            BY <1>1, <1>2, <2>2 DEF Busy
        <3>2. Cargo(job[u], runtimes)
            BY <3>1 DEF CargoInv
        <3> QED BY <3>1, <3>2 DEF Cargo
    <2> QED BY <2>1, <2>2
<1> QED BY <1>2 DEF CargoInv

\* A thread that stops.
LEMMA CargoEnds ==
    ASSUME RunInv, CargoInv, NEW t \in Thread, Step(t, Off), UNCHANGED <<runtimes, spoilt>>,
           active' # None => active'.profile \in runtimes' /\ active'.source \in Path
    PROVE  CargoInv'
<1>1. PICK B : Off \in Jobs(B)
    BY OffIs
<1>2. Off.at = "off"
    BY OffIs
<1>3. runtimes \in SUBSET Texts /\ spoilt \in SUBSET runtimes
    BY DEF CargoInv
<1> DEFINE j == Off
<1> HIDE DEF j
<1>4. j \in Jobs(B) /\ j.at = "off" /\ Step(t, j)
    BY <1>1, <1>2 DEF j
<1> QED BY <1>3, <1>4, CargoStep

\* A new job; the others only learn that they are not alone.
LEMMA CargoBegins ==
    ASSUME RunInv, CargoInv, NEW t \in Thread, NEW B, NEW j \in Jobs(B), Begins(t, j), Cargo(j, runtimes)
    PROVE  CargoInv'
<1>1. /\ job' = [u \in Thread |-> IF u = t THEN [j EXCEPT !.alone = (Busy = {})]
                                  ELSE [job[u] EXCEPT !.alone = @ /\ u \notin Busy]]
      /\ UNCHANGED <<active, runtimes, spoilt>>
    BY DEF Begins
<1>2. PICK C : job \in [Thread -> Jobs(C)]
    BY DEF RunInv, RunShape, JobShape
<1> DEFINE b == (Busy = {})
           c(u) == (job[u].alone /\ u \notin Busy)
<1>3. /\ job'[t] = [j EXCEPT !.alone = b]
      /\ \A u \in Thread : u # t => job'[u] = [job[u] EXCEPT !.alone = c(u)]
    BY <1>1
<1> HIDE DEF b, c
<1>4. /\ job'[t].op = j.op /\ job'[t].at = j.at /\ job'[t].bytes = j.bytes /\ job'[t].source = j.source
      /\ \A u \in Thread : u # t => /\ job'[u].op = job[u].op /\ job'[u].at = job[u].at
                                    /\ job'[u].bytes = job[u].bytes /\ job'[u].source = job[u].source
    <2>1. job'[t].op = j.op /\ job'[t].at = j.at /\ job'[t].bytes = j.bytes /\ job'[t].source = j.source
        BY <1>3 DEF Jobs
    <2>2. ASSUME NEW u \in Thread, u # t
          PROVE  /\ job'[u].op = job[u].op /\ job'[u].at = job[u].at
                 /\ job'[u].bytes = job[u].bytes /\ job'[u].source = job[u].source
        <3>1. job[u] \in Jobs(C) /\ job'[u] = [job[u] EXCEPT !.alone = c(u)]
            BY <1>2, <1>3, <2>2
        <3> QED BY <3>1 DEF Jobs
    <2> QED BY <2>1, <2>2
<1>5. ASSUME NEW u \in Busy' PROVE Cargo(job'[u], runtimes')
    <2>1. CASE u = t
        BY <1>1, <1>4, <2>1 DEF Cargo
    <2>2. CASE u # t
        <3>1. u \in Thread /\ u \in Busy
            BY <1>4, <2>2 DEF Busy
        <3>2. Cargo(job[u], runtimes)
            BY <3>1 DEF CargoInv
        <3> QED BY <1>1, <1>4, <2>2, <3>1, <3>2 DEF Cargo
    <2> QED BY <2>1, <2>2
<1> QED BY <1>1, <1>5 DEF CargoInv

\* A job as it begins.
LEMMA NewCargo ==
    ASSUME NEW op \in Operations, NEW at \in Stations, NEW bytes, NEW source,
           op \in Controls => bytes = None /\ at \notin {"stage", "point"},
           op \notin Controls /\ at # "load" => bytes \in Texts,
           at # "point", at = "stage" \/ op = "republish" => source \in Path
    PROVE  Cargo(New(op, at, bytes, source), runtimes)
<1> DEFINE j == New(op, at, bytes, source)
<1>1. j.op = op /\ j.at = at /\ j.bytes = bytes /\ j.source = source
    BY DEF New, Off
<1> HIDE DEF j
<1>2. Cargo(j, runtimes)
    BY <1>1 DEF Cargo
<1> QED BY <1>2 DEF j

\* A file that is there and not empty.
LEMMA FileIsText ==
    ASSUME EditorInv, NEW p \in Path, file[p] \notin {None, <<>>}
    PROVE  file[p] \in Texts
<1>1. file[p] \in Contents
    BY DEF EditorInv
<1> QED BY <1>1 DEF Contents, Texts

\* Beginnings: what is applied is a document's text, a profile file, or the bundled
\* default.
LEMMA CommandCargo ==
    ASSUME RunInv, EditorInv, CargoInv, Command \/ \E t \in Tray : TrayApply(t)
    PROVE  CargoInv'
<1>0. ASSUME NEW t \in Thread, NEW op \in Operations, NEW at \in Stations, NEW bytes, NEW source,
             Begins(t, New(op, at, bytes, source)), Cargo(New(op, at, bytes, source), runtimes)
      PROVE  CargoInv'
    <2> DEFINE j == New(op, at, bytes, source)
    <2>1. \E B : j \in Jobs(B)
        BY NewIs
    <2> HIDE DEF j
    <2>2. Begins(t, j) /\ Cargo(j, runtimes)
        BY <1>0 DEF j
    <2> QED BY <2>1, <2>2, CargoBegins
<1>1. Main \in Thread /\ \A t \in Tray : t \in Thread
    BY DEF Thread
<1>2. ASSUME NEW t \in Thread, NEW op \in Starters, Ensurable, Begins(t, Ensures(op))
      PROVE  CargoInv'
    <2>1. op \in Operations /\ op \notin Controls /\ op # "republish"
        BY DEF Operations, Starters, Controls
    <2>2. CASE Whole
        <3>1. Begins(t, New(op, "load", None, None))
            BY <1>2, <2>2 DEF Ensures
        <3>2. "load" \in Stations
            BY DEF Stations
        <3>3. Cargo(New(op, "load", None, None), runtimes)
            BY <2>1, <3>2, NewCargo
        <3> QED BY <1>0, <2>1, <3>1, <3>2, <3>3
    <2>3. CASE ~Whole
        <3>1. Begins(t, New(op, "stage", file[DefaultProfile], DefaultProfile)) /\ file[DefaultProfile] \notin {None, <<>>}
            BY <1>2, <2>3 DEF Ensures, Ensurable
        <3>2. "stage" \in Stations /\ DefaultProfile \in Path
            BY DefaultAssumption DEF Stations, Path
        <3>3. file[DefaultProfile] \in Texts
            BY <3>1, <3>2, FileIsText
        <3>4. Cargo(New(op, "stage", file[DefaultProfile], DefaultProfile), runtimes)
            BY <2>1, <3>2, <3>3, NewCargo
        <3> QED BY <1>0, <2>1, <3>1, <3>2, <3>4
    <2> QED BY <2>2, <2>3
<1>3. CASE Designate
    <2> DEFINE b == Encoded(doc.nodes)
    <2>1. doc # None /\ b # <<>> /\ Begins(Main, New("designate", "stage", b, doc.path))
        BY <1>3 DEF Designate, Payload
    <2>2. SoundDocument(doc, ragged) /\ ragged \in BOOLEAN
        BY <2>1 DEF EditorInv
    <2>3. doc.path \in Path /\ IsText(b)
        BY <2>2, SavedIs DEF SoundDocument
    <2> HIDE DEF b
    <2>4. b \in Texts
        BY <2>1, <2>3 DEF IsText, Texts
    <2>5. "designate" \in Operations /\ "designate" \notin Controls /\ "stage" \in Stations
        BY DEF Operations, Controls, Stations
    <2>6. Cargo(New("designate", "stage", b, doc.path), runtimes)
        BY <2>3, <2>4, <2>5, NewCargo
    <2> QED BY <1>0, <1>1, <2>1, <2>5, <2>6
<1>4. CASE Republish
    <2> DEFINE p == active.source
    <2>1. Whole /\ file[p] \notin {None, <<>>} /\ Begins(Main, New("republish", "plan", file[p], p))
        BY <1>4 DEF Republish
    <2>2. p \in Path
        BY <2>1 DEF Whole, CargoInv
    <2> HIDE DEF p
    <2>3. file[p] \in Texts
        BY <2>1, <2>2, FileIsText
    <2>4. "republish" \in Operations /\ "republish" \notin Controls /\ "plan" \in Stations
        BY DEF Operations, Controls, Stations
    <2>5. Cargo(New("republish", "plan", file[p], p), runtimes)
        BY <2>2, <2>3, <2>4, NewCargo
    <2> QED BY <1>0, <1>1, <2>1, <2>4, <2>5
<1>5. CASE Start
    <2>1. "start" \in Starters /\ Ensurable /\ Begins(Main, Ensures("start"))
        BY <1>5 DEF Start, Starters
    <2> QED BY <1>1, <1>2, <2>1
<1>6. CASE Activate
    <2>1. "activate" \in Starters /\ Ensurable /\ Begins(Main, Ensures("activate"))
        BY <1>6 DEF Activate, Starters
    <2> QED BY <1>1, <1>2, <2>1
<1>7. CASE Control
    <2>1. PICK op \in Controls : Begins(Main, New(op, "execute", None, None))
        BY <1>7 DEF Control
    <2>2. op \in Operations /\ "execute" \in Stations /\ op # "republish"
        BY DEF Operations, Controls, Stations
    <2>3. Cargo(New(op, "execute", None, None), runtimes)
        BY <2>2, NewCargo
    <2> QED BY <1>0, <1>1, <2>1, <2>2, <2>3
<1>8. CASE \E t \in Tray : TrayApply(t)
    <2>1. PICK t \in Tray : TrayApply(t)
        BY <1>8
    <2>2. "apply" \in Starters /\ Ensurable /\ Begins(t, Ensures("apply"))
        BY <2>1 DEF TrayApply, Starters
    <2> QED BY <1>1, <1>2, <2>2
<1> QED BY <1>3, <1>4, <1>5, <1>6, <1>7, <1>8 DEF Command

\* The steps of a thread.
LEMMA ThreadCargo ==
    ASSUME RunInv, CargoInv, NEW t \in Thread, ThreadStep(t)
    PROVE  CargoInv'
<1>0. /\ runtimes \in SUBSET Texts /\ spoilt \in SUBSET runtimes
      /\ active # None => active.profile \in runtimes /\ active.source \in Path
    BY DEF CargoInv
<1>1. ASSUME NEW j, \E B : j \in Jobs(B), Step(t, j), Cargo(j, runtimes), UNCHANGED <<runtimes, spoilt, active>>
      PROVE  CargoInv'
    <2>1. PICK B : j \in Jobs(B)
        BY <1>1
    <2> QED BY <1>0, <1>1, <2>1, CargoStep
<1>2. ASSUME Step(t, Off), UNCHANGED <<runtimes, spoilt, active>>
      PROVE  CargoInv'
    BY <1>0, <1>2, CargoEnds
<1>3. ASSUME job[t].at # "off"
      PROVE  /\ t \in Busy /\ Placed(t, job[t]) /\ Cargo(job[t], runtimes)
             /\ \E B : job[t] \in Jobs(B)
    <2>1. t \in Busy
        BY <1>3 DEF Busy
    <2> QED BY <2>1, JobIs DEF CargoInv
<1>4. CASE Stage(t)
    <2>1. job[t].at = "stage"
        BY <1>4 DEF Stage
    <2>2. CASE Fails(t) /\ UNCHANGED runtimes
        BY <1>2, <1>4, <2>2 DEF Stage, Fails
    <2>3. CASE runtimes' = runtimes \cup {job[t].bytes} /\ Continues(t, "point")
        <3> DEFINE j == [job[t] EXCEPT !.at = "point"]
        <3>1. PICK B : job[t] \in Jobs(B)
            BY <1>3, <2>1
        <3>2. /\ j \in Jobs(B) /\ j.at = "point" /\ j.op = job[t].op /\ j.bytes = job[t].bytes
              /\ j.source = job[t].source
            BY <3>1 DEF Jobs, Stations
        <3>3. Step(t, j)
            BY <2>3 DEF Continues
        <3> HIDE DEF j
        <3>4. Cargo(job[t], runtimes) /\ job[t].op \notin Controls
            BY <1>3, <2>1 DEF Placed, Controls
        <3>5. job[t].bytes \in Texts
            BY <2>1, <3>4 DEF Cargo
        <3>6. Cargo(j, runtimes')
            BY <2>1, <2>3, <3>2, <3>4, <3>5 DEF Cargo
        <3>7. UNCHANGED <<spoilt, active>>
            BY <1>4 DEF Stage
        <3> QED BY <1>0, <2>3, <3>2, <3>3, <3>5, <3>6, <3>7, CargoStep
    <2> QED BY <1>4, <2>2, <2>3 DEF Stage
<1>5. CASE Point(t)
    <2>1. job[t].at = "point" /\ UNCHANGED <<runtimes, spoilt>>
        BY <1>5 DEF Point
    <2>2. CASE Fails(t) /\ UNCHANGED active
        BY <1>2, <2>1, <2>2 DEF Fails
    <2>3. CASE /\ active' = [profile |-> job[t].bytes, source |-> job[t].source]
               /\ IF job[t].bytes \in spoilt
                  THEN Step(t, Off)
                  ELSE Step(t, [job[t] EXCEPT !.at = Reached(job[t].op),
                                              !.moved = job[t].op # "republish" \/ job[t].plan = "local"])
        <3>1. Cargo(job[t], runtimes) /\ Placed(t, job[t]) /\ \E B : job[t] \in Jobs(B)
            BY <1>3, <2>1
        <3>2. active'.profile \in runtimes' /\ active'.source \in Path
            BY <2>1, <2>3, <3>1 DEF Cargo
        <3>3. CASE Step(t, Off)
            BY <2>1, <3>2, <3>3, CargoEnds
        <3>4. CASE Step(t, [job[t] EXCEPT !.at = Reached(job[t].op),
                                          !.moved = job[t].op # "republish" \/ job[t].plan = "local"])
            <4> DEFINE m == (job[t].op # "republish" \/ job[t].plan = "local")
                       a == Reached(job[t].op)
                       j == [job[t] EXCEPT !.at = a, !.moved = m]
            <4>1. m \in BOOLEAN
                BY Zenon
            <4>2. a \in {"plan", "execute", "end", "load"}
                BY DEF Reached
            <4>3. Step(t, j)
                BY <3>4
            <4> HIDE DEF m, a
            <4>4. PICK B : job[t] \in Jobs(B)
                BY <3>1
            <4>5. /\ j \in Jobs(B) /\ j.at = a /\ j.op = job[t].op /\ j.bytes = job[t].bytes
                  /\ j.source = job[t].source
                BY <4>1, <4>2, <4>4 DEF Jobs, Stations
            <4> HIDE DEF j
            <4>6. Cargo(j, runtimes')
                BY <2>1, <3>1, <4>2, <4>5 DEF Cargo
            <4> QED BY <1>0, <2>1, <3>2, <4>3, <4>5, <4>6, CargoStep
        <3> QED BY <2>3, <3>3, <3>4
    <2> QED BY <1>5, <2>2, <2>3 DEF Point
<1>6. CASE Load(t)
    <2>1. job[t].at = "load" /\ UNCHANGED <<runtimes, spoilt, active>>
        BY <1>6 DEF Load
    <2>2. CASE Fails(t)
        BY <1>2, <2>1, <2>2 DEF Fails
    <2>3. CASE Whole /\ Step(t, [job[t] EXCEPT !.at = IF job[t].op = "apply" THEN "plan" ELSE "execute",
                                               !.bytes = active.profile])
        <3> DEFINE a == IF job[t].op = "apply" THEN "plan" ELSE "execute"
                   p == active.profile
                   j == [job[t] EXCEPT !.at = a, !.bytes = p]
        <3>1. a \in {"plan", "execute"} /\ p \in Texts /\ Step(t, j)
            BY <1>0, <2>3 DEF Whole
        <3> HIDE DEF a, p
        <3>2. PICK B : job[t] \in Jobs(B)
            BY <1>3, <2>1
        <3>3. Placed(t, job[t]) /\ Cargo(job[t], runtimes)
            BY <1>3, <2>1
        <3>4. /\ j \in Jobs(B \cup {p}) /\ j.at = a /\ j.op = job[t].op /\ j.bytes = p /\ j.source = job[t].source
            BY <3>1, <3>2 DEF Jobs, Stations
        <3> HIDE DEF j
        <3>5. job[t].op \notin Controls
            BY <2>1, <3>3 DEF Placed
        <3>6. Cargo(j, runtimes)
            BY <3>1, <3>3, <3>4, <3>5 DEF Cargo
        <3> QED BY <1>1, <2>1, <3>1, <3>4, <3>6
    <2> QED BY <1>6, <2>2, <2>3 DEF Load
<1>7. CASE Plan(t)
    <2>1. job[t].at = "plan" /\ UNCHANGED <<runtimes, spoilt, active>>
        BY <1>7 DEF Plan
    <2>2. PICK blocked \in BOOLEAN :
             Step(t, [job[t] EXCEPT !.plan = PlanFor(service.runtime, blocked),
                        !.at = IF PlanFor(service.runtime, blocked) = "local"
                               THEN After(t, PlanFor(service.runtime, blocked)) ELSE "execute"])
        BY <1>7 DEF Plan
    <2> DEFINE p == PlanFor(service.runtime, blocked)
               a == IF p = "local" THEN After(t, p) ELSE "execute"
               j == [job[t] EXCEPT !.plan = p, !.at = a]
    <2>3. p \in {"live", "hold", "local"}
        BY PlanIs
    <2>4. a \in {"execute", "stage", "end", "choice"} /\ (a = "stage" => job[t].op = "republish")
        <3> HIDE DEF p
        <3> QED BY AfterIs
    <2>5. Step(t, j)
        BY <2>2
    <2> HIDE DEF a, p
    <2>6. PICK B : job[t] \in Jobs(B)
        BY <1>3, <2>1
    <2>7. Placed(t, job[t]) /\ Cargo(job[t], runtimes)
        BY <1>3, <2>1
    <2>8. j \in Jobs(B) /\ j.at = a /\ j.op = job[t].op /\ j.bytes = job[t].bytes /\ j.source = job[t].source
        BY <2>3, <2>4, <2>6 DEF Jobs, Stations
    <2> HIDE DEF j
    <2>9. Cargo(j, runtimes)
        BY <2>1, <2>4, <2>7, <2>8 DEF Cargo
    <2> QED BY <1>1, <2>1, <2>5, <2>8, <2>9
<1>8. CASE Execute(t)
    <2>1. job[t].at = "execute" /\ UNCHANGED <<runtimes, spoilt, active>>
        BY <1>8 DEF Execute
    <2>2. PICK blocked \in BOOLEAN :
             Step(t, [job[t] EXCEPT !.at = After(t, job[t].plan),
                        !.plan = IF job[t].plan = "hold" THEN PlanFor(service.runtime, blocked) ELSE job[t].plan,
                        !.moved = @ \/ job[t].op = "republish"])
        BY <1>8 DEF Execute
    <2> DEFINE p == IF job[t].plan = "hold" THEN PlanFor(service.runtime, blocked) ELSE job[t].plan
               a == After(t, job[t].plan)
               m == (job[t].moved \/ job[t].op = "republish")
               j == [job[t] EXCEPT !.at = a, !.plan = p, !.moved = m]
    <2>3. PICK B : job[t] \in Jobs(B)
        BY <1>3, <2>1
    <2>4. p \in {None, "live", "hold", "local"}
        <3>1. job[t].plan \in {None, "live", "hold", "local"}
            BY <2>3 DEF Jobs
        <3> QED BY <3>1, PlanIs
    <2>5. a \in {"stage", "end", "choice"} /\ (a = "stage" => job[t].op = "republish")
        BY AfterIs
    <2>6. m \in BOOLEAN
        BY Zenon
    <2>7. Step(t, j)
        BY <2>2
    <2> HIDE DEF a, p, m
    <2>8. Placed(t, job[t]) /\ Cargo(job[t], runtimes)
        BY <1>3, <2>1
    <2>9. j \in Jobs(B) /\ j.at = a /\ j.op = job[t].op /\ j.bytes = job[t].bytes /\ j.source = job[t].source
        BY <2>3, <2>4, <2>5, <2>6 DEF Jobs, Stations
    <2> HIDE DEF j
    <2>10. Cargo(j, runtimes)
        BY <2>1, <2>5, <2>8, <2>9 DEF Cargo
    <2> QED BY <1>1, <2>1, <2>7, <2>9, <2>10
<1>9. CASE ExecuteFails(t)
    BY <1>2, <1>9 DEF ExecuteFails
<1>10. CASE Choice(t)
    BY <1>2, <1>10 DEF Choice, Succeeds, Fails
<1>11. CASE Ends(t)
    BY <1>2, <1>11 DEF Ends, Succeeds
<1> QED BY <1>4, <1>5, <1>6, <1>7, <1>8, <1>9, <1>10, <1>11 DEF ThreadStep

\* The rest of the world.
LEMMA WorldCargo ==
    ASSUME RunInv, CargoInv, Dies \/ Spoil \/ OthersControl \/ Editor \/ UNCHANGED vars
    PROVE  CargoInv'
<1>1. CASE Dies
    <2>1. job' = [t \in Thread |-> Off] /\ UNCHANGED <<runtimes, spoilt, active>>
        BY <1>1 DEF Dies
    <2>2. Busy' = {}
        BY <2>1, OffIs DEF Busy
    <2> QED BY <2>1, <2>2 DEF CargoInv
<1>2. CASE Spoil
    <2>1. UNCHANGED <<runtimes, active, job>> /\ \E b \in runtimes \ spoilt : spoilt' = spoilt \cup {b}
        BY <1>2 DEF Spoil
    <2>2. Busy' = Busy
        BY <2>1 DEF Busy
    <2>3. spoilt' \in SUBSET runtimes
        BY <2>1 DEF CargoInv
    <2> QED BY <2>1, <2>2, <2>3 DEF CargoInv
<1>3. CASE OthersControl
    <2>1. /\ job' = [t \in Thread |-> [job[t] EXCEPT !.alone = @ /\ t \notin Busy]]
          /\ UNCHANGED <<runtimes, spoilt, active>>
        BY <1>3 DEF OthersControl
    <2>2. PICK C : job \in [Thread -> Jobs(C)]
        BY DEF RunInv, RunShape, JobShape
    <2> DEFINE c(u) == (job[u].alone /\ u \notin Busy)
    <2>3. \A u \in Thread : job'[u] = [job[u] EXCEPT !.alone = c(u)]
        BY <2>1
    <2> HIDE DEF c
    <2>4. ASSUME NEW u \in Thread
          PROVE  /\ job'[u].op = job[u].op /\ job'[u].at = job[u].at
                 /\ job'[u].bytes = job[u].bytes /\ job'[u].source = job[u].source
        <3>1. job[u] \in Jobs(C) /\ job'[u] = [job[u] EXCEPT !.alone = c(u)]
            BY <2>2, <2>3
        <3> QED BY <3>1 DEF Jobs
    <2>5. Busy' = Busy /\ \A u \in Busy : u \in Thread
        BY <2>4 DEF Busy
    <2>6. ASSUME NEW u \in Busy' PROVE Cargo(job'[u], runtimes')
        <3>1. u \in Thread /\ Cargo(job[u], runtimes)
            BY <2>5 DEF CargoInv
        <3> QED BY <2>1, <2>4, <3>1 DEF Cargo
    <2> QED BY <2>1, <2>6 DEF CargoInv
<1>4. CASE Editor \/ UNCHANGED vars
    <2>1. UNCHANGED <<runtimes, spoilt, active, job>>
        BY <1>4 DEF Editor, vars, runVars
    <2>2. Busy' = Busy
        BY <2>1 DEF Busy
    <2> QED BY <2>1, <2>2 DEF CargoInv
<1> QED BY <1>1, <1>2, <1>3, <1>4

\* The threads leave the document and the files alone.
LEMMA EditorApart ==
    ASSUME EditorInv, UNCHANGED <<doc, file, backup, saving, ragged>>, Works \/ UNCHANGED work
    PROVE  EditorInv'
<1>1. work' \in 0 .. MaxWork
    BY WorksIs DEF EditorInv
<1>2. doc # None => SoundDocument(doc, ragged)'
    BY DEF EditorInv
<1> QED BY <1>1, <1>2 DEF EditorInv

LEMMA EditorStep ==
    ASSUME EditorInv, [Next]_vars
    PROVE  EditorInv'
<1>1. CASE Editor
    BY <1>1, EditorInvNext DEF Editor
<1>2. CASE Dies
    <2>1. doc' = None /\ saving' = FALSE /\ ragged' = FALSE /\ UNCHANGED <<file, backup>> /\ Works
        BY <1>2 DEF Dies
    <2>2. work' \in 0 .. MaxWork
        BY <2>1, WorksIs DEF EditorInv
    <2> QED BY <2>1, <2>2 DEF EditorInv
<1>3. CASE Command
    <2>1. \E t, j : Begins(t, j)
        BY <1>3 DEF Command, Designate, Republish, Start, Activate, Control
    <2>2. UNCHANGED <<doc, file, backup, saving, ragged>> /\ Works
        BY <2>1 DEF Begins
    <2> QED BY <2>2, EditorApart
<1>4. CASE \E t \in Tray : TrayApply(t)
    <2>1. UNCHANGED <<doc, file, backup, saving, ragged>> /\ Works
        BY <1>4 DEF TrayApply, Begins
    <2> QED BY <2>1, EditorApart
<1>5. CASE Spoil \/ OthersControl
    <2>1. UNCHANGED <<doc, file, backup, saving, ragged>> /\ Works
        BY <1>5 DEF Spoil, OthersControl, Apart
    <2> QED BY <2>1, EditorApart
<1>6. CASE \E t \in Thread : ThreadStep(t)
    <2>1. PICK t \in Thread : ThreadStep(t)
        BY <1>6
    <2>2. UNCHANGED <<doc, file, backup, saving, ragged>>
        BY <2>1 DEF ThreadStep, Stage, Point, Load, Plan, Execute, ExecuteFails, Choice, Ends, Apart
    <2>3. Works \/ UNCHANGED work
        BY <2>1 DEF ThreadStep, Stage, Point, Load, Plan, Execute, ExecuteFails, Choice, Ends, NoWork, Fails
    <2> QED BY <2>2, <2>3, EditorApart
<1>7. CASE UNCHANGED vars
    <2>1. UNCHANGED <<doc, file, backup, saving, ragged>> /\ UNCHANGED work
        BY <1>7 DEF vars, docVars
    <2> QED BY <2>1, EditorApart
<1> QED BY <1>1, <1>2, <1>3, <1>4, <1>5, <1>6, <1>7 DEF Next

\* Everything that is published has its type.
LEMMA RunTypesHold ==
    ASSUME RunInv, EditorInv, CargoInv
    PROVE  RunTypeOK
<1>1. EditorTypeOK
    BY EditorInvUse
<1>2. /\ runtimes \subseteq Seq(IniNode) /\ spoilt \subseteq runtimes
      /\ active # None => active.profile \in runtimes /\ active.source \in Path
    BY DEF CargoInv, Texts
<1>3. service.runtime \in {"absent", "stopped", "running"}
    BY DEF RunInv, RunShape, Services
<1>4. paused \in BOOLEAN /\ unsettled \in BOOLEAN /\ halted \in BOOLEAN
    BY DEF RunInv, RunShape
<1>5. ASSUME NEW t \in Thread
      PROVE  /\ job[t].at \in Stations
             /\ job[t].at \in {"stage", "point", "plan", "end"} => job[t].bytes \in Seq(IniNode) \ {<<>>}
             /\ job[t].at = "execute" => (job[t].bytes = None) = (job[t].op \in Controls)
    <2>1. PICK B : job \in [Thread -> Jobs(B)]
        BY DEF RunInv, RunShape, JobShape
    <2>2. job[t].at \in Stations
        BY <2>1 DEF Jobs
    <2>3. CASE job[t].at = "off"
        BY <2>2, <2>3
    <2>4. CASE job[t].at # "off"
        <3>1. t \in Busy
            BY <2>4 DEF Busy
        <3>2. Placed(t, job[t]) /\ Cargo(job[t], runtimes)
            BY <3>1, JobIs DEF CargoInv
        <3>3. job[t].at \in {"stage", "point", "plan", "end"} => job[t].bytes \in Seq(IniNode) \ {<<>>}
            BY <3>2 DEF Placed, Cargo, Texts
        <3>4. ASSUME job[t].at = "execute" PROVE (job[t].bytes = None) <=> (job[t].op \in Controls)
            BY <3>2, <3>4, NoTextAssumption DEF Cargo, Texts
        <3> QED BY <2>2, <3>3, <3>4
    <2> QED BY <2>3, <2>4
<1> QED BY <1>1, <1>2, <1>3, <1>4, <1>5 DEF RunTypeOK, Stations

\* The editor's text is trustworthy at every step, for any number of settings,
\* files, revisions and tray threads: a document without unsaved changes is what
\* its file was read as or written with, after any mix of edits, undo, redo, saves
\* and failures; what the editor shows is what will be read back, unless the file
\* it came from does not end its last line; undo and redo together stay within
\* the limit; and no thread publishes a profile it does not have.
THEOREM TheTextIsTrustworthy == Spec => []RunInvariant
<1>1. Init => RunInv /\ EditorInv /\ CargoInv
    <2> SUFFICES ASSUME Init PROVE RunInv /\ EditorInv /\ CargoInv
        OBVIOUS
    <2>1. RunInv /\ EditorInv
        BY RunInitHolds, EditorInvInit DEF Init
    <2>2. runtimes = {} /\ spoilt = {} /\ active = None /\ job = [t \in Thread |-> Off]
        BY DEF Init, RunInit
    <2>3. Busy = {}
        BY <2>2, OffIs DEF Busy
    <2> QED BY <2>1, <2>2, <2>3 DEF CargoInv
<1>2. RunInv /\ EditorInv /\ CargoInv /\ [Next]_vars => (RunInv /\ EditorInv /\ CargoInv)'
    <2> SUFFICES ASSUME RunInv, EditorInv, CargoInv, [Next]_vars PROVE RunInv' /\ EditorInv' /\ CargoInv'
        OBVIOUS
    <2>1. RunInv' /\ EditorInv'
        BY RunStep, EditorStep
    <2>2. CargoInv'
        BY CommandCargo, ThreadCargo, WorldCargo DEF Next
    <2> QED BY <2>1, <2>2
<1>3. RunInv /\ EditorInv /\ CargoInv => RunInvariant
    BY RunTypesHold, EditorInvUse DEF RunInvariant
<1> QED BY <1>1, <1>2, <1>3, PTL DEF Spec

-----------------------------------------------------------------------------
(* What an edit changes, and what it leaves alone.                         *)

\* Lines of one text that are, in the same order, the lines of another one.
Carried(n, m, S, T, f) ==
    /\ n \in Seq(IniNode) /\ m \in Seq(IniNode)
    /\ S \in SUBSET (1 .. Len(n)) /\ T \in SUBSET (1 .. Len(m))
    /\ \A x \in S : f[x] \in T /\ m[f[x]] = n[x]
    /\ \A y \in T : \E x \in S : f[x] = y
    /\ \A x, y \in S : x < y => f[x] < f[y]

\* A map that keeps the order, both ways.
LEMMA OrderBothWays ==
    ASSUME NEW n, NEW m, NEW S, NEW T, NEW f, Carried(n, m, S, T, f)
    PROVE  /\ S \in SUBSET (1 .. Len(n)) /\ T \in SUBSET (1 .. Len(m)) /\ Len(n) \in Nat /\ Len(m) \in Nat
           /\ \A x \in S : x \in Nat /\ f[x] \in Nat /\ f[x] \in T
           /\ \A x, y \in S : f[x] = f[y] => x = y
           /\ \A x, y \in S : f[x] <= f[y] <=> x <= y
<1>1. /\ S \in SUBSET (1 .. Len(n)) /\ T \in SUBSET (1 .. Len(m)) /\ Len(n) \in Nat /\ Len(m) \in Nat
      /\ \A x \in S : f[x] \in T
      /\ \A x, y \in S : x < y => f[x] < f[y]
    BY DEF Carried
<1>2. \A x \in S : x \in Nat /\ f[x] \in Nat
    <2> TAKE x \in S
    <2>1. x \in 1 .. Len(n)
        BY <1>1
    <2> DEFINE y == f[x]
    <2>2. y \in 1 .. Len(m)
        BY <1>1
    <2> HIDE DEF y
    <2>3. y \in Nat
        BY <2>2
    <2> QED BY <2>1, <2>3 DEF y
<1>3. ASSUME NEW x \in S, NEW y \in S
      PROVE  (f[x] = f[y] => x = y) /\ (f[x] <= f[y] <=> x <= y)
    <2>1. x \in Nat /\ y \in Nat /\ f[x] \in Nat /\ f[y] \in Nat /\ (x < y => f[x] < f[y]) /\ (y < x => f[y] < f[x])
        BY <1>1, <1>2
    <2> QED BY <2>1
<1> QED BY <1>1, <1>2, <1>3

\* Of two chosen lines the later one has the greater place.
LEMMA RankMonotone ==
    ASSUME NEW n \in Nat, NEW S \in SUBSET (1 .. n), NEW a \in S, NEW b \in S, a < b
    PROVE  Rank(S, a) < Rank(S, b) /\ Rank(S, a) \in Nat /\ Rank(S, b) \in Nat
<1> DEFINE A == {z \in S : z <= a}
           B == {z \in S : z <= b}
<1>0. a \in Nat /\ b \in Nat /\ \A z \in S : z \in Nat
    OBVIOUS
<1>1. A \in SUBSET (1 .. n) /\ B \in SUBSET (1 .. n)
    OBVIOUS
<1>2. IsFiniteSet(A) /\ IsFiniteSet(B) /\ Cardinality(A) \in Nat /\ Cardinality(B) \in Nat
    <2> HIDE DEF A, B
    <2> QED BY <1>1, RangesAreFinite
<1>3. b \notin A /\ A \cup {b} \subseteq B
    <2>1. \A z \in S : z <= a => z <= b
        BY <1>0
    <2>2. ~(b <= a) /\ b <= b
        BY <1>0
    <2> QED BY <2>1, <2>2
<1> HIDE DEF A, B
<1>4. Cardinality(A \cup {b}) = Cardinality(A) + 1
    BY <1>2, <1>3, FS_AddElement
<1>5. Cardinality(A \cup {b}) <= Cardinality(B)
    BY <1>2, <1>3, FS_Subset
<1>6. Cardinality(A) < Cardinality(B)
    BY <1>2, <1>4, <1>5
<1> QED BY <1>2, <1>6 DEF Rank, A, B

\* A chosen line is known by its place among them.
LEMMA RankUnique ==
    ASSUME NEW n \in Nat, NEW S \in SUBSET (1 .. n), NEW x \in S, NEW y \in S, Rank(S, x) = Rank(S, y)
    PROVE  x = y
<1>1. ASSUME NEW a \in S, NEW b \in S, a < b PROVE Rank(S, a) < Rank(S, b)
    BY <1>1, RankMonotone
<1>2. \A a \in S : Rank(S, a) \in Nat
    <2> TAKE a \in S
    <2>1. {z \in S : z <= a} \in SUBSET (1 .. n)
        OBVIOUS
    <2> QED BY <2>1, RangesAreFinite DEF Rank
<1>3. x \in Nat /\ y \in Nat
    OBVIOUS
<1>4. ~(x < y)
    BY <1>1, <1>2
<1>5. ~(y < x)
    BY <1>1, <1>2
<1> QED BY <1>3, <1>4, <1>5

\* Carried lines are read in the same order.
LEMMA OrderedMoves ==
    ASSUME NEW n, NEW m, NEW S, NEW T, NEW f, Carried(n, m, S, T, f)
    PROVE  Ordered(m, T) = Ordered(n, S)
<1>0. /\ S \in SUBSET (1 .. Len(n)) /\ T \in SUBSET (1 .. Len(m)) /\ Len(n) \in Nat /\ Len(m) \in Nat
      /\ \A x \in S : x \in Nat /\ f[x] \in Nat /\ f[x] \in T
      /\ \A x, y \in S : f[x] = f[y] => x = y
      /\ \A x, y \in S : f[x] <= f[y] <=> x <= y
    BY OrderBothWays
<1>1. /\ \A x \in S : f[x] \in T /\ m[f[x]] = n[x]
      /\ \A y \in T : \E x \in S : f[x] = y
    BY DEF Carried
<1>2. ASSUME NEW A, NEW B, A \subseteq S, B \subseteq T, \A x \in A : f[x] \in B, \A y \in B : \E x \in A : f[x] = y
      PROVE  Cardinality(B) = Cardinality(A)
    <2> DEFINE g == [x \in A |-> f[x]]
    <2>1. g \in [A -> B]
        BY <1>2
    <2>2. \A x, y \in A : g[x] = g[y] => x = y
        BY <1>0, <1>2
    <2>3. \A y \in B : \E x \in A : g[x] = y
        BY <1>2
    <2> HIDE DEF g
    <2>4. g \in Bijection(A, B)
        BY <2>1, <2>2, <2>3 DEF Bijection, Injection, Surjection, IsInjective
    <2>5. ExistsBijection(A, B)
        BY <2>4 DEF ExistsBijection
    <2>6. IsFiniteSet(A)
        <3>1. A \in SUBSET (1 .. Len(n))
            BY <1>0, <1>2
        <3> QED BY <1>0, <3>1, RangesAreFinite
    <2> QED BY <2>5, <2>6, FS_Bijection
<1>3. Cardinality(T) = Cardinality(S)
    BY <1>1, <1>2
<1>4. ASSUME NEW x \in S PROVE Rank(T, f[x]) = Rank(S, x)
    <2> DEFINE A == {z \in S : z <= x}
               B == {z \in T : z <= f[x]}
    <2>1. A \subseteq S /\ B \subseteq T
        OBVIOUS
    <2>2. \A z \in A : f[z] \in B
        BY <1>0
    <2>3. \A y \in B : \E z \in A : f[z] = y
        BY <1>0, <1>1
    <2> HIDE DEF A, B
    <2>4. Cardinality(B) = Cardinality(A)
        BY <1>2, <2>1, <2>2, <2>3
    <2> QED BY <2>4 DEF Rank, A, B
<1>5. ASSUME NEW i \in 1 .. Cardinality(S)
      PROVE  m[CHOOSE y \in T : Rank(T, y) = i] = n[CHOOSE x \in S : Rank(S, x) = i]
    <2> DEFINE x == CHOOSE x \in S : Rank(S, x) = i
               y == CHOOSE y \in T : Rank(T, y) = i
    <2>1. x \in S /\ Rank(S, x) = i
        <3>1. \E z \in S : Rank(S, z) = i
            BY <1>0, RankIs
        <3> QED BY <3>1, Zenon
    <2>2. y \in T /\ Rank(T, y) = i
        <3>1. \E z \in T : Rank(T, z) = i
            BY <1>0, <1>3, RankIs
        <3> QED BY <3>1, Zenon
    <2> HIDE DEF x, y
    <2>3. f[x] \in T /\ Rank(T, f[x]) = i /\ m[f[x]] = n[x]
        BY <1>1, <1>4, <2>1
    <2>4. f[x] = y
        BY <1>0, <2>2, <2>3, RankUnique
    <2>5. m[y] = n[x]
        BY <2>3, <2>4
    <2> QED BY <2>5 DEF x, y
<1>6. /\ Ordered(m, T) = [i \in 1 .. Cardinality(T) |-> m[CHOOSE y \in T : Rank(T, y) = i]]
      /\ Ordered(n, S) = [i \in 1 .. Cardinality(S) |-> n[CHOOSE x \in S : Rank(S, x) = i]]
    BY DEF Ordered, Rank
<1> QED BY <1>3, <1>5, <1>6

\* All lines in their order are the text itself.
LEMMA OrderedAll ==
    ASSUME NEW n \in Seq(IniNode)
    PROVE  Ordered(n, 1 .. Len(n)) = n
<1> DEFINE S == 1 .. Len(n)
<1>0. Len(n) \in Nat
    OBVIOUS
<1>1. Cardinality(S) = Len(n)
    <2> DEFINE l == Len(n)
    <2>1. l \in Nat
        OBVIOUS
    <2> HIDE DEF l
    <2>2. 1 \in Int /\ l \in Int
        BY <2>1
    <2>3. Cardinality(1 .. l) = IF 1 > l THEN 0 ELSE l - 1 + 1
        BY <2>2, FS_Interval
    <2>4. Cardinality(1 .. l) = l
        BY <2>1, <2>3
    <2> QED BY <2>4 DEF l
<1>2. ASSUME NEW i \in S PROVE Rank(S, i) = i
    <2>1. {y \in S : y <= i} = 1 .. i
        BY <1>0
    <2>2. Cardinality(1 .. i) = i
        BY FS_Interval
    <2> QED BY <2>1, <2>2 DEF Rank
<1>3. ASSUME NEW i \in S PROVE (CHOOSE x \in S : Rank(S, x) = i) = i
    <2> DEFINE x == CHOOSE x \in S : Rank(S, x) = i
    <2>1. x \in S /\ Rank(S, x) = i
        BY <1>2, Zenon
    <2> HIDE DEF x
    <2>2. x = i
        BY <1>2, <2>1
    <2> QED BY <2>2 DEF x
<1>4. Ordered(n, S) = [i \in 1 .. Cardinality(S) |-> n[CHOOSE x \in S : Rank(S, x) = i]]
    BY DEF Ordered, Rank
<1> HIDE DEF S
<1>5. Ordered(n, S) = [i \in 1 .. Len(n) |-> n[i]]
    BY <1>1, <1>3, <1>4 DEF S
<1> QED BY <1>5 DEF S

\* The last of the carried lines is the last.
LEMMA LatestMoves ==
    ASSUME NEW n, NEW m, NEW S, NEW T, NEW f, Carried(n, m, S, T, f)
    PROVE  /\ S = {} <=> T = {}
           /\ S # {} => m[Latest(T)] = n[Latest(S)]
<1>0. /\ S \in SUBSET (1 .. Len(n)) /\ T \in SUBSET (1 .. Len(m)) /\ Len(n) \in Nat /\ Len(m) \in Nat
      /\ \A x \in S : x \in Nat /\ f[x] \in Nat /\ f[x] \in T
      /\ \A x, y \in S : f[x] <= f[y] <=> x <= y
    BY OrderBothWays
<1>1. /\ \A x \in S : f[x] \in T /\ m[f[x]] = n[x]
      /\ \A y \in T : \E x \in S : f[x] = y
    BY DEF Carried
<1>2. S = {} <=> T = {}
    BY <1>1
<1>3. ASSUME S # {} PROVE m[Latest(T)] = n[Latest(S)]
    <2> DEFINE x == Latest(S)
               y == Latest(T)
    <2>1. x \in S /\ \A z \in S : z <= x
        BY <1>0, <1>3, GreatestNumber
    <2>2. y \in T /\ \A z \in T : z <= y
        BY <1>0, <1>2, <1>3, GreatestNumber
    <2> HIDE DEF x, y
    <2>3. PICK w \in S : f[w] = y
        BY <1>1, <2>2
    <2>4. y <= f[x] /\ f[x] <= y
        BY <1>0, <1>1, <2>1, <2>2, <2>3
    <2>5. y = f[x]
        BY <1>0, <2>1, <2>2, <2>4
    <2> QED BY <1>1, <2>1, <2>5 DEF x, y
<1> QED BY <1>2, <1>3

\* The header of the section that line i belongs to.
Heads(n, i, h) ==
    /\ h \in 1 .. i /\ n[h].kind = "section"
    /\ \A j \in 1 .. i : n[j].kind = "section" => j <= h

\* A line belongs to the section of the last header up to it.
LEMMA HeadsSection ==
    ASSUME NEW n \in Seq(IniNode), NEW i \in 1 .. Len(n), NEW h, Heads(n, i, h)
    PROVE  SectionAt(n, i) = n[h].name
<1> DEFINE I == {j \in 1 .. i : n[j].kind = "section"}
<1>0. Len(n) \in Nat /\ i \in Nat
    OBVIOUS
<1>1. h \in I /\ I \in SUBSET (1 .. i) /\ \A y \in I : y <= h
    BY DEF Heads
<1>2. Max(I) \in I /\ \A y \in I : y <= Max(I)
    BY <1>0, <1>1, GreatestNumber
<1>3. Max(I) = h
    <2> DEFINE x == Max(I)
    <2>1. x \in 1 .. i /\ h \in 1 .. i /\ h <= x /\ x <= h
        BY <1>1, <1>2
    <2> HIDE DEF x
    <2> QED BY <1>0, <2>1 DEF x
<1>4. SelectLastInSubSeq(n, 1, i, LAMBDA l : l.kind = "section") = h
    BY <1>1, <1>3 DEF SelectLastInSubSeq
<1>5. h # 0
    BY <1>0, <1>1
<1> QED BY <1>4, <1>5 DEF SectionAt

\* A line with no header up to it belongs to no section.
LEMMA BeforeSections ==
    ASSUME NEW n \in Seq(IniNode), NEW i \in 1 .. Len(n), \A j \in 1 .. i : n[j].kind # "section"
    PROVE  SectionAt(n, i) = None
<1>1. {j \in 1 .. i : n[j].kind = "section"} = {}
    OBVIOUS
<1>2. SelectLastInSubSeq(n, 1, i, LAMBDA l : l.kind = "section") = 0
    BY <1>1 DEF SelectLastInSubSeq
<1> QED BY <1>2 DEF SectionAt

\* A line has a header or belongs to no section.
LEMMA SectionIs ==
    ASSUME NEW n \in Seq(IniNode), NEW i \in 1 .. Len(n)
    PROVE  \/ \E h : Heads(n, i, h)
           \/ \A j \in 1 .. i : n[j].kind # "section"
<1> DEFINE I == {j \in 1 .. i : n[j].kind = "section"}
<1>0. Len(n) \in Nat /\ i \in Nat
    OBVIOUS
<1>1. CASE I = {}
    BY <1>1
<1>2. CASE I # {}
    <2>1. I \in SUBSET (1 .. i)
        OBVIOUS
    <2>2. Max(I) \in I /\ \A y \in I : y <= Max(I)
        BY <1>0, <1>2, <2>1, GreatestNumber
    <2> DEFINE h == Max(I)
    <2>3. h \in I /\ \A y \in I : y <= h
        BY <2>2
    <2> HIDE DEF h
    <2>4. Heads(n, i, h)
        BY <2>3 DEF Heads
    <2> QED BY <2>4
<1> QED BY <1>1, <1>2

\* Lines D of n are found in m, in their order, with all headers of n; a new
\* header comes after all of them.
Embeds(n, m, D, f) ==
    /\ n \in Seq(IniNode) /\ m \in Seq(IniNode) /\ D \in SUBSET (1 .. Len(n))
    /\ \A x \in D : f[x] \in 1 .. Len(m) /\ m[f[x]].kind = n[x].kind /\ m[f[x]].name = n[x].name
    /\ \A x, y \in D : x < y => f[x] < f[y]
    /\ \A x \in 1 .. Len(n) : n[x].kind = "section" => x \in D
    /\ \A y \in 1 .. Len(m) : m[y].kind = "section" => (\E x \in D : f[x] = y) \/ \A x \in D : f[x] < y

\* Lines that are found again keep their order.
LEMMA EmbedsOrder ==
    ASSUME NEW n, NEW m, NEW D, NEW f, Embeds(n, m, D, f)
    PROVE  /\ Len(n) \in Nat /\ Len(m) \in Nat
           /\ \A x \in D : x \in Nat /\ x \in 1 .. Len(n) /\ f[x] \in Nat /\ f[x] \in 1 .. Len(m)
           /\ \A x, y \in D : (f[x] < f[y] <=> x < y) /\ (f[x] <= f[y] <=> x <= y) /\ (f[x] = f[y] <=> x = y)
<1>1. /\ D \in SUBSET (1 .. Len(n)) /\ Len(n) \in Nat /\ Len(m) \in Nat
      /\ \A x \in D : f[x] \in 1 .. Len(m)
      /\ \A x, y \in D : x < y => f[x] < f[y]
    BY DEF Embeds
<1>2. \A x \in D : x \in Nat /\ x \in 1 .. Len(n) /\ f[x] \in Nat /\ f[x] \in 1 .. Len(m)
    <2> TAKE x \in D
    <2> DEFINE y == f[x]
    <2>1. y \in 1 .. Len(m) /\ x \in 1 .. Len(n)
        BY <1>1
    <2> HIDE DEF y
    <2>2. y \in Nat /\ x \in Nat
        BY <2>1
    <2> QED BY <2>1, <2>2 DEF y
<1>3. ASSUME NEW x \in D, NEW y \in D
      PROVE  (f[x] < f[y] <=> x < y) /\ (f[x] <= f[y] <=> x <= y) /\ (f[x] = f[y] <=> x = y)
    <2>1. x \in Nat /\ y \in Nat /\ f[x] \in Nat /\ f[y] \in Nat /\ (x < y => f[x] < f[y]) /\ (y < x => f[y] < f[x])
        BY <1>1, <1>2
    <2> QED BY <2>1
<1> QED BY <1>1, <1>2, <1>3

\* A line that is found again is in the same section.
LEMMA SectionMoves ==
    ASSUME NEW n, NEW m, NEW D, NEW f, Embeds(n, m, D, f), NEW x \in D
    PROVE  SectionAt(m, f[x]) = SectionAt(n, x)
<1>1. /\ Len(n) \in Nat /\ Len(m) \in Nat
      /\ \A u \in D : u \in Nat /\ u \in 1 .. Len(n) /\ f[u] \in Nat /\ f[u] \in 1 .. Len(m)
      /\ \A u, v \in D : (f[u] < f[v] <=> u < v) /\ (f[u] <= f[v] <=> u <= v) /\ (f[u] = f[v] <=> u = v)
    BY EmbedsOrder
<1>2. /\ n \in Seq(IniNode) /\ m \in Seq(IniNode)
      /\ \A u \in D : m[f[u]].kind = n[u].kind /\ m[f[u]].name = n[u].name
      /\ \A u \in 1 .. Len(n) : n[u].kind = "section" => u \in D
      /\ \A y \in 1 .. Len(m) : m[y].kind = "section" => (\E u \in D : f[u] = y) \/ \A u \in D : f[u] < y
    BY DEF Embeds
<1> DEFINE z == f[x]
<1>3. x \in 1 .. Len(n) /\ z \in 1 .. Len(m) /\ x \in Nat /\ z \in Nat
    BY <1>1
<1>4. ASSUME NEW y \in 1 .. z, m[y].kind = "section"
      PROVE  \E u \in D : f[u] = y /\ u <= x /\ n[u].kind = "section" /\ u \in 1 .. x
    <2>1. y \in 1 .. Len(m) /\ y <= f[x] /\ ~(f[x] < y)
        BY <1>1, <1>3
    <2>2. PICK u \in D : f[u] = y
        BY <1>2, <1>4, <2>1
    <2>3. u <= x /\ n[u].kind = "section"
        BY <1>1, <1>2, <1>4, <2>1, <2>2
    <2>4. u \in 1 .. x
        BY <1>1, <2>3
    <2> QED BY <2>2, <2>3, <2>4
<1>5. CASE \E h : Heads(n, x, h)
    <2>1. PICK h : Heads(n, x, h)
        BY <1>5
    <2>2. h \in 1 .. x /\ n[h].kind = "section" /\ \A j \in 1 .. x : n[j].kind = "section" => j <= h
        BY <2>1 DEF Heads
    <2>3. h \in 1 .. Len(n) /\ h <= x
        BY <1>3, <2>2
    <2>4. h \in D
        BY <1>2, <2>2, <2>3
    <2>5. f[h] \in 1 .. Len(m) /\ f[h] <= z /\ f[h] \in Nat
        BY <1>1, <2>3, <2>4
    <2>6. f[h] \in 1 .. z
        BY <1>3, <2>5
    <2>7. \A y \in 1 .. z : m[y].kind = "section" => y <= f[h]
        <3> SUFFICES ASSUME NEW y \in 1 .. z, m[y].kind = "section" PROVE y <= f[h]
            OBVIOUS
        <3>1. PICK u \in D : f[u] = y /\ n[u].kind = "section" /\ u \in 1 .. x
            BY <1>4
        <3>2. u <= h
            BY <2>2, <3>1
        <3> QED BY <1>1, <2>4, <3>1, <3>2
    <2>8. Heads(m, z, f[h])
        BY <1>2, <2>2, <2>4, <2>6, <2>7 DEF Heads
    <2>9. SectionAt(m, z) = m[f[h]].name
        BY <1>2, <1>3, <2>8, HeadsSection
    <2>10. SectionAt(n, x) = n[h].name
        BY <1>2, <1>3, <2>1, HeadsSection
    <2> QED BY <1>2, <2>4, <2>9, <2>10
<1>6. CASE \A j \in 1 .. x : n[j].kind # "section"
    <2>1. \A y \in 1 .. z : m[y].kind # "section"
        BY <1>4, <1>6
    <2>2. SectionAt(n, x) = None
        BY <1>2, <1>3, <1>6, BeforeSections
    <2>3. SectionAt(m, z) = None
        BY <1>2, <1>3, <2>1, BeforeSections
    <2> QED BY <2>2, <2>3
<1> QED BY <1>2, <1>3, <1>5, <1>6, SectionIs

\* The lines of a section, when none of them is lost, changed or new.
LEMMA LinesMove ==
    ASSUME NEW n, NEW m, NEW D, NEW f, Embeds(n, m, D, f), NEW s, NEW kinds,
           \A x \in Lines(n, s, kinds) : x \in D /\ m[f[x]] = n[x],
           \A y \in Lines(m, s, kinds) : \E x \in D : f[x] = y
    PROVE  Carried(n, m, Lines(n, s, kinds), Lines(m, s, kinds), f)
<1> DEFINE S == Lines(n, s, kinds)
           T == Lines(m, s, kinds)
<1>1. /\ n \in Seq(IniNode) /\ m \in Seq(IniNode) /\ DOMAIN n = 1 .. Len(n) /\ DOMAIN m = 1 .. Len(m)
      /\ \A x \in D : f[x] \in 1 .. Len(m) /\ m[f[x]].kind = n[x].kind
      /\ \A x, y \in D : x < y => f[x] < f[y]
    BY DEF Embeds
<1>2. /\ \A x : x \in S <=> x \in 1 .. Len(n) /\ n[x].kind \in kinds /\ SectionAt(n, x) = s
      /\ \A y : y \in T <=> y \in 1 .. Len(m) /\ m[y].kind \in kinds /\ SectionAt(m, y) = s
    BY <1>1 DEF Lines
<1>3. (\A x \in S : x \in D /\ m[f[x]] = n[x]) /\ (\A y \in T : \E x \in D : f[x] = y)
    OBVIOUS
<1>4. D \in SUBSET (1 .. Len(n))
    BY DEF Embeds
<1> HIDE DEF S, T
<1>5. \A x \in D : x \in S <=> f[x] \in T
    BY <1>1, <1>2, <1>4, SectionMoves
<1>6. Carried(n, m, S, T, f)
    <2>1. S \in SUBSET (1 .. Len(n)) /\ T \in SUBSET (1 .. Len(m))
        BY <1>2
    <2>2. \A x \in S : f[x] \in T /\ m[f[x]] = n[x]
        BY <1>3, <1>5
    <2>3. \A y \in T : \E x \in S : f[x] = y
        BY <1>3, <1>5
    <2>4. \A x, y \in S : x < y => f[x] < f[y]
        BY <1>1, <1>3
    <2> QED BY <1>1, <2>1, <2>2, <2>3, <2>4 DEF Carried
<1> QED BY <1>6 DEF S, T

\* The same of the lines that hold one setting.
LEMMA HoldsMove ==
    ASSUME NEW n, NEW m, NEW D, NEW f, Embeds(n, m, D, f), NEW s, NEW k,
           \A x \in Holds(n, s, k) : x \in D /\ m[f[x]] = n[x],
           \A y \in Holds(m, s, k) : \E x \in D : f[x] = y
    PROVE  Carried(n, m, Holds(n, s, k), Holds(m, s, k), f)
<1> DEFINE S == Holds(n, s, k)
           T == Holds(m, s, k)
<1>1. /\ n \in Seq(IniNode) /\ m \in Seq(IniNode) /\ DOMAIN n = 1 .. Len(n) /\ DOMAIN m = 1 .. Len(m)
      /\ \A x \in D : f[x] \in 1 .. Len(m) /\ m[f[x]].kind = n[x].kind /\ m[f[x]].name = n[x].name
      /\ \A x, y \in D : x < y => f[x] < f[y]
    BY DEF Embeds
<1>2. /\ \A x : x \in S <=> x \in 1 .. Len(n) /\ n[x].kind = "key" /\ SectionAt(n, x) = s /\ n[x].name = k
      /\ \A y : y \in T <=> y \in 1 .. Len(m) /\ m[y].kind = "key" /\ SectionAt(m, y) = s /\ m[y].name = k
    BY <1>1 DEF Lines, Holds
<1>3. (\A x \in S : x \in D /\ m[f[x]] = n[x]) /\ (\A y \in T : \E x \in D : f[x] = y)
    OBVIOUS
<1>4. D \in SUBSET (1 .. Len(n))
    BY DEF Embeds
<1> HIDE DEF S, T
<1>5. \A x \in D : x \in S <=> f[x] \in T
    BY <1>1, <1>2, <1>4, SectionMoves
<1>6. Carried(n, m, S, T, f)
    <2>1. S \in SUBSET (1 .. Len(n)) /\ T \in SUBSET (1 .. Len(m))
        BY <1>2
    <2>2. \A x \in S : f[x] \in T /\ m[f[x]] = n[x]
        BY <1>3, <1>5
    <2>3. \A y \in T : \E x \in S : f[x] = y
        BY <1>3, <1>5
    <2>4. \A x, y \in S : x < y => f[x] < f[y]
        BY <1>1, <1>3
    <2> QED BY <1>1, <2>1, <2>2, <2>3, <2>4 DEF Carried
<1> QED BY <1>6 DEF S, T

\* Two texts say the same of setting k in section s.
SameSetting(n, m, s, k) ==
    /\ Holds(n, s, k) = {} <=> Holds(m, s, k) = {}
    /\ Holds(n, s, k) # {} => m[Latest(Holds(m, s, k))].value = n[Latest(Holds(n, s, k))].value

\* The first of the two sections of the general settings that has one.
LEMMA FirstSection ==
    ASSUME NEW S \in SUBSET (DOMAIN General), S # {}
    PROVE  (CHOOSE i \in S : \A j \in S : i <= j) \in S
<1>1. DOMAIN General = 1 .. 2
    BY DEF General
<1>2. \E i \in S : \A j \in S : i <= j
    BY <1>1
<1> QED BY <1>2, Zenon

\* A setting that stands alike in both general sections is read alike.
LEMMA RawSame ==
    ASSUME NEW n, NEW m, NEW k, \A i \in DOMAIN General : SameSetting(n, m, General[i], k)
    PROVE  RawValue(m, k) = RawValue(n, k)
<1> DEFINE A == {i \in DOMAIN General : Holds(n, General[i], k) # {}}
           B == {i \in DOMAIN General : Holds(m, General[i], k) # {}}
           c == CHOOSE i \in A : \A j \in A : i <= j
<1>1. \A i \in DOMAIN General : (Holds(n, General[i], k) = {} <=> Holds(m, General[i], k) = {})
    BY DEF SameSetting
<1>2. A = B
    BY <1>1
<1>3. RawValue(n, k) = IF A = {} THEN None ELSE n[Latest(Holds(n, General[c], k))].value
    BY DEF RawValue
<1>4. RawValue(m, k) = IF A = {} THEN None ELSE m[Latest(Holds(m, General[c], k))].value
    <2> DEFINE d == CHOOSE i \in B : \A j \in B : i <= j
    <2>1. RawValue(m, k) = IF B = {} THEN None ELSE m[Latest(Holds(m, General[d], k))].value
        BY DEF RawValue
    <2>2. c = d
        <3> HIDE DEF A, B
        <3> QED BY <1>2
    <2> HIDE DEF A, B, c, d
    <2> QED BY <1>2, <2>1, <2>2
<1>5. CASE A = {}
    BY <1>3, <1>4, <1>5
<1>6. CASE A # {}
    <2>1. A \in SUBSET (DOMAIN General)
        OBVIOUS
    <2>2. c \in A
        <3> HIDE DEF A
        <3> QED BY <1>6, <2>1, FirstSection
    <2>3. c \in DOMAIN General /\ Holds(n, General[c], k) # {}
        BY <2>2
    <2> HIDE DEF c, A
    <2>4. m[Latest(Holds(m, General[c], k))].value = n[Latest(Holds(n, General[c], k))].value
        BY <2>3 DEF SameSetting
    <2> QED BY <1>3, <1>4, <1>6, <2>4
<1> QED BY <1>5, <1>6

\* Two texts say the same of the settings K, the lists L and the fonts.
Agree(n, m, K, L) ==
    /\ \A k \in K : RawValue(m, k) = RawValue(n, k)
    /\ \A s \in L : ListEntries(m, s) = ListEntries(n, s)
    /\ Individuals(m) = Individuals(n)

\* A line that says nothing of them.
Foreign(n, x, K, L) ==
    \/ n[x].kind \notin {"key", "entry"}
    \/ /\ SectionAt(n, x) \notin L /\ SectionAt(n, x) # Individual
       /\ n[x].name \in K => SectionAt(n, x) \notin Range(General)

\* When every line that is lost or new says nothing of them, the texts agree.
LEMMA EmbedsAgree ==
    ASSUME NEW n, NEW m, NEW D, NEW f, Embeds(n, m, D, f), NEW K, NEW L,
           \A x \in 1 .. Len(n) : (x \in D /\ m[f[x]] = n[x]) \/ Foreign(n, x, K, L),
           \A y \in 1 .. Len(m) : (\E x \in D : f[x] = y) \/ Foreign(m, y, K, L)
    PROVE  Agree(n, m, K, L)
<1>1. DOMAIN n = 1 .. Len(n) /\ DOMAIN m = 1 .. Len(m)
    BY DEF Embeds
<1>2. ASSUME NEW k \in K PROVE RawValue(m, k) = RawValue(n, k)
    <2>1. ASSUME NEW i \in DOMAIN General PROVE SameSetting(n, m, General[i], k)
        <3> DEFINE s == General[i]
                   S == Holds(n, s, k)
                   T == Holds(m, s, k)
        <3>1. s \in Range(General)
            BY DEF Range
        <3> HIDE DEF s
        <3>2. \A x \in S : x \in D /\ m[f[x]] = n[x]
            BY <1>1, <3>1 DEF Holds, Lines, Foreign
        <3>3. \A y \in T : \E x \in D : f[x] = y
            BY <1>1, <3>1 DEF Holds, Lines, Foreign
        <3>4. Carried(n, m, S, T, f)
            BY <3>2, <3>3, HoldsMove
        <3> HIDE DEF S, T
        <3>5. (S = {} <=> T = {}) /\ (S # {} => m[Latest(T)] = n[Latest(S)])
            BY <3>4, LatestMoves
        <3>6. S # {} => m[Latest(T)].value = n[Latest(S)].value
            BY <3>5
        <3> QED BY <3>5, <3>6 DEF SameSetting, S, T, s
    <2> QED BY <2>1, RawSame
<1>3. ASSUME NEW s \in L PROVE ListEntries(m, s) = ListEntries(n, s)
    <2>1. \A x \in Lines(n, s, {"entry", "key"}) : x \in D /\ m[f[x]] = n[x]
        BY <1>1 DEF Lines, Foreign
    <2>2. \A y \in Lines(m, s, {"entry", "key"}) : \E x \in D : f[x] = y
        BY <1>1 DEF Lines, Foreign
    <2>3. Carried(n, m, Lines(n, s, {"entry", "key"}), Lines(m, s, {"entry", "key"}), f)
        BY <2>1, <2>2, LinesMove
    <2>4. Ordered(m, Lines(m, s, {"entry", "key"})) = Ordered(n, Lines(n, s, {"entry", "key"}))
        BY <2>3, OrderedMoves
    <2> QED BY <2>4 DEF ListEntries
<1>4. Individuals(m) = Individuals(n)
    <2>1. \A x \in Lines(n, Individual, {"key"}) : x \in D /\ m[f[x]] = n[x]
        BY <1>1 DEF Lines, Foreign
    <2>2. \A y \in Lines(m, Individual, {"key"}) : \E x \in D : f[x] = y
        BY <1>1 DEF Lines, Foreign
    <2>3. Carried(n, m, Lines(n, Individual, {"key"}), Lines(m, Individual, {"key"}), f)
        BY <2>1, <2>2, LinesMove
    <2>4. Ordered(m, Lines(m, Individual, {"key"})) = Ordered(n, Lines(n, Individual, {"key"}))
        BY <2>3, OrderedMoves
    <2> QED BY <2>4 DEF Individuals
<1> QED BY <1>2, <1>3, <1>4 DEF Agree

\* A section that is missing is added: nothing else is said.
LEMMA AddedSection ==
    ASSUME NEW n \in Seq(IniNode), NEW s \in Section, NEW m, m = WithSection(n, s), NEW K, NEW L
    PROVE  /\ Agree(n, m, K, L)
           /\ m \in Seq(IniNode) /\ Len(m) \in Nat
           /\ \A x \in 1 .. Len(n) : x \in 1 .. Len(m) /\ m[x] = n[x] /\ SectionAt(m, x) = SectionAt(n, x)
           /\ \A x \in 1 .. Len(m) : x \notin 1 .. Len(n) => m[x].kind = "section" /\ Headers(n, s) = {} /\ x = Len(n) + 1
<1>0. Len(n) \in Nat
    OBVIOUS
<1> DEFINE D == 1 .. Len(n)
           f == [x \in D |-> x]
<1>1. /\ m \in Seq(IniNode) /\ Len(m) \in Nat
      /\ \A x \in 1 .. Len(n) : x \in 1 .. Len(m) /\ m[x] = n[x]
      /\ \A x \in 1 .. Len(m) : x \notin 1 .. Len(n) => m[x].kind = "section" /\ Headers(n, s) = {} /\ x = Len(n) + 1
    <2>1. CASE \E i \in DOMAIN n : n[i].kind = "section" /\ n[i].name = s
        BY <2>1 DEF WithSection
    <2>2. CASE ~\E i \in DOMAIN n : n[i].kind = "section" /\ n[i].name = s
        <3> DEFINE h == Header(s)
        <3>1. m = Append(n, h)
            BY <2>2 DEF WithSection
        <3>2. h \in IniNode /\ h.kind = "section"
            BY LineTypes
        <3> HIDE DEF h
        <3>3. /\ m \in Seq(IniNode) /\ Len(m) = Len(n) + 1 /\ m[Len(n) + 1] = h
              /\ \A x \in 1 .. Len(n) : m[x] = n[x]
            BY <3>1, <3>2
        <3>4. Headers(n, s) = {}
            BY <2>2 DEF Headers
        <3>5. \A x \in 1 .. Len(m) : x \notin 1 .. Len(n) => x = Len(n) + 1
            BY <1>0, <3>3
        <3>6. \A x \in 1 .. Len(n) : x \in 1 .. Len(m)
            BY <1>0, <3>3
        <3> QED BY <1>0, <3>2, <3>3, <3>4, <3>5, <3>6
    <2> QED BY <2>1, <2>2
<1>2. Embeds(n, m, D, f)
    <2>1. \A x \in D : f[x] = x /\ x \in 1 .. Len(m) /\ m[x] = n[x]
        BY <1>1
    <2>2. \A x, y \in D : x < y => f[x] < f[y]
        OBVIOUS
    <2>3. \A y \in 1 .. Len(m) : (\E x \in D : f[x] = y) \/ \A x \in D : f[x] < y
        <3> TAKE y \in 1 .. Len(m)
        <3>1. CASE y \in D
            BY <3>1
        <3>2. CASE y \notin D
            <4>1. y = Len(n) + 1
                BY <1>1, <3>2
            <4> QED BY <1>0, <4>1
        <3> QED BY <3>1, <3>2
    <2> HIDE DEF f
    <2> QED BY <1>1, <2>1, <2>2, <2>3 DEF Embeds
<1>3. ASSUME NEW x \in 1 .. Len(n) PROVE SectionAt(m, x) = SectionAt(n, x)
    <2>1. f[x] = x /\ x \in D
        OBVIOUS
    <2> HIDE DEF f, D
    <2>2. SectionAt(m, f[x]) = SectionAt(n, x)
        BY <1>2, <2>1, SectionMoves
    <2> QED BY <2>1, <2>2
<1>4. \A x \in 1 .. Len(n) : (x \in D /\ m[f[x]] = n[x]) \/ Foreign(n, x, K, L)
    BY <1>1
<1>5. \A y \in 1 .. Len(m) : (\E x \in D : f[x] = y) \/ Foreign(m, y, K, L)
    <2> TAKE y \in 1 .. Len(m)
    <2>1. CASE y \in D
        BY <2>1
    <2>2. CASE y \notin D
        BY <1>1, <2>2 DEF Foreign
    <2> QED BY <2>1, <2>2
<1> HIDE DEF f, D
<1>6. Agree(n, m, K, L)
    BY <1>2, <1>4, <1>5, EmbedsAgree
<1> QED BY <1>1, <1>3, <1>6

\* Agreement of one text with a second and of that with a third.
LEMMA AgreeTwice ==
    ASSUME NEW n, NEW m, NEW o, NEW K, NEW L, Agree(n, m, K, L), Agree(m, o, K, L)
    PROVE  Agree(n, o, K, L)
BY DEF Agree

\* raw_value reads the first of the two sections that has the setting.
LEMMA RawIs ==
    ASSUME NEW m, NEW k, NEW i \in DOMAIN General, Holds(m, General[i], k) # {},
           \A j \in DOMAIN General : j < i => Holds(m, General[j], k) = {}
    PROVE  RawValue(m, k) = m[Latest(Holds(m, General[i], k))].value
<1> DEFINE A == {j \in DOMAIN General : Holds(m, General[j], k) # {}}
           c == CHOOSE j \in A : \A l \in A : j <= l
<1>1. RawValue(m, k) = IF A = {} THEN None ELSE m[Latest(Holds(m, General[c], k))].value
    BY DEF RawValue
<1>2. DOMAIN General = 1 .. 2
    BY DEF General
<1>3. i \in A /\ \A j \in A : ~(j < i) /\ j \in 1 .. 2
    BY <1>2
<1> HIDE DEF A
<1>4. \E j \in A : \A l \in A : j <= l
    BY <1>3
<1>5. c \in A /\ \A l \in A : c <= l
    BY <1>4, Zenon
<1> HIDE DEF c
<1>6. c = i
    BY <1>3, <1>5
<1> QED BY <1>1, <1>3, <1>6

\* A line is put in as line p.
PutIn(n, p, line, m) ==
    n \in Seq(IniNode) /\ p \in 1 .. Len(n) + 1 /\ line \in IniNode /\ m = InsertAt(n, p, line)

\* The lines around it, and the line itself.
LEMMA InsertIs ==
    ASSUME NEW n, NEW p, NEW line, NEW m, PutIn(n, p, line, m)
    PROVE  /\ m \in Seq(IniNode) /\ Len(m) = Len(n) + 1
           /\ \A i \in 1 .. Len(m) : /\ i < p => m[i] = n[i]
                                     /\ i = p => m[i] = line
                                     /\ i > p => m[i] = n[i - 1]
<1> SUFFICES ASSUME n \in Seq(IniNode), p \in 1 .. Len(n) + 1, line \in IniNode, m = InsertAt(n, p, line)
             PROVE  /\ m \in Seq(IniNode) /\ Len(m) = Len(n) + 1
                    /\ \A i \in 1 .. Len(m) : /\ i < p => m[i] = n[i]
                                              /\ i = p => m[i] = line
                                              /\ i > p => m[i] = n[i - 1]
    BY DEF PutIn
<1>0. Len(n) \in Nat /\ p \in Nat
    OBVIOUS
<1> DEFINE a == SubSeq(n, 1, p - 1)
           b == SubSeq(n, p, Len(n))
           r == a \o <<line>> \o b
<1>1. a \in Seq(IniNode) /\ Len(a) = p - 1 /\ \A i \in 1 .. p - 1 : a[i] = n[i]
    BY <1>0
<1>2. b \in Seq(IniNode) /\ Len(b) = Len(n) - p + 1 /\ \A i \in 1 .. Len(n) - p + 1 : b[i] = n[p + i - 1]
    BY <1>0
<1> HIDE DEF a, b
<1>3. r \in Seq(IniNode) /\ Len(r) = Len(n) + 1
    <2>1. <<line>> \in Seq(IniNode) /\ Len(<<line>>) = 1
        OBVIOUS
    <2> DEFINE c == a \o <<line>>
    <2>2. c \in Seq(IniNode) /\ Len(c) = p /\ r = c \o b
        BY <1>0, <1>1, <2>1
    <2> HIDE DEF c, r
    <2>3. r \in Seq(IniNode) /\ Len(r) = p + (Len(n) - p + 1)
        BY <1>2, <2>2
    <2> QED BY <1>0, <2>3
<1>4. ASSUME NEW i \in 1 .. Len(r)
      PROVE  /\ i < p => r[i] = n[i]
             /\ i = p => r[i] = line
             /\ i > p => r[i] = n[i - 1]
    <2>1. CASE i < p
        <3>1. i \in 1 .. p - 1 /\ ~(i = p) /\ ~(i > p)
            BY <1>0, <1>3, <2>1
        <3>2. r[i] = a[i]
            BY <1>0, <1>1, <1>2, <1>3, <3>1
        <3> HIDE DEF r
        <3> QED BY <1>1, <3>1, <3>2
    <2>2. CASE i = p
        BY <1>0, <1>1, <1>2, <1>3, <2>2
    <2>3. CASE i > p
        <3>1. i - p \in 1 .. Len(n) - p + 1
            BY <1>0, <1>3, <2>3
        <3>2. r[i] = b[i - p]
            BY <1>0, <1>1, <1>2, <1>3, <2>3, <3>1
        <3>3. b[i - p] = n[p + (i - p) - 1]
            BY <1>2, <3>1
        <3>4. p + (i - p) - 1 = i - 1 /\ ~(i < p) /\ ~(i = p)
            BY <1>0, <1>3, <2>3
        <3> HIDE DEF r
        <3> QED BY <3>2, <3>3, <3>4
    <2> QED BY <1>0, <2>1, <2>2, <2>3
<1>5. m = r
    BY DEF r, a, b, InsertAt
<1> HIDE DEF r
<1> QED BY <1>3, <1>4, <1>5

\* A line that is no header is in the section of the line before it.
LEMMA NextLine ==
    ASSUME NEW n \in Seq(IniNode), NEW i \in 1 .. Len(n), i + 1 \in 1 .. Len(n), n[i + 1].kind # "section"
    PROVE  SectionAt(n, i + 1) = SectionAt(n, i)
<1>0. i \in Nat
    OBVIOUS
<1>1. \A j : j \in 1 .. i + 1 <=> j \in 1 .. i \/ j = i + 1
    BY <1>0
<1>2. CASE \E h : Heads(n, i, h)
    <2>1. PICK h : Heads(n, i, h)
        BY <1>2
    <2>2. Heads(n, i + 1, h)
        BY <1>1, <2>1 DEF Heads
    <2>3. SectionAt(n, i) = n[h].name
        BY <2>1, HeadsSection
    <2> DEFINE l == i + 1
    <2>4. l \in 1 .. Len(n) /\ Heads(n, l, h)
        BY <2>2
    <2> HIDE DEF l
    <2>5. SectionAt(n, l) = n[h].name
        BY <2>4, HeadsSection
    <2> QED BY <2>3, <2>5 DEF l
<1>3. CASE \A j \in 1 .. i : n[j].kind # "section"
    <2>1. SectionAt(n, i) = None
        BY <1>3, BeforeSections
    <2> DEFINE l == i + 1
    <2>2. l \in 1 .. Len(n) /\ \A j \in 1 .. l : n[j].kind # "section"
        BY <1>1, <1>3
    <2> HIDE DEF l
    <2>3. SectionAt(n, l) = None
        BY <2>2, BeforeSections
    <2> QED BY <2>1, <2>3 DEF l
<1> QED BY <1>2, <1>3, SectionIs

\* The places of the lines around the one put in.
LEMMA InsertEmbeds ==
    ASSUME NEW n \in Seq(IniNode), NEW at \in 1 .. Len(n), NEW line \in IniNode, line.kind # "section",
           NEW m, m = InsertAt(n, at + 1, line), NEW f,
           \A x \in 1 .. Len(n) : f[x] = IF x <= at THEN x ELSE x + 1
    PROVE  /\ Embeds(n, m, 1 .. Len(n), f)
           /\ \A x \in 1 .. Len(n) : m[f[x]] = n[x]
           /\ \A y \in 1 .. Len(m) : y # at + 1 => \E x \in 1 .. Len(n) : f[x] = y
           /\ at + 1 \in 1 .. Len(m) /\ m[at + 1] = line /\ SectionAt(m, at + 1) = SectionAt(n, at)
<1>0. Len(n) \in Nat /\ at \in Nat /\ at + 1 \in 1 .. Len(n) + 1
    OBVIOUS
<1>1. /\ m \in Seq(IniNode) /\ Len(m) = Len(n) + 1
      /\ \A i \in 1 .. Len(m) : /\ i < at + 1 => m[i] = n[i]
                                /\ i = at + 1 => m[i] = line
                                /\ i > at + 1 => m[i] = n[i - 1]
    <2> DEFINE p == at + 1
    <2>1. PutIn(n, p, line, m)
        BY <1>0 DEF PutIn
    <2> HIDE DEF p
    <2>2. /\ m \in Seq(IniNode) /\ Len(m) = Len(n) + 1
          /\ \A i \in 1 .. Len(m) : /\ i < p => m[i] = n[i]
                                    /\ i = p => m[i] = line
                                    /\ i > p => m[i] = n[i - 1]
        BY <2>1, InsertIs
    <2> QED BY <2>2 DEF p
<1>2. ASSUME NEW x \in 1 .. Len(n) PROVE f[x] \in 1 .. Len(m) /\ m[f[x]] = n[x]
    <2>1. CASE x <= at
        BY <1>0, <1>1, <2>1
    <2>2. CASE ~(x <= at)
        <3>1. f[x] = x + 1 /\ x + 1 \in 1 .. Len(m) /\ x + 1 > at + 1 /\ (x + 1) - 1 = x
            BY <1>0, <1>1, <2>2
        <3> QED BY <1>1, <3>1
    <2> QED BY <2>1, <2>2
<1>3. ASSUME NEW y \in 1 .. Len(m), y # at + 1 PROVE \E x \in 1 .. Len(n) : f[x] = y
    <2>1. CASE y < at + 1
        BY <1>0, <1>1, <2>1
    <2>2. CASE ~(y < at + 1)
        <3>1. y - 1 \in 1 .. Len(n) /\ ~(y - 1 <= at) /\ (y - 1) + 1 = y
            BY <1>0, <1>1, <1>3, <2>2
        <3>2. f[y - 1] = y
            BY <3>1
        <3> QED BY <3>1, <3>2
    <2> QED BY <2>1, <2>2
<1>4. at + 1 \in 1 .. Len(m) /\ m[at + 1] = line
    BY <1>0, <1>1
<1>5. \A x, y \in 1 .. Len(n) : x < y => f[x] < f[y]
    BY <1>0
<1>6. Embeds(n, m, 1 .. Len(n), f)
    <2>1. \A y \in 1 .. Len(m) : m[y].kind = "section" => \E x \in 1 .. Len(n) : f[x] = y
        BY <1>3, <1>4
    <2> QED BY <1>1, <1>2, <1>5, <2>1 DEF Embeds
<1>7. SectionAt(m, at + 1) = SectionAt(n, at)
    <2>1. f[at] = at /\ at \in 1 .. Len(m)
        BY <1>0, <1>1
    <2>2. SectionAt(m, f[at]) = SectionAt(n, at)
        BY <1>6, SectionMoves
    <2>3. SectionAt(m, at + 1) = SectionAt(m, at)
        BY <1>1, <1>4, <2>1, NextLine
    <2> QED BY <2>1, <2>2, <2>3
<1> QED BY <1>2, <1>3, <1>4, <1>6, <1>7

\* The two general sections, and what a setting, a list and None are not.
LEMMA SettingNames ==
    /\ \A i \in DOMAIN General : General[i] \in Range(General)
    /\ \A s \in Range(General) : s \notin List /\ s # Individual
    /\ DOMAIN General = 1 .. 2 /\ General[1] = "FreeType" /\ General[2] = "General"
    /\ "FreeType" # "General"
<1>1. DOMAIN General = 1 .. 2 /\ General[1] = "FreeType" /\ General[2] = "General"
    BY DEF General
<1>2. \A i \in DOMAIN General : General[i] \in Range(General)
    BY DEF Range
<1>3. \A s \in Range(General) : s \notin List /\ s # Individual
    BY NamesAssumption
<1> QED BY <1>1, <1>2, <1>3

\* Line p has another value.
Changed(n, m, p, v) ==
    /\ m \in Seq(IniNode) /\ Len(m) = Len(n)
    /\ \A x \in 1 .. Len(n) : x # p => m[x] = n[x]
    /\ m[p].value = v /\ m[p].kind = n[p].kind /\ m[p].name = n[p].name

\* What a text is after one of its lines took another value.
LEMMA ChangedIs ==
    ASSUME NEW n \in Seq(IniNode), NEW p \in 1 .. Len(n), NEW v \in Value, NEW m, m = [n EXCEPT ![p].value = v]
    PROVE  Changed(n, m, p, v)
<1>0. DOMAIN n = 1 .. Len(n) /\ Len(n) \in Nat
    OBVIOUS
<1>1. m \in Seq(IniNode) /\ Len(m) = Len(n)
    <2>1. Keeps(n, m)
        BY ChangeKeeps
    <2>2. DOMAIN m = DOMAIN n
        OBVIOUS
    <2>3. m \in Seq(IniNode)
        BY <2>1 DEF Keeps
    <2>4. Len(m) \in Nat /\ DOMAIN m = 1 .. Len(m)
        BY <2>3
    <2>5. Len(m) = Len(n)
        BY <1>0, <2>2, <2>4
    <2> QED BY <2>3, <2>5
<1>2. \A x \in 1 .. Len(n) : x # p => m[x] = n[x]
    BY <1>0
<1>3. m[p].value = v /\ m[p].kind = n[p].kind /\ m[p].name = n[p].name
    <2>1. n[p] \in IniNode
        OBVIOUS
    <2>2. m[p] = [n[p] EXCEPT !.value = v]
        BY <1>0
    <2> QED BY <2>1, <2>2 DEF IniNode
<1> QED BY <1>1, <1>2, <1>3 DEF Changed

\* set_raw_value, where the setting stands already.
LEMMA ValueIsChanged ==
    ASSUME NEW n \in Seq(IniNode), NEW k, NEW v, NEW c \in DOMAIN General, NEW p,
           p \in Holds(n, General[c], k), p = Latest(Holds(n, General[c], k)),
           \A j \in DOMAIN General : j < c => Holds(n, General[j], k) = {},
           NEW m, Changed(n, m, p, v), NEW K, k \notin K
    PROVE  RawValue(m, k) = v /\ Agree(n, m, K, List)
<1> DEFINE D == 1 .. Len(n)
           f == [x \in D |-> x]
<1>0. DOMAIN n = 1 .. Len(n) /\ Len(n) \in Nat
    OBVIOUS
<1>1. p \in 1 .. Len(n) /\ n[p].kind = "key" /\ SectionAt(n, p) = General[c] /\ n[p].name = k
    BY <1>0 DEF Holds, Lines
<1>2. m \in Seq(IniNode) /\ Len(m) = Len(n) /\ DOMAIN m = 1 .. Len(n)
    BY DEF Changed
<1>3. \A x \in 1 .. Len(n) : x # p => m[x] = n[x]
    BY DEF Changed
<1>4. m[p].value = v /\ m[p].kind = n[p].kind /\ m[p].name = n[p].name
    BY DEF Changed
<1> HIDE DEF D
<1>5. \A x \in 1 .. Len(n) : m[x].kind = n[x].kind /\ m[x].name = n[x].name
    BY <1>3, <1>4
<1>6. Embeds(n, m, D, f)
    <2>1. \A x \in D : f[x] = x /\ x \in 1 .. Len(n)
        BY DEF D
    <2>2. \A x, y \in D : x < y => f[x] < f[y]
        OBVIOUS
    <2>3. \A y \in 1 .. Len(m) : \E x \in D : f[x] = y
        BY <1>2 DEF D
    <2> HIDE DEF f
    <2> QED BY <1>2, <1>5, <2>1, <2>2, <2>3 DEF Embeds, D
<1>7. \A x \in D : f[x] = x
    OBVIOUS
<1> HIDE DEF f
<1>8. \A x \in 1 .. Len(n) : SectionAt(m, x) = SectionAt(n, x)
    <2> TAKE x \in 1 .. Len(n)
    <2>1. x \in D
        BY DEF D
    <2>2. SectionAt(m, f[x]) = SectionAt(n, x)
        BY <1>6, <2>1, SectionMoves
    <2> QED BY <1>7, <2>1, <2>2
<1>9. ASSUME NEW s PROVE Holds(m, s, k) = Holds(n, s, k)
    <2>1. \A x : x \in Holds(m, s, k) <=> x \in 1 .. Len(n) /\ m[x].kind = "key" /\ SectionAt(m, x) = s /\ m[x].name = k
        BY <1>2 DEF Holds, Lines
    <2>2. \A x : x \in Holds(n, s, k) <=> x \in 1 .. Len(n) /\ n[x].kind = "key" /\ SectionAt(n, x) = s /\ n[x].name = k
        BY <1>0 DEF Holds, Lines
    <2>3. \A x : x \in Holds(m, s, k) <=> x \in Holds(n, s, k)
        BY <1>5, <1>8, <2>1, <2>2
    <2> QED BY <2>3
<1>10. RawValue(m, k) = v
    <2>1. Holds(m, General[c], k) # {}
        BY <1>9
    <2>2. \A j \in DOMAIN General : j < c => Holds(m, General[j], k) = {}
        BY <1>9
    <2>3. RawValue(m, k) = m[Latest(Holds(m, General[c], k))].value
        BY <2>1, <2>2, RawIs
    <2>4. Holds(m, General[c], k) = Holds(n, General[c], k)
        BY <1>9
    <2> QED BY <1>4, <2>3, <2>4
<1>11. Agree(n, m, K, List)
    <2>1. Foreign(n, p, K, List)
        BY <1>1, SettingNames DEF Foreign
    <2>2. \A x \in 1 .. Len(n) : (x \in D /\ m[f[x]] = n[x]) \/ Foreign(n, x, K, List)
        <3> TAKE x \in 1 .. Len(n)
        <3>1. x \in D
            BY DEF D
        <3> QED BY <1>3, <1>7, <2>1, <3>1
    <2>3. \A y \in 1 .. Len(m) : (\E x \in D : f[x] = y) \/ Foreign(m, y, K, List)
        <3> TAKE y \in 1 .. Len(m)
        <3>1. y \in D
            BY <1>2 DEF D
        <3> QED BY <1>7, <3>1
    <2> QED BY <1>6, <2>2, <2>3, EmbedsAgree
<1> QED BY <1>10, <1>11

\* set_raw_value, where the setting stands nowhere.
LEMMA SettingIsAdded ==
    ASSUME NEW n \in Seq(IniNode), NEW k \in Key \cup Shape, NEW v \in Value,
           \A j \in DOMAIN General : Holds(n, General[j], k) = {},
           NEW m, m = Inserted(n, "General", KeyValue(k, v)), NEW K, k \notin K
    PROVE  RawValue(m, k) = v /\ Agree(n, m, K, List)
<1> DEFINE line == KeyValue(k, v)
<1>1. line \in IniNode /\ line.kind = "key" /\ line.name = k /\ line.value = v
    <2>1. line \in IniNode
        BY LineTypes
    <2>2. line.kind = "key" /\ line.name = k /\ line.value = v
        BY DEF KeyValue
    <2> QED BY <2>1, <2>2
<1> DEFINE w == WithSection(n, "General")
           S == Lines(w, "General", {"section", "key", "entry"})
           at == Latest(S)
<1>2. "General" \in Section
    BY SectionNames
<1>3. /\ Agree(n, w, K, List) /\ w \in Seq(IniNode) /\ Len(w) \in Nat
      /\ \A x \in 1 .. Len(n) : w[x] = n[x] /\ SectionAt(w, x) = SectionAt(n, x)
      /\ \A x \in 1 .. Len(w) : x \notin 1 .. Len(n) => w[x].kind = "section"
    BY <1>2, AddedSection
<1>4. \E i \in 1 .. Len(w) : w[i].kind = "section" /\ w[i].name = "General"
    BY <1>2, WithSectionIs
<1>5. m = InsertAt(w, at + 1, line)
    BY DEF Inserted
<1> HIDE DEF w, line
<1>6. DOMAIN w = 1 .. Len(w) /\ DOMAIN n = 1 .. Len(n)
    BY <1>3
<1>7. at \in 1 .. Len(w) /\ SectionAt(w, at) = "General"
    <2>1. PICK i \in 1 .. Len(w) : w[i].kind = "section" /\ w[i].name = "General"
        BY <1>4
    <2>2. i \in S /\ S \in SUBSET (1 .. Len(w))
        BY <1>3, <1>6, <2>1, HeaderInSection DEF Lines
    <2>3. at \in S
        <3> HIDE DEF S
        <3> QED BY <1>3, <2>2, GreatestNumber
    <2> QED BY <1>6, <2>3 DEF Lines
<1> HIDE DEF at
<1>8. \A j \in DOMAIN General : Holds(w, General[j], k) = {}
    <2> SUFFICES ASSUME NEW j \in DOMAIN General, NEW x \in Holds(w, General[j], k) PROVE FALSE
        OBVIOUS
    <2>1. x \in 1 .. Len(w) /\ w[x].kind = "key" /\ SectionAt(w, x) = General[j] /\ w[x].name = k
        BY <1>6 DEF Holds, Lines
    <2>2. x \in 1 .. Len(n)
        BY <1>3, <2>1
    <2>3. x \in Holds(n, General[j], k)
        BY <1>3, <1>6, <2>1, <2>2 DEF Holds, Lines
    <2> QED BY <2>3
<1> DEFINE f == [x \in 1 .. Len(w) |-> IF x <= at THEN x ELSE x + 1]
           new == at + 1
<1>9. /\ Embeds(w, m, 1 .. Len(w), f)
      /\ \A x \in 1 .. Len(w) : m[f[x]] = w[x]
      /\ \A y \in 1 .. Len(m) : y # new => \E x \in 1 .. Len(w) : f[x] = y
      /\ new \in 1 .. Len(m) /\ m[new] = line /\ SectionAt(m, new) = "General"
    <2>1. line.kind # "section" /\ line \in IniNode /\ w \in Seq(IniNode) /\ at \in 1 .. Len(w)
        BY <1>1, <1>3, <1>7
    <2>2. \A x \in 1 .. Len(w) : f[x] = IF x <= at THEN x ELSE x + 1
        OBVIOUS
    <2> HIDE DEF f
    <2>3. /\ Embeds(w, m, 1 .. Len(w), f)
          /\ \A x \in 1 .. Len(w) : m[f[x]] = w[x]
          /\ \A y \in 1 .. Len(m) : y # at + 1 => \E x \in 1 .. Len(w) : f[x] = y
          /\ at + 1 \in 1 .. Len(m) /\ m[at + 1] = line /\ SectionAt(m, at + 1) = SectionAt(w, at)
        BY <1>5, <2>1, <2>2, InsertEmbeds
    <2> QED BY <1>7, <2>3
<1> HIDE DEF f, new
<1>10. m \in Seq(IniNode) /\ Len(m) \in Nat /\ DOMAIN m = 1 .. Len(m)
    BY <1>9 DEF Embeds
<1>11. ASSUME NEW j \in DOMAIN General, NEW y \in Holds(m, General[j], k) PROVE y = new
    <2>1. y \in 1 .. Len(m) /\ m[y].kind = "key" /\ SectionAt(m, y) = General[j] /\ m[y].name = k
        BY <1>10 DEF Holds, Lines
    <2>2. SUFFICES ASSUME y # new PROVE FALSE
        OBVIOUS
    <2>3. PICK x \in 1 .. Len(w) : f[x] = y
        BY <1>9, <2>1, <2>2
    <2>4. w[x] = m[y] /\ SectionAt(w, x) = SectionAt(m, y)
        BY <1>9, <2>3, SectionMoves
    <2>5. x \in Holds(w, General[j], k)
        BY <1>6, <2>1, <2>4 DEF Holds, Lines
    <2> QED BY <1>8, <2>5
<1>12. new \in Holds(m, "General", k)
    BY <1>1, <1>9, <1>10 DEF Holds, Lines
<1>13. RawValue(m, k) = v
    <2>1. 2 \in DOMAIN General /\ General[2] = "General" /\ DOMAIN General = 1 .. 2
        BY SettingNames
    <2>2. \A j \in DOMAIN General : j < 2 => Holds(m, General[j], k) = {}
        <3> SUFFICES ASSUME NEW j \in DOMAIN General, j < 2, NEW y \in Holds(m, General[j], k) PROVE FALSE
            OBVIOUS
        <3>1. j = 1 /\ General[j] = "FreeType"
            BY <2>1, SettingNames
        <3>2. y = new
            BY <1>11
        <3>3. SectionAt(m, y) = "FreeType"
            BY <3>1 DEF Holds, Lines
        <3> QED BY <1>9, <3>2, <3>3
    <2>3. RawValue(m, k) = m[Latest(Holds(m, "General", k))].value
        BY <1>12, <2>1, <2>2, RawIs
    <2>4. Latest(Holds(m, "General", k)) = new
        <3>1. Holds(m, "General", k) \in SUBSET (1 .. Len(m))
            BY <1>10 DEF Holds, Lines
        <3>2. Latest(Holds(m, "General", k)) \in Holds(m, "General", k)
            BY <1>10, <1>12, <3>1, GreatestNumber
        <3> QED BY <1>11, <2>1, <3>2
    <2> QED BY <1>1, <1>9, <2>3, <2>4
<1>14. Agree(w, m, K, List)
    <2>1. Foreign(m, new, K, List)
        <3>1. "General" \in Range(General)
            BY SettingNames
        <3> QED BY <1>1, <1>9, <3>1, SettingNames DEF Foreign
    <2>2. \A x \in 1 .. Len(w) : (x \in 1 .. Len(w) /\ m[f[x]] = w[x]) \/ Foreign(w, x, K, List)
        BY <1>9
    <2>3. \A y \in 1 .. Len(m) : (\E x \in 1 .. Len(w) : f[x] = y) \/ Foreign(m, y, K, List)
        BY <1>9, <2>1
    <2> QED BY <1>9, <2>2, <2>3, EmbedsAgree
<1> QED BY <1>3, <1>13, <1>14, AgreeTwice

\* Writing a setting writes that setting and nothing else.
LEMMA SettingIsWritten ==
    ASSUME NEW n \in Seq(IniNode), NEW k \in Key \cup Shape, NEW v \in Value, NEW m, m = SetRawValue(n, k, v),
           NEW K, k \notin K
    PROVE  RawValue(m, k) = v /\ Agree(n, m, K, List)
<1> DEFINE held == {i \in DOMAIN General : Holds(n, General[i], k) # {}}
           c == CHOOSE i \in held : \A j \in held : i <= j
           p == Latest(Holds(n, General[c], k))
<1>0. v # None /\ Len(n) \in Nat /\ DOMAIN n = 1 .. Len(n)
    BY NamesAssumption
<1>1. m = IF held = {} THEN Inserted(n, "General", KeyValue(k, v)) ELSE [n EXCEPT ![p].value = v]
    BY <1>0 DEF SetRawValue
<1>2. CASE held = {}
    <2>1. \A j \in DOMAIN General : Holds(n, General[j], k) = {}
        BY <1>2
    <2> QED BY <1>1, <1>2, <2>1, SettingIsAdded
<1>3. CASE held # {}
    <2>1. held \in SUBSET (1 .. 2) /\ DOMAIN General = 1 .. 2
        BY SettingNames
    <2>2. \E i \in held : \A j \in held : i <= j
        <3> HIDE DEF held
        <3>1. \A i \in held : i = 1 \/ i = 2
            BY <2>1
        <3>2. CASE 1 \in held
            <4>1. \A j \in held : 1 <= j
                BY <3>1
            <4> QED BY <3>2, <4>1
        <3>3. CASE 1 \notin held
            <4>1. 2 \in held /\ \A j \in held : 2 <= j
                BY <1>3, <3>1, <3>3
            <4> QED BY <4>1
        <3> QED BY <3>2, <3>3
    <2>3. c \in held /\ \A j \in held : c <= j
        <3> HIDE DEF held
        <3> QED BY <2>2, Zenon
    <2> HIDE DEF c
    <2>4. c \in DOMAIN General /\ Holds(n, General[c], k) # {}
        BY <2>3
    <2>5. \A j \in DOMAIN General : j < c => Holds(n, General[j], k) = {}
        <3> SUFFICES ASSUME NEW j \in DOMAIN General, j < c, Holds(n, General[j], k) # {} PROVE FALSE
            OBVIOUS
        <3>1. j \in held /\ j \in 1 .. 2 /\ c \in 1 .. 2
            BY <2>1, <2>4
        <3>2. c <= j
            BY <2>3, <3>1
        <3> QED BY <3>1, <3>2
    <2>6. Holds(n, General[c], k) \in SUBSET (1 .. Len(n))
        BY <1>0 DEF Holds, Lines
    <2>7. p \in Holds(n, General[c], k)
        BY <1>0, <2>4, <2>6, GreatestNumber
    <2>8. m = [n EXCEPT ![p].value = v] /\ p = Latest(Holds(n, General[c], k))
        BY <1>1, <1>3
    <2> HIDE DEF p
    <2>9. p \in 1 .. Len(n)
        BY <2>6, <2>7
    <2>10. Changed(n, m, p, v)
        BY <2>8, <2>9, ChangedIs
    <2> QED BY <2>4, <2>5, <2>7, <2>8, <2>10, ValueIsChanged
<1> QED BY <1>2, <1>3

\* Where a selected line goes.
LEMMA RankedLine ==
    ASSUME NEW n \in Seq(IniNode), NEW S \in SUBSET (1 .. Len(n)), NEW x \in S
    PROVE  Rank(S, x) \in 1 .. Cardinality(S) /\ Ordered(n, S)[Rank(S, x)] = n[x]
<1>0. Len(n) \in Nat
    OBVIOUS
<1> DEFINE A == {y \in S : y <= x}
<1>1. A \subseteq S /\ A \in SUBSET (1 .. Len(n)) /\ {x} \subseteq A
    <2>1. x \in Nat /\ x <= x
        BY <1>0
    <2>2. x \in A
        BY <2>1
    <2>3. A \subseteq S
        OBVIOUS
    <2> HIDE DEF A
    <2> QED BY <2>2, <2>3
<1>2. /\ IsFiniteSet(S) /\ Cardinality(S) \in Nat
      /\ IsFiniteSet(A) /\ Cardinality(A) \in Nat
    <2> HIDE DEF A
    <2> QED BY <1>0, <1>1, RangesAreFinite
<1> HIDE DEF A
<1>3. Cardinality(A) <= Cardinality(S)
    BY <1>1, <1>2, FS_Subset
<1>4. Cardinality({x}) = 1 /\ Cardinality({x}) <= Cardinality(A)
    BY <1>1, <1>2, FS_Subset, FS_Singleton
<1> DEFINE i == Rank(S, x)
<1>5. i = Cardinality(A)
    BY DEF Rank, A
<1> HIDE DEF i
<1>6. i \in 1 .. Cardinality(S)
    BY <1>2, <1>3, <1>4, <1>5
<1> DEFINE y == CHOOSE y \in S : Rank(S, y) = i
<1>7. Ordered(n, S)[i] = n[y]
    <2>1. Ordered(n, S) = [j \in 1 .. Cardinality(S) |-> n[CHOOSE z \in S : Rank(S, z) = j]]
        BY DEF Ordered, Rank
    <2> QED BY <1>6, <2>1
<1>8. y \in S /\ Rank(S, y) = i
    <2>1. \E z \in S : Rank(S, z) = i
        BY DEF i
    <2> QED BY <2>1, Zenon
<1> HIDE DEF y
<1>9. y = x
    BY <1>0, <1>8, RankUnique DEF i
<1> QED BY <1>6, <1>7, <1>9 DEF i

\* Some lines up to e, then new ones, then the lines after e.
Splice(m, e, K, new, c, d, r) ==
    /\ m \in Seq(IniNode) /\ e \in 0 .. Len(m) /\ K \in SUBSET (1 .. e) /\ new \in Seq(IniNode)
    /\ c = Cardinality(K) /\ d = c + Len(new)
    /\ r = Ordered(m, K) \o new \o SubSeq(m, e + 1, Len(m))

\* Where the lines of a spliced text come from.
LEMMA SpliceShape ==
    ASSUME NEW m, NEW e, NEW K, NEW new, NEW c, NEW d, NEW r, Splice(m, e, K, new, c, d, r)
    PROVE  /\ c \in Nat /\ d \in Nat /\ r \in Seq(IniNode) /\ Len(r) = d + (Len(m) - e)
           /\ \A i \in 1 .. c : r[i] = Ordered(m, K)[i]
           /\ \A i \in 1 .. Len(new) : r[c + i] = new[i]
           /\ \A i \in 1 .. Len(m) - e : r[d + i] = m[e + i]
<1>00. m \in Seq(IniNode) /\ e \in 0 .. Len(m) /\ K \in SUBSET (1 .. e) /\ new \in Seq(IniNode)
    BY DEF Splice
<1>0. /\ Len(m) \in Nat /\ e \in Nat /\ e <= Len(m) /\ K \in SUBSET (1 .. Len(m)) /\ Len(new) \in Nat
      /\ m \in Seq(IniNode) /\ new \in Seq(IniNode)
    BY <1>00
<1> DEFINE a == Ordered(m, K)
           b == SubSeq(m, e + 1, Len(m))
           ab == a \o new
           q == ab \o b
<1>1. a \in Seq(IniNode) /\ Len(a) = c /\ c \in Nat
    <2>1. c = Cardinality(K)
        BY DEF Splice
    <2> QED BY <1>0, <2>1, OrderedIs
<1>2. b \in Seq(IniNode) /\ Len(b) = Len(m) - e /\ \A i \in 1 .. Len(m) - e : b[i] = m[e + i]
    BY <1>0
<1>3. d \in Nat /\ d = c + Len(new)
    BY <1>0, <1>1 DEF Splice
<1>4. r = q
    BY DEF Splice
<1> HIDE DEF a, b
<1>5. /\ ab \in Seq(IniNode) /\ Len(ab) = d
      /\ \A i \in 1 .. c : ab[i] = a[i]
      /\ \A i \in 1 .. Len(new) : ab[c + i] = new[i]
    <2>1. \A x, y \in Seq(IniNode) : x \o y \in Seq(IniNode) /\ Len(x \o y) = Len(x) + Len(y)
        OBVIOUS
    <2>2. ab \in Seq(IniNode) /\ Len(ab) = Len(a) + Len(new)
        BY <1>0, <1>1, <2>1, Zenon
    <2>3. \A i \in 1 .. c : ab[i] = a[i]
        BY <1>0, <1>1
    <2>4. \A i \in 1 .. Len(new) : ab[c + i] = new[i]
        BY <1>0, <1>1
    <2> HIDE DEF ab
    <2> QED BY <1>1, <1>3, <2>2, <2>3, <2>4
<1> HIDE DEF ab
<1>6. /\ q \in Seq(IniNode) /\ Len(q) = d + Len(b)
      /\ \A i \in 1 .. d : q[i] = ab[i]
      /\ \A i \in 1 .. Len(b) : q[d + i] = b[i]
    <2>1. \A x, y \in Seq(IniNode) : x \o y \in Seq(IniNode) /\ Len(x \o y) = Len(x) + Len(y)
        OBVIOUS
    <2>2. q \in Seq(IniNode) /\ Len(q) = Len(ab) + Len(b)
        BY <1>2, <1>5, <2>1, Zenon
    <2>3. \A i \in 1 .. d : q[i] = ab[i]
        BY <1>2, <1>3, <1>5
    <2>4. \A i \in 1 .. Len(b) : q[d + i] = b[i]
        BY <1>2, <1>3, <1>5
    <2> HIDE DEF q
    <2> QED BY <1>5, <2>2, <2>3, <2>4
<1> HIDE DEF q
<1>7. \A i \in 1 .. c : i \in 1 .. d
    BY <1>0, <1>1, <1>3
<1>8. \A i \in 1 .. Len(new) : c + i \in 1 .. d
    BY <1>0, <1>1, <1>3
<1>9. \A i \in 1 .. c : r[i] = a[i]
    BY <1>4, <1>5, <1>6, <1>7
<1>10. \A i \in 1 .. Len(new) : r[c + i] = new[i]
    BY <1>4, <1>5, <1>6, <1>8
<1>11. \A i \in 1 .. Len(m) - e : r[d + i] = m[e + i]
    BY <1>2, <1>4, <1>6
<1> QED BY <1>1, <1>2, <1>3, <1>4, <1>6, <1>9, <1>10, <1>11 DEF a

\* The places of the lines that stay.
Spliced(m, e, K, new, d, D, f) ==
    /\ \A x : x \in D <=> x \in K \/ x \in e + 1 .. Len(m)
    /\ \A x \in 1 .. e : m[x].kind = "section" => x \in K
    /\ \A x \in K : f[x] = Rank(K, x)
    /\ \A x \in e + 1 .. Len(m) : f[x] = d + (x - e)
    /\ \A i \in 1 .. Len(new) : new[i].kind # "section"

\* A spliced text has the lines that stay, in their order.
LEMMA SpliceEmbeds ==
    ASSUME NEW m, NEW e, NEW K, NEW new, NEW c, NEW d, NEW r, Splice(m, e, K, new, c, d, r),
           NEW D, NEW f, Spliced(m, e, K, new, d, D, f)
    PROVE  /\ Embeds(m, r, D, f) /\ c \in Nat /\ d \in Nat /\ r \in Seq(IniNode) /\ Len(r) \in Nat
           /\ \A x \in D : r[f[x]] = m[x]
           /\ \A y \in 1 .. Len(r) : y \in c + 1 .. d \/ \E x \in D : f[x] = y
           /\ \A i \in 1 .. Len(new) : c + i \in 1 .. Len(r) /\ r[c + i] = new[i]
           /\ \A x \in K : f[x] \in 1 .. c
           /\ \A x \in D : x \notin K => f[x] > d
<1>00. m \in Seq(IniNode) /\ e \in 0 .. Len(m) /\ K \in SUBSET (1 .. e) /\ new \in Seq(IniNode)
    BY DEF Splice
<1>0. /\ Len(m) \in Nat /\ e \in Nat /\ e <= Len(m) /\ K \in SUBSET (1 .. Len(m)) /\ Len(new) \in Nat
      /\ m \in Seq(IniNode) /\ new \in Seq(IniNode) /\ K \in SUBSET (1 .. e)
    BY <1>00
<1>0b. /\ \A x : x \in D <=> x \in K \/ x \in e + 1 .. Len(m)
       /\ \A x \in 1 .. e : m[x].kind = "section" => x \in K
       /\ \A i \in 1 .. Len(new) : new[i].kind # "section"
    BY DEF Spliced
<1>0a. c = Cardinality(K) /\ d = c + Len(new)
    BY DEF Splice
<1>1. /\ c \in Nat /\ d \in Nat /\ r \in Seq(IniNode) /\ Len(r) = d + (Len(m) - e)
      /\ \A i \in 1 .. c : r[i] = Ordered(m, K)[i]
      /\ \A i \in 1 .. Len(new) : r[c + i] = new[i]
      /\ \A i \in 1 .. Len(m) - e : r[d + i] = m[e + i]
    BY SpliceShape
<1>1a. Len(r) \in Nat /\ c <= d /\ d <= Len(r) /\ d = c + Len(new)
    BY <1>0, <1>0a, <1>1
<1>2. ASSUME NEW x \in K PROVE f[x] \in 1 .. c /\ r[f[x]] = m[x] /\ f[x] = Rank(K, x)
    <2>1. f[x] = Rank(K, x)
        BY DEF Spliced
    <2>2. Rank(K, x) \in 1 .. c /\ Ordered(m, K)[Rank(K, x)] = m[x]
        BY <1>0, <1>0a, RankedLine
    <2> QED BY <1>1, <2>1, <2>2
<1>3. ASSUME NEW x \in e + 1 .. Len(m) PROVE f[x] = d + (x - e) /\ f[x] \in d + 1 .. Len(r) /\ r[f[x]] = m[x]
    <2>1. f[x] = d + (x - e)
        BY DEF Spliced
    <2>2. x - e \in 1 .. Len(m) - e /\ e + (x - e) = x /\ d + (x - e) \in d + 1 .. Len(r)
        BY <1>0, <1>1
    <2>3. r[d + (x - e)] = m[e + (x - e)]
        BY <1>1, <2>2
    <2> QED BY <2>1, <2>2, <2>3
<1>4. \A x \in D : r[f[x]] = m[x]
    BY <1>0b, <1>2, <1>3
<1>5. \A x \in D : f[x] \in 1 .. Len(r)
    <2> TAKE x \in D
    <2> DEFINE y == f[x]
    <2>1. y \in 1 .. c \/ y \in d + 1 .. Len(r)
        BY <1>0b, <1>2, <1>3
    <2> HIDE DEF y
    <2>2. y \in 1 .. Len(r)
        BY <1>1, <1>1a, <2>1
    <2> QED BY <2>2 DEF y
<1>6. ASSUME NEW x \in D, NEW z \in D, x < z PROVE f[x] < f[z]
    <2>1. CASE x \in K /\ z \in K
        <3>1. Rank(K, x) < Rank(K, z)
            BY <1>0, <1>6, <2>1, RankMonotone
        <3> QED BY <1>2, <2>1, <3>1
    <2>2. CASE x \in K /\ z \in e + 1 .. Len(m)
        <3>1. f[x] \in 1 .. c /\ f[z] \in d + 1 .. Len(r)
            BY <1>2, <1>3, <2>2
        <3> QED BY <1>1, <1>1a, <3>1
    <2>3. CASE x \in e + 1 .. Len(m) /\ z \in e + 1 .. Len(m)
        <3>1. f[x] = d + (x - e) /\ f[z] = d + (z - e)
            BY <1>3, <2>3
        <3>2. d + (x - e) < d + (z - e)
            BY <1>0, <1>1, <1>6, <2>3
        <3> QED BY <3>1, <3>2
    <2>4. CASE x \in e + 1 .. Len(m) /\ z \in K
        <3>1. x \in Nat /\ z \in Nat /\ x > e /\ z <= e
            BY <1>0, <2>4
        <3> QED BY <1>0, <1>6, <3>1
    <2> QED BY <1>0b, <2>1, <2>2, <2>3, <2>4
<1>7. ASSUME NEW y \in 1 .. Len(r) PROVE y \in c + 1 .. d \/ \E x \in D : f[x] = y
    <2>0. y \in Nat /\ (y <= c \/ (y > c /\ y <= d) \/ y > d)
        BY <1>1
    <2>1. CASE y <= c
        <3>1. y \in 1 .. Cardinality(K)
            BY <1>0a, <1>1, <2>0, <2>1
        <3>2. PICK x \in K : Rank(K, x) = y
            BY <1>0, <3>1, RankIs
        <3> QED BY <1>0b, <1>2, <3>2
    <2>2. CASE y > c /\ y <= d
        BY <1>1, <2>0, <2>2
    <2>3. CASE y > d
        <3> DEFINE x == e + (y - d)
        <3>1. x \in e + 1 .. Len(m) /\ d + (x - e) = y
            BY <1>0, <1>1, <2>0, <2>3
        <3> HIDE DEF x
        <3> QED BY <1>0b, <1>3, <3>1
    <2> QED BY <2>0, <2>1, <2>2, <2>3
<1>8. ASSUME NEW i \in 1 .. Len(new) PROVE c + i \in 1 .. Len(r) /\ r[c + i] = new[i]
    BY <1>0, <1>1, <1>1a
<1>9. ASSUME NEW y \in c + 1 .. d PROVE r[y].kind # "section"
    <2> DEFINE i == y - c
    <2>1. i \in 1 .. Len(new) /\ c + i = y
        BY <1>0, <1>1, <1>1a
    <2> HIDE DEF i
    <2> QED BY <1>0b, <1>8, <2>1
<1>10. D \in SUBSET (1 .. Len(m)) /\ \A x \in 1 .. Len(m) : m[x].kind = "section" => x \in D
    <2>1. \A x \in 1 .. Len(m) : x \in 1 .. e \/ x \in e + 1 .. Len(m)
        BY <1>0
    <2>2. \A x \in e + 1 .. Len(m) : x \in 1 .. Len(m)
        BY <1>0
    <2> QED BY <1>0, <1>0b, <2>1, <2>2
<1>11. Embeds(m, r, D, f)
    <2>1. \A x \in D : r[f[x]].kind = m[x].kind /\ r[f[x]].name = m[x].name
        BY <1>4
    <2>2. \A y \in 1 .. Len(r) : r[y].kind = "section" => \E x \in D : f[x] = y
        BY <1>7, <1>9
    <2> QED BY <1>0, <1>1, <1>5, <1>6, <1>10, <2>1, <2>2 DEF Embeds
<1>12. \A x \in D : x \notin K => f[x] > d
    <2> SUFFICES ASSUME NEW x \in D, x \notin K PROVE f[x] > d
        OBVIOUS
    <2>1. f[x] \in d + 1 .. Len(r)
        BY <1>0b, <1>3
    <2> QED BY <1>1, <1>1a, <2>1
<1> QED BY <1>1, <1>1a, <1>2, <1>4, <1>7, <1>8, <1>11, <1>12

\* A set of at most one element has no two.
LEMMA AtMostOne ==
    ASSUME NEW H, IsFiniteSet(H), Cardinality(H) <= 1, NEW x \in H, NEW y \in H
    PROVE  x = y
<1> SUFFICES ASSUME x # y PROVE FALSE
    OBVIOUS
<1>1. IsFiniteSet({x}) /\ Cardinality({x}) = 1 /\ y \notin {x}
    BY FS_Singleton
<1>2. Cardinality({x} \cup {y}) = 2
    BY <1>1, FS_AddElement
<1>3. {x} \cup {y} \subseteq H
    OBVIOUS
<1>4. Cardinality({x} \cup {y}) <= Cardinality(H) /\ Cardinality(H) \in Nat
    BY <1>3, FS_Subset, FS_CardinalityType
<1> QED BY <1>2, <1>4

\* From the header of a section to the line before the next header.
Spans(w, start, end) ==
    /\ start \in 1 .. Len(w) /\ end \in start .. Len(w) /\ w[start].kind = "section"
    /\ \A x \in 1 .. Len(w) : x > start /\ x <= end => w[x].kind # "section"
    /\ \A x \in 1 .. Len(w) : x > end => end + 1 \in 1 .. Len(w) /\ w[end + 1].kind = "section"

\* The span of a section as replace_section computes it.
LEMMA SectionSpans ==
    ASSUME NEW w \in Seq(IniNode), NEW start \in 1 .. Len(w), w[start].kind = "section",
           NEW follow, follow = SelectInSubSeq(w, start + 1, Len(w), LAMBDA l : l.kind = "section"),
           NEW end, end = IF follow = 0 THEN Len(w) ELSE follow - 1
    PROVE  Spans(w, start, end)
<1> DEFINE J == {i \in start + 1 .. Len(w) : w[i].kind = "section"}
<1>0. Len(w) \in Nat /\ start \in Nat /\ start <= Len(w) /\ start >= 1
    OBVIOUS
<1>1. CASE J = {}
    <2>1. follow = 0
        BY <1>1 DEF SelectInSubSeq
    <2>2. end = Len(w)
        BY <2>1
    <2>3. \A x \in 1 .. Len(w) : x > start => w[x].kind # "section"
        <3> TAKE x \in 1 .. Len(w)
        <3> HAVE x > start
        <3>1. x \in start + 1 .. Len(w)
            BY <1>0
        <3> QED BY <1>1, <3>1
    <2>4. end \in start .. Len(w) /\ \A x \in 1 .. Len(w) : ~(x > end)
        BY <1>0, <2>2
    <2> QED BY <2>3, <2>4 DEF Spans
<1>2. CASE J # {}
    <2>1. follow = Min(J)
        BY <1>2 DEF SelectInSubSeq
    <2>2. J \in SUBSET (1 .. Len(w))
        BY <1>0
    <2>3. Min(J) \in J /\ \A y \in J : Min(J) <= y
        <3> HIDE DEF J
        <3> QED BY <1>0, <1>2, <2>2, GreatestNumber
    <2>4. follow \in start + 1 .. Len(w) /\ w[follow].kind = "section" /\ \A y \in J : follow <= y
        BY <2>1, <2>3
    <2>5. follow \in Nat /\ follow # 0 /\ end = follow - 1 /\ end + 1 = follow /\ follow \in 1 .. Len(w)
        BY <1>0, <2>4
    <2>6. end \in start .. Len(w)
        BY <1>0, <2>4, <2>5
    <2>7. \A x \in 1 .. Len(w) : x > start /\ x <= end => w[x].kind # "section"
        <3> TAKE x \in 1 .. Len(w)
        <3> HAVE x > start /\ x <= end
        <3>1. x \in start + 1 .. Len(w) /\ ~(follow <= x)
            BY <1>0, <2>4, <2>5, <2>6
        <3> QED BY <2>4, <3>1
    <2> QED BY <2>4, <2>5, <2>6, <2>7 DEF Spans
<1> QED BY <1>1, <1>2

\* The lines of a section that occurs once are those of its span.
LEMMA SpanIsSection ==
    ASSUME NEW w \in Seq(IniNode), NEW start, NEW end, Spans(w, start, end), NEW x \in 1 .. Len(w)
    PROVE  /\ x >= start /\ x <= end => Heads(w, x, start) /\ SectionAt(w, x) = w[start].name
           /\ Heads(w, x, start) => x >= start /\ x <= end
<1>0. /\ start \in 1 .. Len(w) /\ end \in start .. Len(w) /\ w[start].kind = "section" /\ Len(w) \in Nat
      /\ \A j \in 1 .. Len(w) : j > start /\ j <= end => w[j].kind # "section"
      /\ \A j \in 1 .. Len(w) : j > end => end + 1 \in 1 .. Len(w) /\ w[end + 1].kind = "section"
    BY DEF Spans
<1>1. start \in Nat /\ end \in Nat /\ x \in Nat /\ start <= end /\ end <= Len(w)
    BY <1>0
<1>2. ASSUME x >= start, x <= end PROVE Heads(w, x, start) /\ SectionAt(w, x) = w[start].name
    <2>1. \A j \in 1 .. x : w[j].kind = "section" => j <= start
        <3> SUFFICES ASSUME NEW j \in 1 .. x, w[j].kind = "section", ~(j <= start) PROVE FALSE
            OBVIOUS
        <3>1. j \in 1 .. Len(w) /\ j > start /\ j <= end
            BY <1>0, <1>1, <1>2
        <3> QED BY <1>0, <3>1
    <2>2. start \in 1 .. x
        BY <1>0, <1>1, <1>2
    <2>3. Heads(w, x, start)
        BY <1>0, <2>1, <2>2 DEF Heads
    <2> QED BY <2>3, HeadsSection
<1>3. ASSUME Heads(w, x, start) PROVE x >= start /\ x <= end
    <2>1. start \in 1 .. x /\ \A j \in 1 .. x : w[j].kind = "section" => j <= start
        BY <1>3 DEF Heads
    <2>2. SUFFICES ASSUME x > end PROVE FALSE
        BY <1>1, <2>1
    <2>3. end + 1 \in 1 .. Len(w) /\ w[end + 1].kind = "section"
        BY <1>0, <2>2
    <2>4. end + 1 \in 1 .. x
        BY <1>1, <2>2
    <2>5. end + 1 <= start
        BY <2>1, <2>3, <2>4
    <2> QED BY <1>1, <2>5
<1> QED BY <1>2, <1>3

\* The lines up to the end of a section but for the entries and keys of the section.
Undropped(w, start, end, kept) ==
    \A x : x \in kept <=> x \in 1 .. end /\ (x > start => w[x].kind \notin {"entry", "key"})

\* Line start is the only header of section s.
OnlyHeader(w, s, start) == \A x \in 1 .. Len(w) : w[x].kind = "section" /\ w[x].name = s => x = start

\* Lines that are all entries.
AllEntries(new) == new \in Seq(IniNode) /\ \A i \in 1 .. Len(new) : new[i].kind = "entry"

\* The entries of section s in w, from start to end, give way to new: the result is r.
SpanGivesWay(w, s, start, end, new, kept, c, d, r) ==
    /\ w \in Seq(IniNode) /\ s \in List /\ Spans(w, start, end) /\ w[start].name = s
    /\ OnlyHeader(w, s, start) /\ AllEntries(new) /\ Undropped(w, start, end, kept)
    /\ Splice(w, end, kept, new, c, d, r)

\* In r the list s is new, and everything else is as in n.
ListBecomes(n, s, new, r, K) == ListEntries(r, s) = new /\ Agree(n, r, K, List \ {s})

\* What replaces the entries of a section that occurs once is what the section
\* has then, and nothing else changes.
LEMMA SpanIsReplaced ==
    ASSUME NEW w, NEW s, NEW start, NEW end, NEW new, NEW kept, NEW c, NEW d, NEW r, NEW K,
           SpanGivesWay(w, s, start, end, new, kept, c, d, r)
    PROVE  ListBecomes(w, s, new, r, K)
<1> SUFFICES ASSUME w \in Seq(IniNode), s \in List, Spans(w, start, end), w[start].name = s,
                    OnlyHeader(w, s, start), AllEntries(new), Undropped(w, start, end, kept),
                    Splice(w, end, kept, new, c, d, r)
             PROVE  ListEntries(r, s) = new /\ Agree(w, r, K, List \ {s})
    BY DEF SpanGivesWay, ListBecomes
<1> DEFINE D == kept \cup (end + 1 .. Len(w))
           f == [x \in 1 .. Len(w) |-> IF x <= end THEN Rank(kept, x) ELSE d + (x - end)]
<1>0. /\ start \in 1 .. Len(w) /\ end \in start .. Len(w) /\ w[start].kind = "section" /\ Len(w) \in Nat
      /\ start \in Nat /\ end \in Nat /\ start <= end /\ end <= Len(w) /\ start >= 1 /\ Len(new) \in Nat
      /\ \A j \in 1 .. Len(w) : j > start /\ j <= end => w[j].kind # "section"
    BY DEF Spans, AllEntries
<1>0a. new \in Seq(IniNode) /\ \A i \in 1 .. Len(new) : new[i].kind = "entry"
    BY DEF AllEntries
<1>1. \A x : x \in kept <=> x \in 1 .. end /\ (x > start => w[x].kind \notin {"entry", "key"})
    BY DEF Undropped
<1>2. \A x : x \in D <=> x \in kept \/ x \in end + 1 .. Len(w)
    OBVIOUS
<1>3. Spliced(w, end, kept, new, d, D, f)
    <2>1. \A x \in kept : x \in 1 .. Len(w) /\ x <= end
        BY <1>0, <1>1
    <2>2. \A x \in end + 1 .. Len(w) : x \in 1 .. Len(w) /\ ~(x <= end)
        BY <1>0
    <2>3. \A x \in 1 .. end : w[x].kind = "section" => x \in kept
        BY <1>1
    <2>4. \A x \in kept : f[x] = Rank(kept, x)
        BY <2>1
    <2>5. \A x \in end + 1 .. Len(w) : f[x] = d + (x - end)
        BY <2>2
    <2> HIDE DEF D, f
    <2> QED BY <1>0a, <1>2, <2>3, <2>4, <2>5 DEF Spliced
<1> HIDE DEF f, D
<1>7. /\ Embeds(w, r, D, f) /\ c \in Nat /\ d \in Nat /\ r \in Seq(IniNode) /\ Len(r) \in Nat
      /\ \A x \in D : r[f[x]] = w[x]
      /\ \A y \in 1 .. Len(r) : y \in c + 1 .. d \/ \E x \in D : f[x] = y
      /\ \A i \in 1 .. Len(new) : c + i \in 1 .. Len(r) /\ r[c + i] = new[i]
      /\ \A x \in kept : f[x] \in 1 .. c
      /\ \A x \in D : x \notin kept => f[x] > d
    BY <1>3, SpliceEmbeds
<1>8. d = c + Len(new) /\ c <= d
    BY <1>0, <1>7 DEF Splice
\* What was dropped.
<1>9. ASSUME NEW x \in 1 .. Len(w), x \notin D PROVE SectionAt(w, x) = s
    <2>1. x \notin kept /\ x \in 1 .. end
        BY <1>0, <1>2, <1>9
    <2>2. x > start
        BY <1>1, <2>1
    <2> QED BY <1>0, <2>1, <2>2, SpanIsSection
\* What is new.
<1>10. ASSUME NEW y \in c + 1 .. d
       PROVE  y \in 1 .. Len(r) /\ r[y].kind = "entry" /\ r[y] = new[y - c] /\ y - c \in 1 .. Len(new)
    <2> DEFINE i == y - c
    <2>1. i \in 1 .. Len(new) /\ c + i = y
        BY <1>0, <1>7, <1>8
    <2> HIDE DEF i
    <2>2. y \in 1 .. Len(r) /\ r[y] = new[i] /\ new[i].kind = "entry"
        BY <1>0a, <1>7, <2>1
    <2> QED BY <2>1, <2>2 DEF i
<1>11. start \in kept /\ start \in D
    BY <1>0, <1>1, <1>2
<1>12. ASSUME NEW y \in c + 1 .. d PROVE SectionAt(r, y) = s
    <2> DEFINE h == f[start]
    <2>1. h \in 1 .. c /\ r[h] = w[start]
        BY <1>7, <1>11
    <2> HIDE DEF h
    <2>2. h \in 1 .. y /\ r[h].kind = "section" /\ r[h].name = s
        BY <1>0, <1>7, <2>1
    <2>3. ASSUME NEW j \in 1 .. y, r[j].kind = "section" PROVE j <= h
        <3>1. j \in 1 .. Len(r) /\ j \notin c + 1 .. d
            <4>1. y \in 1 .. Len(r) /\ Len(r) \in Nat
                BY <1>7, <1>10
            <4>2. j \in 1 .. Len(r)
                BY <4>1
            <4>3. \A z \in c + 1 .. d : r[z].kind = "entry"
                BY <1>10
            <4>4. r[j].kind # "entry"
                BY <2>3
            <4> QED BY <4>2, <4>3, <4>4, Zenon
        <3>2. PICK x \in D : f[x] = j
            BY <1>7, <3>1
        <3>3. x \in 1 .. Len(w) /\ w[x].kind = "section"
            <4>1. x \in 1 .. Len(w)
                BY <1>7 DEF Embeds
            <4> QED BY <1>7, <2>3, <3>2, <4>1
        <3>4. x \in kept
            <4> SUFFICES ASSUME x \notin kept PROVE FALSE
                OBVIOUS
            <4>1. j > d
                BY <1>7, <3>2
            <4> QED BY <1>7, <1>8, <4>1
        <3>5. x <= start
            <4>1. x <= end
                BY <1>0, <1>1, <3>4
            <4> QED BY <1>0, <3>3, <4>1
        <3>6. f[x] <= f[start]
            BY <1>7, <1>11, <3>5, EmbedsOrder
        <3> QED BY <3>2, <3>6 DEF h
    <2>4. Heads(r, y, h)
        BY <2>2, <2>3 DEF Heads
    <2>5. SectionAt(r, y) = r[h].name
        <3>1. r \in Seq(IniNode) /\ y \in 1 .. Len(r)
            BY <1>7, <1>10
        <3> QED BY <2>4, <3>1, HeadsSection
    <2> QED BY <2>2, <2>5
\* Nothing of the old list is left.
<1> DEFINE T == Lines(r, s, {"entry", "key"})
<1>13. \A y : y \in T <=> y \in 1 .. Len(r) /\ r[y].kind \in {"entry", "key"} /\ SectionAt(r, y) = s
    <2>1. DOMAIN r = 1 .. Len(r)
        BY <1>7
    <2> QED BY <2>1 DEF Lines
<1> HIDE DEF T
<1>14. ASSUME NEW y \in T PROVE y \in c + 1 .. d
    <2> SUFFICES ASSUME y \notin c + 1 .. d PROVE FALSE
        OBVIOUS
    <2>1. y \in 1 .. Len(r) /\ r[y].kind \in {"entry", "key"} /\ SectionAt(r, y) = s
        BY <1>13
    <2>2. PICK x \in D : f[x] = y
        BY <1>7, <2>1
    <2>3. x \in 1 .. Len(w)
        BY <1>7 DEF Embeds
    <2>4. w[x].kind \in {"entry", "key"} /\ SectionAt(w, x) = s
        BY <1>7, <2>1, <2>2, SectionMoves
    <2>5. CASE \E h : Heads(w, x, h)
        <3>1. PICK h : Heads(w, x, h)
            BY <2>5
        <3>2. w[h].name = s
            BY <2>3, <2>4, <3>1, HeadsSection
        <3>3. h \in 1 .. x /\ w[h].kind = "section"
            BY <3>1 DEF Heads
        <3>4. h \in 1 .. Len(w)
            BY <1>0, <2>3, <3>3
        <3>5. h = start
            BY <3>2, <3>3, <3>4 DEF OnlyHeader
        <3>6. x >= start /\ x <= end
            BY <2>3, <3>1, <3>5, SpanIsSection
        <3>7. x # start
            BY <1>0, <2>4
        <3>8. x > start /\ x \notin end + 1 .. Len(w)
            BY <1>0, <2>3, <3>6, <3>7
        <3> QED BY <1>1, <1>2, <2>4, <3>8
    <2>6. CASE \A j \in 1 .. x : w[j].kind # "section"
        <3>1. SectionAt(w, x) = None
            BY <2>3, <2>6, BeforeSections
        <3> QED BY <2>4, <3>1, NamesAssumption
    <2> QED BY <2>3, <2>5, <2>6, SectionIs
<1>15. T = c + 1 .. d
    <2>1. \A y : y \in T <=> y \in c + 1 .. d
        BY <1>10, <1>12, <1>13, <1>14
    <2> QED BY <2>1
<1>16. ListEntries(r, s) = new
    <2> DEFINE g == [i \in 1 .. Len(new) |-> c + i]
               S == 1 .. Len(new)
    <2>1. \A i \in S : g[i] = c + i /\ c + i \in T /\ r[c + i] = new[i]
        <3> TAKE i \in S
        <3>1. c + i \in c + 1 .. d
            BY <1>0, <1>7, <1>8
        <3> QED BY <1>7, <1>15, <3>1
    <2>2. \A y \in T : \E i \in S : g[i] = y
        <3> TAKE y \in T
        <3> DEFINE i == y - c
        <3>1. y \in c + 1 .. d
            BY <1>15
        <3>2. i \in 1 .. Len(new) /\ c + i = y
            BY <1>0, <1>7, <1>8, <3>1
        <3> HIDE DEF i
        <3> QED BY <3>2
    <2>3. \A i, j \in S : i < j => g[i] < g[j]
        BY <1>7
    <2> HIDE DEF g
    <2>4. T \in SUBSET (1 .. Len(r)) /\ S \in SUBSET (1 .. Len(new))
        BY <1>13
    <2>5. Carried(new, r, S, T, g)
        BY <1>0a, <1>7, <2>1, <2>2, <2>3, <2>4 DEF Carried
    <2>6. Ordered(r, T) = Ordered(new, S)
        BY <2>5, OrderedMoves
    <2>7. Ordered(new, S) = new
        BY <1>0a, OrderedAll
    <2> QED BY <2>6, <2>7 DEF ListEntries, T
<1> DEFINE L == List \ {s}
<1>17. Agree(w, r, K, L)
    <2>1. s # Individual /\ s \notin Range(General) /\ s \notin L
        BY ListAssumption, SettingNames
    <2> HIDE DEF L
    <2>2. \A x \in 1 .. Len(w) : (x \in D /\ r[f[x]] = w[x]) \/ Foreign(w, x, K, L)
        BY <1>7, <1>9, <2>1 DEF Foreign
    <2>3. \A y \in 1 .. Len(r) : (\E x \in D : f[x] = y) \/ Foreign(r, y, K, L)
        BY <1>7, <1>12, <2>1 DEF Foreign
    <2> QED BY <1>7, <2>2, <2>3, EmbedsAgree
<1> QED BY <1>16, <1>17

\* The editor's view after one setting was written.
LEMMA ViewOfSetting ==
    ASSUME NEW n, NEW m, NEW k \in Key, NEW v \in Value, RawValue(m, k) = v,
           Agree(n, m, (Key \cup Shape) \ {k}, List)
    PROVE  View(m) = [View(n) EXCEPT !.settings[k] = v]
<1> DEFINE settings(t) == [j \in Key |-> SettingValue(t, j)]
           shapes(t) == [j \in Shape |-> RawValue(t, j)]
           lists(t) == [s \in List |-> [i \in DOMAIN ListEntries(t, s) |-> Says(ListEntries(t, s)[i])]]
           fonts(t) == [i \in DOMAIN Individuals(t) |-> Says(Individuals(t)[i])]
<1>1. \A t : View(t) = [settings |-> settings(t), shapes |-> shapes(t), lists |-> lists(t), fonts |-> fonts(t)]
    BY DEF View
<1>2. settings(m) = [settings(n) EXCEPT ![k] = v]
    <2>1. SettingValue(m, k) = v
        BY DEF SettingValue
    <2>2. \A j \in Key : j # k => SettingValue(m, j) = SettingValue(n, j)
        BY DEF Agree, SettingValue
    <2> QED BY <2>1, <2>2
<1>3. shapes(m) = shapes(n)
    <2>1. \A j \in Shape : RawValue(m, j) = RawValue(n, j)
        BY NamesAssumption DEF Agree
    <2> QED BY <2>1
<1>4. lists(m) = lists(n)
    <2>1. \A s \in List : ListEntries(m, s) = ListEntries(n, s)
        BY DEF Agree
    <2> QED BY <2>1
<1>5. fonts(m) = fonts(n)
    BY DEF Agree
<1> HIDE DEF settings, shapes, lists, fonts
<1>6. [View(n) EXCEPT !.settings[k] = v] =
        [settings |-> [settings(n) EXCEPT ![k] = v], shapes |-> shapes(n), lists |-> lists(n), fonts |-> fonts(n)]
    BY <1>1
<1> QED BY <1>1, <1>2, <1>3, <1>4, <1>5, <1>6

\* What the editor shows of the lines of a list.
SaidOf(new) == [i \in DOMAIN new |-> Says(new[i])]

\* The editor's view after one list was replaced.
LEMMA ViewOfList ==
    ASSUME NEW n, NEW m, NEW s \in List, NEW new, ListEntries(m, s) = new,
           Agree(n, m, Key \cup Shape, List \ {s})
    PROVE  View(m) = [View(n) EXCEPT !.lists[s] = SaidOf(new)]
<1> DEFINE settings(t) == [j \in Key |-> SettingValue(t, j)]
           shapes(t) == [j \in Shape |-> RawValue(t, j)]
           lists(t) == [u \in List |-> [i \in DOMAIN ListEntries(t, u) |-> Says(ListEntries(t, u)[i])]]
           fonts(t) == [i \in DOMAIN Individuals(t) |-> Says(Individuals(t)[i])]
<1>1. \A t : View(t) = [settings |-> settings(t), shapes |-> shapes(t), lists |-> lists(t), fonts |-> fonts(t)]
    BY DEF View
<1>2. settings(m) = settings(n)
    <2>1. \A j \in Key : SettingValue(m, j) = SettingValue(n, j)
        BY DEF Agree, SettingValue
    <2> QED BY <2>1
<1>3. shapes(m) = shapes(n)
    <2>1. \A j \in Shape : RawValue(m, j) = RawValue(n, j)
        BY DEF Agree
    <2> QED BY <2>1
<1>4. lists(m) = [lists(n) EXCEPT ![s] = SaidOf(new)]
    <2>1. \A u \in List : u # s => ListEntries(m, u) = ListEntries(n, u)
        BY DEF Agree
    <2> QED BY <2>1 DEF SaidOf
<1>5. fonts(m) = fonts(n)
    BY DEF Agree
<1> HIDE DEF settings, shapes, lists, fonts
<1>6. [View(n) EXCEPT !.lists[s] = SaidOf(new)] =
        [settings |-> settings(n), shapes |-> shapes(n), lists |-> [lists(n) EXCEPT ![s] = SaidOf(new)], fonts |-> fonts(n)]
    BY <1>1
<1> QED BY <1>1, <1>2, <1>3, <1>4, <1>5, <1>6

\* Of the lines n, replace_list_section makes the lines r.
ListGivesWay(n, s, new, r) ==
    /\ n \in Seq(IniNode) /\ s \in List /\ Cardinality(Headers(n, s)) <= 1
    /\ AllEntries(new) /\ r = ReplaceSection(n, s, {"entry", "key"}, new)

\* replace_list_section writes the list and nothing else.
LEMMA ListIsWritten ==
    ASSUME NEW n, NEW s, NEW new, NEW r, NEW K, ListGivesWay(n, s, new, r)
    PROVE  ListBecomes(n, s, new, r, K)
<1> DEFINE w == WithSection(n, s)
           start == SelectInSeq(w, LAMBDA l : l.kind = "section" /\ l.name = s)
           I == {i \in 1 .. Len(w) : w[i].kind = "section" /\ w[i].name = s}
           follow == SelectInSubSeq(w, start + 1, Len(w), LAMBDA l : l.kind = "section")
           end == IF follow = 0 THEN Len(w) ELSE follow - 1
           kept == {i \in 1 .. end : i > start => w[i].kind \notin {"entry", "key"}}
           L == List \ {s}
<1>a. n \in Seq(IniNode) /\ s \in List /\ Cardinality(Headers(n, s)) <= 1 /\ AllEntries(new)
    BY DEF ListGivesWay
<1>0. Len(n) \in Nat /\ DOMAIN n = 1 .. Len(n) /\ s \in Section
    BY <1>a, SectionNames
<1>1. r = Ordered(w, kept) \o new \o SubSeq(w, end + 1, Len(w))
    BY DEF ListGivesWay, ReplaceSection
<1>2. /\ Agree(n, w, K, L) /\ w \in Seq(IniNode) /\ Len(w) \in Nat
      /\ \A x \in 1 .. Len(n) : x \in 1 .. Len(w) /\ w[x] = n[x]
      /\ \A x \in 1 .. Len(w) : x \notin 1 .. Len(n) => Headers(n, s) = {} /\ x = Len(n) + 1
    <2> HIDE DEF L
    <2> QED BY <1>a, <1>0, AddedSection
<1>3. \E i \in 1 .. Len(w) : w[i].kind = "section" /\ w[i].name = s
    BY <1>a, <1>0, WithSectionIs
<1> HIDE DEF w
<1>4. start \in 1 .. Len(w) /\ w[start].kind = "section" /\ w[start].name = s
    <2>1. I # {} /\ I \in SUBSET (1 .. Len(w))
        BY <1>3
    <2>2. start = Min(I)
        BY <2>1 DEF SelectInSeq
    <2>3. Min(I) \in I
        <3> HIDE DEF I
        <3> QED BY <1>2, <2>1, GreatestNumber
    <2>4. start \in I
        BY <2>2, <2>3
    <2> HIDE DEF start
    <2> QED BY <2>4
<1> HIDE DEF start
<1>5. ASSUME NEW x \in 1 .. Len(w), NEW y \in 1 .. Len(w), w[x].kind = "section", w[x].name = s,
             w[y].kind = "section", w[y].name = s
      PROVE  x = y
    <2>1. \A z \in 1 .. Len(n) : z \in Headers(n, s) <=> w[z].kind = "section" /\ w[z].name = s
        BY <1>a, <1>0, <1>2 DEF Headers
    <2>2. IsFiniteSet(Headers(n, s))
        <3>1. Headers(n, s) \in SUBSET (1 .. Len(n))
            BY <1>a, <1>0 DEF Headers
        <3> QED BY <1>0, <3>1, RangesAreFinite
    <2>3. CASE x \in 1 .. Len(n) /\ y \in 1 .. Len(n)
        BY <1>a, <1>5, <2>1, <2>2, <2>3, AtMostOne
    <2>4. CASE x \notin 1 .. Len(n) /\ y \notin 1 .. Len(n)
        BY <1>2, <2>4
    <2>5. CASE x \in 1 .. Len(n) /\ y \notin 1 .. Len(n)
        BY <1>2, <1>5, <2>1, <2>5
    <2>6. CASE x \notin 1 .. Len(n) /\ y \in 1 .. Len(n)
        BY <1>2, <1>5, <2>1, <2>6
    <2> QED BY <2>3, <2>4, <2>5, <2>6
<1>6. Spans(w, start, end)
    <2> HIDE DEF follow
    <2>1. end = IF follow = 0 THEN Len(w) ELSE follow - 1
        OBVIOUS
    <2> HIDE DEF end
    <2>2. follow = SelectInSubSeq(w, start + 1, Len(w), LAMBDA l : l.kind = "section")
        BY DEF follow
    <2> QED BY <1>2, <1>4, <2>1, <2>2, SectionSpans
<1> HIDE DEF end
<1> DEFINE c == Cardinality(kept)
           d == c + Len(new)
<1>7. Undropped(w, start, end, kept)
    BY DEF Undropped
<1> HIDE DEF kept
<1>8. Splice(w, end, kept, new, c, d, r)
    <2>1. end \in 0 .. Len(w)
        BY <1>2, <1>6 DEF Spans
    <2>2. kept \in SUBSET (1 .. end)
        BY <1>7 DEF Undropped
    <2> QED BY <1>a, <1>1, <1>2, <2>1, <2>2 DEF Splice, AllEntries
<1> HIDE DEF c, d
<1>9. OnlyHeader(w, s, start)
    BY <1>4, <1>5 DEF OnlyHeader
<1>10. SpanGivesWay(w, s, start, end, new, kept, c, d, r)
    BY <1>a, <1>2, <1>4, <1>6, <1>7, <1>8, <1>9 DEF SpanGivesWay
<1>11. ListBecomes(w, s, new, r, K)
    BY <1>10, SpanIsReplaced
<1>12. ListEntries(r, s) = new /\ Agree(w, r, K, L)
    BY <1>11 DEF ListBecomes
<1>13. Agree(n, w, K, L)
    BY <1>2
<1>14. Agree(n, r, K, L)
    <2> HIDE DEF L
    <2> QED BY <1>12, <1>13, AgreeTwice
<1> QED BY <1>12, <1>14 DEF ListBecomes

\* record_edit leaves the edited lines in the document.
LEMMA EditIsRecorded ==
    ASSUME NEW d, NEW open, SoundDocument(d, open), NEW n, NEW keys
    PROVE  RecordEdit(d, n, keys).nodes = n
<1>1. d \in [path : Path, nodes : Seq(IniNode), base : Seq(IniNode), dirty : SUBSET Touched,
             undo : Seq([nodes : Seq(IniNode), dirty : SUBSET Touched]),
             redo : Seq([nodes : Seq(IniNode), dirty : SUBSET Touched])]
    BY DEF SoundDocument
<1> DEFINE e == [d EXCEPT !.nodes = n, !.dirty = @ \cup keys]
<1>2. e.nodes = n
    BY <1>1
<1>3. CASE Revision(e) = Revision(d)
    <2>1. RecordEdit(d, n, keys) = d
        BY <1>3 DEF RecordEdit
    <2>2. e.nodes = d.nodes
        <3>1. Revision(e).nodes = e.nodes /\ Revision(d).nodes = d.nodes
            BY DEF Revision
        <3> HIDE DEF e
        <3> QED BY <1>3, <3>1
    <2> QED BY <1>2, <2>1, <2>2
<1>4. CASE Revision(e) # Revision(d)
    <2>1. RecordEdit(d, n, keys) = [e EXCEPT !.undo = Pushed(d.undo, Revision(d)), !.redo = <<>>]
        BY <1>4 DEF RecordEdit
    <2> QED BY <1>1, <2>1
<1> QED BY <1>3, <1>4

\* update_profile_setting writes one setting of the view and nothing else.
LEMMA SettingsStayLocal ==
    ASSUME EditorInv PROVE EditIsLocal
<1> SUFFICES ASSUME NEW k \in Key, NEW v \in Value, UpdateSetting(k, v)
             PROVE  View(doc'.nodes) = [View(doc.nodes) EXCEPT !.settings[k] = v]
    BY DEF EditIsLocal
<1> DEFINE n == doc.nodes
           m == SetRawValue(n, k, v)
           K == (Key \cup Shape) \ {k}
<1>1. doc # None /\ doc' = RecordEdit(doc, m, {k})
    BY DEF UpdateSetting, Document
<1>2. SoundDocument(doc, ragged)
    BY <1>1 DEF EditorInv
<1> HIDE DEF m
<1>3. doc'.nodes = m
    BY <1>1, <1>2, EditIsRecorded
<1>4. n \in Seq(IniNode)
    BY <1>2 DEF SoundDocument
<1>5. k \notin K /\ k \in Key \cup Shape
    OBVIOUS
<1> HIDE DEF K
<1>6. RawValue(m, k) = v /\ Agree(n, m, K, List)
    BY <1>4, <1>5, SettingIsWritten DEF m
<1>7. View(m) = [View(n) EXCEPT !.settings[k] = v]
    BY <1>6, ViewOfSetting DEF K
<1> QED BY <1>3, <1>7

\* update_profile_list writes one list of the view and nothing else.
LEMMA ListsAreReplaced ==
    ASSUME EditorInv PROVE ListIsReplaced
<1> SUFFICES ASSUME NEW s \in List, NEW entries \in Short, UpdateList(s, entries),
                    Cardinality(Headers(doc.nodes, s)) <= 1
             PROVE  View(doc'.nodes) = [View(doc.nodes) EXCEPT
                        !.lists[s] = [i \in DOMAIN entries |-> <<entries[i], None>>]]
    BY DEF ListIsReplaced
<1> DEFINE n == doc.nodes
           m == ReplaceListSection(n, s, entries)
           new == [i \in DOMAIN entries |-> Listed(entries[i])]
           said == [i \in DOMAIN entries |-> <<entries[i], None>>]
           K == Key \cup Shape
<1>1. doc # None /\ doc' = RecordEdit(doc, m, {s})
    BY DEF UpdateList, Document
<1>2. SoundDocument(doc, ragged)
    BY <1>1 DEF EditorInv
<1>3. doc'.nodes = m
    <2> HIDE DEF m
    <2> QED BY <1>1, <1>2, EditIsRecorded
<1>4. n \in Seq(IniNode)
    BY <1>2 DEF SoundDocument
<1>5. entries \in Seq(Entry)
    <2>1. <<>> \in Seq(Entry) /\ \A e \in Entry : <<e>> \in Seq(Entry)
        OBVIOUS
    <2> QED BY <2>1 DEF Short
<1>6. DOMAIN entries = 1 .. Len(entries) /\ Len(entries) \in Nat /\ \A i \in 1 .. Len(entries) : entries[i] \in Entry
    BY <1>5
<1>7. \A i \in 1 .. Len(entries) : /\ Listed(entries[i]) \in IniNode /\ Listed(entries[i]).kind = "entry"
                                   /\ Says(Listed(entries[i])) = <<entries[i], None>>
    <2> TAKE i \in 1 .. Len(entries)
    <2>1. Listed(entries[i]) \in IniNode
        BY <1>6, LineTypes
    <2>2. Listed(entries[i]).kind = "entry" /\ Says(Listed(entries[i])) = <<entries[i], None>>
        BY DEF Listed, Says
    <2> QED BY <2>1, <2>2
<1>8. new \in Seq(IniNode) /\ Len(new) = Len(entries) /\ DOMAIN new = DOMAIN entries
    BY <1>6, <1>7
<1>9. AllEntries(new)
    BY <1>6, <1>7, <1>8 DEF AllEntries
<1>10. said = SaidOf(new)
    BY <1>6, <1>7, <1>8 DEF SaidOf
<1>11. m = ReplaceSection(n, s, {"entry", "key"}, new)
    BY DEF ReplaceListSection
<1> HIDE DEF m, new, said, K
<1>12. ListEntries(m, s) = new /\ Agree(n, m, K, List \ {s})
    <2>1. ListGivesWay(n, s, new, m)
        BY <1>4, <1>9, <1>11 DEF ListGivesWay
    <2>2. ListBecomes(n, s, new, m, K)
        BY <2>1, ListIsWritten
    <2> QED BY <2>2 DEF ListBecomes
<1>13. View(m) = [View(n) EXCEPT !.lists[s] = SaidOf(new)]
    BY <1>12, ViewOfList DEF K
<1> QED BY <1>3, <1>10, <1>13 DEF said

\* An edit or a save does to the text what the user asked for and nothing else, for
\* any file, however often and in whichever section a setting stands in it: the
\* setting that is written reads back as written, and every other setting, list and
\* font as before; a replaced list reads back as given unless its section occurs
\* twice; and a save replaces only what was read or what the backup then has.
THEOREM EditsStayFaithful == Spec => EditsAreFaithful
<1>1. Init => EditorInv
    BY EditorInvInit DEF Init
<1>2. EditorInv /\ [Next]_vars => EditorInv'
    BY EditorStep
<1>3. ASSUME EditorInv, SaveReplace
      PROVE  file[doc.path] = doc.base \/ backup'[doc.path] = file[doc.path]
    <2>1. doc # None
        BY <1>3 DEF EditorInv, SaveReplace
    <2>2. doc.path \in Path
        BY <1>3, <2>1 DEF EditorInv, SoundDocument
    <2>3. backup' = [backup EXCEPT ![doc.path] = file[doc.path]] /\ backup \in [Path -> Contents]
        BY <1>3 DEF EditorInv, SaveReplace, ReplaceFile
    <2> QED BY <2>2, <2>3
<1>4. EditorInv => [EditIsLocal /\ ListIsReplaced /\ NothingUnseenIsLost]_docVars
    BY <1>3, SettingsStayLocal, ListsAreReplaced DEF NothingUnseenIsLost
<1> QED BY <1>1, <1>2, <1>4, PTL DEF Spec, EditsAreFaithful

=============================================================================
