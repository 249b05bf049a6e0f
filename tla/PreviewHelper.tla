---------------------------- MODULE PreviewHelper ----------------------------
(***************************************************************************)
(* The preview helpers of the control center.  PreviewManager keeps, behind *)
(* one mutex, one helper process per engine: the one that renders with the *)
(* installed MacType and the plain one it is compared with.  A command     *)
(* makes sure the helper of its engine was started from the installation   *)
(* root it means, writes a frame to its stdin and waits two seconds for    *)
(* the answer; the first failure restarts the helper, the second is        *)
(* returned to the caller, and leaves that helper in place.                *)
(*                                                                         *)
(* A helper is a process of its own (preview-helper/main.cpp): it may be   *)
(* slow, so that an answer arrives after its request was given up, it may  *)
(* answer with an error, crash, or report on its own that its window was   *)
(* closed.  A reader thread per helper routes what it writes: frames with  *)
(* identifier 0 to the user interface, all others to the response channel. *)
(* The manager restarts on time-outs of real time: Timeout may happen      *)
(* whenever no response is waiting.                                        *)
(***************************************************************************)
EXTENDS Naturals, Sequences, FiniteSets

CONSTANTS
    NoRoot,        \* the empty path: no installation was found
    Roots,         \* installation roots discovery may find
    IdSpace,       \* 2^64 in the code: request identifiers wrap there
    MaxSpawned,    \* bound: helper processes ever started
    MaxCommands,   \* bound: commands
    MaxFaults      \* bound: crashes, and changes of the discovered root

VARIABLES
    root,       \* what installation_root() finds now
    next,       \* next_request_id
    slot,       \* the helper the manager keeps for each engine
    proc,       \* every helper process, in the order they were started
    cmd,        \* the command that holds the manager
    app,        \* the control center's own process
    done,       \* history: the last command that returned
    emitted,    \* history: the requests whose answers reached the interface as events
    ticket,     \* history: identifiers handed out so far
    commands, faults

manager == <<next, slot, ticket>>
previewVars == <<root, next, slot, proc, cmd, app, done, emitted, ticket, commands, faults>>

ASSUME RootsAssumption == NoRoot \notin Roots
ASSUME IdSpaceAssumption == IdSpace \in Nat /\ IdSpace > 3
ASSUME BoundsAssumption == {MaxSpawned, MaxCommands, MaxFaults} \subseteq Nat

-----------------------------------------------------------------------------
(* State.                                                                  *)

Engine == {"mactype", "plain"}
Verb == {"scan", "reconnect", "render", "show", "hide"}
Probes == {"scan", "reconnect"}
Helper == 1 .. Len(proc)
Nobody == 0

\* A frame carries, besides its identifier and kind, the ticket of the request
\* it belongs to: 0 for an event of the window.
Frame(id, kind, t) == [id |-> id, kind |-> kind, ticket |-> t]
Eof == Frame(0, "eof", 0)
ReplyKinds == {"ack", "rendered", "state", "error"}
Frames == [id : 0 .. IdSpace - 1, kind : Verb \cup {"hello", "eof"} \cup ReplyKinds, ticket : 0 .. ticket]

EmptySlot == [helper |-> Nobody, root |-> NoRoot, core |-> 0]
NoCommand == [at |-> "idle", verb |-> "scan", engine |-> "mactype", root |-> NoRoot,
         attempt |-> 0, helper |-> Nobody, id |-> 0, ticket |-> 0, from |-> 0]
Nothing == [ok |-> TRUE, verb |-> "scan", engine |-> "mactype", root |-> NoRoot,
            helper |-> Nobody, asked |-> 0, answered |-> 0, core |-> 0, fresh |-> TRUE]

Renders(q) == {i \in 1 .. Len(q) : q[i].kind = "render"}

\* Every variable has its type; a helper's queue holds at most one render, the
\* newest, and a command that waits for an answer waits for a known helper.
PreviewTypeOK ==
    /\ root \in Roots \cup {NoRoot}
    /\ next \in 0 .. IdSpace - 1
    /\ slot \in [Engine -> [helper : {Nobody} \cup Helper, root : Roots \cup {NoRoot}, core : 0 .. 1]]
    /\ \A p \in Helper :
         /\ proc[p].life \in {"up", "dead"}
         /\ proc[p].engine \in Engine
         /\ proc[p].root \in Roots \cup {NoRoot}
         /\ {proc[p].window, proc[p].heard, proc[p].reading} \subseteq BOOLEAN
         /\ proc[p].queue \in Seq(Frames) /\ proc[p].out \in Seq(Frames) /\ proc[p].responses \in Seq(Frames)
         /\ Cardinality(Renders(proc[p].queue)) <= 1
    /\ cmd.at \in {"idle", "ensure", "hello", "send", "await"}
    /\ cmd.at \in {"hello", "await"} => cmd.helper \in Helper
    /\ app \in {"up", "gone"}

PreviewInit ==
    /\ root \in Roots \cup {NoRoot}
    /\ next = 0
    /\ slot = [e \in Engine |-> EmptySlot]
    /\ proc = <<>>
    /\ cmd = NoCommand
    /\ app = "up"
    /\ done = Nothing
    /\ emitted = {}
    /\ ticket = 0
    /\ commands = 0
    /\ faults = 0

-----------------------------------------------------------------------------
(* The manager's own steps.                                                *)

\* wrapping_add(1).max(1): 0 is the identifier of events.
NextId(n) == LET m == (n + 1) % IdSpace IN IF m = 0 THEN 1 ELSE m

TakeIds(n) ==
    /\ next' = IF n = 1 THEN NextId(next) ELSE NextId(NextId(next))
    /\ ticket' = ticket + n

\* The helper's reader thread: a render replaces the renders still queued.
\* The frames in the pipe and in the queue behind it are one sequence here.
WithoutRenders(queue) ==
    LET kept == {i \in DOMAIN queue : queue[i].kind # "render"}
        Place(i) == Cardinality({j \in kept : j <= i})
    IN  [k \in 1 .. Cardinality(kept) |-> queue[CHOOSE i \in kept : Place(i) = k]]
Enqueue(queue, frame) ==
    Append(IF frame.kind = "render" THEN WithoutRenders(queue) ELSE queue, frame)

Kill(p) == [proc[p] EXCEPT !.life = "dead", !.queue = <<>>, !.responses = <<>>, !.heard = FALSE]

Spawned(e, r, core, hello) ==
    [life |-> "up", engine |-> e, root |-> r, core |-> core, window |-> FALSE,
     queue |-> <<hello>>, out |-> <<>>, responses |-> <<>>, heard |-> TRUE, reading |-> TRUE]

\* stop_engine: SHUTDOWN is sent and its answer, which nobody looks at, is
\* waited for; the process is then killed and awaited, whatever it answered.
StopEngine(e) ==
    /\ proc' = IF slot[e].helper = Nobody THEN proc
               ELSE [proc EXCEPT ![slot[e].helper] = Kill(slot[e].helper)]
    /\ slot' = [slot EXCEPT ![e] = EmptySlot]

Return(ok, helper, answered, fresh) ==
    /\ cmd' = NoCommand
    /\ done' = [ok |-> ok, verb |-> cmd.verb, engine |-> cmd.engine, root |-> cmd.root,
                helper |-> helper, asked |-> cmd.ticket, answered |-> answered,
                core |-> IF ok THEN slot'[cmd.engine].core ELSE 0, fresh |-> fresh]

\* A helper was started by this very command.
StartedOne == Len(proc) > cmd.from

Entering(v, e) == [NoCommand EXCEPT !.at = "ensure", !.verb = v, !.engine = e, !.root = root, !.from = Len(proc)]

\* A command enters the manager with the root discovery finds now.  Without a
\* root only the plain engine renders; the other commands answer at once and
\* touch nothing.  A reconnection begins by stopping the MacType helper.
Begin(v, e) ==
    /\ app = "up" /\ cmd = NoCommand
    /\ commands < MaxCommands /\ Len(proc) + 2 <= MaxSpawned
    /\ e = "plain" => v = "render"
    /\ e = "mactype" => root # NoRoot
    /\ cmd' = Entering(v, e)
    /\ IF v = "reconnect" THEN StopEngine(e) /\ TakeIds(1) ELSE UNCHANGED <<proc, manager>>
    /\ commands' = commands + 1
    /\ UNCHANGED <<root, app, done, emitted, faults>>

\* Whether the helper in the slot serves a command for root r.
KeepsHelper(e, r) == slot[e].helper # Nobody /\ slot[e].root = r

\* A probe answers with the version the helper reported when it was started.
Reuse ==
    /\ cmd.at = "ensure" /\ KeepsHelper(cmd.engine, cmd.root)
    /\ IF cmd.verb \in Probes
         THEN UNCHANGED slot /\ Return(TRUE, slot[cmd.engine].helper, 0, StartedOne)
         ELSE cmd' = [cmd EXCEPT !.at = "send"] /\ UNCHANGED <<slot, done>>
    /\ UNCHANGED <<root, next, proc, app, emitted, ticket, commands, faults>>

\* The slot is emptied and a helper spawned, to which HELLO is written at once.
\* The version it will report is 0 for the plain engine; a MacType that reports
\* 0 is not accepted.
StartHelper ==
    /\ cmd.at = "ensure" /\ ~KeepsHelper(cmd.engine, cmd.root)
    /\ Len(proc) < MaxSpawned
    /\ TakeIds(2)
    /\ \E core \in (IF cmd.engine = "plain" THEN {0} ELSE {0, 1}) :
         LET old == slot[cmd.engine].helper
             new == Spawned(cmd.engine, cmd.root, core, Frame(next', "hello", ticket'))
         IN  /\ proc' = Append(IF old = Nobody THEN proc ELSE [proc EXCEPT ![old] = Kill(old)], new)
             /\ cmd' = [cmd EXCEPT !.at = "hello", !.helper = Len(proc) + 1, !.id = next', !.ticket = ticket']
    /\ slot' = [slot EXCEPT ![cmd.engine] = EmptySlot]
    /\ UNCHANGED <<root, app, done, emitted, commands, faults>>

\* The helper executable is missing or cannot be started.
SpawnFails ==
    /\ cmd.at = "ensure" /\ ~KeepsHelper(cmd.engine, cmd.root)
    /\ faults < MaxFaults
    /\ faults' = faults + 1
    /\ StopEngine(cmd.engine) /\ TakeIds(1)
    /\ Return(FALSE, Nobody, 0, TRUE)
    /\ UNCHANGED <<root, app, emitted, commands>>

-----------------------------------------------------------------------------
(* A request and its answer.                                               *)

AcceptsAny(frame) == frame.kind \notin {"eof", "error"}

\* HelperProcess::request: the next response must carry the request's
\* identifier and be no error.
Accepts(frame) == frame.kind \notin {"eof", "error"} /\ frame.id = cmd.id

ValidHello(frame) ==
    /\ Accepts(frame) /\ frame.kind = "ack"
    /\ cmd.engine = "mactype" => proc[cmd.helper].core # 0
    /\ cmd.engine = "plain" => proc[cmd.helper].core = 0

Response == Head(proc[cmd.helper].responses)
Take == [proc EXCEPT ![cmd.helper].responses = Tail(@)]

\* A helper that introduced itself is kept, and the command goes on with it.
HelloAccepted ==
    /\ cmd.at = "hello" /\ proc[cmd.helper].responses # <<>> /\ ValidHello(Response)
    /\ proc' = Take
    /\ slot' = [slot EXCEPT ![cmd.engine] =
                  [helper |-> cmd.helper, root |-> cmd.root, core |-> proc[cmd.helper].core]]
    /\ IF cmd.verb \in Probes
         THEN Return(TRUE, cmd.helper, 0, TRUE)
         ELSE cmd' = [cmd EXCEPT !.at = "send"] /\ UNCHANGED done
    /\ UNCHANGED <<root, next, app, emitted, ticket, commands, faults>>

HelloAbandoned ==
    /\ UNCHANGED <<slot, proc, next, ticket>>
    /\ Return(FALSE, cmd.helper, 0, TRUE)

\* A helper that did not is stopped and forgotten: it was never in the slot.
HelloRefused ==
    /\ proc' = [proc EXCEPT ![cmd.helper] = Kill(cmd.helper)]
    /\ TakeIds(1)
    /\ UNCHANGED slot
    /\ Return(FALSE, cmd.helper, 0, TRUE)

HelloFails ==
    /\ cmd.at = "hello"
    /\ proc[cmd.helper].responses # <<>> => ~ValidHello(Response)
    /\ HelloRefused
    /\ UNCHANGED <<root, app, emitted, commands, faults>>

\* request_built draws an identifier and writes the frame.
Send ==
    /\ cmd.at = "send"
    /\ LET p == slot[cmd.engine].helper IN
         /\ proc[p].life = "up"
         /\ TakeIds(1)
         /\ proc' = [proc EXCEPT ![p].queue = Enqueue(@, Frame(next', cmd.verb, ticket'))]
         /\ cmd' = [cmd EXCEPT !.at = "await", !.helper = p, !.id = next', !.ticket = ticket']
    /\ UNCHANGED <<root, slot, app, done, emitted, commands, faults>>

RetryForEver == cmd' = [cmd EXCEPT !.at = "ensure", !.helper = Nobody, !.id = 0]

\* The second attempt is the last.
Retry == cmd' = [cmd EXCEPT !.at = "ensure", !.attempt = 1, !.helper = Nobody, !.id = 0]

\* The first failed attempt stops the helper, so that the second starts another.
FirstFailure(drawn) ==
    /\ StopEngine(cmd.engine) /\ TakeIds(drawn)
    /\ Retry /\ UNCHANGED done

\* The second is the caller's; the helper stays where it is.
LastFailure(drawn, p) ==
    /\ IF drawn = 2 THEN TakeIds(1) ELSE UNCHANGED <<next, ticket>>
    /\ UNCHANGED slot
    /\ Return(FALSE, p, 0, StartedOne)

\* The frame cannot be written: it is too large, or the helper is gone.
SendFails ==
    /\ cmd.at = "send"
    /\ IF cmd.attempt = 0
         THEN FirstFailure(2)
         ELSE LastFailure(2, slot[cmd.engine].helper) /\ UNCHANGED proc
    /\ UNCHANGED <<root, app, emitted, commands, faults>>

WantedKind(v) == IF v = "render" THEN "rendered" ELSE "state"

\* The answer is accepted; render_preview and set_native_preview then look at
\* its kind and do not retry.
Answered ==
    /\ cmd.at = "await" /\ proc[cmd.helper].responses # <<>> /\ Accepts(Response)
    /\ proc' = Take
    /\ UNCHANGED slot
    /\ Return(Response.kind = WantedKind(cmd.verb), cmd.helper, Response.ticket, StartedOne)
    /\ UNCHANGED <<root, next, app, emitted, ticket, commands, faults>>

\* An error, another request's answer or the end of the helper's output.
WrongAnswer ==
    /\ cmd.at = "await" /\ proc[cmd.helper].responses # <<>> /\ ~Accepts(Response)
    /\ IF cmd.attempt = 0 THEN FirstFailure(1) ELSE LastFailure(1, cmd.helper) /\ proc' = Take
    /\ UNCHANGED <<root, app, emitted, commands, faults>>

\* Two seconds pass, or the reader thread is gone.
Timeout ==
    /\ cmd.at = "await" /\ proc[cmd.helper].responses = <<>>
    /\ IF cmd.attempt = 0 THEN FirstFailure(1) ELSE LastFailure(1, cmd.helper) /\ UNCHANGED proc
    /\ UNCHANGED <<root, app, emitted, commands, faults>>

-----------------------------------------------------------------------------
(* The helper process and the thread that reads its output.                *)

World == <<root, next, slot, cmd, app, done, ticket, commands>>

Replies(kind) ==
    CASE kind = "hello"  -> {"ack"}
      [] kind = "render" -> {"rendered", "error"}
      [] kind = "show"   -> {"state", "error"}
      [] OTHER           -> {"state"}

\* The helper serves its queue in order, on the thread that owns its window.
Serve(p) ==
    /\ proc[p].life = "up" /\ proc[p].queue # <<>>
    /\ LET request == Head(proc[p].queue) IN
       \E kind \in Replies(request.kind) :
         proc' = [proc EXCEPT ![p] =
                    [proc[p] EXCEPT !.queue = Tail(@), !.out = Append(@, Frame(request.id, kind, request.ticket)),
                              !.window = IF kind = "state" THEN request.kind = "show" ELSE @]]
    /\ UNCHANGED <<World, emitted, faults>>

\* The user closes the native preview; the helper says so unasked.
CloseWindow(p) ==
    /\ proc[p].life = "up" /\ proc[p].window
    /\ proc' = [proc EXCEPT ![p] = [proc[p] EXCEPT !.window = FALSE, !.out = Append(@, Frame(0, "state", 0))]]
    /\ UNCHANGED <<World, emitted, faults>>

\* A helper fails to initialise, crashes, or is killed by the CI smoke test;
\* what it has written can still be read.
Crash(p) ==
    /\ proc[p].life = "up" /\ faults < MaxFaults
    /\ proc' = [proc EXCEPT ![p] = [proc[p] EXCEPT !.life = "dead", !.queue = <<>>]]
    /\ faults' = faults + 1
    /\ UNCHANGED <<World, emitted>>

\* The event callback passes on the state of the window, and nothing else.
EventOf(frame) == IF frame.kind = "state" THEN {frame.ticket} ELSE {}

\* route_frame: identifier 0 goes to the interface, everything else to the
\* channel; a channel nobody holds any more ends the thread.
Route(p) ==
    /\ proc[p].reading /\ proc[p].out # <<>>
    /\ LET frame == Head(proc[p].out) IN
         IF frame.id = 0
           THEN /\ proc' = [proc EXCEPT ![p].out = Tail(@)]
                /\ emitted' = emitted \cup EventOf(frame)
           ELSE /\ proc' = [proc EXCEPT ![p] =
                     IF proc[p].heard THEN [proc[p] EXCEPT !.out = Tail(@), !.responses = Append(@, frame)]
                                      ELSE [proc[p] EXCEPT !.out = <<>>, !.reading = FALSE]]
                /\ UNCHANGED emitted
    /\ UNCHANGED <<World, faults>>

\* The end of the output is the channel's last entry.
RouteEof(p) ==
    /\ proc[p].reading /\ proc[p].out = <<>> /\ proc[p].life = "dead"
    /\ proc' = [proc EXCEPT ![p] = [proc[p] EXCEPT !.reading = FALSE,
                                             !.responses = IF proc[p].heard THEN Append(@, Eof) ELSE @]]
    /\ UNCHANGED <<World, emitted, faults>>

\* A helper whose input has closed ends.
InputClosed(p) == app = "gone" /\ proc[p].life = "up"

EndOfInput(p) ==
    /\ InputClosed(p)
    /\ proc' = [proc EXCEPT ![p] = [proc[p] EXCEPT !.life = "dead", !.queue = <<>>]]
    /\ UNCHANGED <<World, emitted, faults>>

-----------------------------------------------------------------------------
(* The world around them.                                                  *)

\* installation_root() is computed anew for every command.
RootChanges ==
    /\ app = "up" /\ faults < MaxFaults
    /\ \E r \in (Roots \cup {NoRoot}) \ {root} : root' = r
    /\ faults' = faults + 1
    /\ UNCHANGED <<next, slot, proc, cmd, app, done, emitted, ticket, commands>>

\* The manager is dropped: both engines are stopped.
Quit ==
    /\ app = "up" /\ cmd = NoCommand
    /\ app' = "gone"
    /\ proc' = [p \in Helper |-> IF p \in {slot[e].helper : e \in Engine}
                                   THEN [Kill(p) EXCEPT !.out = <<>>, !.reading = FALSE]
                                   ELSE [proc[p] EXCEPT !.out = <<>>, !.reading = FALSE]]
    /\ slot' = [e \in Engine |-> EmptySlot]
    /\ TakeIds(2)
    /\ UNCHANGED <<root, cmd, done, emitted, commands, faults>>

\* The control center's process ends at any point; its pipes close with it.
Killed ==
    /\ app = "up"
    /\ app' = "gone"
    /\ cmd' = NoCommand
    /\ proc' = [p \in Helper |-> [proc[p] EXCEPT !.out = <<>>, !.responses = <<>>, !.heard = FALSE, !.reading = FALSE]]
    /\ UNCHANGED <<root, next, slot, done, emitted, ticket, commands, faults>>

-----------------------------------------------------------------------------
(* The specification.                                                      *)

PreviewCommand == \E v \in Verb, e \in Engine : Begin(v, e)
ManagerStep ==
    \/ Reuse \/ StartHelper \/ SpawnFails
    \/ HelloAccepted \/ HelloFails
    \/ Send \/ SendFails
    \/ Answered \/ WrongAnswer \/ Timeout
HelperStep(p) == Serve(p) \/ CloseWindow(p) \/ Crash(p) \/ Route(p) \/ RouteEof(p) \/ EndOfInput(p)

PreviewNext ==
    \/ PreviewCommand \/ ManagerStep
    \/ \E p \in Helper : HelperStep(p)
    \/ RootChanges \/ Quit \/ Killed

\* A command runs to its end: every wait has a deadline and kill() is certain.
\* A helper whose input has closed leaves its loop.
Fairness ==
    /\ WF_previewVars(ManagerStep)
    /\ WF_previewVars(\E p \in Helper : EndOfInput(p))

PreviewSpec == PreviewInit /\ [][PreviewNext]_previewVars /\ Fairness

-----------------------------------------------------------------------------
(* Properties.                                                             *)

\* What a successful command returns is the answer to its own request, from a
\* helper of its engine started from its root, and a probe reports the version
\* of that helper: late answers of requests given up (helper.rs 167 and 394),
\* restarts, and identifiers that wrap never put another answer in its place.
AnswerIsOurs ==
    done.ok /\ done.helper # Nobody =>
      /\ done.verb \notin Probes => done.answered = done.asked
      /\ proc[done.helper].engine = done.engine
      /\ proc[done.helper].root = done.root
      /\ done.verb \in Probes => done.core # 0 /\ done.core = proc[done.helper].core

\* Only what a helper said unasked reaches the user interface as an event; no
\* answer is diverted there, since no request has the identifier 0, not even
\* when the identifiers wrap (helper.rs 62 and 229).
EventsAreUnsolicited == emitted \subseteq {0}

\* No helper process is forgotten: whenever no command is in the manager, a
\* helper that runs is the one the slot of its engine holds, whatever failed
\* while it was started or replaced (helper.rs 272-301).
NoHelperLeaks ==
    app = "up" /\ cmd = NoCommand =>
      \A p \in Helper : proc[p].life = "up" => slot[proc[p].engine].helper = p

\* A command fails only on a helper that it started itself, or could not start:
\* a helper that died meanwhile, or answers of earlier requests still in the
\* channel of one that was left behind, are overcome by the restart
\* (helper.rs 356-394).
FailureIsFresh == ~done.ok => done.fresh

\* Whatever was given up, restarted or wrapped around before, a command is
\* answered by its own helper or fails on a fresh one, and no answer of it is
\* taken for an event.
ManagerInvariant ==
    PreviewTypeOK /\ AnswerIsOurs /\ EventsAreUnsolicited /\ FailureIsFresh

\* Every command returns, since a helper that never answers costs at most two
\* attempts and the mutex is free again (helper.rs 356); and no helper outlives
\* the control center, however it ended: dropped slots are killed, and a helper
\* whose input closes leaves (main.cpp 153-156).
EverythingEnds ==
    /\ []<>(cmd = NoCommand)
    /\ (app = "gone") ~> (\A p \in Helper : proc[p].life = "dead")
=============================================================================
