------------------------------ MODULE RunProfile ------------------------------
(***************************************************************************)
(* The run profile of the control center: which profile this user chose to *)
(* run, as a pointer to a local runtime generation (loader, library and    *)
(* profile in one directory, named by their digest), and what the service  *)
(* was given.  The user's commands run one after the other on the main     *)
(* thread and take the open document of ProfileDocument; the tray menu     *)
(* applies the profile on a thread of its own at the same time.  The       *)
(* service changes behind an elevated broker: MachineIntegration's subject, *)
(* here a step that succeeds, fails, or fails after it took effect.        *)
(***************************************************************************)
EXTENDS ProfileDocument

CONSTANTS
    Main,            \* the thread of the commands
    Tray,            \* threads of the tray menu
    DefaultProfile,  \* the bundled ini\Default.ini
    Pieces           \* bound: generations that lose a file to somebody else

VARIABLES
    runtimes,   \* complete runtime generations, by the profile in them
    spoilt,     \* generations with a file missing
    active,     \* active.json: the generation and the profile file it came from
    service,    \* the system service and the profile it was last given
    paused,     \* the marker that the user stopped system injection
    job,        \* what each thread is doing
    unsettled,  \* history: pointer and service may disagree (a half done, local
                \* or overlapped operation, or somebody else's)
    halted      \* history: the user stopped the service, and nobody started it since

runVars == <<runtimes, spoilt, active, service, paused, job, unsettled, halted>>
vars == <<docVars, runVars>>

ASSUME ThreadAssumption == Main \notin Tray
ASSUME DefaultAssumption == DefaultProfile \in Installed
ASSUME NoneAssumption == None \notin {"live", "hold", "local"}

-----------------------------------------------------------------------------
(* State.                                                                  *)

Thread == {Main} \cup Tray
Off == [at |-> "off", op |-> None, bytes |-> None, source |-> None, plan |-> None,
        moved |-> FALSE, alone |-> TRUE]
Busy == {t \in Thread : job[t].at # "off"}
Quiet == Busy = {} /\ ~saving

Designations == {"designate", "republish", "apply"}
Controls == {"install", "stop", "remove"}

RunInit ==
    /\ runtimes = {} /\ spoilt = {} /\ active = None
    /\ service \in [runtime : {"absent", "stopped", "running"}, profile : {None}]
    /\ paused = FALSE
    /\ job = [t \in Thread |-> Off]
    /\ unsettled = FALSE /\ halted = FALSE

\* active_runtime: the pointer names a generation with all its files.
Whole == active # None /\ active.profile \in runtimes \ spoilt

-----------------------------------------------------------------------------
(* Threads.                                                                *)

\* A new operation; one that meets another is not alone, nor is the other.
\* `moved` says that the pointer moved before the service had the profile, or
\* the other way round.
Begins(t, j) ==
    /\ job' = [u \in Thread |-> IF u = t THEN [j EXCEPT !.alone = (Busy = {})]
                                ELSE [job[u] EXCEPT !.alone = @ /\ u \notin Busy]]
    /\ Works
    /\ halted' = (halted /\ j.op \notin {"start", "activate", "install"})
    /\ UNCHANGED <<doc, file, backup, saving, ragged, runtimes, spoilt, active, service, paused,
                   unsettled>>
Step(t, j) == job' = [job EXCEPT ![t] = j]
Apart == UNCHANGED <<doc, file, backup, saving, ragged>>

\* An operation that ended well leaves pointer and service settled, unless it
\* kept the profile for this user only or was not alone.
Settles(t) ==
    IF job[t].op \in Controls THEN unsettled ELSE job[t].plan = "local" \/ ~job[t].alone
Succeeds(t) ==
    /\ Step(t, Off)
    /\ unsettled' = Settles(t)
    /\ halted' = IF job[t].op = "stop" THEN job[t].alone ELSE halted
Fails(t) ==
    /\ Step(t, Off) /\ Works
    /\ unsettled' = (unsettled \/ job[t].moved \/ ~job[t].alone)
    /\ UNCHANGED halted
Continues(t, at) == Step(t, [job[t] EXCEPT !.at = at]) /\ UNCHANGED <<unsettled, halted>>
NoWork == UNCHANGED work

-----------------------------------------------------------------------------
(* Beginnings.                                                             *)

MainFree == job[Main].at = "off" /\ ~saving
New(op, at, bytes, source) ==
    [Off EXCEPT !.op = op, !.at = at, !.bytes = bytes, !.source = source]

\* designate_open_profile: only a saved document can be applied.
Payload == doc # None /\ doc.dirty = {}
Designate ==
    /\ MainFree /\ Payload /\ Encoded(doc.nodes) # <<>>
    /\ Begins(Main, New("designate", "stage", Encoded(doc.nodes), doc.path))

RepublishPointerOnly ==
    /\ MainFree /\ Whole /\ file[active.source] \notin {None, <<>>}
    /\ Begins(Main, New("republish", "stage", file[active.source], active.source))
\* republish_run_profile: the designated file as it is now, not the document;
\* the service has it before the pointer moves.
Republish ==
    /\ MainFree /\ Whole /\ file[active.source] \notin {None, <<>>}
    /\ Begins(Main, New("republish", "plan", file[active.source], active.source))

\* ensure_active_runtime: without a whole runtime the bundled default is
\* made one; nothing else is ever picked.
Ensures(op) ==
    IF Whole THEN New(op, "load", None, None)
    ELSE New(op, "stage", file[DefaultProfile], DefaultProfile)
Ensurable == ~Whole => file[DefaultProfile] \notin {None, <<>>}
Start == MainFree /\ Ensurable /\ Begins(Main, Ensures("start"))
Activate == MainFree /\ Ensurable /\ Begins(Main, Ensures("activate"))
Control ==
    /\ MainFree
    /\ \E op \in Controls :
         /\ (op = "install") = (service.runtime = "absent")
         /\ op = "stop" => service.runtime = "running"
         /\ Begins(Main, New(op, "execute", None, None))

\* apply_system_injection_from_tray_menu: not while the user has paused it.
TrayMay == ~paused
TrayApply(t) == job[t].at = "off" /\ TrayMay /\ Ensurable /\ Begins(t, Ensures("apply"))

-----------------------------------------------------------------------------
(* Steps.                                                                  *)

\* prepare_runtime_at: a generation that is already there is taken as it is.
Stage(t) ==
    /\ job[t].at = "stage"
    /\ \/ /\ runtimes' = runtimes \cup {job[t].bytes}
          /\ Continues(t, "point") /\ NoWork
       \/ Fails(t) /\ UNCHANGED runtimes
    /\ UNCHANGED <<spoilt, active, service, paused>> /\ Apart

\* The pointer is replaced in one step, then read back.
Reached(op) == CASE op = "designate" -> "plan" [] op = "start" -> "execute"
                 [] op = "republish" -> "end" [] OTHER -> "load"
Point(t) ==
    /\ job[t].at = "point"
    /\ \/ /\ active' = [profile |-> job[t].bytes, source |-> job[t].source]
          /\ IF job[t].bytes \in spoilt
             THEN /\ Step(t, Off) /\ unsettled' = TRUE /\ UNCHANGED halted
             ELSE /\ Step(t, [job[t] EXCEPT !.at = Reached(job[t].op),
                                            !.moved = job[t].op # "republish" \/ job[t].plan = "local"])
                  /\ UNCHANGED <<unsettled, halted>>
          /\ NoWork
       \/ Fails(t) /\ UNCHANGED active
    /\ UNCHANGED <<runtimes, spoilt, service, paused>> /\ Apart

\* The profile is read from the active runtime as it is now.
Load(t) ==
    /\ job[t].at = "load"
    /\ \/ /\ Whole /\ NoWork
          /\ Step(t, [job[t] EXCEPT !.at = IF job[t].op = "apply" THEN "plan" ELSE "execute",
                                    !.bytes = active.profile])
          /\ UNCHANGED <<unsettled, halted>>
       \/ Fails(t)
    /\ UNCHANGED <<runtimes, spoilt, active, service, paused>> /\ Apart

\* designation_plan: live in a running service, held for a stopped one, and
\* otherwise (or beside a conflict) only this user's.
PlanFor(runtime, blocked) ==
    IF runtime = "running" THEN "live"
    ELSE IF runtime = "stopped" /\ ~blocked THEN "hold" ELSE "local"
\* What follows the publication of each kind.
After(t, plan) ==
    CASE job[t].op = "republish" -> "stage"
      [] job[t].op = "designate" /\ plan # "live" -> "end"
      [] OTHER -> "choice"
Plan(t) ==
    /\ job[t].at = "plan"
    /\ \E blocked \in BOOLEAN :
         LET plan == PlanFor(service.runtime, blocked) IN
         Step(t, [job[t] EXCEPT !.plan = plan,
                                !.at = IF plan = "local" THEN After(t, plan) ELSE "execute"])
    /\ UNCHANGED <<runtimes, spoilt, active, service, paused, unsettled, halted>> /\ NoWork /\ Apart

Published(bytes) == [runtime |-> "running", profile |-> bytes]
\* The broker's success: publish_profile_transaction_with installs and starts
\* as needed; a held designation is planned again by the broker.
Outcome(j, blocked) ==
    CASE j.op = "stop" -> [service EXCEPT !.runtime = "stopped"]
      [] j.op = "remove" -> [service EXCEPT !.runtime = "absent"]
      [] j.op = "install" -> [service EXCEPT !.runtime = "stopped"]
      [] j.plan = "hold" ->
            (CASE PlanFor(service.runtime, blocked) = "live" -> Published(j.bytes)
               [] PlanFor(service.runtime, blocked) = "hold" -> [service EXCEPT !.profile = j.bytes]
               [] OTHER -> service)
      [] OTHER -> Published(j.bytes)
Execute(t) ==
    /\ job[t].at = "execute"
    /\ \E blocked \in BOOLEAN :
         /\ service' = Outcome(job[t], blocked)
         /\ LET plan == IF job[t].plan = "hold" THEN PlanFor(service.runtime, blocked)
                        ELSE job[t].plan IN
            Step(t, [job[t] EXCEPT !.at = After(t, job[t].plan), !.plan = plan,
                                   !.moved = @ \/ job[t].op = "republish"])
    /\ UNCHANGED <<runtimes, spoilt, active, paused, unsettled, halted>> /\ NoWork /\ Apart
\* It fails with the service as it was, stopped on the way, or changed (the
\* answer was lost).
ExecuteFails(t) ==
    /\ job[t].at = "execute" /\ Works
    /\ service' \in {service, Outcome(job[t], FALSE)} \cup
                    (IF service.runtime = "running" THEN {[service EXCEPT !.runtime = "stopped"]} ELSE {})
    /\ Step(t, Off)
    /\ unsettled' = (unsettled \/ job[t].moved \/ ~job[t].alone \/ service'.profile # service.profile)
    /\ UNCHANGED <<runtimes, spoilt, active, paused, halted>> /\ Apart

\* record_system_injection_choice.
Choice(t) ==
    /\ job[t].at = "choice"
    /\ \/ paused' = (job[t].op \in {"stop", "remove"}) /\ Succeeds(t) /\ NoWork
       \/ Fails(t) /\ UNCHANGED paused
    /\ UNCHANGED <<runtimes, spoilt, active, service>> /\ Apart
Ends(t) ==
    /\ job[t].at = "end"
    /\ Succeeds(t)
    /\ UNCHANGED <<runtimes, spoilt, active, service, paused>> /\ NoWork /\ Apart

ThreadStep(t) == Stage(t) \/ Point(t) \/ Load(t) \/ Plan(t) \/ Execute(t) \/ ExecuteFails(t)
                 \/ Choice(t) \/ Ends(t)

-----------------------------------------------------------------------------
(* The rest of the world.                                                  *)

\* The process ends, with its document and its threads; a broker at work may
\* still finish.
Dies ==
    /\ Works
    /\ doc # None \/ Busy # {}
    /\ doc' = None /\ saving' = FALSE /\ ragged' = FALSE
    /\ job' = [t \in Thread |-> Off]
    /\ service' \in {service} \cup {Outcome(job[t], FALSE) : t \in {u \in Busy : job[u].at = "execute"}}
    /\ unsettled' = (unsettled \/ service' # service \/ \E t \in Busy : job[t].moved \/ ~job[t].alone)
    /\ halted' = (halted /\ service'.runtime # "running")
    /\ UNCHANGED <<file, backup, runtimes, spoilt, active, paused>>
\* A file of a generation disappears (a cleaner, a virus scanner).
Spoil ==
    /\ Works /\ Cardinality(spoilt) < Pieces
    /\ \E b \in runtimes \ spoilt : spoilt' = spoilt \cup {b}
    /\ UNCHANGED <<runtimes, active, service, paused, job, unsettled, halted>> /\ Apart
\* The service is started or stopped by others.
OthersControl ==
    /\ Works /\ service.runtime # "absent"
    /\ service' = [service EXCEPT !.runtime = IF @ = "running" THEN "stopped" ELSE "running"]
    /\ job' = [t \in Thread |-> [job[t] EXCEPT !.alone = @ /\ t \notin Busy]]
    /\ halted' = FALSE
    /\ UNCHANGED <<runtimes, spoilt, active, paused, unsettled>> /\ Apart

Editor ==
    /\ (MainFree /\ EditorCommand) \/ SaveReplace \/ SaveFails \/ OthersWrite
    /\ UNCHANGED runVars
Command == Designate \/ Republish \/ Start \/ Activate \/ Control
Next ==
    \/ Editor \/ Command \/ Dies \/ Spoil \/ OthersControl
    \/ \E t \in Tray : TrayApply(t)
    \/ \E t \in Thread : ThreadStep(t)

Init == EditorInit /\ RunInit
Spec == Init /\ [][Next]_vars

-----------------------------------------------------------------------------
(* Properties.                                                             *)

\* Every variable has its type, and a thread that publishes knows what.
RunTypeOK ==
    /\ EditorTypeOK
    /\ runtimes \subseteq Seq(IniNode) /\ spoilt \subseteq runtimes
    /\ active # None => active.profile \in runtimes /\ active.source \in Path
    /\ service.runtime \in {"absent", "stopped", "running"}
    /\ paused \in BOOLEAN /\ unsettled \in BOOLEAN /\ halted \in BOOLEAN
    /\ \A t \in Thread :
         /\ job[t].at \in {"off", "stage", "point", "load", "plan", "execute", "choice", "end"}
         /\ job[t].at \in {"stage", "point", "plan", "end"} => job[t].bytes \in Seq(IniNode) \ {<<>>}
         /\ job[t].at = "execute" => (job[t].bytes = None) = (job[t].op \in Controls)

\* run_profile_publication: the designated file against the active runtime.
Publication ==
    IF ~Whole \/ file[active.source] \in {None, <<>>} THEN "unknown"
    ELSE IF file[active.source] = active.profile THEN "published" ELSE "pending"

\* The control center says that the run profile is published only when the
\* service was given just those bytes, unless an operation that moves the
\* pointer first stopped half way, kept the profile for this user, or ran
\* beside another one.  A republish is none of these before its publication
\* has succeeded: it publishes first.
PublishedMeansServed ==
    Quiet /\ ~unsettled /\ Publication = "published" => service.profile = file[active.source]

\* Choosing a run profile turns the service neither on nor off, from the plan
\* to the publication, as long as nothing else acts on it in between (a
\* designation planned for a running service that is stopped meanwhile does
\* start it again).
DesignationKeepsRuntime ==
    \A t \in Thread :
       Execute(t) /\ job[t].op \in Designations /\ job[t].alone =>
           service'.runtime = service.runtime

\* After a Stop that met no other operation the service stays stopped and the
\* marker in place, whatever is designated, republished or asked of the tray
\* menu, also after a restart of the program, until the user starts or
\* installs something or somebody else starts the service.
StopIsRemembered == halted => paused /\ service.runtime # "running"

\* The editor's text is trustworthy at every step of an operation that reads it:
\* clean means saved, and shown means written.
RunInvariant == RunTypeOK /\ CleanMeansSaved /\ ShownIsWritten

\* What the control center shows of the service, and does to it, follows the
\* user's last word: published profiles are served, a Stop holds, and choosing
\* a profile neither starts nor stops anything.
ServiceFollowsTheUser ==
    /\ [](PublishedMeansServed /\ StopIsRemembered)
    /\ [][DesignationKeepsRuntime]_vars

=============================================================================
