-------------------------- MODULE ServiceLifecycle --------------------------
(***************************************************************************)
(* The service process between the service control manager and the driver  *)
(* loop: service_main, ServiceRuntime::run, and the control handler, which *)
(* runs on a thread of its own.  Status reports and health publications    *)
(* may each fail.  The driver loop is represented by what it publishes and *)
(* returns (OrchestrationDriver).                                          *)
(***************************************************************************)
EXTENDS Naturals

CONSTANTS
    MaxControls  \* bound: stop controls the operator sends

ASSUME LifecycleAssumption == MaxControls \in Nat

VARIABLES
    pc,         \* where the service thread is
    status,     \* the last status the service control manager accepted
    stopEvent,  \* STOP_EVENT: none, clear or set
    handler,    \* where the control handler's thread is
    controls,   \* stop controls sent so far
    persisted,  \* health.json; "old" is the report a previous process left
    live,       \* what the health pipe answers, "closed" without a pipe
    failure,    \* what run_registered_service ended with
    refused,    \* history: what was refused, a status report or a publication
    windDown    \* history: the stop event was set when the run ended

lifecycleVars == <<pc, status, stopEvent, handler, controls, persisted, live, failure,
                   refused, windDown>>

Status(state, exit) == [state |-> state, exit |-> exit]

LifecycleInit ==
    /\ pc = "register"
    /\ status = Status("start-pending", "ok")
    /\ stopEvent = "none"
    /\ handler = "idle"
    /\ controls = 0
    /\ persisted \in {"absent", "old"}
    /\ live = "closed"
    /\ failure = "none"
    /\ refused = {}
    /\ windDown = FALSE

\* StatusReporter::report: the manager takes the status, or the call fails.
Report(new, done, failed) ==
    \/ /\ status' = new
       /\ pc' = done
       /\ UNCHANGED refused
    \/ /\ refused' = refused \cup {"status"}
       /\ pc' = failed
       /\ UNCHANGED status

\* CompositeHealthPublisher::publish: the file first, then the pipe.
Publish(report, done, failed) ==
    \/ /\ persisted' = report
       /\ live' = report
       /\ pc' = done
       /\ UNCHANGED refused
    \/ /\ persisted' \in {persisted, report}
       /\ UNCHANGED live
       /\ refused' = refused \cup {"publication"}
       /\ pc' = failed

untouched == <<stopEvent, handler, controls, failure, windDown>>
-----------------------------------------------------------------------------
(***************************************************************************)
(* service_main up to the run                                              *)
(***************************************************************************)
\* ServiceControlContext::register: without a stop event there is no service.
Register ==
    /\ pc = "register"
    /\ \/ /\ stopEvent' = "clear"
          /\ pc' = "paths"
          /\ UNCHANGED <<status, refused>>
       \/ /\ Report(Status("stopped", "error-0"), "done", "done")
          /\ UNCHANGED stopEvent
       \/ /\ pc' = "done"
          /\ UNCHANGED <<status, refused, stopEvent>>
    /\ UNCHANGED <<handler, controls, persisted, live, failure, windDown>>

MachinePaths ==
    /\ pc = "paths"
    /\ \/ /\ pc' = "pipe"
          /\ UNCHANGED <<status, refused>>
       \/ Report(Status("stopped", "error-0"), "drop", "drop")
    /\ UNCHANGED <<untouched, persisted, live>>

\* NamedPipeHealthPublisher::start
StartPipe ==
    /\ pc = "pipe"
    /\ \/ /\ live' = "empty"
          /\ pc' = "start-pending"
          /\ UNCHANGED failure
       \/ /\ pc' = "terminal-health"
          /\ failure' = "error"
          /\ UNCHANGED live
    /\ UNCHANGED <<status, refused, stopEvent, handler, controls, persisted, windDown>>
-----------------------------------------------------------------------------
(***************************************************************************)
(* ServiceRuntime::run                                                     *)
(***************************************************************************)
ReportStartPending ==
    /\ pc = "start-pending"
    /\ Report(Status("start-pending", "ok"), "initializing", "fail-health")
    /\ UNCHANGED <<untouched, persisted, live>>

\* The first publication, tolerated like the telemetry of a run.
PublishInitializingLeniently ==
    /\ pc = "initializing"
    /\ Publish("initializing", "initialize", "initialize")
    /\ UNCHANGED <<untouched, status>>

PublishInitializing ==
    /\ pc = "initializing"
    /\ Publish("initializing", "initialize", "fail-health")
    /\ UNCHANGED <<untouched, status>>

\* initialize succeeds, meets a supported stopped state, or fails.
Initialize ==
    /\ pc = "initialize"
    /\ pc' \in {"running", "skip-health", "fail-health"}
    /\ UNCHANGED <<untouched, status, refused, persisted, live>>

ReportRunning ==
    /\ pc = "running"
    /\ Report(Status("running", "ok"), "ready", "fail-health")
    /\ UNCHANGED <<untouched, persisted, live>>

\* An incomplete readiness report is not published at all.
PublishReady ==
    /\ pc = "ready"
    /\ \/ Publish("ready", "run", "fail-health")
       \/ pc' = "fail-health" /\ UNCHANGED <<refused, persisted, live>>
    /\ UNCHANGED <<untouched, status>>

\* RuntimeHealthAdapter::report, called from the driver loop
RunPublishes ==
    /\ pc = "run"
    /\ \E report \in {"ready", "degraded", "failed"} : Publish(report, "run", "run")
    /\ UNCHANGED <<untouched, status>>

\* The driver returns Ok, on a stop or on a cancelled wait, or an error at any
\* time; a set stop event ends it.
RunReturns ==
    /\ pc = "run"
    /\ pc' \in {"unknown-health", "judge"}
    /\ windDown' = (stopEvent = "set")
    /\ UNCHANGED <<status, refused, stopEvent, handler, controls, persisted, live, failure>>

\* An error of the run is a failure whether or not a stop was requested.
JudgeErrorsAlike ==
    /\ pc = "judge"
    /\ pc' = "fail-health"
    /\ UNCHANGED <<untouched, status, refused, persisted, live>>

\* Err(error) if stop.stop_requested()
JudgeError ==
    /\ pc = "judge"
    /\ pc' = IF stopEvent = "set" THEN "unknown-health" ELSE "fail-health"
    /\ UNCHANGED <<untouched, status, refused, persisted, live>>

\* The terminal Unknown report, also report_supported_stop's; its failure is ignored.
PublishUnknown ==
    /\ pc \in {"unknown-health", "skip-health"}
    /\ Publish("unknown", "stopped", "stopped")
    /\ UNCHANGED <<untouched, status>>

\* run_registered_service returns: the pipe closes.
ReportStopped ==
    /\ pc = "stopped"
    /\ Report(Status("stopped", "ok"), "drop", "fail-health")
    /\ live' = IF pc' = "drop" THEN "closed" ELSE live
    /\ UNCHANGED <<untouched, persisted>>

\* report_failure: the Failed report, then the nonzero exit code; both ignored
\* when they fail.
PublishFailed ==
    /\ pc = "fail-health"
    /\ Publish("failed", "fail-status", "fail-status")
    /\ UNCHANGED <<untouched, status>>

ReportFailed ==
    /\ pc = "fail-status"
    /\ Report(Status("stopped", "error-1"), "terminal-health", "terminal-health")
    /\ failure' = "error"
    /\ live' = "closed"
    /\ UNCHANGED <<stopEvent, handler, controls, persisted, windDown>>

\* catch_unwind around run_registered_service
Panic ==
    /\ pc \in {"initialize", "run", "judge"}
    /\ pc' = "terminal-health"
    /\ failure' = "panic"
    /\ live' = "closed"
    /\ UNCHANGED <<status, refused, stopEvent, handler, controls, persisted, windDown>>
-----------------------------------------------------------------------------
(***************************************************************************)
(* report_terminal_failure, which writes the file only, and the end of the *)
(* registration                                                            *)
(***************************************************************************)
PersistTerminal ==
    /\ pc = "terminal-health"
    /\ pc' = "terminal-status"
    /\ \/ persisted' = "failed" /\ UNCHANGED refused
       \/ refused' = refused \cup {"publication"} /\ UNCHANGED persisted
    /\ UNCHANGED <<untouched, status, live>>

ReportTerminal ==
    /\ pc = "terminal-status"
    /\ Report(Status("stopped", IF failure = "panic" THEN "error-2" ELSE "error-3"),
              "drop", "drop")
    /\ UNCHANGED <<untouched, persisted, live>>

DropContext ==
    /\ pc = "drop"
    /\ pc' = "done"
    /\ stopEvent' = "none"
    /\ UNCHANGED <<status, refused, handler, controls, persisted, live, failure, windDown>>
-----------------------------------------------------------------------------
(***************************************************************************)
(* The control handler.  The manager sends a stop only to a service that   *)
(* has reported Running; the handler's thread may be overtaken.            *)
(***************************************************************************)
handlerOnly == <<pc, persisted, live, failure, windDown>>

SendStop ==
    /\ status.state = "running"
    /\ handler = "idle"
    /\ controls < MaxControls
    /\ handler' = "report"
    /\ controls' = controls + 1
    /\ UNCHANGED <<status, refused, stopEvent, handlerOnly>>

HandlerReport ==
    /\ handler = "report"
    /\ handler' = "set"
    /\ \/ status' = Status("stop-pending", "ok") /\ UNCHANGED refused
       \/ refused' = refused \cup {"status"} /\ UNCHANGED status
    /\ UNCHANGED <<stopEvent, controls, handlerOnly>>

\* A handler that answers the manager and leaves the event alone.
HandlerForgets ==
    /\ handler = "set"
    /\ handler' = "idle"
    /\ UNCHANGED <<status, refused, controls, stopEvent, handlerOnly>>

\* registered_stop_event is None once the context is dropped.
HandlerSet ==
    /\ handler = "set"
    /\ handler' = "idle"
    /\ stopEvent' = IF stopEvent = "clear" THEN "set" ELSE stopEvent
    /\ UNCHANGED <<status, refused, controls, handlerOnly>>
-----------------------------------------------------------------------------
ServiceMain ==
    \/ Register \/ MachinePaths \/ StartPipe
    \/ ReportStartPending \/ PublishInitializing \/ Initialize
    \/ ReportRunning \/ PublishReady \/ JudgeError
    \/ PublishUnknown \/ ReportStopped \/ PublishFailed \/ ReportFailed
    \/ PersistTerminal \/ ReportTerminal \/ DropContext
    \/ stopEvent = "set" /\ RunReturns

Handler == HandlerReport \/ HandlerSet

\* The driver may return without a stop, but need not.
LifecycleNext ==
    \/ ServiceMain
    \/ RunReturns
    \/ RunPublishes
    \/ Panic
    \/ SendStop
    \/ Handler
    \/ pc = "done" /\ UNCHANGED lifecycleVars

\* Both threads run; the driver returns once the stop event is set (the driver's
\* StopEndsTheRun).
LifecycleSpec ==
    /\ LifecycleInit
    /\ [][LifecycleNext]_lifecycleVars
    /\ WF_lifecycleVars(ServiceMain)
    /\ WF_lifecycleVars(Handler)
-----------------------------------------------------------------------------
(***************************************************************************)
(* Properties                                                              *)
(***************************************************************************)
\* A process that reports Running has replaced the health its predecessor left:
\* "running" and "ready" together are always about this process.
RunningHealthIsOurs == status.state = "running" => persisted # "old"

\* A service whose publications all went through does not look active once the
\* manager has been told that it stopped, whichever way it ended.
StoppedIsNotReady ==
    status.state = "stopped" /\ pc \in {"drop", "done"} /\ "publication" \notin refused
        => persisted \notin {"ready", "degraded"}

\* Whoever reads health.json beside the service's state is never told of a
\* working injector that is not there: neither a predecessor's nor a stopped one.
HealthIsHonest == RunningHealthIsOurs /\ StoppedIsNotReady

\* An error of a run that a requested stop has ended is not an error of the
\* service: the exit code stays 0 as long as the manager takes the reports.
WindDownIsClean ==
    windDown /\ failure # "panic" /\ "status" \notin refused
        => status.exit = "ok"

\* A stop the manager sent ends the service.
StopIsAnswered == handler = "report" ~> pc = "done"
=============================================================================
