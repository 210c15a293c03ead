--------------------------- MODULE WindowsService ---------------------------
(***************************************************************************)
(* The agent as a Windows service (service_windows.rs): the service        *)
(* control manager, the thread of service_main, which runs agent_loop of   *)
(* main.rs, and the control handler, which runs on a thread of its own.    *)
(* What a run of the agent does is in Agent and the modules of the         *)
(* sources; here it waits, drains and ends.                                *)
(***************************************************************************)
EXTENDS Naturals

CONSTANT MaxReloads     \* bound

VARIABLES
    entry,          \* in the SCM database: "none", "there", or "marked" for deletion
    status,         \* what the SCM was told of the service
    accepts,        \* "yes" if Stop and Shutdown are accepted
    thread,         \* the thread of service_main; "none": there is no process
    outcome,        \* what wait_for_signal returned
    rx,             \* its receiver of SERVICE_SHUTDOWN: "none", "fresh", "changed"
    handler,        \* the control handler: "idle", "cancel", "report"
    asked,          \* "yes" if the poller of this run asked for a reload
    config,         \* the configuration file
    missed,         \* "yes" if nobody will see the Stop of this process
    reloads         \* counter behind the bound

process == <<thread, outcome, rx, asked>>
scm == <<entry, status, accepts>>
serviceVars == <<process, scm, handler, config, missed, reloads>>

Configs == {"none", "torn", "bad", "good"}
Ready == {"loading", "starting", "waiting", "draining", "stopping"}

ServiceInit ==
    /\ entry = "none" /\ status = "stopped" /\ accepts = "no"
    /\ thread = "none" /\ outcome = "none" /\ rx = "none" /\ asked = "no"
    /\ handler = "idle" /\ missed = "no" /\ reloads = 0
    /\ config = "none"

-----------------------------------------------------------------------------
(* The service control manager *)

\* A service that is there and stopped is started: dispatch and service_main.
Startable == entry = "there" /\ status = "stopped" /\ thread = "none"
StartService ==
    /\ Startable /\ status' = "start_pending" /\ thread' = "main" /\ missed' = "no"
    /\ UNCHANGED <<entry, accepts, outcome, rx, asked, handler, config, reloads>>

\* The process is gone: the SCM notices, and drops the entry if it was marked.
Gone ==
    /\ thread' = "none" /\ outcome' = "none" /\ rx' = "none" /\ asked' = "no"
    /\ handler' = "idle" /\ status' = "stopped" /\ accepts' = "no"
    /\ entry' = IF entry = "marked" THEN "none" ELSE entry
    /\ UNCHANGED <<config, missed, reloads>>

\* map_control
map_control(c) ==
    CASE c \in {"Stop", "Shutdown"} -> "CancelAndStopPending"
      [] c = "Interrogate" -> "ReReport"
      [] OTHER -> "NotImplemented"

\* A control is passed to the handler, one at a time; the others change nothing.
Accepted == accepts = "yes" /\ handler = "idle" /\ thread # "none"
Control(c) ==
    /\ Accepted /\ map_control(c) = "CancelAndStopPending" /\ handler' = "cancel"
    /\ UNCHANGED <<process, scm, config, missed, reloads>>

-----------------------------------------------------------------------------
(* control_handler *)

\* The watch is set; only a receiver that was subscribed before notices.
HandlerSends ==
    /\ handler = "cancel" /\ handler' = "report"
    /\ rx' = IF rx = "fresh" THEN "changed" ELSE rx
    /\ missed' = IF rx = "fresh" THEN missed ELSE "yes"
    /\ UNCHANGED <<thread, outcome, asked, scm, config, reloads>>

HandlerReports ==
    /\ handler = "report" /\ handler' = "idle"
    /\ status' = "stop_pending" /\ accepts' = "no"
    /\ UNCHANGED <<process, entry, config, missed, reloads>>

-----------------------------------------------------------------------------
(* run_service and agent_loop *)

Goto(from, to) == thread = from /\ thread' = to
Rest == <<entry, handler, config, missed, reloads>>

\* The watch is created, the handler registered, and Running reported.
ReportRunning ==
    /\ Goto("main", "loading") /\ status' = "running" /\ accepts' = "yes"
    /\ UNCHANGED <<outcome, rx, asked, Rest>>

\* load_config; after a reload the last good configuration is kept.
LoadConfig ==
    /\ Goto("loading", "starting") /\ (config = "good" \/ outcome = "Reload")
    /\ UNCHANGED <<outcome, rx, asked, status, accepts, Rest>>

\* process::exit(1), at the first load or when the run cannot set up its client or source
ProcessExit ==
    /\ \/ thread = "loading" /\ config # "good" /\ outcome = "none"
       \/ thread = "starting"
    /\ Gone

\* wait_for_signal subscribes to the watch, whose present value counts as seen.
Subscribe ==
    /\ Goto("starting", "waiting") /\ rx' = "fresh"
    /\ UNCHANGED <<outcome, asked, status, accepts, Rest>>

\* The poller has written a new configuration.
AskReload ==
    /\ thread \in {"starting", "waiting"} /\ asked = "no" /\ asked' = "yes"
    /\ reloads < MaxReloads /\ reloads' = reloads + 1
    /\ UNCHANGED <<thread, outcome, rx, scm, handler, config, missed>>

\* (mutant) A change of the watch is taken for a reload.
StopReloads ==
    /\ rx = "changed" /\ Goto("waiting", "draining") /\ outcome' = "Reload" /\ rx' = "none"
    /\ UNCHANGED <<asked, status, accepts, Rest>>

\* select! takes any branch that is ready.
WakeStop ==
    /\ rx = "changed" /\ Goto("waiting", "draining") /\ outcome' = "Shutdown" /\ rx' = "none"
    /\ UNCHANGED <<asked, status, accepts, Rest>>

WakeReload ==
    /\ asked = "yes" /\ Goto("waiting", "draining") /\ outcome' = "Reload" /\ rx' = "none"
    /\ missed' = IF rx = "changed" THEN "yes" ELSE missed
    /\ UNCHANGED <<asked, status, accepts, entry, handler, config, reloads>>

\* (mutant) The loop goes on after a shutdown as well.
LoopsOn ==
    /\ thread = "draining" /\ thread' = "loading" /\ asked' = "no"
    /\ UNCHANGED <<outcome, rx, status, accepts, Rest>>

RunReturns ==
    /\ thread = "draining" /\ thread' = IF outcome = "Reload" THEN "loading" ELSE "stopping"
    /\ asked' = "no"
    /\ UNCHANGED <<outcome, rx, status, accepts, Rest>>

\* (mutant) Stopped is reported before the agent has drained.
ReportEarly ==
    /\ thread = "draining" /\ outcome = "Shutdown" /\ thread' = "draining"
    /\ status' = "stopped" /\ accepts' = "no"
    /\ UNCHANGED <<outcome, rx, asked, Rest>>

ReportStopped ==
    /\ Goto("stopping", "exiting") /\ status' = "stopped" /\ accepts' = "no"
    /\ UNCHANGED <<outcome, rx, asked, Rest>>

\* The dispatcher returns, once the handler is done, and with it main.
Return == thread = "exiting" /\ handler = "idle" /\ Gone

ServiceMain ==
    \/ ReportRunning \/ LoadConfig \/ ProcessExit \/ Subscribe
    \/ WakeStop \/ WakeReload \/ RunReturns \/ ReportStopped \/ Return
Handler == HandlerSends \/ HandlerReports

-----------------------------------------------------------------------------
(* What installs, edits and marks for deletion *)

Edits ==
    \/ config' \in Configs /\ UNCHANGED entry
    \/ entry' \in {"none", "there", "marked"} /\ UNCHANGED config

ServiceNext ==
    \/ ServiceMain \/ Handler \/ AskReload
    \/ StartService \/ \E c \in {"Stop", "Shutdown"} : Control(c)
    \/ Edits /\ UNCHANGED <<process, status, accepts, handler, missed, reloads>>

ServiceSpec == ServiceInit /\ [][ServiceNext]_serviceVars

-----------------------------------------------------------------------------
\* The SCM, and whoever asks it, takes the service for stopped only when the agent has
\* drained its sources and flushed: not while a late StopPending of the handler or a
\* reload is under way.
StoppedMeansDrained == status = "stopped" => thread \in {"none", "exiting"}

\* A Stop that was passed on and not missed is never forgotten: the agent is about to
\* wake up for it, drains for it, or is on its way out.
StopNotForgotten ==
    (handler = "report" \/ status = "stop_pending") /\ missed = "no" =>
        \/ thread = "waiting" /\ rx = "changed"
        \/ thread = "draining" /\ outcome = "Shutdown"
        \/ thread \in {"stopping", "exiting"}
=============================================================================
