------------------------------- MODULE Install ------------------------------
(***************************************************************************)
(* witness setup, install and uninstall (setup.rs, install/) on the three  *)
(* service managers: systemd, launchd, and the Windows one (scm), with the *)
(* service of WindowsService.  A command is a sequence of steps, each of   *)
(* which may fail or be cut short; a file that is written in place may     *)
(* then be left torn.  Privileges, paths and the texts of unit and plist   *)
(* are left out; status and what is printed change nothing.                *)
(*                                                                         *)
(* On systemd and launchd the agent is there while "daemon" is "loaded":   *)
(* both restart it when it fails.                                          *)
(***************************************************************************)
EXTENDS WindowsService, Sequences

CONSTANTS
    Platforms,                              \* of systemd, launchd, scm
    MaxCommands, MaxFaults, MaxOperator     \* bounds

ASSUME InstallAssumption == Platforms \subseteq {"systemd", "launchd", "scm"}

VARIABLES
    platform,
    cmd, steps,     \* the command and what is left of it
    result,         \* "none" while it runs, "ok", "err"
    warned,         \* "yes" if uninstall went on over an error of the service manager
    clean,          \* "yes" if nothing failed by itself and no agent was there before
    binary, unit,   \* the installed binary and unit file or plist
    daemon,         \* the service of systemd or launchd: "none", "loaded"
    state,          \* the state directory: "none", "there"
    commands, faults, operator      \* counters behind the bounds

service == <<entry, status, accepts, thread, outcome, rx, handler, asked, missed, reloads>>
control == <<cmd, steps, result, warned, clean>>
files == <<binary, unit, state, config>>
bounds == <<commands, faults, operator>>
hostVars == <<platform, control, files, daemon, bounds, service>>

\* An agent is there.
Alive == daemon = "loaded" \/ thread # "none"

Flags == {"no", "yes"}
Commands ==
    [op : {"install"}, force : Flags, token : Flags, from : {"elsewhere", "installed"},
     purge : {"no"}] \cup
    [op : {"setup"}, force : Flags, token : {"yes"}, from : {"elsewhere"}, purge : {"no"}] \cup
    [op : {"uninstall"}, force : {"no"}, token : {"no"}, from : {"elsewhere"}, purge : Flags]

Idle == [op |-> "none", force |-> "no", token |-> "no", from |-> "elsewhere", purge |-> "no"]

HostInit ==
    /\ platform \in Platforms /\ cmd = Idle /\ steps = <<>> /\ result = "ok"
    /\ warned = "no" /\ clean = "no"
    /\ binary = "none" /\ unit = "none" /\ daemon = "none" /\ state = "none"
    /\ commands = 0 /\ faults = 0 /\ operator = 0
    /\ ServiceInit

-----------------------------------------------------------------------------
(* The commands *)

If(flag, s) == IF flag = "yes" THEN s ELSE <<>>

\* systemd, launchd and windows: install
SystemdInstall(c) == <<"binary", "user", "unit">> \o If(c.token, <<"setup", "enable_now">>)
LaunchdInstall(c) ==
    <<"binary", "dirs", "unit">> \o If(c.token, <<"setup">>) \o <<"bootstrap", "enable">>
WindowsInstall(c) == <<"binary", "dirs">> \o If(c.token, <<"setup">>) \o <<"exists">>

InstallPlan(c) ==
    CASE platform = "systemd" -> SystemdInstall(c)
      [] platform = "launchd" -> LaunchdInstall(c)
      [] platform = "scm" -> WindowsInstall(c)

\* launchd and windows: uninstall
LaunchdUninstall(c) == <<"bootout", "remove_unit">> \o If(c.purge, <<"purge">>)
WindowsUninstall(c) == <<"query">> \o If(c.purge, <<"purge">>)

UninstallPlan(c) ==
    CASE platform = "launchd" -> LaunchdUninstall(c)
      [] platform = "scm" -> WindowsUninstall(c)

Plan(c) ==
    CASE c.op = "install" -> InstallPlan(c)
      [] c.op = "uninstall" -> UninstallPlan(c)
      [] c.op = "setup" -> <<"setup">>

\* uninstall is not implemented on Linux.
Start(c) ==
    /\ steps = <<>> /\ commands < MaxCommands /\ commands' = commands + 1
    /\ c.op = "uninstall" => platform # "systemd"
    /\ c.from = "installed" => binary = "good"
    /\ cmd' = c /\ steps' = Plan(c) /\ result' = "none" /\ warned' = "no"
    /\ clean' = IF Alive \/ entry = "marked" THEN "no" ELSE "yes"
    /\ UNCHANGED <<platform, files, daemon, faults, operator, service>>

\* The next step is x, and it succeeds, with others to follow it; the last one ends the
\* command.
Follow(x, more) ==
    /\ steps # <<>> /\ Head(steps) = x
    /\ steps' = more \o Tail(steps)
    /\ result' = IF steps' = <<>> THEN "ok" ELSE "none"
    /\ UNCHANGED <<platform, cmd, clean, bounds>>
Ok(x) == Follow(x, <<>>) /\ UNCHANGED warned

\* It fails: every caller returns the error.
Err(x) ==
    /\ steps # <<>> /\ Head(steps) = x /\ steps' = <<>> /\ result' = "err"
    /\ UNCHANGED <<platform, cmd, clean, warned, bounds>>

-----------------------------------------------------------------------------
(* Steps that write files *)

\* install_binary: nothing is copied if the command is the installed binary.  A binary
\* that runs cannot be overwritten on Linux and Windows; under systemd the agent may be
\* between two starts.
Copies == cmd.from = "elsewhere"
InstallBinary ==
    /\ \/ /\ Copies /\ Alive /\ platform # "launchd"
          /\ Err("binary") /\ UNCHANGED binary
       \/ /\ Copies => thread = "none"
          /\ Ok("binary") /\ binary' = IF Copies THEN "good" ELSE binary
    /\ UNCHANGED <<unit, state, config, daemon, service>>

\* create_user, and create_dirs, which on Windows makes the state directory too
CreateUser == Ok("user") /\ UNCHANGED <<files, daemon, service>>
CreateDirs ==
    /\ Ok("dirs") /\ state' = IF platform = "scm" THEN "there" ELSE state
    /\ UNCHANGED <<binary, unit, config, daemon, service>>

\* install_service, write_plist
WriteUnit ==
    /\ Ok("unit") /\ unit' = IF unit # "none" /\ cmd.force = "no" THEN unit ELSE "good"
    /\ UNCHANGED <<binary, state, config, daemon, service>>

\* What the server answers: a valid configuration, an invalid one, or nothing; offline,
\* it is not asked.
fetch_config == {"good", "bad", "none"}
parse_config(toml) == toml = "good"
generate_default == "good"

\* (mutant) What the server sent is not validated.
AsFetched(toml) == IF toml = "none" THEN generate_default ELSE toml

ConfigToml(toml) == IF parse_config(toml) THEN toml ELSE generate_default

\* setup::execute
Setup ==
    /\ IF config # "none" /\ cmd.force = "no" THEN Err("setup") /\ UNCHANGED config
       ELSE Ok("setup") /\ \E toml \in fetch_config : config' = ConfigToml(toml)
    /\ UNCHANGED <<binary, unit, state, daemon, service>>

-----------------------------------------------------------------------------
(* systemd and launchd *)

\* systemctl enable --now: a unit that runs already stays as it is.
EnableNow ==
    /\ IF unit = "good" THEN Ok("enable_now") /\ daemon' = "loaded"
       ELSE Err("enable_now") /\ UNCHANGED daemon
    /\ UNCHANGED <<files, service>>

\* launchctl bootstrap: fails for a daemon that is loaded.
Bootstrap ==
    /\ IF unit = "good" /\ daemon = "none" THEN Ok("bootstrap") /\ daemon' = "loaded"
       ELSE Err("bootstrap") /\ UNCHANGED daemon
    /\ UNCHANGED <<files, service>>

Enable == Ok("enable") /\ UNCHANGED <<files, daemon, service>>

\* launchctl bootout fails for a daemon that is not loaded; uninstall goes on.
Bootout ==
    /\ Follow("bootout", <<>>) /\ daemon' = "none"
    /\ warned' = IF daemon = "loaded" THEN warned ELSE "yes"
    /\ UNCHANGED <<files, service>>

RemoveUnit ==
    /\ Ok("remove_unit") /\ unit' = "none"
    /\ UNCHANGED <<binary, state, config, daemon, service>>

-----------------------------------------------------------------------------
(* The Windows service: install_sequence and uninstall_sequence *)

\* (mutant) The service is created without the old one being deleted.
NeverDeletes ==
    /\ IF entry # "none" /\ cmd.force = "no" THEN Ok("exists")
       ELSE Follow("exists", <<"create", "start">>) /\ UNCHANGED warned
    /\ UNCHANGED <<files, daemon, service>>

\* An existing service is left intact without --force.
Exists ==
    /\ IF entry # "none" /\ cmd.force = "no" THEN Ok("exists")
       ELSE /\ Follow("exists", (IF entry # "none" THEN <<"delete">> ELSE <<>>)
                                    \o <<"create", "start">>)
            /\ UNCHANGED warned
    /\ UNCHANGED <<files, daemon, service>>

\* (mutant) A service that runs is stopped, and stays registered.
StopsOnly ==
    /\ Follow("query", IF status = "running" THEN <<"stop">> ELSE <<"delete">>)
    /\ UNCHANGED <<warned, files, daemon, service>>

\* query_state; a service that is not running is deleted without being stopped.
Query ==
    /\ Follow("query", IF status = "running" THEN <<"stop", "delete">> ELSE <<"delete">>)
    /\ UNCHANGED <<warned, files, daemon, service>>

\* uninstall warns of an error in its sequence, leaves out the n steps of it that are
\* left, and goes on.
Warn(n) ==
    /\ steps' = SubSeq(steps, n + 1, Len(steps)) /\ warned' = "yes"
    /\ result' = IF steps' = <<>> THEN "ok" ELSE "none"

Warns(x, n) == Head(steps) = x /\ Warn(n) /\ UNCHANGED <<platform, cmd, clean, bounds>>

\* ControlService returns when the handler has; Stop is accepted or refused.
Stop ==
    /\ handler = "idle" /\ steps # <<>>
    /\ IF accepts = "yes" THEN Ok("stop") /\ Control("Stop")
       ELSE Warns("stop", 2) /\ UNCHANGED <<service, config>>
    /\ UNCHANGED <<binary, unit, state, daemon>>

\* DeleteService: the entry of a service with a process is only marked.
Delete ==
    /\ handler = "idle" /\ steps # <<>>
    /\ IF entry = "there"
       THEN Ok("delete") /\ entry' = IF thread = "none" THEN "none" ELSE "marked"
       ELSE /\ IF cmd.op = "install" THEN Err("delete") ELSE Warns("delete", 1)
            /\ UNCHANGED entry
    /\ UNCHANGED <<files, daemon, status, accepts, process, handler, missed, reloads>>

\* CreateService: fails for a service that exists, marked or not.
Create ==
    /\ IF entry = "none" THEN Ok("create") /\ entry' = "there"
       ELSE Err("create") /\ UNCHANGED entry
    /\ UNCHANGED <<files, daemon, status, accepts, process, handler, missed, reloads>>

StartIt ==
    /\ IF Startable THEN Ok("start") /\ StartService
       ELSE Err("start") /\ UNCHANGED <<service, config>>
    /\ UNCHANGED <<binary, unit, state, daemon>>

\* --purge; files that the agent has open cannot be removed on Windows.
Purge ==
    /\ Ok("purge") /\ config' = "none"
    /\ \/ state' = "none"
       \/ thread # "none" /\ UNCHANGED state
    /\ UNCHANGED <<binary, unit, daemon, service>>

Steps ==
    \/ InstallBinary \/ CreateUser \/ CreateDirs \/ WriteUnit \/ Setup
    \/ EnableNow \/ Bootstrap \/ Enable \/ Bootout \/ RemoveUnit
    \/ Exists \/ Query \/ Stop \/ Delete \/ Create \/ StartIt \/ Purge

-----------------------------------------------------------------------------
(* What goes wrong *)

\* A file that was being written in place.
Torn(x, file, writes) == IF Head(steps) = x /\ writes THEN {file, "torn", "good"} ELSE {file}

\* The step fails, or the command is killed in it.
Dies ==
    /\ steps' = <<>> /\ result' = "err" /\ UNCHANGED warned
    /\ binary' \in Torn("binary", binary, Copies /\ thread = "none")
    /\ unit' \in Torn("unit", unit, unit = "none" \/ cmd.force = "yes")
    /\ config' \in Torn("setup", config, config = "none" \/ cmd.force = "yes")

\* An error that is taken for an answer, ignored, or only warned of.
Overlooked ==
    /\ \/ /\ \/ Head(steps) = "exists" /\ steps' = <<"create", "start">>
             \/ Head(steps) = "query" /\ steps' = <<"delete">> \o Tail(steps)
             \/ Head(steps) = "purge" /\ steps' = <<>>
          /\ result' = (IF steps' = <<>> THEN "ok" ELSE "none") /\ UNCHANGED warned
       \/ Head(steps) = "bootout" /\ Warn(1)
       \/ Head(steps) = "stop" /\ Warn(2)
       \/ Head(steps) = "delete" /\ cmd.op = "uninstall" /\ Warn(1)
    /\ UNCHANGED <<binary, unit, config>>

Fault ==
    /\ steps # <<>> /\ faults < MaxFaults /\ faults' = faults + 1 /\ clean' = "no"
    /\ Dies \/ Overlooked
    /\ UNCHANGED <<platform, cmd, state, daemon, commands, operator, service>>

-----------------------------------------------------------------------------
(* The agent, and whoever else starts, stops and edits *)

Service ==
    /\ ServiceMain \/ Handler \/ AskReload
    /\ UNCHANGED <<platform, control, binary, unit, state, daemon, bounds>>

\* save_offsets and the like make the directory if it is not there.
Saves ==
    /\ thread \in {"waiting", "draining"} \/ (daemon = "loaded" /\ config = "good")
    /\ state' = "there"
    /\ UNCHANGED <<platform, control, binary, unit, config, daemon, bounds, service>>

Operator ==
    /\ operator < MaxOperator /\ operator' = operator + 1
    /\ \/ /\ platform = "scm"
          /\ \/ StartService \/ \E c \in {"Stop", "Shutdown"} : Control(c)
          /\ UNCHANGED daemon
       \/ /\ platform # "scm" /\ steps = <<>> /\ daemon' = "none"
          /\ UNCHANGED <<service, config>>
       \/ /\ steps = <<>> /\ config # "none" /\ config' \in {"bad", "good"}
          /\ UNCHANGED <<service, daemon>>
    /\ clean' = "no"
    /\ UNCHANGED <<platform, cmd, steps, result, warned, binary, unit, state, commands, faults>>

HostNext ==
    \/ \E c \in Commands : Start(c)
    \/ Steps \/ Fault \/ Service \/ Saves \/ Operator

\* Threads of a process are scheduled.
Fairness ==
    /\ WF_hostVars(/\ ServiceMain
               /\ UNCHANGED <<platform, control, binary, unit, state, daemon, bounds>>)
    /\ WF_hostVars(/\ Handler
               /\ UNCHANGED <<platform, control, binary, unit, state, daemon, bounds>>)

HostSpec == HostInit /\ [][HostNext]_hostVars /\ Fairness

-----------------------------------------------------------------------------
Ends(r) == result = "none" /\ result' = r

\* A command that reports success has done what it is for, whatever earlier commands that
\* failed or were cut short left behind, and whatever the server sent.  An install with a
\* token: there is a whole binary, a valid configuration, and a service that the manager
\* has started or kept.  An uninstall that warned of nothing: the service is gone, or the
\* SCM removes it when the agent ends.
OkMeansDone ==
    [][/\ Ends("ok") /\ cmd.op = "install" /\ cmd.token = "yes" =>
              /\ binary' = "good" /\ config' = "good"
              /\ IF platform = "scm" THEN entry' # "none"
                 ELSE unit' = "good" /\ daemon' = "loaded"
       /\ Ends("ok") /\ cmd.op = "uninstall" /\ warned' = "no" =>
              unit' = "none" /\ daemon' = "none" /\ entry' # "there"]_hostVars

\* install --force or setup --force repairs whatever earlier commands left behind: it
\* fails only if something fails under it, or if an agent was there when it began.
ForceRepairs == [][Ends("err") => ~(clean' = "yes" /\ cmd.force = "yes")]_hostVars

\* A Stop or Shutdown control that reaches the handler ends the process, unless nobody
\* waited for it: in the start-up, or because a reload was served in its place.
StopEnds == handler = "cancel" ~> thread = "none" \/ missed = "yes"
=============================================================================
