---------------------------- MODULE Agent_proofs ----------------------------
(***************************************************************************)
(* Proofs about the agent as a process, for any configurations and any     *)
(* number of edits, signals, controls, commands, writes and crashes: its   *)
(* life and its remote configuration (Agent), its life as a Windows        *)
(* service (WindowsService), how it is installed and removed (Install),    *)
(* and what it ships of a file without a multiline pattern (SingleLine).   *)
(* The parts share no variable, but for the Windows service that Install   *)
(* works on.                                                               *)
(***************************************************************************)
EXTENDS Agent, Install, SingleLine, TLAPS

-----------------------------------------------------------------------------
(* Agent: two runs never overlap, and the poller writes only what was parsed. *)

\* Where main stands when no task of a run may be alive.
Between == {"load", "hash", "spawn", "close", "reload", "stopped", "exit"}

\* Between two runs both tasks have returned.
NoTaskBetween == phase \in Between => tasks = {}

\* What the poller is about to write, and what aborted ones still write, was parsed.
WritesParsed == zombies \subseteq Valid /\ (poller = "write" => body \in Valid)

\* The inductive invariant.
AgentInv == AgentTypeOK /\ edits \in Nat /\ NoTaskBetween /\ WritesParsed

\* The agent starts with the invariant.
LEMMA InitAgent == AgentInit => AgentInv
<1> SUFFICES ASSUME AgentInit PROVE AgentInv
  BY Zenon
<1>1. {shutdown, reload, handlers} \subseteq BOOLEAN
  BY Zenon DEF AgentInit
<1>2. AgentTypeOK
  BY Zenon, <1>1, AgentAssumption DEF AgentInit, AgentTypeOK
<1>3. QED
  BY Zenon, <1>2 DEF AgentInit, AgentInv, NoTaskBetween, WritesParsed

\* Edits, publications and signals.
LEMMA OutsideAgent == AgentInv /\ Outside => AgentInv'
<1> SUFFICES ASSUME AgentInv, Outside PROVE AgentInv'
  BY Zenon
<1> USE DEF AgentInv, AgentTypeOK, NoTaskBetween, WritesParsed, Between, Ended, main, polls
<1>1. ASSUME NEW c \in Config, Edit(c) PROVE AgentInv'
  BY <1>1 DEF Edit
<1>2. ASSUME NEW c \in Config, Publish(c) PROVE AgentInv'
  BY Zenon, <1>2 DEF Publish
<1>3. ASSUME NEW s \in {"term", "hup"}, Signal(s) PROVE AgentInv'
  BY Zenon, <1>3 DEF Signal
<1>4. QED
  BY Zenon, <1>1, <1>2, <1>3 DEF Outside

\* agent_loop and run.
LEMMA MainAgent == AgentInv /\ Main => AgentInv'
<1> SUFFICES ASSUME AgentInv, Main PROVE AgentInv'
  BY Zenon
<1> USE DEF AgentInv, AgentTypeOK, NoTaskBetween, WritesParsed, Between, Ended, outside, main, polls
<1>1. CASE Load
  BY Zenon, <1>1, AgentAssumption DEF Load
<1>2. CASE ReadHash
  BY Zenon, <1>2 DEF ReadHash
<1>3. CASE Spawn
  BY Zenon, <1>3, AgentAssumption DEF Spawn
<1>4. CASE RegisterHandlers
  BY Zenon, <1>4 DEF RegisterHandlers
<1>5. ASSUME NEW s \in {"shutdown", "reload"}, Wake(s) PROVE AgentInv'
  BY Zenon, <1>5 DEF Wake
<1>6. ASSUME NEW t \in {"collector", "tailer"}, TaskEnds(t) PROVE AgentInv'
  BY Zenon, <1>6 DEF TaskEnds
<1>7. CASE Abort
  BY Zenon, <1>7, AgentAssumption DEF Abort, Awaited
<1>8. CASE Close
  BY Zenon, <1>8 DEF Close
<1>9. CASE Reload
  BY Zenon, <1>9, AgentAssumption DEF Reload, Reloaded
<1>10. QED
  BY Zenon, <1>1, <1>2, <1>3, <1>4, <1>5, <1>6, <1>7, <1>8, <1>9 DEF Main

\* run_poller, and what an aborted one still does.
LEMMA PollerAgent == AgentInv /\ Poller => AgentInv'
<1> SUFFICES ASSUME AgentInv, Poller PROVE AgentInv'
  BY Zenon
<1> USE DEF AgentInv, AgentTypeOK, NoTaskBetween, WritesParsed, Between, PollerStep, main, polls
<1>1. CASE PollerWakes
  BY Zenon, <1>1 DEF PollerWakes
<1>2. CASE PollFails
  BY Zenon, <1>2 DEF PollFails
<1>3. CASE PollNotModified
  BY Zenon, <1>3 DEF PollNotModified
<1>4. CASE PollAnswered
  BY Zenon, <1>4, AgentAssumption DEF PollAnswered, Classify, NewEtag
<1>5. ASSUME NEW ok \in BOOLEAN, PollWrites(ok) PROVE AgentInv'
  BY Zenon, <1>5, AgentAssumption DEF PollWrites
<1>6. ASSUME NEW ok \in BOOLEAN, ZombieWrites(ok) PROVE AgentInv'
  BY <1>6, AgentAssumption DEF ZombieWrites
<1>7. QED
  BY Zenon, <1>1, <1>2, <1>3, <1>4, <1>5, <1>6 DEF Poller

\* Every step of main, its tasks and the poller keeps it.
LEMMA NextAgent == AgentInv /\ [AgentNext]_agentVars => AgentInv'
<1> SUFFICES ASSUME AgentInv, [AgentNext]_agentVars PROVE AgentInv'
  BY Zenon
<1>1. CASE UNCHANGED agentVars
  BY <1>1 DEF agentVars, outside, main, polls, AgentInv, AgentTypeOK, NoTaskBetween, WritesParsed
<1>2. QED
  BY Zenon, <1>1, OutsideAgent, MainAgent, PollerAgent DEF AgentNext

\* The inductive invariant holds in every reachable state.
THEOREM AgentInductive == AgentSpec => []AgentInv
BY InitAgent, NextAgent, PTL DEF AgentSpec

\* Every variable of main.rs and remote_config.rs keeps its type; the configuration in
\* use is valid, whatever was on disk when the agent was told to reload.
THEOREM AgentTypeCorrect == AgentSpec => []AgentTypeOK
<1>1. AgentInv => AgentTypeOK
  BY Zenon DEF AgentInv
<1>2. QED
  BY <1>1, AgentInductive, PTL

\* run closes the sink and returns to agent_loop only when both tasks have returned, for
\* any signals at any moment.
THEOREM OneRunAtATime == AgentSpec => []RunsDoNotOverlap
<1>1. AgentInv => RunsDoNotOverlap
  BY Zenon DEF AgentInv, NoTaskBetween, Between, RunsDoNotOverlap
<1>2. QED
  BY <1>1, AgentInductive, PTL

\* write_config_atomic is reached with a parsed configuration only: by a poller, and by
\* one that was aborted while it wrote.
THEOREM PollerWritesValid == AgentSpec => RemoteWritesValid
<1>1. ASSUME AgentInv, [AgentNext]_agentVars, config_file' # config_file, edits' = edits
      PROVE  config_file' \in Valid
  <2>1. ~Outside /\ ~Main /\ ~UNCHANGED agentVars
    <3>1. ASSUME NEW c \in Config, Edit(c) PROVE FALSE
      BY <1>1, <3>1 DEF Edit, AgentInv
    <3>2. ~Outside
      BY Zenon, <1>1, <3>1 DEF Outside, Publish, Signal
    <3>3. ~Main
      BY Zenon, <1>1 DEF Main, Load, ReadHash, Spawn, RegisterHandlers, Wake, TaskEnds, Abort, Close,
         Reload, outside
    <3>4. QED
      BY Zenon, <1>1, <3>2, <3>3 DEF agentVars, outside
  <2>2. CASE \E ok \in BOOLEAN : PollWrites(ok)
    BY Zenon, <1>1, <2>2 DEF PollWrites, AgentInv, WritesParsed
  <2>3. CASE \E ok \in BOOLEAN : ZombieWrites(ok)
    BY Zenon, <1>1, <2>3 DEF ZombieWrites, AgentInv, WritesParsed
  <2>4. CASE PollerWakes \/ PollFails \/ PollNotModified \/ PollAnswered
    BY Zenon, <1>1, <2>4 DEF PollerWakes, PollFails, PollNotModified, PollAnswered
  <2>5. QED
    BY Zenon, <1>1, <2>1, <2>2, <2>3, <2>4 DEF AgentNext, Poller
<1>2. QED
  BY <1>1, AgentInductive, PTL DEF AgentSpec, RemoteWritesValid

-----------------------------------------------------------------------------
(* WindowsService: any number of reloads, and any entries and configurations. *)

\* The types of what the proofs need.
ServiceTypes ==
    /\ thread \in {"none", "main", "exiting"} \cup Ready
    /\ rx \in {"none", "fresh", "changed"} /\ (rx # "none" <=> thread = "waiting")
    /\ missed \in {"no", "yes"}

\* Controls are accepted, and the handler is at work, only between the report of Running
\* and the end of the process; without a process the service is stopped.
HandlerInProcess ==
    /\ accepts = "yes" => thread \in Ready
    /\ handler # "idle" => thread \in Ready \cup {"exiting"}
    /\ thread = "none" => status = "stopped"
    /\ thread = "main" => status = "start_pending"

\* The inductive invariant.
ServiceInv == ServiceTypes /\ HandlerInProcess /\ StoppedMeansDrained /\ StopNotForgotten

\* A service that is not installed has the invariant.
LEMMA InitService == ServiceInit => ServiceInv
  BY Zenon DEF ServiceInit, ServiceInv, ServiceTypes, HandlerInProcess, StoppedMeansDrained,
     StopNotForgotten, Ready

\* The end of the process, however it comes.
LEMMA GoneService == ASSUME ServiceInv, Gone PROVE ServiceInv'
  BY Zenon DEF Gone, ServiceInv, ServiceTypes, HandlerInProcess, StoppedMeansDrained,
     StopNotForgotten, Ready

\* Every step of the SCM, the handler and the service keeps the invariant.
LEMMA NextService == ServiceInv /\ [ServiceNext]_serviceVars => ServiceInv'
  <1> SUFFICES ASSUME ServiceInv, [ServiceNext]_serviceVars PROVE ServiceInv'
    BY Zenon
  <1> USE DEF ServiceInv, ServiceTypes, HandlerInProcess, StoppedMeansDrained, StopNotForgotten, Ready
  <1>1. CASE ReportRunning
    BY Zenon, <1>1 DEF ReportRunning, Goto, Rest
  <1>2. CASE LoadConfig
    BY Zenon, <1>2 DEF LoadConfig, Goto, Rest
  <1>3. CASE ProcessExit
    BY Zenon, <1>3, GoneService DEF ProcessExit
  <1>4. CASE Subscribe
    BY Zenon, <1>4 DEF Subscribe, Goto, Rest
  <1>5. CASE WakeStop
    BY Zenon, <1>5 DEF WakeStop, Goto, Rest
  <1>6. CASE WakeReload
    BY Zenon, <1>6 DEF WakeReload, Goto
  <1>7. CASE RunReturns
    BY Zenon, <1>7 DEF RunReturns, Rest
  <1>8. CASE ReportStopped
    BY Zenon, <1>8 DEF ReportStopped, Goto, Rest
  <1>9. CASE Return
    BY Zenon, <1>9, GoneService DEF Return
  <1>10. CASE HandlerSends
    BY Zenon, <1>10 DEF HandlerSends, scm
  <1>11. CASE HandlerReports
    BY Zenon, <1>11 DEF HandlerReports, process
  <1>12. CASE AskReload
    BY Zenon, <1>12 DEF AskReload, scm
  <1>13. CASE StartService
    BY Zenon, <1>13 DEF StartService, Startable
  <1>14. CASE \E c \in {"Stop", "Shutdown"} : Control(c)
    BY Zenon, <1>14 DEF Control, Accepted, process, scm
  <1>15. CASE Edits /\ UNCHANGED <<process, status, accepts, handler, missed, reloads>>
    BY Zenon, <1>15 DEF process
  <1>16. CASE UNCHANGED serviceVars
    BY Zenon, <1>16 DEF serviceVars, process, scm
  <1> QED
    BY Zenon, <1>1, <1>2, <1>3, <1>4, <1>5, <1>6, <1>7, <1>8, <1>9, <1>10, <1>11, <1>12, <1>13,
       <1>14, <1>15, <1>16 DEF ServiceNext, ServiceMain, Handler

\* The invariant holds throughout.
LEMMA ServiceInductive == ServiceSpec => []ServiceInv
  BY InitService, NextService, PTL DEF ServiceSpec

\* The SCM takes the service for stopped only when the agent has drained.
THEOREM DrainedWhenStopped == ServiceSpec => []StoppedMeansDrained
  <1>1. ServiceInv => StoppedMeansDrained
    BY Zenon DEF ServiceInv
  <1> QED
    BY <1>1, ServiceInductive, PTL

\* A Stop that was passed on while the agent waited, and was not overtaken by a reload,
\* stays pending until the process ends.
THEOREM StopStaysPending == ServiceSpec => []StopNotForgotten
  <1>1. ServiceInv => StopNotForgotten
    BY Zenon DEF ServiceInv
  <1> QED
    BY <1>1, ServiceInductive, PTL

-----------------------------------------------------------------------------
(* Install: any number of commands, faults and acts of the operator. *)

\* The names of the steps.
Step == {"binary", "user", "dirs", "unit", "setup", "enable_now", "bootstrap", "enable",
         "exists", "delete", "create", "start", "bootout", "remove_unit", "query", "stop", "purge"}

\* The steps a command has on each platform.
WithToken(c, s) == IF c.token = "yes" THEN s ELSE {}
WithPurge(c) == IF c.purge = "yes" THEN {"purge"} ELSE {}
InstallSteps(c) ==
    CASE platform = "systemd" ->
            {"binary", "user", "unit"} \cup WithToken(c, {"setup", "enable_now"})
      [] platform = "launchd" ->
            {"binary", "dirs", "unit", "bootstrap", "enable"} \cup WithToken(c, {"setup"})
      [] platform = "scm" ->
            {"binary", "dirs", "exists", "delete", "create", "start"} \cup WithToken(c, {"setup"})
UninstallSteps(c) ==
    CASE platform = "launchd" -> {"bootout", "remove_unit"} \cup WithPurge(c)
      [] platform = "scm" -> {"query", "stop", "delete"} \cup WithPurge(c)
      [] platform = "systemd" -> {}
StepsOf(c) ==
    CASE c.op = "install" -> InstallSteps(c)
      [] c.op = "uninstall" -> UninstallSteps(c)
      [] c.op = "setup" -> {"setup"}
      [] c.op = "none" -> {}

\* The step that follows a step.
OrPurge(c) == IF c.purge = "yes" THEN "purge" ELSE "end"
Then(c, x) ==
    CASE x = "binary" -> IF platform = "systemd" THEN "user" ELSE "dirs"
      [] x = "user" -> "unit"
      [] x = "dirs" -> IF platform = "launchd" THEN "unit"
                       ELSE IF c.token = "yes" THEN "setup" ELSE "exists"
      [] x = "unit" -> IF c.token = "yes" THEN "setup"
                       ELSE IF platform = "systemd" THEN "end" ELSE "bootstrap"
      [] x = "setup" -> IF c.op = "setup" THEN "end"
                        ELSE IF platform = "systemd" THEN "enable_now"
                        ELSE IF platform = "launchd" THEN "bootstrap" ELSE "exists"
      [] x = "bootstrap" -> "enable"
      [] x = "delete" -> IF c.op = "install" THEN "create" ELSE OrPurge(c)
      [] x = "create" -> "start"
      [] x = "bootout" -> "remove_unit"
      [] x \in {"remove_unit", "query"} -> OrPurge(c)
      [] x = "stop" -> "delete"
      [] x \in {"enable_now", "enable", "exists", "start", "purge"} -> "end"

\* A sequence is what is left of a command.
First(s) == IF s = <<>> THEN "end" ELSE Head(s)
LeftOf(s, c) ==
    /\ s \in Seq(Step)
    /\ \A i \in 1..Len(s) :
          s[i] \in StepsOf(c) /\ Then(c, s[i]) = IF i < Len(s) THEN s[i + 1] ELSE "end"

\* A command runs while steps of it are left.
OnPlan ==
    /\ LeftOf(steps, cmd) /\ cmd \in Commands \cup {Idle}
    /\ result \in {"none", "ok", "err"} /\ (result = "none" <=> steps # <<>>)

\* Each platform has one service manager.
OnePlatform ==
    /\ platform \in {"systemd", "launchd", "scm"}
    /\ config \in Configs /\ entry \in {"none", "there", "marked"} /\ daemon \in {"none", "loaded"}
    /\ platform # "scm" => entry = "none" /\ thread = "none"
    /\ platform = "scm" => unit = "none" /\ daemon = "none"

\* What an installation has done when it is at a step.
Installing ==
    cmd.op = "install" /\ steps # <<>> =>
        /\ Head(steps) # "binary" \/ cmd.from = "installed" => binary = "good"
        /\ cmd.token = "yes" /\ Head(steps) \notin {"binary", "user", "dirs", "unit", "setup"} =>
              config = "good"
        /\ Head(steps) = "enable" => unit = "good" /\ daemon = "loaded"

\* What an uninstall that warned of nothing has done.
Uninstalling ==
    cmd.op = "uninstall" /\ steps # <<>> /\ warned = "no" =>
        /\ Head(steps) \in {"remove_unit", "purge"} => daemon = "none"
        /\ Head(steps) = "purge" => unit = "none" /\ entry # "there"

\* A command with --force that met no agent and no fault finds what its next step needs.
Repairing ==
    clean = "yes" /\ cmd.force = "yes" /\ steps # <<>> =>
        /\ thread = "none" /\ entry # "marked"
        /\ Head(steps) # "enable" => daemon = "none"
        /\ Head(steps) \in {"enable_now", "bootstrap"} => unit = "good"
        /\ Head(steps) = "setup" /\ cmd.op = "install" /\ platform # "scm" => unit = "good"
        /\ Head(steps) = "create" => entry = "none"
        /\ Head(steps) \in {"delete", "start"} => entry = "there"

HostInv == OnPlan /\ OnePlatform /\ Installing /\ Uninstalling /\ Repairing

\* Sequences of steps.
LEMMA Uncons == ASSUME NEW s \in Seq(Step), s # <<>> PROVE s = <<Head(s)>> \o Tail(s)
OBVIOUS

\* The first of two steps.
LEMMA Pair ==
    ASSUME NEW a \in Step, NEW b \in Step, NEW t \in Seq(Step)
    PROVE  <<a, b>> \o t = <<a>> \o (<<b>> \o t)
<1>1. /\ <<a, b>> \o t \in Seq(Step) /\ <<a, b>> \o t # <<>>
      /\ Head(<<a, b>> \o t) = a /\ Tail(<<a, b>> \o t) = <<b>> \o t
  OBVIOUS
<1>2. QED
  BY Zenon, <1>1, Uncons

\* The first of three.
LEMMA Triple ==
    \A a, b, d \in Step : \A t \in Seq(Step) :
        <<a, b, d>> \o t = <<a>> \o (<<b, d>> \o t)
<1> SUFFICES ASSUME NEW a \in Step, NEW b \in Step, NEW d \in Step, NEW t \in Seq(Step)
             PROVE  <<a, b, d>> \o t = <<a>> \o (<<b, d>> \o t)
  BY Zenon
<1>1. /\ <<a, b, d>> \o t \in Seq(Step) /\ <<a, b, d>> \o t # <<>>
      /\ Head(<<a, b, d>> \o t) = a /\ Tail(<<a, b, d>> \o t) = <<b, d>> \o t
  OBVIOUS
<1>2. QED
  BY Zenon, <1>1, Uncons

\* The end is not a step.
LEMMA StepNames ==
    ASSUME NEW s \in Seq(Step), s # <<>>
    PROVE  Head(s) # "end"
<1>1. Head(s) \in Step
  OBVIOUS
<1>2. QED
  BY Zenon, <1>1 DEF Step

\* Nothing before and nothing behind.
LEMMA Units == ASSUME NEW t \in Seq(Step) PROVE <<>> \o t = t /\ t \o <<>> = t
OBVIOUS

\* Plans are put together in any order.
LEMMA Associates ==
    ASSUME NEW p \in Seq(Step), NEW q \in Seq(Step), NEW r \in Seq(Step)
    PROVE  (p \o q) \o r = p \o (q \o r)
OBVIOUS

\* What is left behind the first step of a command is left of it too.
LEMMA LeftTail ==
    ASSUME NEW c, NEW s, LeftOf(s, c), s # <<>>
    PROVE  LeftOf(Tail(s), c) /\ Head(s) \in StepsOf(c) /\ First(Tail(s)) = Then(c, Head(s))
<1>1. s \in Seq(Step) /\ Len(s) \in Nat \ {0} /\ Head(s) = s[1]
  BY DEF LeftOf
<1>2. /\ Tail(s) \in Seq(Step) /\ Len(Tail(s)) = Len(s) - 1
      /\ \A i \in 1..Len(Tail(s)) : Tail(s)[i] = s[i + 1] /\ i + 1 \in 1..Len(s)
  BY <1>1
<1>3. ASSUME NEW i \in 1..Len(Tail(s))
      PROVE  /\ Tail(s)[i] \in StepsOf(c)
             /\ Then(c, Tail(s)[i]) = IF i < Len(Tail(s)) THEN Tail(s)[i + 1] ELSE "end"
  <2>1. i + 1 \in 1..Len(s) /\ (i + 1 < Len(s) <=> i < Len(Tail(s)))
    BY <1>1, <1>2
  <2>2. i < Len(Tail(s)) => Tail(s)[i + 1] = s[(i + 1) + 1]
    BY <1>1, <1>2
  <2>3. QED
    BY Zenon, <1>2, <2>1, <2>2 DEF LeftOf
<1>4. 1 \in 1..Len(s) /\ (1 < Len(s) <=> Tail(s) # <<>>) /\ (1 < Len(s) => Head(Tail(s)) = s[1 + 1])
  BY <1>1, <1>2
<1>5. QED
  BY Zenon, <1>1, <1>2, <1>3, <1>4 DEF LeftOf, First

\* A step in front of what is left behind it.
LEMMA LeftCons ==
    ASSUME NEW c, NEW t, LeftOf(t, c), NEW x \in Step, x \in StepsOf(c), Then(c, x) = First(t)
    PROVE  LeftOf(<<x>> \o t, c) /\ First(<<x>> \o t) = x /\ <<x>> \o t # <<>>
<1> DEFINE s == <<x>> \o t
<1>1. t \in Seq(Step)
  BY Zenon DEF LeftOf
<1>2. /\ s \in Seq(Step) /\ Len(s) = Len(t) + 1 /\ s[1] = x /\ s # <<>> /\ Head(s) = x
      /\ \A i \in 1..Len(t) : s[i + 1] = t[i]
  BY <1>1
<1> HIDE DEF s
<1>3. ASSUME NEW i \in 1..Len(s)
      PROVE  /\ s[i] \in StepsOf(c)
             /\ Then(c, s[i]) = IF i < Len(s) THEN s[i + 1] ELSE "end"
  <2>1. CASE i = 1
    <3>1. (1 < Len(s) <=> t # <<>>) /\ (t # <<>> => Head(t) = s[1 + 1])
      BY <1>1, <1>2
    <3>2. QED
      BY Zenon, <1>2, <2>1, <3>1 DEF First
  <2>2. CASE i # 1
    <3>1. PICK j \in 1..Len(t) : i = j + 1
      BY <1>1, <1>2, <2>2
    <3>2. s[i] = t[j] /\ (i < Len(s) <=> j < Len(t)) /\ (j < Len(t) => s[i + 1] = t[j + 1])
      BY <1>1, <1>2, <3>1
    <3>3. QED
      BY Zenon, <3>2 DEF LeftOf
  <2>3. QED
    BY Zenon, <2>1, <2>2
<1>4. LeftOf(s, c) /\ First(s) = x /\ s # <<>>
  BY Zenon, <1>2, <1>3 DEF LeftOf, First
<1>5. QED
  BY Zenon, <1>4 DEF s

\* Nothing is left of every command.
LEMMA LeftNone == ASSUME NEW c PROVE LeftOf(<<>>, c) /\ First(<<>>) = "end"
BY DEF LeftOf, First

\* Two steps in front of what is left behind them.
LEMMA LeftPair ==
    ASSUME NEW c, NEW t, LeftOf(t, c), NEW x \in Step, NEW y \in Step, x \in StepsOf(c),
           y \in StepsOf(c), Then(c, x) = y, Then(c, y) = First(t)
    PROVE  LeftOf(<<x, y>> \o t, c) /\ First(<<x, y>> \o t) = x /\ <<x, y>> \o t # <<>>
<1> DEFINE u == <<y>> \o t
<1>1. LeftOf(u, c) /\ First(u) = y
  BY Zenon, LeftCons
<1>2. t \in Seq(Step)
  BY Zenon DEF LeftOf
<1>3. <<x, y>> \o t = <<x>> \o u
  BY Zenon, <1>2, Pair
<1> HIDE DEF u
<1>4. LeftOf(<<x>> \o u, c) /\ First(<<x>> \o u) = x /\ <<x>> \o u # <<>>
  BY Zenon, <1>1, LeftCons
<1>5. QED
  BY Zenon, <1>3, <1>4

\* Three steps in front of what is left behind them.
LEMMA LeftTriple ==
    ASSUME NEW c, NEW t, LeftOf(t, c), NEW x \in Step, NEW y \in Step, NEW z \in Step,
           {x, y, z} \subseteq StepsOf(c), Then(c, x) = y, Then(c, y) = z, Then(c, z) = First(t)
    PROVE  LeftOf(<<x, y, z>> \o t, c) /\ First(<<x, y, z>> \o t) = x /\ <<x, y, z>> \o t # <<>>
<1> DEFINE u == <<y, z>> \o t
<1>1. LeftOf(u, c) /\ First(u) = y
  BY LeftPair
<1>2. t \in Seq(Step)
  BY Zenon DEF LeftOf
<1>3. <<x, y, z>> \o t = <<x>> \o u
  <2>1. \A d \in Step : \A s \in Seq(Step) : <<x, y, d>> \o s = <<x>> \o (<<y, d>> \o s)
    BY Zenon, Triple
  <2>2. QED
    BY Zenon, <1>2, <2>1
<1> HIDE DEF u
<1>4. LeftOf(<<x>> \o u, c) /\ First(<<x>> \o u) = x /\ <<x>> \o u # <<>>
  BY Zenon, <1>1, LeftCons
<1>5. QED
  BY Zenon, <1>3, <1>4

\* The same for steps that are the last ones.
LEMMA LeftLast ==
    ASSUME NEW c
    PROVE  /\ \A x \in Step : x \in StepsOf(c) /\ Then(c, x) = "end" =>
                 LeftOf(<<x>>, c) /\ First(<<x>>) = x /\ <<x>> # <<>>
           /\ \A x, y \in Step : {x, y} \subseteq StepsOf(c) /\ Then(c, x) = y /\ Then(c, y) = "end" =>
                 LeftOf(<<x, y>>, c) /\ First(<<x, y>>) = x /\ <<x, y>> # <<>>
<1>1. ASSUME NEW x \in Step, NEW y \in Step
      PROVE  <<x>> \o <<>> = <<x>> /\ <<x, y>> \o <<>> = <<x, y>>
  <2>1. <<x>> \in Seq(Step) /\ <<x, y>> \in Seq(Step)
    OBVIOUS
  <2>2. QED
    BY Zenon, <2>1, Units
<1>2. LeftOf(<<>>, c) /\ First(<<>>) = "end"
  BY Zenon, LeftNone
<1>3. ASSUME NEW x \in Step, x \in StepsOf(c), Then(c, x) = "end"
      PROVE  LeftOf(<<x>>, c) /\ First(<<x>>) = x /\ <<x>> # <<>>
  <2>1. LeftOf(<<x>> \o <<>>, c) /\ First(<<x>> \o <<>>) = x /\ <<x>> \o <<>> # <<>>
    BY Zenon, <1>2, <1>3, LeftCons
  <2>2. QED
    BY <1>1, <2>1
<1>4. ASSUME NEW x \in Step, NEW y \in Step, {x, y} \subseteq StepsOf(c), Then(c, x) = y,
             Then(c, y) = "end"
      PROVE  LeftOf(<<x, y>>, c) /\ First(<<x, y>>) = x /\ <<x, y>> # <<>>
  <2>1. LeftOf(<<x, y>> \o <<>>, c) /\ First(<<x, y>> \o <<>>) = x /\ <<x, y>> \o <<>> # <<>>
    <3> DEFINE e == <<>>
    <3>1. LeftOf(e, c) /\ x \in StepsOf(c) /\ y \in StepsOf(c) /\ Then(c, y) = First(e)
      BY Zenon, <1>2, <1>4
    <3> HIDE DEF e
    <3>2. LeftOf(<<x, y>> \o e, c) /\ First(<<x, y>> \o e) = x /\ <<x, y>> \o e # <<>>
      BY <1>4, <3>1, LeftPair
    <3>3. QED
      BY Zenon, <3>2 DEF e
  <2>2. QED
    BY <1>1, <2>1
<1>5. QED
  BY Zenon, <1>3, <1>4

\* The end of an uninstall.
LEMMA PurgeIsLeft ==
    ASSUME OnePlatform, NEW c, c.op = "uninstall", platform # "systemd"
    PROVE  LeftOf(If(c.purge, <<"purge">>), c) /\ First(If(c.purge, <<"purge">>)) = OrPurge(c)
<1>1. CASE c.purge = "yes"
  <2>1. "purge" \in Step /\ "purge" \in StepsOf(c) /\ Then(c, "purge") = "end"
    BY Zenon, <1>1 DEF OnePlatform, Step, StepsOf, UninstallSteps, WithPurge, Then
  <2>2. QED
    BY Zenon, <1>1, <2>1, LeftLast DEF If, OrPurge
<1>2. CASE c.purge # "yes"
  BY Zenon, <1>2, LeftNone DEF If, OrPurge
<1>3. QED
  BY Zenon, <1>1, <1>2

\* A command begins with all its steps.
LEMMA PlanIsLeft ==
    ASSUME OnePlatform, NEW c \in Commands, c.op = "uninstall" => platform # "systemd"
    PROVE  /\ LeftOf(Plan(c), c) /\ Plan(c) # <<>>
           /\ c.op = "install" => Head(Plan(c)) = "binary"
           /\ c.op = "setup" => Head(Plan(c)) = "setup"
           /\ c.op = "uninstall" => Head(Plan(c)) \in {"bootout", "query"}
<1>1. c.op \in {"install", "uninstall", "setup"} /\ c.token \in Flags /\ c.purge \in Flags
  BY Zenon DEF Commands, Flags
<1>2. platform \in {"systemd", "launchd", "scm"}
  BY Zenon DEF OnePlatform
<1>3. LeftOf(<<>>, c) /\ First(<<>>) = "end"
  BY Zenon, LeftNone
<1>4. SUFFICES /\ LeftOf(Plan(c), c) /\ Plan(c) # <<>>
               /\ c.op = "install" => First(Plan(c)) = "binary"
               /\ c.op = "setup" => First(Plan(c)) = "setup"
               /\ c.op = "uninstall" => First(Plan(c)) \in {"bootout", "query"}
  BY Zenon DEF First
<1>5. CASE c.op = "setup"
  <2>1. Plan(c) = <<"setup">> /\ "setup" \in Step /\ "setup" \in StepsOf(c) /\ Then(c, "setup") = "end"
    BY Zenon, <1>5 DEF Plan, Step, StepsOf, Then
  <2>2. QED
    BY Zenon, <1>5, <2>1, LeftLast
<1>6. CASE c.op = "install" /\ platform = "systemd"
  <2> DEFINE t == If(c.token, <<"setup", "enable_now">>)
  <2>1. Plan(c) = <<"binary", "user", "unit">> \o t
    BY Zenon, <1>6 DEF Plan, InstallPlan, SystemdInstall
  <2>2. /\ {"binary", "user", "unit", "setup", "enable_now"} \subseteq Step
        /\ {"binary", "user", "unit"} \subseteq StepsOf(c)
        /\ c.token = "yes" => {"setup", "enable_now"} \subseteq StepsOf(c)
    BY Zenon, <1>6 DEF Step, StepsOf, InstallSteps, WithToken
  <2>3. /\ Then(c, "binary") = "user" /\ Then(c, "user") = "unit" /\ Then(c, "enable_now") = "end"
        /\ Then(c, "unit") = IF c.token = "yes" THEN "setup" ELSE "end"
        /\ Then(c, "setup") = "enable_now"
    BY Zenon, <1>6 DEF Then
  <2>4. LeftOf(t, c) /\ First(t) = Then(c, "unit")
    <3>1. CASE c.token = "yes"
      <4>1. LeftOf(<<"setup", "enable_now">>, c) /\ First(<<"setup", "enable_now">>) = "setup"
        BY <2>2, <2>3, <3>1, LeftLast
      <4>2. QED
        BY Zenon, <2>3, <3>1, <4>1 DEF If
    <3>2. CASE c.token # "yes"
      BY Zenon, <1>3, <2>3, <3>2 DEF If
    <3>3. QED
      BY Zenon, <3>1, <3>2
  <2> HIDE DEF t
  <2>5. QED
    BY <1>6, <2>1, <2>2, <2>3, <2>4, LeftTriple
<1>7. CASE c.op = "install" /\ platform = "launchd"
  <2> DEFINE e == <<"bootstrap", "enable">>
  <2> DEFINE k == If(c.token, <<"setup">>)
  <2> DEFINE t == k \o e
  <2>2. /\ {"binary", "dirs", "unit", "setup", "bootstrap", "enable"} \subseteq Step
        /\ {"binary", "dirs", "unit", "bootstrap", "enable"} \subseteq StepsOf(c)
        /\ c.token = "yes" => "setup" \in StepsOf(c)
    BY Zenon, <1>7 DEF Step, StepsOf, InstallSteps, WithToken
  <2>3. /\ Then(c, "binary") = "dirs" /\ Then(c, "dirs") = "unit"
        /\ Then(c, "unit") = IF c.token = "yes" THEN "setup" ELSE "bootstrap"
        /\ Then(c, "setup") = "bootstrap" /\ Then(c, "bootstrap") = "enable"
        /\ Then(c, "enable") = "end"
    BY Zenon, <1>7 DEF Then
  <2>4. LeftOf(e, c) /\ First(e) = "bootstrap"
    BY <2>2, <2>3, LeftLast
  <2>5. Plan(c) = <<"binary", "dirs", "unit">> \o t
    <3>1. Plan(c) = (<<"binary", "dirs", "unit">> \o k) \o e
      BY Zenon, <1>7 DEF Plan, InstallPlan, LaunchdInstall
    <3>2. <<"binary", "dirs", "unit">> \in Seq(Step) /\ k \in Seq(Step) /\ e \in Seq(Step)
      BY <2>2 DEF If
    <3>3. QED
      BY Zenon, <3>1, <3>2, Associates
  <2>6. LeftOf(t, c) /\ First(t) = Then(c, "unit")
    <3> HIDE DEF e
    <3>1. CASE c.token = "yes"
      <4>1. LeftOf(<<"setup">> \o e, c) /\ First(<<"setup">> \o e) = "setup"
        BY <2>2, <2>3, <2>4, <3>1, LeftCons
      <4>2. QED
        BY Zenon, <2>3, <3>1, <4>1 DEF If
    <3>2. CASE c.token # "yes"
      BY Zenon, <2>3, <2>4, <3>2, Units DEF If, LeftOf
    <3>3. QED
      BY Zenon, <3>1, <3>2
  <2> HIDE DEF t
  <2>7. QED
    BY <1>7, <2>5, <2>2, <2>3, <2>6, LeftTriple
<1>8. CASE c.op = "install" /\ platform = "scm"
  <2> DEFINE e == <<"exists">>
  <2> DEFINE k == If(c.token, <<"setup">>)
  <2> DEFINE t == k \o e
  <2>2. /\ {"binary", "dirs", "setup", "exists"} \subseteq Step
        /\ {"binary", "dirs", "exists"} \subseteq StepsOf(c)
        /\ c.token = "yes" => "setup" \in StepsOf(c)
    BY Zenon, <1>8 DEF Step, StepsOf, InstallSteps, WithToken
  <2>3. /\ Then(c, "binary") = "dirs" /\ Then(c, "exists") = "end" /\ Then(c, "setup") = "exists"
        /\ Then(c, "dirs") = IF c.token = "yes" THEN "setup" ELSE "exists"
    BY Zenon, <1>8 DEF Then
  <2>4. LeftOf(e, c) /\ First(e) = "exists"
    BY Zenon, <2>2, <2>3, LeftLast
  <2>5. Plan(c) = <<"binary", "dirs">> \o t
    <3>1. Plan(c) = (<<"binary", "dirs">> \o k) \o e
      BY Zenon, <1>8 DEF Plan, InstallPlan, WindowsInstall
    <3>2. <<"binary", "dirs">> \in Seq(Step) /\ k \in Seq(Step) /\ e \in Seq(Step)
      BY <2>2 DEF If
    <3>3. QED
      BY Zenon, <3>1, <3>2, Associates
  <2>6. LeftOf(t, c) /\ First(t) = Then(c, "dirs")
    <3> HIDE DEF e
    <3>1. CASE c.token = "yes"
      <4>1. LeftOf(<<"setup">> \o e, c) /\ First(<<"setup">> \o e) = "setup"
        BY <2>2, <2>3, <2>4, <3>1, LeftCons
      <4>2. QED
        BY Zenon, <2>3, <3>1, <4>1 DEF If
    <3>2. CASE c.token # "yes"
      BY Zenon, <2>3, <2>4, <3>2, Units DEF If, LeftOf
    <3>3. QED
      BY Zenon, <3>1, <3>2
  <2> HIDE DEF t
  <2>7. QED
    BY <1>8, <2>5, <2>2, <2>3, <2>6, LeftPair
<1>9. CASE c.op = "uninstall"
  <2> DEFINE t == If(c.purge, <<"purge">>)
  <2>1. LeftOf(t, c) /\ First(t) = OrPurge(c)
    BY Zenon, <1>9, PurgeIsLeft
  <2> HIDE DEF t
  <2>2. CASE platform = "launchd"
    <3>1. Plan(c) = <<"bootout", "remove_unit">> \o t
      BY Zenon, <1>9, <2>2 DEF Plan, UninstallPlan, LaunchdUninstall, t
    <3>2. /\ {"bootout", "remove_unit"} \subseteq Step
          /\ {"bootout", "remove_unit"} \subseteq StepsOf(c)
          /\ Then(c, "bootout") = "remove_unit" /\ Then(c, "remove_unit") = OrPurge(c)
      BY Zenon, <1>9, <2>2 DEF Step, StepsOf, UninstallSteps, Then
    <3>3. QED
      BY <1>9, <2>1, <3>1, <3>2, LeftPair
  <2>3. CASE platform = "scm"
    <3>1. Plan(c) = <<"query">> \o t
      BY Zenon, <1>9, <2>3 DEF Plan, UninstallPlan, WindowsUninstall, t
    <3>2. "query" \in Step /\ "query" \in StepsOf(c) /\ Then(c, "query") = OrPurge(c)
      BY Zenon, <1>9, <2>3 DEF Step, StepsOf, UninstallSteps, Then
    <3>3. QED
      BY <1>9, <2>1, <3>1, <3>2, LeftCons
  <2>4. QED
    BY Zenon, <1>2, <1>9, <2>2, <2>3
<1>10. QED
  BY Zenon, <1>1, <1>2, <1>5, <1>6, <1>7, <1>8, <1>9

\* What a step tells of the command and the platform it belongs to.
LEMMA Belongs ==
    ASSUME OnePlatform, NEW c \in Commands \cup {Idle}, NEW x \in StepsOf(c)
    PROVE  /\ c \in Commands
           /\ x \in {"binary", "user", "dirs", "unit", "enable_now", "bootstrap", "enable", "exists",
                     "create", "start"} => c.op = "install"
           /\ x \in {"bootout", "remove_unit", "query", "stop", "purge"} => c.op = "uninstall"
           /\ x = "setup" => c.op = "setup" \/ (c.op = "install" /\ c.token = "yes")
           /\ x = "delete" => c.op \in {"install", "uninstall"}
           /\ x \in {"user", "enable_now"} => platform = "systemd"
           /\ x \in {"bootstrap", "enable", "bootout", "remove_unit"} => platform = "launchd"
           /\ x \in {"exists", "delete", "create", "start", "query", "stop"} => platform = "scm"
           /\ x = "unit" => platform # "scm"
           /\ x = "dirs" => platform # "systemd"
           /\ c.op = "uninstall" => platform # "systemd"
<1>1. Idle.op = "none"
  BY DEF Idle
<1>2. c \in Commands /\ c.op \in {"install", "uninstall", "setup"}
  BY Zenon, <1>1 DEF Commands, StepsOf
<1>3. platform \in {"systemd", "launchd", "scm"}
  BY Zenon DEF OnePlatform
<1>4. CASE c.op = "setup"
  BY Zenon, <1>2, <1>4 DEF StepsOf
<1>5. CASE c.op = "install"
  BY Zenon, <1>2, <1>3, <1>5 DEF StepsOf, InstallSteps, WithToken
<1>6. CASE c.op = "uninstall"
  BY Zenon, <1>2, <1>3, <1>6 DEF StepsOf, UninstallSteps, WithPurge
<1>7. QED
  BY Zenon, <1>2, <1>4, <1>5, <1>6

\* Which step follows.
LEMMA Follows ==
    ASSUME OnePlatform, NEW c
    PROVE  /\ Then(c, "binary") \in {"user", "dirs"} /\ Then(c, "user") = "unit"
           /\ Then(c, "dirs") \in {"unit", "setup", "exists"}
           /\ Then(c, "dirs") = "exists" => c.token # "yes"
           /\ Then(c, "dirs") = "setup" => platform # "launchd"
           /\ Then(c, "unit") \in {"setup", "bootstrap", "end"}
           /\ c.token = "yes" => Then(c, "unit") = "setup"
           /\ Then(c, "unit") = "end" => c.token # "yes"
           /\ Then(c, "setup") \in {"enable_now", "bootstrap", "exists", "end"}
           /\ Then(c, "setup") \in {"enable_now", "bootstrap"} => platform # "scm"
           /\ c.op = "install" => Then(c, "setup") # "end"
           /\ c.op = "setup" => Then(c, "setup") = "end"
           /\ Then(c, "bootstrap") = "enable" /\ Then(c, "create") = "start"
           /\ c.op = "install" => Then(c, "delete") = "create"
           /\ c.op = "uninstall" => Then(c, "delete") = OrPurge(c)
           /\ Then(c, "bootout") = "remove_unit" /\ Then(c, "stop") = "delete"
           /\ Then(c, "remove_unit") = OrPurge(c) /\ Then(c, "query") = OrPurge(c)
           /\ OrPurge(c) \in {"purge", "end"}
           /\ \A x \in {"enable_now", "enable", "exists", "start", "purge"} : Then(c, x) = "end"
<1>1. platform \in {"systemd", "launchd", "scm"}
  BY Zenon DEF OnePlatform
<1>2. /\ Then(c, "binary") = IF platform = "systemd" THEN "user" ELSE "dirs"
      /\ Then(c, "user") = "unit"
      /\ Then(c, "dirs") = IF platform = "launchd" THEN "unit"
                           ELSE IF c.token = "yes" THEN "setup" ELSE "exists"
      /\ Then(c, "unit") = IF c.token = "yes" THEN "setup"
                           ELSE IF platform = "systemd" THEN "end" ELSE "bootstrap"
      /\ Then(c, "setup") = IF c.op = "setup" THEN "end"
                            ELSE IF platform = "systemd" THEN "enable_now"
                            ELSE IF platform = "launchd" THEN "bootstrap" ELSE "exists"
  BY Zenon DEF Then
<1>3. /\ Then(c, "bootstrap") = "enable" /\ Then(c, "create") = "start"
      /\ Then(c, "delete") = IF c.op = "install" THEN "create" ELSE OrPurge(c)
      /\ Then(c, "bootout") = "remove_unit" /\ Then(c, "stop") = "delete"
      /\ Then(c, "remove_unit") = OrPurge(c) /\ Then(c, "query") = OrPurge(c)
  BY Zenon DEF Then
<1>4. \A x \in {"enable_now", "enable", "exists", "start", "purge"} : Then(c, x) = "end"
  BY Zenon DEF Then
<1>5. OrPurge(c) \in {"purge", "end"}
  BY Zenon DEF OrPurge
<1>6. QED
  BY Zenon, <1>1, <1>2, <1>3, <1>4, <1>5

\* The plan of a command does not change under it.
LEMMA SamePlatform ==
    ASSUME UNCHANGED platform, LeftOf(steps', cmd')
    PROVE  LeftOf(steps, cmd)'
<1>1. StepsOf(cmd)' = StepsOf(cmd')
  BY Zenon DEF StepsOf, InstallSteps, UninstallSteps, WithToken, WithPurge
<1>2. \A x : Then(cmd, x)' = Then(cmd', x)
  BY Zenon DEF Then, OrPurge
<1>3. QED
  BY Zenon, <1>1, <1>2 DEF LeftOf

\* The next step is done.
LEMMA Moves ==
    ASSUME HostInv, NEW x, Follow(x, <<>>)
    PROVE  /\ steps # <<>> /\ Head(steps) = x /\ x \in StepsOf(cmd) /\ OnPlan'
           /\ UNCHANGED <<platform, cmd, clean, commands, faults, operator>>
           /\ IF Then(cmd, x) = "end" THEN steps' = <<>> /\ result' = "ok"
              ELSE steps' # <<>> /\ Head(steps') = Then(cmd, x) /\ result' = "none"
<1>1. /\ steps # <<>> /\ Head(steps) = x /\ steps' = <<>> \o Tail(steps)
      /\ result' = IF steps' = <<>> THEN "ok" ELSE "none"
      /\ UNCHANGED <<platform, cmd, clean, commands, faults, operator>>
  BY Zenon DEF Follow, bounds
<1>2. LeftOf(Tail(steps), cmd) /\ x \in StepsOf(cmd) /\ First(Tail(steps)) = Then(cmd, x)
  BY Zenon, <1>1, LeftTail DEF HostInv, OnPlan
<1>3. steps' = Tail(steps)
  BY Zenon, <1>1, <1>2, Units DEF LeftOf
<1>4. LeftOf(steps, cmd)'
  BY Zenon, <1>1, <1>2, <1>3, SamePlatform
<1>5. OnPlan'
  BY Zenon, <1>1, <1>4 DEF HostInv, OnPlan
<1>6. ASSUME steps' # <<>> PROVE Head(steps') # "end"
  BY Zenon, <1>4, <1>6, StepNames DEF LeftOf
<1>7. QED
  BY Zenon, <1>1, <1>2, <1>3, <1>5, <1>6 DEF First

\* A command that has ended: nothing is claimed of its steps.
LEMMA HostEnded ==
    ASSUME HostInv, steps' = <<>>, result' \in {"ok", "err"}, cmd' = cmd, platform' = platform,
           OnePlatform'
    PROVE  HostInv'
<1>1. LeftOf(steps', cmd')
  BY Zenon, LeftNone
<1>2. LeftOf(steps, cmd)'
  BY Zenon, <1>1, SamePlatform
<1>3. QED
  BY Zenon, <1>2 DEF HostInv, OnPlan, Installing, Uninstalling, Repairing

\* A step that fails ends its command.
LEMMA Fails == ASSUME HostInv, NEW x, Err(x), OnePlatform' PROVE HostInv'
BY Zenon, HostEnded DEF Err

\* The steps that write files.
LEMMA FilesHost ==
    ASSUME HostInv, InstallBinary \/ CreateUser \/ CreateDirs \/ WriteUnit \/ Setup
    PROVE  HostInv'
<1> USE DEF service, files
<1>1. UNCHANGED <<platform, entry, thread, daemon>>
  BY Zenon DEF InstallBinary, CreateUser, CreateDirs, WriteUnit, Setup, Ok, Follow, Err
<1>2. CASE InstallBinary
  <2>1. UNCHANGED <<unit, config>>
    BY Zenon, <1>2 DEF InstallBinary
  <2>2. OnePlatform'
    BY Zenon, <1>1, <2>1 DEF HostInv, OnePlatform
  <2>3. CASE Err("binary")
    BY Zenon, <2>2, <2>3, Fails
  <2>4. CASE Ok("binary") /\ binary' = IF Copies THEN "good" ELSE binary
    <3>1. Follow("binary", <<>>) /\ UNCHANGED warned
      BY Zenon, <2>4 DEF Ok
    <3>2. QED
      <4>1. /\ steps # <<>> /\ Head(steps) = "binary" /\ "binary" \in StepsOf(cmd) /\ OnPlan'
            /\ cmd' = cmd /\ clean' = clean /\ (steps' # <<>> => Head(steps') = Then(cmd, "binary"))
        BY Zenon, <1>1, <2>1, <2>2, <2>4, <3>1, Moves
      <4>2. cmd.op = "install" /\ cmd \in Commands
        BY Zenon, <4>1, Belongs DEF HostInv, OnPlan
      <4>3. /\ cmd.from \in {"elsewhere", "installed"}
            /\ steps' # <<>> => Head(steps') \in {"user", "dirs"}
        BY Zenon, <4>1, <4>2, Follows DEF HostInv, Commands
      <4>4. Installing'
        BY Zenon, <1>1, <2>1, <2>2, <2>4, <3>1, <4>1, <4>2, <4>3 DEF HostInv, Installing, Copies
      <4>5. Uninstalling'
        BY Zenon, <1>1, <2>1, <2>2, <2>4, <3>1, <4>1, <4>2, <4>3 DEF HostInv, OnePlatform, Uninstalling
      <4>6. Repairing'
        BY Zenon, <1>1, <2>1, <2>2, <2>4, <3>1, <4>1, <4>2, <4>3 DEF HostInv, Repairing
      <4>7. QED
        BY Zenon, <1>1, <2>1, <2>2, <2>4, <3>1, <4>1, <4>4, <4>5, <4>6 DEF HostInv
  <2>5. QED
    BY Zenon, <1>2, <2>3, <2>4 DEF InstallBinary
<1>3. CASE CreateUser
  <2>1. UNCHANGED <<unit, config, binary>> /\ Follow("user", <<>>) /\ UNCHANGED warned
    BY Zenon, <1>3 DEF CreateUser, Ok
  <2>2. OnePlatform'
    BY Zenon, <1>1, <2>1 DEF HostInv, OnePlatform
  <2>3. /\ steps # <<>> /\ Head(steps) = "user" /\ "user" \in StepsOf(cmd) /\ OnPlan'
        /\ cmd' = cmd /\ clean' = clean /\ (steps' # <<>> => Head(steps') = Then(cmd, "user"))
    BY Zenon, <2>1, Moves
  <2>4. cmd.op = "install"
    BY Zenon, <2>3, Belongs DEF HostInv, OnPlan
  <2>5. /\ steps' # <<>> => Head(steps') \in {"unit"}
    BY Zenon, <2>3, <2>4, Follows DEF HostInv, OnePlatform
  <2>6. Installing'
    BY Zenon, <2>1, <2>3, <2>5 DEF HostInv, Installing
  <2>7. Uninstalling'
    BY Zenon, <2>3, <2>4 DEF Uninstalling
  <2>8. Repairing'
    BY Zenon, <1>1, <2>1, <2>3, <2>5 DEF HostInv, Repairing
  <2>9. QED
    BY Zenon, <2>2, <2>3, <2>6, <2>7, <2>8 DEF HostInv
<1>4. CASE CreateDirs
  <2>1. UNCHANGED <<unit, config, binary>> /\ Follow("dirs", <<>>) /\ UNCHANGED warned
    BY Zenon, <1>4 DEF CreateDirs, Ok
  <2>2. OnePlatform'
    BY Zenon, <1>1, <2>1 DEF HostInv, OnePlatform
  <2>3. /\ steps # <<>> /\ Head(steps) = "dirs" /\ "dirs" \in StepsOf(cmd) /\ OnPlan'
        /\ cmd' = cmd /\ clean' = clean /\ (steps' # <<>> => Head(steps') = Then(cmd, "dirs"))
    BY Zenon, <2>1, Moves
  <2>4. cmd.op = "install" /\ platform # "systemd"
    BY Zenon, <2>3, Belongs DEF HostInv, OnPlan
  <2>5. /\ steps' # <<>> => Head(steps') \in {"unit", "setup", "exists"}
        /\ steps' # <<>> /\ Head(steps') = "exists" => cmd.token # "yes"
        /\ steps' # <<>> /\ Head(steps') = "setup" => platform = "scm"
    BY Zenon, <2>3, <2>4, Follows DEF HostInv, OnePlatform
  <2>6. Installing'
    BY Zenon, <2>1, <2>3, <2>5 DEF HostInv, Installing
  <2>7. Uninstalling'
    BY Zenon, <2>3, <2>4 DEF Uninstalling
  <2>8. Repairing'
    BY Zenon, <1>1, <2>1, <2>3, <2>5 DEF HostInv, Repairing
  <2>9. QED
    BY Zenon, <2>2, <2>3, <2>6, <2>7, <2>8 DEF HostInv
<1>5. CASE WriteUnit
  <2>1. /\ Follow("unit", <<>>) /\ UNCHANGED <<warned, binary, config>>
        /\ unit' = IF unit # "none" /\ cmd.force = "no" THEN unit ELSE "good"
    BY Zenon, <1>5 DEF WriteUnit, Ok
  <2>2. OnePlatform'
    BY Zenon, <1>1, <2>1, Moves, Belongs DEF HostInv, OnePlatform, OnPlan
  <2>3. QED
    <3>1. /\ steps # <<>> /\ Head(steps) = "unit" /\ "unit" \in StepsOf(cmd) /\ OnPlan'
          /\ cmd' = cmd /\ clean' = clean /\ (steps' # <<>> => Head(steps') = Then(cmd, "unit"))
          /\ steps' # <<>> => Then(cmd, "unit") # "end"
      BY Zenon, <1>1, <2>1, <2>2, Moves
    <3>2. cmd.op = "install" /\ cmd \in Commands
      BY Zenon, <3>1, Belongs DEF HostInv, OnPlan
    <3>3. /\ steps' # <<>> => Head(steps') \in {"setup", "bootstrap"}
          /\ steps' # <<>> /\ cmd.token = "yes" => Head(steps') = "setup"
      <4>1. /\ Then(cmd, "unit") \in {"setup", "bootstrap", "end"}
            /\ cmd.token = "yes" => Then(cmd, "unit") = "setup"
        BY Zenon, Follows DEF HostInv
      <4>2. QED
        BY Zenon, <3>1, <4>1
    <3>4. Installing'
      BY Zenon, <1>1, <2>1, <2>2, <3>1, <3>2, <3>3 DEF HostInv, Installing, Copies
    <3>5. Uninstalling'
      BY Zenon, <1>1, <2>1, <2>2, <3>1, <3>2, <3>3 DEF HostInv, OnePlatform, Uninstalling
    <3>6. Repairing'
      BY Zenon, <1>1, <2>1, <2>2, <3>1, <3>2, <3>3 DEF HostInv, Repairing
    <3>7. QED
      BY Zenon, <1>1, <2>1, <2>2, <3>1, <3>4, <3>5, <3>6 DEF HostInv
<1>6. CASE Setup
  <2>1. UNCHANGED <<unit, binary>>
    BY Zenon, <1>6 DEF Setup
  <2>2. CASE Err("setup") /\ UNCHANGED config
    BY Zenon, <1>1, <2>1, <2>2, Fails DEF HostInv, OnePlatform
  <2>3. CASE Ok("setup") /\ \E toml \in fetch_config : config' = ConfigToml(toml)
    <3>1. Follow("setup", <<>>) /\ UNCHANGED warned /\ config' = "good"
      BY Zenon, <2>3 DEF Ok, ConfigToml, parse_config, generate_default
    <3>2. OnePlatform'
      BY Zenon, <1>1, <2>1, <3>1 DEF HostInv, OnePlatform, Configs
    <3>3. QED
      <4>1. /\ steps # <<>> /\ Head(steps) = "setup" /\ "setup" \in StepsOf(cmd) /\ OnPlan'
            /\ cmd' = cmd /\ clean' = clean /\ (steps' # <<>> => Head(steps') = Then(cmd, "setup"))
            /\ steps' # <<>> => Then(cmd, "setup") # "end"
        BY Zenon, <1>1, <2>1, <3>1, <3>2, Moves
      <4>2. cmd.op \in {"setup", "install"} /\ cmd \in Commands
        BY Zenon, <4>1, Belongs DEF HostInv, OnPlan
      <4>3. /\ steps' # <<>> => Head(steps') \in {"enable_now", "bootstrap", "exists"}
            /\ steps' # <<>> /\ Head(steps') \in {"enable_now", "bootstrap"} =>
                  cmd.op = "install" /\ platform # "scm"
        <5>1. /\ Then(cmd, "setup") \in {"enable_now", "bootstrap", "exists", "end"}
              /\ cmd.op = "setup" => Then(cmd, "setup") = "end"
              /\ Then(cmd, "setup") \in {"enable_now", "bootstrap"} => platform # "scm"
          BY Zenon, Follows DEF HostInv
        <5>2. QED
          BY Zenon, <4>1, <4>2, <5>1
      <4>4. Installing'
        BY Zenon, <1>1, <2>1, <3>1, <3>2, <4>1, <4>2, <4>3 DEF HostInv, Installing, Copies
      <4>5. Uninstalling'
        BY Zenon, <1>1, <2>1, <3>1, <3>2, <4>1, <4>2, <4>3 DEF HostInv, OnePlatform, Uninstalling
      <4>6. Repairing'
        BY Zenon, <1>1, <2>1, <3>1, <3>2, <4>1, <4>2, <4>3 DEF HostInv, Repairing
      <4>7. QED
        BY Zenon, <1>1, <2>1, <3>1, <3>2, <4>1, <4>4, <4>5, <4>6 DEF HostInv
  <2>4. QED
    BY Zenon, <1>6, <2>2, <2>3 DEF Setup
<1>7. QED
  BY Zenon, <1>2, <1>3, <1>4, <1>5, <1>6

\* systemd and launchd.
LEMMA ManagersHost ==
    ASSUME HostInv, EnableNow \/ Bootstrap \/ Enable \/ Bootout \/ RemoveUnit
    PROVE  HostInv'
<1> USE DEF service, files
<1>1. UNCHANGED <<platform, entry, thread, config, binary>>
  BY Zenon DEF EnableNow, Bootstrap, Enable, Bootout, RemoveUnit, Ok, Follow, Err
<1>2. CASE EnableNow
  <2>1. UNCHANGED unit
    BY Zenon, <1>2 DEF EnableNow
  <2>2. CASE Err("enable_now") /\ UNCHANGED daemon
    BY Zenon, <1>1, <2>1, <2>2, Fails DEF HostInv, OnePlatform
  <2>3. CASE Ok("enable_now") /\ daemon' = "loaded"
    <3>1. Follow("enable_now", <<>>) /\ UNCHANGED warned
      BY Zenon, <2>3 DEF Ok
    <3>2. OnePlatform'
      BY Zenon, <1>1, <2>1, <2>3, <3>1, Moves, Belongs DEF HostInv, OnePlatform, OnPlan
    <3>3. Then(cmd, "enable_now") = "end"
      BY Zenon, Follows DEF HostInv
    <3>4. steps' = <<>> /\ result' = "ok" /\ cmd' = cmd
      BY Zenon, <3>1, <3>3, Moves
    <3>5. QED
      BY Zenon, <1>1, <3>2, <3>4, HostEnded
  <2>4. QED
    BY Zenon, <1>2, <2>2, <2>3 DEF EnableNow
<1>3. CASE Bootstrap
  <2>1. UNCHANGED unit
    BY Zenon, <1>3 DEF Bootstrap
  <2>2. CASE Err("bootstrap") /\ UNCHANGED daemon
    BY Zenon, <1>1, <2>1, <2>2, Fails DEF HostInv, OnePlatform
  <2>3. CASE Ok("bootstrap") /\ daemon' = "loaded" /\ unit = "good"
    <3>1. Follow("bootstrap", <<>>) /\ UNCHANGED warned
      BY Zenon, <2>3 DEF Ok
    <3>2. OnePlatform'
      BY Zenon, <1>1, <2>1, <2>3, <3>1, Moves, Belongs DEF HostInv, OnePlatform, OnPlan
    <3>3. QED
      <4>1. /\ steps # <<>> /\ Head(steps) = "bootstrap" /\ "bootstrap" \in StepsOf(cmd) /\ OnPlan'
            /\ cmd' = cmd /\ clean' = clean /\ (steps' # <<>> => Head(steps') = Then(cmd, "bootstrap"))
        BY Zenon, <1>1, <2>1, <2>3, <3>1, <3>2, Moves
      <4>2. cmd.op = "install" /\ cmd \in Commands
        BY Zenon, <4>1, Belongs DEF HostInv, OnPlan
      <4>3. /\ steps' # <<>> => Head(steps') \in {"enable"}
        BY Zenon, <4>1, <4>2, Follows DEF HostInv
      <4>4. Installing'
        BY Zenon, <1>1, <2>1, <2>3, <3>1, <3>2, <4>1, <4>2, <4>3 DEF HostInv, Installing, Copies
      <4>5. Uninstalling'
        BY Zenon, <1>1, <2>1, <2>3, <3>1, <3>2, <4>1, <4>2, <4>3 DEF HostInv, OnePlatform, Uninstalling
      <4>6. Repairing'
        BY Zenon, <1>1, <2>1, <2>3, <3>1, <3>2, <4>1, <4>2, <4>3 DEF HostInv, Repairing
      <4>7. QED
        BY Zenon, <1>1, <2>1, <2>3, <3>1, <3>2, <4>1, <4>4, <4>5, <4>6 DEF HostInv
  <2>4. QED
    BY Zenon, <1>3, <2>2, <2>3 DEF Bootstrap
<1>4. CASE Enable
  <2>1. Follow("enable", <<>>) /\ UNCHANGED <<unit, daemon>>
    BY Zenon, <1>4 DEF Enable, Ok
  <2>2. OnePlatform'
    BY Zenon, <1>1, <2>1 DEF HostInv, OnePlatform
  <2>3. Then(cmd, "enable") = "end"
    BY Zenon, Follows DEF HostInv
  <2>4. steps' = <<>> /\ result' = "ok" /\ cmd' = cmd
    BY Zenon, <2>1, <2>3, Moves
  <2>5. QED
    BY Zenon, <1>1, <2>2, <2>4, HostEnded
<1>5. CASE Bootout
  <2>1. Follow("bootout", <<>>) /\ UNCHANGED unit /\ daemon' = "none"
    BY Zenon, <1>5 DEF Bootout
  <2>2. OnePlatform'
    BY Zenon, <1>1, <2>1 DEF HostInv, OnePlatform
  <2>3. QED
    <3>1. /\ steps # <<>> /\ Head(steps) = "bootout" /\ "bootout" \in StepsOf(cmd) /\ OnPlan'
          /\ cmd' = cmd /\ clean' = clean /\ (steps' # <<>> => Head(steps') = Then(cmd, "bootout"))
      BY Zenon, <1>1, <2>1, <2>2, Moves
    <3>2. cmd.op = "uninstall" /\ cmd \in Commands
      BY Zenon, <3>1, Belongs DEF HostInv, OnPlan
    <3>3. /\ steps' # <<>> => Head(steps') \in {"remove_unit"}
      BY Zenon, <3>1, <3>2, Follows DEF HostInv
    <3>4. Installing'
      BY Zenon, <1>1, <2>1, <2>2, <3>1, <3>2, <3>3 DEF HostInv, Installing, Copies
    <3>5. Uninstalling'
      BY Zenon, <1>1, <2>1, <2>2, <3>1, <3>2, <3>3 DEF HostInv, OnePlatform, Uninstalling
    <3>6. Repairing'
      BY Zenon, <1>1, <2>1, <2>2, <3>1, <3>2, <3>3 DEF HostInv, Repairing
    <3>7. QED
      BY Zenon, <1>1, <2>1, <2>2, <3>1, <3>4, <3>5, <3>6 DEF HostInv
<1>6. CASE RemoveUnit
  <2>1. Follow("remove_unit", <<>>) /\ UNCHANGED <<daemon, warned>> /\ unit' = "none"
    BY Zenon, <1>6 DEF RemoveUnit, Ok
  <2>2. OnePlatform'
    BY Zenon, <1>1, <2>1 DEF HostInv, OnePlatform
  <2>3. QED
    <3>1. /\ steps # <<>> /\ Head(steps) = "remove_unit" /\ "remove_unit" \in StepsOf(cmd) /\ OnPlan'
          /\ cmd' = cmd /\ clean' = clean /\ (steps' # <<>> => Head(steps') = Then(cmd, "remove_unit"))
          /\ steps' # <<>> => Then(cmd, "remove_unit") # "end"
      BY Zenon, <1>1, <2>1, <2>2, Moves
    <3>2. cmd.op = "uninstall" /\ platform = "launchd" /\ cmd \in Commands
      BY Zenon, <3>1, Belongs DEF HostInv, OnPlan
    <3>3. /\ steps' # <<>> => Head(steps') \in {"purge"}
      <4>1. Then(cmd, "remove_unit") \in {"purge", "end"}
        BY Zenon, Follows DEF HostInv
      <4>2. QED
        BY Zenon, <3>1, <4>1
    <3>4. Installing'
      BY Zenon, <1>1, <2>1, <2>2, <3>1, <3>2, <3>3 DEF HostInv, Installing, Copies
    <3>5. Uninstalling'
      BY Zenon, <1>1, <2>1, <2>2, <3>1, <3>2, <3>3 DEF HostInv, OnePlatform, Uninstalling
    <3>6. Repairing'
      BY Zenon, <1>1, <2>1, <2>2, <3>1, <3>2, <3>3 DEF HostInv, Repairing
    <3>7. QED
      BY Zenon, <1>1, <2>1, <2>2, <3>1, <3>4, <3>5, <3>6 DEF HostInv
<1>7. QED
  BY Zenon, <1>2, <1>3, <1>4, <1>5, <1>6

\* The next step has others to follow it.
LEMMA Grows ==
    ASSUME HostInv, NEW x, NEW more, Follow(x, more), NEW y, y # "end",
           LeftOf(more \o Tail(steps), cmd), First(more \o Tail(steps)) = y
    PROVE  /\ steps # <<>> /\ Head(steps) = x /\ x \in StepsOf(cmd) /\ OnPlan'
           /\ UNCHANGED <<platform, cmd, clean>> /\ steps' # <<>> /\ Head(steps') = y
           /\ result' = "none"
<1>1. /\ steps # <<>> /\ Head(steps) = x /\ steps' = more \o Tail(steps)
      /\ result' = IF steps' = <<>> THEN "ok" ELSE "none"
      /\ UNCHANGED <<platform, cmd, clean>>
  BY Zenon DEF Follow
<1>2. steps' # <<>> /\ Head(steps') = y
  BY Zenon, <1>1 DEF First
<1>3. x \in StepsOf(cmd)
  BY Zenon, <1>1, LeftTail DEF HostInv, OnPlan
<1>4. LeftOf(steps', cmd')
  BY Zenon, <1>1
<1>5. LeftOf(steps, cmd)'
  BY Zenon, <1>1, <1>4, SamePlatform
<1>6. OnPlan'
  BY Zenon, <1>1, <1>2, <1>5 DEF HostInv, OnPlan
<1>7. QED
  BY Zenon, <1>1, <1>2, <1>3, <1>6

\* A service that is there is deleted before it is created and started.
LEMMA ReplaceIsLeft ==
    ASSUME HostInv, steps # <<>>, Head(steps) = "exists"
    PROVE  /\ Tail(steps) = <<>> /\ cmd.op = "install" /\ platform = "scm"
           /\ LeftOf(<<"create", "start">>, cmd) /\ First(<<"create", "start">>) = "create"
           /\ LeftOf(<<"delete">> \o <<"create", "start">>, cmd)
           /\ First(<<"delete">> \o <<"create", "start">>) = "delete"
<1>1. "exists" \in StepsOf(cmd) /\ LeftOf(Tail(steps), cmd) /\ First(Tail(steps)) = Then(cmd, "exists")
  BY Zenon, LeftTail DEF HostInv, OnPlan
<1>2. cmd.op = "install" /\ platform = "scm"
  BY Zenon, <1>1, Belongs DEF HostInv, OnPlan
<1>3. {"delete", "create", "start"} \subseteq StepsOf(cmd)
  BY Zenon, <1>2 DEF StepsOf, InstallSteps
<1>4. Then(cmd, "exists") = "end" /\ Then(cmd, "delete") = "create" /\ Then(cmd, "create") = "start"
      /\ Then(cmd, "start") = "end"
  BY Zenon, <1>2, Follows DEF HostInv
<1>5. Tail(steps) = <<>>
  BY Zenon, <1>1, <1>4, StepNames DEF First, LeftOf
<1>6. {"delete", "create", "start"} \subseteq Step
  BY Zenon DEF Step
<1>7. LeftOf(<<"create", "start">>, cmd) /\ First(<<"create", "start">>) = "create"
  BY Zenon, <1>3, <1>4, <1>6, LeftLast
<1> DEFINE t == <<"create", "start">>
<1>8. LeftOf(t, cmd) /\ First(t) = "create"
  BY Zenon, <1>7
<1> HIDE DEF t
<1>9. LeftOf(<<"delete">> \o t, cmd) /\ First(<<"delete">> \o t) = "delete"
  <2>1. "delete" \in Step /\ "delete" \in StepsOf(cmd) /\ Then(cmd, "delete") = First(t)
    BY Zenon, <1>3, <1>4, <1>6, <1>8
  <2>2. QED
    BY Zenon, <1>8, <2>1, LeftCons
<1>10. QED
  BY Zenon, <1>2, <1>5, <1>7, <1>9 DEF t

\* The steps that follow the look for an existing service.
LEMMA ExistsGrows ==
    ASSUME HostInv, Exists, ~(entry # "none" /\ cmd.force = "no")
    PROVE  /\ steps' # <<>> /\ OnPlan' /\ Head(steps') = IF entry = "none" THEN "create" ELSE "delete"
           /\ UNCHANGED warned
<1> DEFINE t == <<"create", "start">>
           more == (IF entry # "none" THEN <<"delete">> ELSE <<>>) \o t
           y == IF entry = "none" THEN "create" ELSE "delete"
<1>1. Follow("exists", more) /\ UNCHANGED warned
  BY Zenon DEF Exists
<1>2. steps # <<>> /\ Head(steps) = "exists"
  BY Zenon, <1>1 DEF Follow
<1>3. /\ Tail(steps) = <<>> /\ LeftOf(t, cmd) /\ First(t) = "create"
      /\ LeftOf(<<"delete">> \o t, cmd) /\ First(<<"delete">> \o t) = "delete"
  BY Zenon, <1>2, ReplaceIsLeft
<1>4. t \in Seq(Step) /\ <<"delete">> \o t \in Seq(Step)
  BY Zenon, <1>3 DEF LeftOf
<1> HIDE DEF t
<1>5. LeftOf(more \o Tail(steps), cmd) /\ First(more \o Tail(steps)) = y
  <2>1. CASE entry = "none"
    <3>1. more \o Tail(steps) = t
      BY Zenon, <1>3, <1>4, <2>1, Units
    <3>2. QED
      BY Zenon, <1>3, <2>1, <3>1
  <2>2. CASE entry # "none"
    <3>1. more \o Tail(steps) = <<"delete">> \o t
      BY Zenon, <1>3, <1>4, <2>2, Units
    <3>2. QED
      BY Zenon, <1>3, <2>2, <3>1
  <2>3. QED
    BY Zenon, <2>1, <2>2
<1>6. y # "end"
  BY Zenon
<1> HIDE DEF more, y
<1>7. steps' # <<>> /\ OnPlan' /\ Head(steps') = y
  BY Zenon, <1>1, <1>5, <1>6, Grows
<1>8. QED
  BY Zenon, <1>1, <1>7 DEF y

\* An existing service is left alone, or replaced.
LEMMA ExistsHost == ASSUME HostInv, Exists PROVE HostInv'
<1> USE DEF service, files
<1>1. UNCHANGED <<entry, thread, daemon, binary, unit, config, warned>>
  BY Zenon DEF Exists, Ok
<1>2. steps # <<>> /\ Head(steps) = "exists" /\ UNCHANGED <<platform, cmd, clean>>
  BY Zenon DEF Exists, Ok, Follow
<1>3. OnePlatform'
  BY Zenon, <1>1, <1>2 DEF HostInv, OnePlatform
<1>4. CASE entry # "none" /\ cmd.force = "no"
  <2>1. Then(cmd, "exists") = "end"
    BY Zenon, Follows DEF HostInv
  <2>2. steps' = <<>> /\ result' = "ok"
    BY Zenon, <1>4, <2>1, Moves DEF Exists, Ok
  <2>3. QED
    BY Zenon, <1>2, <1>3, <2>2, HostEnded
<1>5. CASE ~(entry # "none" /\ cmd.force = "no")
  <2>1. cmd.op = "install"
    BY Zenon, <1>2, ReplaceIsLeft
  <2>2. OnPlan' /\ steps' # <<>> /\ Head(steps') = IF entry = "none" THEN "create" ELSE "delete"
    BY Zenon, <1>5, ExistsGrows
  <2>3. Installing'
    <3>1. binary = "good" /\ (cmd.token = "yes" => config = "good")
      BY Zenon, <1>2, <2>1 DEF HostInv, Installing
    <3>2. QED
      BY Zenon, <1>1, <1>2, <2>2, <3>1 DEF Installing
  <2>4. Uninstalling'
    BY Zenon, <1>2, <2>1 DEF Uninstalling
  <2>5. Repairing'
    <3>1. entry \in {"none", "there", "marked"}
      BY Zenon DEF HostInv, OnePlatform
    <3>2. clean = "yes" /\ cmd.force = "yes" => thread = "none" /\ daemon = "none" /\ entry # "marked"
      BY Zenon, <1>2 DEF HostInv, Repairing
    <3>3. QED
      BY Zenon, <1>1, <1>2, <2>2, <3>1, <3>2 DEF Repairing
  <2>6. QED
    BY Zenon, <1>3, <2>2, <2>3, <2>4, <2>5 DEF HostInv
<1>6. QED
  BY Zenon, <1>4, <1>5

\* A service that runs is stopped before it is deleted.
LEMMA RemovalIsLeft ==
    ASSUME HostInv, steps # <<>>, Head(steps) = "query"
    PROVE  /\ cmd.op = "uninstall" /\ platform = "scm" /\ cmd \in Commands
           /\ LeftOf(<<"delete">> \o Tail(steps), cmd)
           /\ First(<<"delete">> \o Tail(steps)) = "delete"
           /\ LeftOf(<<"stop", "delete">> \o Tail(steps), cmd)
           /\ First(<<"stop", "delete">> \o Tail(steps)) = "stop"
<1> DEFINE t == Tail(steps)
<1>1. "query" \in StepsOf(cmd) /\ LeftOf(t, cmd) /\ First(t) = Then(cmd, "query")
  BY Zenon, LeftTail DEF HostInv, OnPlan
<1>2. cmd.op = "uninstall" /\ platform = "scm" /\ cmd \in Commands
  BY Zenon, <1>1, Belongs DEF HostInv, OnPlan
<1>3. "stop" \in Step /\ "delete" \in Step /\ "stop" \in StepsOf(cmd) /\ "delete" \in StepsOf(cmd)
  BY Zenon, <1>2 DEF Step, StepsOf, UninstallSteps
<1>4. Then(cmd, "stop") = "delete" /\ Then(cmd, "delete") = First(t)
  <2>1. /\ Then(cmd, "stop") = "delete" /\ Then(cmd, "query") = OrPurge(cmd)
        /\ Then(cmd, "delete") = OrPurge(cmd)
    BY Zenon, <1>2, Follows DEF HostInv
  <2>2. QED
    BY Zenon, <1>1, <2>1
<1> HIDE DEF t
<1>5. LeftOf(<<"stop", "delete">> \o t, cmd) /\ First(<<"stop", "delete">> \o t) = "stop"
  BY Zenon, <1>1, <1>3, <1>4, LeftPair
<1>6. LeftOf(<<"delete">> \o t, cmd) /\ First(<<"delete">> \o t) = "delete"
  <2>1. /\ LeftOf(t, cmd) /\ "delete" \in Step /\ "delete" \in StepsOf(cmd)
        /\ Then(cmd, "delete") = First(t)
    BY Zenon, <1>1, <1>3, <1>4
  <2>2. QED
    BY Zenon, <2>1, LeftCons
<1>7. QED
  BY Zenon, <1>2, <1>5, <1>6 DEF t

\* The steps that follow the query.
LEMMA QueryGrows ==
    ASSUME HostInv, Query
    PROVE  steps' # <<>> /\ OnPlan' /\ Head(steps') \in {"stop", "delete"}
<1> DEFINE more == IF status = "running" THEN <<"stop", "delete">> ELSE <<"delete">>
<1>1. Follow("query", more)
  BY Zenon DEF Query
<1>2. steps # <<>> /\ Head(steps) = "query"
  BY Zenon, <1>1 DEF Follow
<1>3. PICK y \in {"stop", "delete"} : LeftOf(more \o Tail(steps), cmd) /\ First(more \o Tail(steps)) = y
  BY Zenon, <1>2, RemovalIsLeft
<1> HIDE DEF more
<1>4. y # "end"
  BY Zenon
<1>5. QED
  BY Zenon, <1>1, <1>3, <1>4, Grows

\* The query of uninstall changes only what is left to do.
LEMMA QueryHost == ASSUME HostInv, Query PROVE HostInv'
<1> USE DEF service, files
<1>1. UNCHANGED <<entry, thread, daemon, binary, unit, config, warned>>
  BY Zenon DEF Query
<1>2. steps # <<>> /\ Head(steps) = "query" /\ UNCHANGED <<platform, cmd, clean>>
  BY Zenon DEF Query, Follow
<1>3. OnePlatform'
  BY Zenon, <1>1, <1>2 DEF HostInv, OnePlatform
<1>4. OnPlan' /\ steps' # <<>> /\ Head(steps') \in {"stop", "delete"}
  BY Zenon, QueryGrows
<1>5. cmd.op = "uninstall" /\ cmd.force = "no"
  BY Zenon, <1>2, RemovalIsLeft DEF Commands
<1>6. Installing' /\ Uninstalling' /\ Repairing'
  BY Zenon, <1>2, <1>4, <1>5 DEF Installing, Uninstalling, Repairing
<1>7. QED
  BY Zenon, <1>3, <1>4, <1>6 DEF HostInv

\* An uninstall that has warned is on its way to the end.
LEMMA Warned ==
    ASSUME HostInv, OnePlatform', LeftOf(steps', cmd), cmd.op = "uninstall", cmd \in Commands,
           UNCHANGED <<platform, cmd>>, warned' = "yes",
           result' = IF steps' = <<>> THEN "ok" ELSE "none"
    PROVE  HostInv'
<1>1. LeftOf(steps, cmd)'
  BY Zenon, SamePlatform
<1>2. OnPlan'
  BY Zenon, <1>1 DEF HostInv, OnPlan
<1>3. cmd.force = "no"
  BY Zenon DEF Commands
<1>4. Installing' /\ Uninstalling' /\ Repairing'
  BY Zenon, <1>3 DEF Installing, Uninstalling, Repairing
<1>5. QED
  BY Zenon, <1>2, <1>4 DEF HostInv

\* One and two steps are left out.
LEMMA Skips ==
    ASSUME NEW s \in Seq(Step), s # <<>>
    PROVE  /\ SubSeq(s, 1 + 1, Len(s)) = Tail(s)
           /\ Tail(s) # <<>> => SubSeq(s, 2 + 1, Len(s)) = Tail(Tail(s))
OBVIOUS

\* What is left after a warning is left of the command.
LEMMA SkipsLeft ==
    ASSUME HostInv, steps # <<>>
    PROVE  /\ LeftOf(SubSeq(steps, 1 + 1, Len(steps)), cmd)
           /\ Head(steps) = "stop" => LeftOf(SubSeq(steps, 2 + 1, Len(steps)), cmd)
<1> DEFINE t == Tail(steps)
<1>1. LeftOf(t, cmd) /\ First(t) = Then(cmd, Head(steps)) /\ steps \in Seq(Step)
  BY Zenon, LeftTail DEF HostInv, OnPlan, LeftOf
<1>2. SubSeq(steps, 1 + 1, Len(steps)) = t
  BY Zenon, <1>1, Skips
<1>3. ASSUME Head(steps) = "stop" PROVE LeftOf(SubSeq(steps, 2 + 1, Len(steps)), cmd)
  <2>1. Then(cmd, "stop") = "delete"
    BY Zenon, Follows DEF HostInv
  <2>2. t # <<>>
    BY Zenon, <1>1, <1>3, <2>1 DEF First
  <2>3. LeftOf(Tail(t), cmd)
    BY Zenon, <1>1, <2>2, LeftTail
  <2>4. QED
    BY Zenon, <1>1, <2>2, <2>3, Skips
<1>4. QED
  BY Zenon, <1>1, <1>2, <1>3

\* Stop is accepted, or refused with a warning.
LEMMA StopHost == ASSUME HostInv, Stop PROVE HostInv'
<1> USE DEF service, process, scm
<1>1. UNCHANGED <<platform, cmd, clean, entry, thread, daemon, binary, unit, config>>
  BY Zenon DEF Stop, Ok, Follow, Warns, Control
<1>2. OnePlatform'
  BY Zenon, <1>1 DEF HostInv, OnePlatform
<1>3. steps # <<>> /\ Head(steps) = "stop" /\ "stop" \in StepsOf(cmd)
  <2>1. steps # <<>> /\ Head(steps) = "stop"
    BY Zenon DEF Stop, Ok, Follow, Warns
  <2>2. QED
    BY Zenon, <2>1, LeftTail DEF HostInv, OnPlan
<1>4. cmd.op = "uninstall" /\ cmd \in Commands
  BY Zenon, <1>3, Belongs DEF HostInv, OnPlan
<1>5. CASE Ok("stop")
  <2>1. Then(cmd, "stop") = "delete"
    BY Zenon, Follows DEF HostInv
  <2>2. OnPlan' /\ steps' # <<>> /\ Head(steps') = "delete"
    BY Zenon, <1>5, <2>1, Moves DEF Ok
  <2>3. cmd.force = "no"
    BY Zenon, <1>4 DEF Commands
  <2>4. Installing' /\ Uninstalling' /\ Repairing'
    BY Zenon, <1>1, <1>4, <2>2, <2>3 DEF Installing, Uninstalling, Repairing
  <2>5. QED
    BY Zenon, <1>2, <2>2, <2>4 DEF HostInv
<1>6. CASE Warns("stop", 2)
  <2>1. LeftOf(steps', cmd)
    BY Zenon, <1>3, <1>6, SkipsLeft DEF Warns, Warn
  <2>2. QED
    BY Zenon, <1>1, <1>2, <1>4, <1>6, <2>1, Warned DEF Warns, Warn
<1>7. QED
  BY Zenon, <1>5, <1>6 DEF Stop

\* A service is removed or marked; the error ends an installation and is a warning for an uninstall.
LEMMA DeleteHost == ASSUME HostInv, Delete PROVE HostInv'
<1> USE DEF service, files, process
<1>1. UNCHANGED <<platform, cmd, clean, thread, daemon, binary, unit, config>>
  BY Zenon DEF Delete, Ok, Follow, Err, Warns
<1>2. steps # <<>> /\ Head(steps) = "delete" /\ "delete" \in StepsOf(cmd)
  <2>1. steps # <<>> /\ Head(steps) = "delete"
    BY Zenon DEF Delete, Ok, Follow, Err, Warns
  <2>2. QED
    BY Zenon, <2>1, LeftTail DEF HostInv, OnPlan
<1>3. cmd.op \in {"install", "uninstall"} /\ cmd \in Commands /\ platform = "scm"
  BY Zenon, <1>2, Belongs DEF HostInv, OnPlan
<1>4. entry' \in {"none", "there", "marked"}
  BY Zenon DEF Delete, HostInv, OnePlatform
<1>5. OnePlatform'
  BY Zenon, <1>1, <1>3, <1>4 DEF HostInv, OnePlatform
<1>6. CASE Ok("delete") /\ entry' = IF thread = "none" THEN "none" ELSE "marked"
  <2>1. Follow("delete", <<>>) /\ UNCHANGED warned
    BY Zenon, <1>6 DEF Ok
  <2>2. OnPlan' /\ (steps' # <<>> => Head(steps') = Then(cmd, "delete") /\ Then(cmd, "delete") # "end")
    BY Zenon, <2>1, Moves
  <2>3. CASE cmd.op = "install"
    <3>1. Then(cmd, "delete") = "create"
      BY Zenon, <2>3, Follows DEF HostInv
    <3>2. Installing'
      BY Zenon, <1>1, <1>2, <2>2, <2>3, <3>1 DEF HostInv, Installing
    <3>3. Uninstalling'
      BY Zenon, <1>1, <2>3 DEF Uninstalling
    <3>4. Repairing'
      BY Zenon, <1>1, <1>2, <1>6, <2>2, <3>1 DEF HostInv, Repairing
    <3>5. QED
      BY Zenon, <1>5, <2>2, <3>2, <3>3, <3>4 DEF HostInv
  <2>4. CASE cmd.op = "uninstall"
    <3>1. Installing'
      BY Zenon, <1>1, <2>4 DEF Installing
    <3>2. unit = "none" /\ daemon = "none"
      BY Zenon, <1>3 DEF HostInv, OnePlatform
    <3>3. Uninstalling'
      BY Zenon, <1>1, <1>6, <3>2 DEF Uninstalling
    <3>4. Repairing'
      BY Zenon, <1>1, <1>3, <2>4 DEF Repairing, Commands
    <3>5. QED
      BY Zenon, <1>5, <2>2, <3>1, <3>3, <3>4 DEF HostInv
  <2>5. QED
    BY Zenon, <1>3, <2>3, <2>4
<1>7. CASE Err("delete")
  BY Zenon, <1>5, <1>7, Fails
<1>8. CASE cmd.op # "install" /\ Warns("delete", 1)
  <2>1. LeftOf(steps', cmd)
    BY Zenon, <1>2, <1>8, SkipsLeft DEF Warns, Warn
  <2>2. QED
    BY Zenon, <1>1, <1>3, <1>5, <1>8, <2>1, Warned DEF Warns, Warn
<1>9. QED
  BY Zenon, <1>6, <1>7, <1>8 DEF Delete

\* The service is created if there is none.
LEMMA CreateHost == ASSUME HostInv, Create PROVE HostInv'
<1> USE DEF service, files, process
<1>1. UNCHANGED <<platform, cmd, clean, thread, daemon, binary, unit, config, warned>>
  BY Zenon DEF Create, Ok, Follow, Err
<1>2. steps # <<>> /\ Head(steps) = "create" /\ "create" \in StepsOf(cmd)
  <2>1. steps # <<>> /\ Head(steps) = "create"
    BY Zenon DEF Create, Ok, Follow, Err
  <2>2. QED
    BY Zenon, <2>1, LeftTail DEF HostInv, OnPlan
<1>3. cmd.op = "install" /\ platform = "scm"
  BY Zenon, <1>2, Belongs DEF HostInv, OnPlan
<1>4. entry' \in {"none", "there", "marked"}
  BY Zenon DEF Create, HostInv, OnePlatform
<1>5. OnePlatform'
  BY Zenon, <1>1, <1>3, <1>4 DEF HostInv, OnePlatform
<1>6. CASE Ok("create") /\ entry' = "there"
  <2>1. Then(cmd, "create") = "start"
    BY Zenon, Follows DEF HostInv
  <2>2. OnPlan' /\ steps' # <<>> /\ Head(steps') = "start"
    BY Zenon, <1>6, <2>1, Moves DEF Ok
  <2>3. Installing'
    BY Zenon, <1>1, <1>2, <2>2 DEF HostInv, Installing
  <2>4. Uninstalling'
    BY Zenon, <1>1, <1>3 DEF Uninstalling
  <2>5. Repairing'
    BY Zenon, <1>1, <1>2, <1>6, <2>2 DEF HostInv, Repairing
  <2>6. QED
    BY Zenon, <1>5, <2>2, <2>3, <2>4, <2>5 DEF HostInv
<1>7. CASE Err("create")
  BY Zenon, <1>5, <1>7, Fails
<1>8. QED
  BY Zenon, <1>6, <1>7 DEF Create

\* The last steps of an installation and of an uninstall.
LEMMA LastHost == ASSUME HostInv, StartIt \/ Purge PROVE HostInv'
<1> USE DEF service
<1>1. CASE StartIt
  <2>1. UNCHANGED <<platform, cmd, daemon, unit, config, entry>>
    BY Zenon, <1>1 DEF StartIt, Ok, Follow, Err, StartService
  <2>2. steps # <<>> /\ Head(steps) = "start" /\ "start" \in StepsOf(cmd)
    <3>1. steps # <<>> /\ Head(steps) = "start"
      BY Zenon, <1>1 DEF StartIt, Ok, Follow, Err
    <3>2. QED
      BY Zenon, <3>1, LeftTail DEF HostInv, OnPlan
  <2>3. platform = "scm"
    BY Zenon, <2>2, Belongs DEF HostInv, OnPlan
  <2>4. OnePlatform'
    BY Zenon, <2>1, <2>3 DEF HostInv, OnePlatform
  <2>5. CASE Ok("start")
    <3>1. Then(cmd, "start") = "end"
      BY Zenon, Follows DEF HostInv
    <3>2. steps' = <<>> /\ result' = "ok"
      BY Zenon, <2>5, <3>1, Moves DEF Ok
    <3>3. QED
      BY Zenon, <2>1, <2>4, <3>2, HostEnded
  <2>6. CASE Err("start")
    BY Zenon, <2>4, <2>6, Fails
  <2>7. QED
    BY Zenon, <1>1, <2>5, <2>6 DEF StartIt
<1>2. CASE Purge
  <2>1. UNCHANGED <<platform, cmd, daemon, unit, entry, thread>> /\ config' = "none"
    BY Zenon, <1>2 DEF Purge, Ok, Follow
  <2>2. OnePlatform'
    BY Zenon, <2>1 DEF HostInv, OnePlatform, Configs
  <2>3. Then(cmd, "purge") = "end"
    BY Zenon, Follows DEF HostInv
  <2>4. steps' = <<>> /\ result' = "ok"
    BY Zenon, <1>2, <2>3, Moves DEF Purge, Ok
  <2>5. QED
    BY Zenon, <2>1, <2>2, <2>4, HostEnded
<1>3. QED
  BY Zenon, <1>1, <1>2

\* A command begins with its whole plan before it.
LEMMA StartHost == ASSUME HostInv, NEW c \in Commands, Start(c) PROVE HostInv'
<1> USE DEF service, files
<1>1. /\ UNCHANGED <<platform, entry, thread, daemon, binary, unit, config>>
      /\ cmd' = c /\ steps' = Plan(c) /\ result' = "none" /\ warned' = "no"
      /\ clean' = IF Alive \/ entry = "marked" THEN "no" ELSE "yes"
      /\ c.op = "uninstall" => platform # "systemd"
      /\ c.from = "installed" => binary = "good"
  BY Zenon DEF Start
<1>2. /\ LeftOf(steps', c) /\ steps' # <<>>
      /\ c.op = "install" => Head(steps') = "binary"
      /\ c.op = "setup" => Head(steps') = "setup"
      /\ c.op = "uninstall" => Head(steps') \in {"bootout", "query"}
  BY Zenon, <1>1, PlanIsLeft DEF HostInv
<1>3. c.op \in {"install", "setup", "uninstall"} /\ (c.op = "uninstall" => c.force = "no")
  BY Zenon DEF Commands
<1>4. LeftOf(steps, cmd)'
  BY Zenon, <1>1, <1>2, SamePlatform
<1>5. OnPlan'
  BY Zenon, <1>1, <1>2, <1>4 DEF OnPlan
<1>6. OnePlatform'
  BY Zenon, <1>1 DEF HostInv, OnePlatform
<1>7. Installing' /\ Uninstalling'
  BY Zenon, <1>1, <1>2, <1>3 DEF Installing, Uninstalling
<1>8. Repairing'
  <2>1. clean' = "yes" => thread = "none" /\ daemon = "none" /\ entry # "marked"
    BY Zenon, <1>1 DEF Alive, HostInv, OnePlatform
  <2>2. QED
    BY Zenon, <1>1, <1>2, <1>3, <2>1 DEF Repairing
<1>9. QED
  BY Zenon, <1>5, <1>6, <1>7, <1>8 DEF HostInv

\* A step that fails, a command that is killed, and an error that is overlooked.
LEMMA FaultHost == ASSUME HostInv, Fault PROVE HostInv'
<1> USE DEF service
<1>1. UNCHANGED <<platform, cmd, daemon, entry, thread>> /\ clean' = "no" /\ steps # <<>>
  BY Zenon DEF Fault
<1>2. Head(steps) \in StepsOf(cmd) /\ cmd \in Commands \cup {Idle}
  BY Zenon, <1>1, LeftTail DEF HostInv, OnPlan
<1>3. CASE Dies
  <2>1. config' \in Configs
    BY Zenon, <1>3 DEF Dies, Torn, Configs, HostInv, OnePlatform
  <2>2. platform = "scm" => unit' = "none"
    <3>1. platform = "scm" => Head(steps) # "unit" /\ unit = "none"
      BY Zenon, <1>2, Belongs DEF HostInv, OnePlatform
    <3>2. QED
      BY Zenon, <1>3, <3>1 DEF Dies, Torn
  <2>3. OnePlatform'
    BY Zenon, <1>1, <2>1, <2>2 DEF HostInv, OnePlatform
  <2>4. QED
    BY Zenon, <1>1, <1>3, <2>3, HostEnded DEF Dies
<1>4. ASSUME UNCHANGED <<binary, unit, config>>, UNCHANGED warned, NEW y, steps' # <<>>,
             Head(steps') = y, y \in {"create", "delete"}, LeftOf(steps', cmd), result' = "none",
             Head(steps) \in {"exists", "query"}, cmd \in Commands
      PROVE  HostInv'
  <2>1. LeftOf(steps, cmd)'
    BY Zenon, <1>1, <1>4, SamePlatform
  <2>2. OnPlan'
    BY Zenon, <1>1, <1>4, <2>1 DEF OnPlan
  <2>3. OnePlatform'
    BY Zenon, <1>1, <1>4 DEF HostInv, OnePlatform
  <2>4. Installing'
    BY Zenon, <1>1, <1>4 DEF HostInv, Installing
  <2>5. Uninstalling' /\ Repairing'
    BY Zenon, <1>1, <1>4 DEF Uninstalling, Repairing
  <2>6. QED
    BY Zenon, <2>2, <2>3, <2>4, <2>5 DEF HostInv
<1>5. CASE Overlooked
  <2>1. UNCHANGED <<binary, unit, config>>
    BY Zenon, <1>5 DEF Overlooked
  <2>2. OnePlatform'
    BY Zenon, <1>1, <2>1 DEF HostInv, OnePlatform
  <2>3. CASE Head(steps) = "exists" /\ steps' = <<"create", "start">>
    <3>1. LeftOf(<<"create", "start">>, cmd) /\ First(<<"create", "start">>) = "create"
      BY Zenon, <1>1, <2>3, ReplaceIsLeft
    <3>2. LeftOf(steps', cmd) /\ steps' # <<>> /\ Head(steps') = "create"
      BY Zenon, <2>3, <3>1 DEF First
    <3>3. cmd \in Commands
      BY Zenon, <1>2, Belongs DEF HostInv
    <3>4. result' = "none" /\ UNCHANGED warned
      BY Zenon, <1>5, <2>3, <3>2 DEF Overlooked
    <3>5. QED
      BY Zenon, <1>4, <2>1, <2>3, <3>2, <3>3, <3>4
  <2>4. CASE Head(steps) = "query" /\ steps' = <<"delete">> \o Tail(steps)
    <3>1. /\ LeftOf(<<"delete">> \o Tail(steps), cmd) /\ First(<<"delete">> \o Tail(steps)) = "delete"
          /\ cmd \in Commands
      BY Zenon, <1>1, <2>4, RemovalIsLeft
    <3>2. LeftOf(steps', cmd) /\ steps' # <<>> /\ Head(steps') = "delete"
      BY Zenon, <2>4, <3>1 DEF First
    <3>3. result' = "none" /\ UNCHANGED warned
      BY Zenon, <1>5, <2>4, <3>2 DEF Overlooked
    <3>4. QED
      BY Zenon, <1>4, <2>1, <2>4, <3>1, <3>2, <3>3
  <2>5. CASE Head(steps) = "purge" /\ steps' = <<>>
    BY Zenon, <1>1, <1>5, <2>2, <2>5, HostEnded DEF Overlooked
  <2>6. ASSUME NEW x \in {"bootout", "stop", "delete"}, Head(steps) = x,
               Warn(1) \/ (Warn(2) /\ x = "stop"), x = "delete" => cmd.op = "uninstall"
        PROVE  HostInv'
    <3>1. cmd.op = "uninstall" /\ cmd \in Commands
      BY Zenon, <1>2, <2>6, Belongs DEF HostInv
    <3>2. LeftOf(steps', cmd)
      BY Zenon, <1>1, <2>6, SkipsLeft DEF Warn
    <3>3. QED
      BY Zenon, <1>1, <2>2, <2>6, <3>1, <3>2, Warned DEF Warn
  <2>7. QED
    BY Zenon, <1>5, <2>3, <2>4, <2>5, <2>6 DEF Overlooked
<1>6. QED
  BY Zenon, <1>3, <1>5 DEF Fault

\* The agent, the state it saves, and the operator.
LEMMA OthersHost ==
    ASSUME HostInv, ServiceInv, Service \/ Saves \/ Operator \/ UNCHANGED hostVars
    PROVE  HostInv'
<1> USE DEF service, control, process, scm
<1>1. UNCHANGED <<platform, cmd, steps, result, warned, unit, binary>>
  BY Zenon DEF Service, Saves, Operator, hostVars, files
<1>2. LeftOf(steps, cmd)'
  BY Zenon, <1>1, SamePlatform DEF HostInv, OnPlan
<1>3. OnPlan'
  BY Zenon, <1>1, <1>2 DEF HostInv, OnPlan
<1>4. CASE Service
  <2>1. UNCHANGED <<config, daemon, clean>> /\ thread # "none" /\ entry' \in {entry, "none"}
    <3>1. CASE ServiceMain
      BY Zenon, <1>4, <3>1 DEF Service, ServiceMain, ReportRunning, LoadConfig, ProcessExit, Subscribe,
         WakeStop, WakeReload, RunReturns, ReportStopped, Return, Gone, Goto, Rest
    <3>2. CASE Handler
      BY Zenon, <1>4, <3>2 DEF Service, Handler, HandlerSends, HandlerReports, ServiceInv,
         HandlerInProcess, Ready
    <3>3. CASE AskReload
      BY Zenon, <1>4, <3>3 DEF Service, AskReload
    <3>4. QED
      BY Zenon, <1>4, <3>1, <3>2, <3>3 DEF Service
  <2>2. OnePlatform'
    BY Zenon, <1>1, <2>1 DEF HostInv, OnePlatform
  <2>3. Installing'
    BY Zenon, <1>1, <2>1 DEF HostInv, Installing
  <2>4. Uninstalling'
    BY Zenon, <1>1, <2>1 DEF HostInv, Uninstalling
  <2>5. Repairing'
    BY Zenon, <1>1, <2>1 DEF HostInv, Repairing
  <2>6. QED
    BY Zenon, <1>3, <2>2, <2>3, <2>4, <2>5 DEF HostInv
<1>5. CASE Saves \/ UNCHANGED hostVars
  <2>1. UNCHANGED <<config, daemon, clean, entry, thread>>
    BY Zenon, <1>5 DEF Saves, hostVars, files
  <2>2. OnePlatform'
    BY Zenon, <1>1, <2>1 DEF HostInv, OnePlatform
  <2>3. Installing'
    BY Zenon, <1>1, <2>1 DEF HostInv, Installing
  <2>4. Uninstalling'
    BY Zenon, <1>1, <2>1 DEF HostInv, Uninstalling
  <2>5. Repairing'
    BY Zenon, <1>1, <2>1 DEF HostInv, Repairing
  <2>6. QED
    BY Zenon, <1>3, <2>2, <2>3, <2>4, <2>5 DEF HostInv
<1>6. CASE Operator
  <2>1. /\ clean' = "no" /\ entry' = entry /\ config' \in Configs
        /\ steps # <<>> => UNCHANGED <<config, daemon>>
        /\ platform # "scm" => UNCHANGED thread
        /\ daemon' \in {"none", daemon}
    BY Zenon, <1>6 DEF Operator, StartService, Control, HostInv, OnePlatform, Configs
  <2>2. OnePlatform'
    BY Zenon, <1>1, <2>1 DEF HostInv, OnePlatform
  <2>3. Installing'
    BY Zenon, <1>1, <2>1 DEF HostInv, Installing
  <2>4. Uninstalling'
    BY Zenon, <1>1, <2>1 DEF HostInv, Uninstalling
  <2>5. Repairing'
    BY Zenon, <2>1 DEF Repairing
  <2>6. QED
    BY Zenon, <1>3, <2>2, <2>3, <2>4, <2>5 DEF HostInv
<1>7. QED
  BY Zenon, <1>4, <1>5, <1>6

\* A host with nothing installed has the invariant.
LEMMA InitHost == HostInit => HostInv
<1> SUFFICES ASSUME HostInit PROVE HostInv
  BY Zenon
<1>1. LeftOf(steps, cmd)
  BY Zenon, LeftNone DEF HostInit
<1>2. cmd.op = "none"
  BY DEF HostInit, Idle
<1>3. OnPlan
  BY Zenon, <1>1 DEF HostInit, OnPlan
<1>4. OnePlatform
  BY Zenon, InstallAssumption DEF HostInit, ServiceInit, OnePlatform, Configs
<1>5. QED
  BY Zenon, <1>3, <1>4 DEF HostInit, HostInv, Installing, Uninstalling, Repairing

\* Every step of a command, the agent, the operator and every fault keeps it.
LEMMA NextHost == ASSUME HostInv, ServiceInv, [HostNext]_hostVars PROVE HostInv'
BY Zenon, StartHost, FilesHost, ManagersHost, ExistsHost, QueryHost, StopHost, DeleteHost, CreateHost,
   LastHost, FaultHost, OthersHost DEF HostNext, Steps

\* What a command, the operator and the agent do to the service, WindowsService allows.
LEMMA HostStep ==
    ASSUME HostInv, HostInv', [HostNext]_hostVars
    PROVE  [ServiceNext]_serviceVars
<1> USE DEF service, process, scm, files, serviceVars
<1>1. ASSUME UNCHANGED <<process, status, accepts, handler, missed, reloads>>,
             UNCHANGED entry \/ UNCHANGED config
      PROVE  ServiceNext
  <2>1. config' \in Configs /\ entry' \in {"none", "there", "marked"}
    BY Zenon DEF HostInv, OnePlatform
  <2>2. QED
    BY Zenon, <1>1, <2>1 DEF ServiceNext, Edits
<1>2. ASSUME NEW c \in Commands, Start(c) PROVE UNCHANGED serviceVars
  BY Zenon, <1>2 DEF Start
<1>3. CASE InstallBinary \/ CreateUser \/ CreateDirs \/ WriteUnit \/ Setup
  BY Zenon, <1>1, <1>3 DEF InstallBinary, CreateUser, CreateDirs, WriteUnit, Setup
<1>4. CASE EnableNow \/ Bootstrap \/ Enable \/ Bootout \/ RemoveUnit \/ Exists \/ Query
  BY Zenon, <1>4 DEF EnableNow, Bootstrap, Enable, Bootout, RemoveUnit, Exists, Query
<1>5. CASE Stop
  BY Zenon, <1>5 DEF Stop, ServiceNext
<1>6. CASE Delete \/ Create \/ Purge
  BY Zenon, <1>1, <1>6 DEF Delete, Create, Purge
<1>7. CASE StartIt
  BY Zenon, <1>7 DEF StartIt, ServiceNext
<1>8. CASE Fault
  BY Zenon, <1>1, <1>8 DEF Fault
<1>9. CASE Service
  BY Zenon, <1>9 DEF Service, ServiceNext
<1>10. CASE Saves \/ UNCHANGED hostVars
  BY Zenon, <1>10 DEF Saves, hostVars
<1>11. CASE Operator
  BY Zenon, <1>1, <1>11 DEF Operator, ServiceNext
<1>12. QED
  BY Zenon, <1>2, <1>3, <1>4, <1>5, <1>6, <1>7, <1>8, <1>9, <1>10, <1>11 DEF HostNext, Steps

\* Both invariants hold throughout.
LEMMA HostInductive == HostSpec => [](HostInv /\ ServiceInv)
<1>1. HostInit => HostInv /\ ServiceInv
  BY Zenon, InitHost, InitService DEF HostInit
<1>2. HostInv /\ ServiceInv /\ [HostNext]_hostVars => (HostInv /\ ServiceInv)'
  BY Zenon, NextHost, HostStep, NextService
<1>3. QED
  BY <1>1, <1>2, PTL DEF HostSpec

\* The service of a host, with installs, uninstalls and an operator around it, is the one
\* of WindowsService: what is proved of that one holds on the host.
THEOREM HostIsService == HostSpec => ServiceSpec
<1>1. HostInit => ServiceInit
  BY Zenon DEF HostInit
<1>2. HostInv /\ HostInv' /\ [HostNext]_hostVars => [ServiceNext]_serviceVars
  BY Zenon, HostStep
<1>3. QED
  BY <1>1, <1>2, HostInductive, PTL DEF HostSpec, ServiceSpec

\* A command ends with the last step of its plan.
LEMMA LastStep ==
    ASSUME HostInv, NEW x, Follow(x, <<>>), result' = "ok"
    PROVE  /\ steps # <<>> /\ Head(steps) = x /\ x \in StepsOf(cmd)
           /\ x \notin {"binary", "user", "dirs", "create", "bootstrap", "bootout", "stop"}
           /\ cmd.op = "install" /\ cmd.token = "yes" => x \notin {"unit", "setup", "delete"}
<1>1. steps # <<>> /\ Head(steps) = x /\ x \in StepsOf(cmd) /\ Then(cmd, x) = "end"
  BY Zenon, Moves
<1>2. /\ Then(cmd, "binary") # "end" /\ Then(cmd, "user") # "end" /\ Then(cmd, "dirs") # "end"
      /\ Then(cmd, "create") # "end" /\ Then(cmd, "bootstrap") # "end"
      /\ Then(cmd, "bootout") # "end" /\ Then(cmd, "stop") # "end"
  BY Zenon, Follows DEF HostInv
<1>3. cmd.op = "install" /\ cmd.token = "yes" =>
         Then(cmd, "unit") # "end" /\ Then(cmd, "setup") # "end" /\ Then(cmd, "delete") # "end"
  BY Zenon, Follows DEF HostInv
<1>4. QED
  BY Zenon, <1>1, <1>2, <1>3

\* The last step of an installation with a token.
LEMMA InstallDone ==
    ASSUME HostInv, HostNext, Ends("ok"), cmd.op = "install", cmd.token = "yes"
    PROVE  /\ binary' = "good" /\ config' = "good"
           /\ IF platform = "scm" THEN entry' # "none" ELSE unit' = "good" /\ daemon' = "loaded"
<1> USE DEF service, files
<1>1. result = "none" /\ result' = "ok"
  BY Zenon DEF Ends
<1>2. ASSUME NEW x, Follow(x, <<>>)
      PROVE  /\ x \in {"enable_now", "enable", "exists", "start"} /\ Head(steps) = x
             /\ binary = "good" /\ config = "good"
             /\ x \in {"enable_now", "enable"} => platform # "scm"
             /\ x \in {"exists", "start"} => platform = "scm"
             /\ x = "enable" => unit = "good" /\ daemon = "loaded"
  <2>1. /\ steps # <<>> /\ Head(steps) = x /\ x \in StepsOf(cmd)
        /\ x \notin {"binary", "user", "dirs", "create", "bootstrap", "unit", "setup", "delete"}
    BY Zenon, <1>1, <1>2, LastStep
  <2>2. x \in {"enable_now", "enable", "exists", "start"}
    BY Zenon, <2>1 DEF HostInv, OnePlatform, StepsOf, InstallSteps, WithToken
  <2>3. /\ x \in {"enable_now", "enable"} => platform # "scm"
        /\ x \in {"exists", "start"} => platform = "scm"
    BY Zenon, <2>1, Belongs DEF HostInv, OnPlan
  <2>4. QED
    BY Zenon, <2>1, <2>2, <2>3 DEF HostInv, Installing
<1>3. ASSUME NEW x \in {"binary", "user", "dirs", "unit", "setup", "bootstrap", "bootout",
                          "remove_unit", "purge", "create", "delete"}
       PROVE  ~Follow(x, <<>>)
  <2>1. ASSUME Follow(x, <<>>) PROVE FALSE
    <3>1. x \in {"enable_now", "enable", "exists", "start"}
      BY Zenon, <1>2, <2>1
    <3>2. QED
      BY Zenon, <3>1
  <2>2. QED
    BY Zenon, <2>1
<1>4. ASSUME NEW x, Head(steps) = x, steps # <<>>, x \in {"delete", "stop", "bootout", "purge", "query"}
      PROVE  x = "delete"
  BY Zenon, <1>4, LeftTail, Belongs DEF HostInv, OnPlan
<1>5. CASE InstallBinary \/ CreateUser \/ CreateDirs \/ WriteUnit \/ Setup
  BY Zenon, <1>1, <1>3, <1>5 DEF InstallBinary, CreateUser, CreateDirs, WriteUnit, Setup, Ok, Err
<1>6. CASE EnableNow
  BY Zenon, <1>1, <1>2, <1>6 DEF EnableNow, Ok, Err
<1>7. CASE Enable
  BY Zenon, <1>1, <1>2, <1>7 DEF Enable, Ok
<1>8. CASE Bootstrap \/ Bootout \/ RemoveUnit \/ Purge \/ Create
  BY Zenon, <1>1, <1>3, <1>8 DEF Bootstrap, Bootout, RemoveUnit, Purge, Create, Ok, Err
<1>9. CASE Exists
  <2>1. CASE entry # "none" /\ cmd.force = "no"
    BY Zenon, <1>2, <1>9, <2>1 DEF Exists, Ok
  <2>2. CASE ~(entry # "none" /\ cmd.force = "no")
    <3>1. steps' # <<>>
      BY Zenon, <1>9, ExistsGrows, <2>2
    <3>2. QED
      BY Zenon, <1>1, <1>9, <2>2, <3>1 DEF Exists, Follow
  <2>3. QED
    BY Zenon, <2>1, <2>2
<1>10. CASE StartIt
  BY Zenon, <1>1, <1>2, <1>10 DEF StartIt, Ok, Err, StartService, Startable
<1>11. CASE Query \/ Stop
  BY Zenon, <1>4, <1>11 DEF Query, Stop, Ok, Follow, Warns
<1>12. CASE Delete
  BY Zenon, <1>1, <1>3, <1>12 DEF Delete, Ok, Err
<1>13. CASE Fault
  <2>1. steps # <<>> /\ Overlooked
    BY Zenon, <1>1, <1>13 DEF Fault, Dies
  <2>2. Head(steps) = "exists" /\ steps' = <<"create", "start">>
    BY Zenon, <1>4, <2>1 DEF Overlooked
  <2>3. QED
    <3>1. <<"create", "start">> # <<>>
      OBVIOUS
    <3>2. QED
      BY Zenon, <1>1, <2>1, <2>2, <3>1 DEF Overlooked
<1>14. CASE (\E c \in Commands : Start(c)) \/ Service \/ Saves \/ Operator
  BY Zenon, <1>1, <1>14 DEF Start, Service, Saves, Operator, control
<1>15. QED
  BY Zenon, <1>5, <1>6, <1>7, <1>8, <1>9, <1>10, <1>11, <1>12, <1>13, <1>14 DEF HostNext, Steps

\* The last step of an uninstall that warned of nothing.
LEMMA UninstallDone ==
    ASSUME HostInv, HostNext, Ends("ok"), cmd.op = "uninstall", warned' = "no"
    PROVE  unit' = "none" /\ daemon' = "none" /\ entry' # "there"
<1> USE DEF service, files, process
<1>1. result = "none" /\ result' = "ok" /\ steps # <<>>
  BY Zenon DEF Ends, HostInv, OnPlan
<1>2. /\ Head(steps) \in {"bootout", "remove_unit", "query", "stop", "delete", "purge"}
      /\ Head(steps) \in {"query", "stop", "delete"} => platform = "scm"
      /\ Head(steps) \in {"bootout", "remove_unit"} => platform = "launchd"
  <2>1. Head(steps) \in StepsOf(cmd)
    BY Zenon, <1>1, LeftTail DEF HostInv, OnPlan
  <2>2. QED
    BY Zenon, <2>1 DEF HostInv, OnePlatform, StepsOf, UninstallSteps, WithPurge
<1>3. /\ platform = "scm" => unit = "none" /\ daemon = "none"
      /\ platform = "launchd" => entry = "none"
  BY Zenon DEF HostInv, OnePlatform
<1>4. /\ ~Follow("bootout", <<>>) /\ ~Follow("stop", <<>>)
  <2>1. ASSUME NEW x \in {"bootout", "stop"}, Follow(x, <<>>) PROVE FALSE
    BY Zenon, <1>1, <2>1, LastStep
  <2>2. QED
    BY Zenon, <2>1
<1>5. /\ Head(steps) \in {"remove_unit", "purge"} /\ warned = "no" => daemon = "none"
      /\ Head(steps) = "purge" /\ warned = "no" => unit = "none" /\ entry # "there"
  BY Zenon, <1>1 DEF HostInv, Uninstalling
<1>6. CASE InstallBinary \/ CreateUser \/ CreateDirs \/ WriteUnit \/ Setup \/ EnableNow \/ Bootstrap
           \/ Enable \/ Exists \/ Create \/ StartIt
  <2>1. Head(steps) \in {"binary", "user", "dirs", "unit", "setup", "enable_now", "bootstrap", "enable",
                         "exists", "create", "start"}
    BY Zenon, <1>6 DEF InstallBinary, CreateUser, CreateDirs, WriteUnit, Setup, EnableNow, Bootstrap,
       Enable, Exists, Create, StartIt, Ok, Follow, Err
  <2>2. QED
    BY Zenon, <1>2, <2>1
<1>7. CASE Bootout
  BY Zenon, <1>4, <1>7 DEF Bootout
<1>8. CASE RemoveUnit
  <2>1. Head(steps) = "remove_unit" /\ warned = "no" /\ UNCHANGED <<daemon, entry>> /\ unit' = "none"
    BY Zenon, <1>8 DEF RemoveUnit, Ok, Follow
  <2>2. QED
    BY Zenon, <1>2, <1>3, <1>5, <2>1
<1>9. CASE Query
  <2>1. steps' # <<>>
    BY Zenon, <1>9, QueryGrows
  <2>2. QED
    BY Zenon, <1>1, <1>9, <2>1 DEF Query, Follow
<1>10. CASE Stop
  BY Zenon, <1>4, <1>10 DEF Stop, Ok, Warns, Warn
<1>11. CASE Delete
  <2>1. Head(steps) = "delete" /\ UNCHANGED <<daemon, unit>>
    BY Zenon, <1>11 DEF Delete, Ok, Follow, Err, Warns
  <2>2. entry' # "there"
    BY Zenon, <1>1, <1>11 DEF Delete, Err, Warns, Warn
  <2>3. QED
    BY Zenon, <1>2, <1>3, <2>1, <2>2
<1>12. CASE Purge
  <2>1. Head(steps) = "purge" /\ UNCHANGED <<daemon, unit, entry, warned>>
    BY Zenon, <1>12 DEF Purge, Ok, Follow
  <2>2. QED
    BY Zenon, <1>5, <2>1
<1>13. CASE Fault
  <2>1. Overlooked /\ UNCHANGED <<daemon, unit, entry>>
    BY Zenon, <1>1, <1>13 DEF Fault, Dies, Overlooked
  <2>2. Head(steps) \in {"exists", "query", "purge"} /\ UNCHANGED warned
    BY Zenon, <2>1 DEF Overlooked, Warn
  <2>3. CASE Head(steps) = "query"
    <3>1. steps' = <<"delete">> \o Tail(steps)
      BY Zenon, <2>1, <2>3 DEF Overlooked
    <3>2. First(<<"delete">> \o Tail(steps)) = "delete"
      BY Zenon, <1>1, <2>3, RemovalIsLeft
    <3>3. steps' # <<>>
      BY Zenon, <3>1, <3>2 DEF First
    <3>4. QED
      BY Zenon, <1>1, <2>1, <2>3, <3>3 DEF Overlooked
  <2>4. QED
    BY Zenon, <1>2, <1>5, <2>1, <2>2, <2>3
<1>14. CASE (\E c \in Commands : Start(c)) \/ Service \/ Saves \/ Operator
  BY Zenon, <1>1, <1>14 DEF Start, Service, Saves, Operator, control
<1>15. QED
  BY Zenon, <1>6, <1>7, <1>8, <1>9, <1>10, <1>11, <1>12, <1>13, <1>14 DEF HostNext, Steps

\* What a repairing command needs, its next step finds.
LEMMA NothingFails ==
    ASSUME HostInv, ServiceInv, HostNext, Ends("err"), clean' = "yes", cmd.force = "yes"
    PROVE  FALSE
<1> USE DEF service, files
<1>1. result = "none" /\ result' = "err" /\ steps # <<>>
  BY Zenon DEF Ends, HostInv, OnPlan
<1>2. ASSUME NEW x, NEW more PROVE ~Follow(x, more)
  BY Zenon, <1>1 DEF Follow
<1>3. ASSUME NEW n PROVE ~Warn(n)
  BY Zenon, <1>1 DEF Warn
<1>4. ASSUME NEW x, Err(x)
      PROVE  /\ Head(steps) = x /\ thread = "none"
             /\ x \in {"binary", "bootstrap"} => daemon = "none"
             /\ x \in {"enable_now", "bootstrap"} => unit = "good"
             /\ x = "create" => entry = "none"
             /\ x \in {"delete", "start"} => entry = "there"
  <2>1. Head(steps) = x /\ clean = "yes"
    BY Zenon, <1>4 DEF Err
  <2>2. QED
    BY Zenon, <1>1, <2>1 DEF HostInv, Repairing
<1>5. CASE InstallBinary
  <2>1. Err("binary") /\ Alive
    BY Zenon, <1>2, <1>5 DEF InstallBinary, Ok
  <2>2. QED
    BY Zenon, <1>4, <2>1 DEF Alive
<1>6. CASE Setup
  <2>1. cmd.force = "no"
    BY Zenon, <1>2, <1>6 DEF Setup, Ok
  <2>2. QED
    BY Zenon, <2>1
<1>7. CASE EnableNow
  BY Zenon, <1>2, <1>4, <1>7 DEF EnableNow, Ok
<1>8. CASE Bootstrap
  BY Zenon, <1>2, <1>4, <1>8 DEF Bootstrap, Ok
<1>9. CASE CreateUser \/ CreateDirs \/ WriteUnit \/ Enable \/ Bootout \/ RemoveUnit \/ Query \/ Purge
  BY Zenon, <1>2, <1>9 DEF CreateUser, CreateDirs, WriteUnit, Enable, Bootout, RemoveUnit, Query,
     Purge, Ok
<1>10. CASE Exists
  BY Zenon, <1>2, <1>10 DEF Exists, Ok
<1>11. CASE Stop
  BY Zenon, <1>2, <1>3, <1>11 DEF Stop, Ok, Warns
<1>12. CASE Delete
  BY Zenon, <1>2, <1>3, <1>4, <1>12 DEF Delete, Ok, Warns
<1>13. CASE Create
  BY Zenon, <1>2, <1>4, <1>13 DEF Create, Ok
<1>14. CASE StartIt
  <2>1. Err("start") /\ ~Startable
    BY Zenon, <1>2, <1>14 DEF StartIt, Ok
  <2>2. entry = "there" /\ thread = "none"
    BY Zenon, <1>4, <2>1
  <2>3. status = "stopped"
    BY Zenon, <2>2 DEF ServiceInv, HandlerInProcess
  <2>4. QED
    BY Zenon, <2>1, <2>2, <2>3 DEF Startable
<1>15. CASE Fault
  BY Zenon, <1>15 DEF Fault
<1>16. CASE (\E c \in Commands : Start(c)) \/ Service \/ Saves \/ Operator
  BY Zenon, <1>1, <1>16 DEF Start, Service, Saves, Operator, control
<1>17. QED
  BY Zenon, <1>5, <1>6, <1>7, <1>8, <1>9, <1>10, <1>11, <1>12, <1>13, <1>14, <1>15, <1>16
     DEF HostNext, Steps

\* A command that reports success has done what it is for, however many commands failed or
\* were cut short before it, and whatever the agent, the operator and the server did.
THEOREM SuccessIsReal == HostSpec => OkMeansDone
<1>1. ASSUME HostInv, HostNext
      PROVE  /\ Ends("ok") /\ cmd.op = "install" /\ cmd.token = "yes" =>
                    /\ binary' = "good" /\ config' = "good"
                    /\ IF platform = "scm" THEN entry' # "none"
                       ELSE unit' = "good" /\ daemon' = "loaded"
             /\ Ends("ok") /\ cmd.op = "uninstall" /\ warned' = "no" =>
                    unit' = "none" /\ daemon' = "none" /\ entry' # "there"
  BY Zenon, <1>1, InstallDone, UninstallDone
<1>2. HostInv /\ ServiceInv /\ [HostNext]_hostVars =>
         [/\ Ends("ok") /\ cmd.op = "install" /\ cmd.token = "yes" =>
                /\ binary' = "good" /\ config' = "good"
                /\ IF platform = "scm" THEN entry' # "none"
                   ELSE unit' = "good" /\ daemon' = "loaded"
          /\ Ends("ok") /\ cmd.op = "uninstall" /\ warned' = "no" =>
                unit' = "none" /\ daemon' = "none" /\ entry' # "there"]_hostVars
  BY Zenon, <1>1
<1>3. QED
  BY <1>2, HostInductive, PTL DEF HostSpec, OkMeansDone

\* install --force and setup --force fail only if something fails under them, or if an agent
\* was there when they began, whatever earlier commands left behind.
THEOREM ForceSucceeds == HostSpec => ForceRepairs
<1>1. HostInv /\ ServiceInv /\ [HostNext]_hostVars =>
         [Ends("err") => ~(clean' = "yes" /\ cmd.force = "yes")]_hostVars
  BY Zenon, NothingFails
<1>2. QED
  BY <1>1, HostInductive, PTL DEF HostSpec, ForceRepairs

-----------------------------------------------------------------------------
(* SingleLine: spans, buffers, and the steps of the writer. *)

\* A span splits at any offset inside it.
LEMMA SpanSplit ==
    ASSUME NEW f, NEW a \in Nat, NEW b \in Nat, NEW c \in Nat, a <= b, b <= c
    PROVE  Span(f, a, c) = Span(f, a, b) \cup Span(f, b, c)
<1>1. (a + 1)..c = ((a + 1)..b) \cup ((b + 1)..c)
  OBVIOUS
<1>2. QED
  BY Zenon, <1>1 DEF Span

\* An empty span has no byte.
LEMMA SpanEmpty ==
    ASSUME NEW f, NEW a \in Nat
    PROVE  Span(f, a, a) = {}
BY DEF Span

\* What is already in the file is not changed by a write.
LEMMA SpanAppend ==
    ASSUME NEW f \in Seq(Byte), NEW x \in Byte,
           NEW a \in Nat, NEW b \in Nat, b <= Len(f)
    PROVE  Span(Append(f, x), a, b) = Span(f, a, b)
<1>1. \A i \in (a + 1)..b : Append(f, x)[i] = f[i]
  OBVIOUS
<1>2. QED
  BY Zenon, <1>1 DEF Span

\* The bytes of a span are bytes.
LEMMA SpanType ==
    ASSUME NEW f \in Seq(Byte), NEW a \in Nat, NEW b \in Nat, b <= Len(f)
    PROVE  Span(f, a, b) \in SUBSET Byte
<1>1. \A i \in (a + 1)..b : f[i] \in Byte
  OBVIOUS
<1>2. QED
  BY Zenon, <1>1 DEF Span

\* Text distributes over union.
LEMMA TextUnion ==
    ASSUME NEW A, NEW B
    PROVE  Text(A \cup B) = Text(A) \cup Text(B)
BY Zenon DEF Text

\* trim_end keeps the text and adds nothing.
LEMMA TrimEndText ==
    ASSUME NEW B \in SUBSET Byte
    PROVE  /\ Text(B) \subseteq TrimEnd(B)
           /\ TrimEnd(B) \in SUBSET Byte
<1>1. \A b \in Text(B) : b.k # "n" /\ b.n <= b.n
  BY DEF Text, IsText, Byte
<1>2. QED
  BY Zenon, <1>1 DEF TrimEnd, Text

\* Truncation keeps a part of what there is.
LEMMA KeepSubset ==
    ASSUME NEW B, NEW c
    PROVE  Keep(B, c) \subseteq B
BY Zenon DEF Keep

\* push_partial loses no text but what it counts as cut.
LEMMA PushPartialText ==
    ASSUME NEW from \in Nat, NEW e \in Nat, from <= e, e <= Len(file),
           TailedFileTypeOK, PushPartial(from, e)
    PROVE  /\ partial' \in SUBSET Byte /\ cut' \in SUBSET Byte
           /\ cut \subseteq cut'
           /\ Text(partial) \cup Text(Span(file, from, e)) \subseteq partial' \cup cut'
<1> DEFINE bytes == partial \cup Span(file, from, e)
<1>1. bytes \in SUBSET Byte
  BY Zenon, SpanType DEF TailedFileTypeOK
<1>2. Keep(bytes, MaxPartial) \subseteq bytes
  BY Zenon, KeepSubset
<1>3. /\ partial' = Keep(bytes, MaxPartial)
      /\ cut' = cut \cup Text(bytes \ Keep(bytes, MaxPartial))
  BY Zenon DEF PushPartial
<1>4. QED
  BY Zenon, <1>1, <1>2, <1>3 DEF Text, TailedFileTypeOK

\* The line that try_emit_line and commit_line assemble has all the text of the
\* partial and of the bytes just read.
LEMMA LineText ==
    ASSUME NEW from \in Nat, NEW e \in Nat, from <= e, e <= Len(file), TailedFileTypeOK
    PROVE  /\ TrimEnd(partial \cup Span(file, from, e)) \in SUBSET Byte
           /\ Text(partial) \cup Text(Span(file, from, e))
                 \subseteq Text(TrimEnd(partial \cup Span(file, from, e)))
<1>1. partial \cup Span(file, from, e) \in SUBSET Byte
  BY Zenon, SpanType DEF TailedFileTypeOK
<1>2. /\ TrimEnd(partial \cup Span(file, from, e)) \in SUBSET Byte
      /\ Text(partial \cup Span(file, from, e))
            \subseteq TrimEnd(partial \cup Span(file, from, e))
  BY Zenon, <1>1, TrimEndText
<1>3. QED
  BY Zenon, <1>2 DEF Text

\* The writer and the rotation tool leave alone what is in the file, unless
\* they truncate it; then neither offset says anything of the new contents.
LEMMA WriterFrame ==
    ASSUME TailedFileTypeOK, WriterStep
    PROVE  /\ TailedFileTypeOK'
           /\ UNCHANGED tailer
           /\ epoch' = "current" \/ saved_epoch' = "current" =>
                 /\ UNCHANGED <<epoch, saved_epoch>>
                 /\ Len(file) <= Len(file')
                 /\ \A a, b \in Nat : b <= Len(file) => Span(file', a, b) = Span(file, a, b)
                 /\ \A i \in 1..Len(file) : file'[i] = file[i]
<1> USE DEF TailedFileTypeOK, tailer, shipped, PC
<1>1. ASSUME NEW k \in Kind, Write(k)
      PROVE  /\ TailedFileTypeOK'
             /\ UNCHANGED <<tailer, epoch, saved_epoch>>
             /\ Len(file) <= Len(file')
             /\ \A a, b \in Nat : b <= Len(file) => Span(file', a, b) = Span(file, a, b)
             /\ \A i \in 1..Len(file) : file'[i] = file[i]
  <2> DEFINE x == [k |-> k, n |-> writes]
  <2>1. x \in Byte
    BY Zenon DEF Byte
  <2>2. /\ file' = Append(file, x) /\ writes' = writes + 1
        /\ UNCHANGED <<tailer, link, truncs, epoch, saved_epoch>>
    BY Zenon, <1>1 DEF Write
  <2> HIDE DEF x
  <2>3. file' \in Seq(Byte) /\ Len(file') = Len(file) + 1
    BY <2>1, <2>2
  <2>4. \A a, b \in Nat : b <= Len(file) => Span(file', a, b) = Span(file, a, b)
    BY <2>1, <2>2, SpanAppend
  <2>5. \A i \in 1..Len(file) : file'[i] = file[i]
    BY <2>1, <2>2
  <2>6. QED
    BY <2>2, <2>3, <2>4, <2>5
<1>2. CASE Truncate
  BY <1>2 DEF Truncate
<1>3. CASE Rename \/ Unlink
  BY <1>3 DEF Rename, Unlink
<1>4. QED
  BY Zenon, <1>1, <1>2, <1>3, TailedFileAssumption DEF WriterStep

-----------------------------------------------------------------------------
(* The inductive invariant. *)

\* The tailer starts with the invariant.
LEMMA InitIInv == Init => IInv
<1> SUFFICES ASSUME Init PROVE IInv
  BY Zenon
<1>1. TypeOK
  BY DEF Init, InitTailedFile, TypeOK, TailedFileTypeOK, PC
<1>2. Span(file, 0, 0) = {}
  BY Zenon, SpanEmpty
<1>3. QED
  BY <1>1, <1>2 DEF Init, InitTailedFile, IInv, NoSkip, CheckpointNoSkip, PartialIsOneLine,
     Text

\* The writer appends behind the partial.
LEMMA EnvironmentIInv == IInv /\ Environment => IInv'
<1> SUFFICES ASSUME IInv, WriterStep, UNCHANGED ghosts PROVE IInv'
  BY Zenon DEF Environment
<1> USE DEF tailer, shipped, ghosts
<1>1. TailedFileTypeOK
  BY Zenon DEF IInv, TypeOK
<1>2. /\ TailedFileTypeOK'
      /\ UNCHANGED tailer
      /\ epoch' = "current" \/ saved_epoch' = "current" =>
            /\ UNCHANGED <<epoch, saved_epoch>>
            /\ Len(file) <= Len(file')
            /\ \A a, b \in Nat : b <= Len(file) => Span(file', a, b) = Span(file, a, b)
            /\ \A i \in 1..Len(file) : file'[i] = file[i]
  BY Zenon, <1>1, WriterFrame
<1>3. file \in Seq(Byte) /\ file' \in Seq(Byte)
  BY Zenon, <1>1, <1>2 DEF TailedFileTypeOK
<1>4. TypeOK'
  BY Zenon, <1>2 DEF IInv, TypeOK
<1>5. NoSkip' /\ CheckpointNoSkip'
  BY <1>1, <1>2, <1>3 DEF IInv, TailedFileTypeOK, NoSkip, CheckpointNoSkip
<1>6. PartialIsOneLine'
  <2> SUFFICES ASSUME epoch' = "current", NEW b \in partial
               PROVE  \E i \in 1..pos : file'[i] = b /\ \A j \in i..pos : file'[j].k # "n"
    BY Zenon, <1>2 DEF PartialIsOneLine
  <2>1. PICK i \in 1..pos : file[i] = b /\ \A j \in i..pos : file[j].k # "n"
    BY Zenon, <1>2 DEF IInv, PartialIsOneLine
  <2>2. pos \in Nat /\ pos <= Len(file)
    BY Zenon, <1>1, <1>2 DEF IInv, NoSkip, TailedFileTypeOK
  <2>3. \A j \in i..pos : j \in 1..Len(file)
    BY <1>3, <2>2
  <2>4. QED
    BY <1>2, <1>3, <2>1, <2>2, <2>3, SMTT(60)
<1>7. QED
  BY Zenon, <1>2, <1>4, <1>5, <1>6 DEF IInv

\* flush_partial moves the buffer to the entries shipped or lost.
LEMMA FlushPartialText ==
    ASSUME TypeOK, NEW ok \in BOOLEAN, FlushPartial(ok)
    PROVE  /\ partial' = {}
           /\ delivered' \in SUBSET Byte /\ resent' \in SUBSET Byte /\ dropped' \in SUBSET Byte
           /\ delivered \subseteq delivered' /\ dropped \subseteq dropped'
           /\ Text(partial) \subseteq delivered' \cup dropped'
BY Zenon DEF FlushPartial, Deliver, Text, TypeOK, TailedFileTypeOK, shipped

\* Anything in the partial that is text stays accounted for by a flush.
LEMMA FlushAccounts ==
    ASSUME TypeOK, NEW ok \in BOOLEAN, FlushPartial(ok), UNCHANGED <<cut, forgotten>>,
           NEW B, Text(B) \subseteq delivered \cup cut \cup dropped \cup forgotten \cup partial
    PROVE  Text(B) \subseteq delivered' \cup cut' \cup dropped' \cup forgotten' \cup partial'
<1>1. Text(B) \subseteq delivered \cup cut \cup dropped \cup forgotten \cup Text(partial)
  BY Zenon DEF Text
<1>2. QED
  BY Zenon, <1>1, FlushPartialText

\* poll_all reaching the file.
LEMMA VisitingIInv == IInv /\ Visiting => IInv'
<1> SUFFICES ASSUME IInv, NEW a \in {"poll", "cancel"}, NEW ok \in BOOLEAN,
                    \/ VisitRetained(a) \/ VisitRotated(a, ok) \/ VisitRotatedLost(a, ok)
                    \/ VisitTruncated(a, ok) \/ VisitLive(a)
             PROVE  IInv'
  BY Zenon DEF Visiting
<1> USE DEF IInv, PC, Visit, AfterPoll, world, saved, shipped, ghosts
<1>1. CASE VisitRetained(a) \/ VisitLive(a)
  BY <1>1, SMTT(60) DEF VisitRetained, VisitLive, TypeOK, TailedFileTypeOK, NoSkip, CheckpointNoSkip,
     PartialIsOneLine
<1>2. CASE VisitRotated(a, ok) \/ VisitRotatedLost(a, ok)
  <2>1. /\ FlushPartial(ok) /\ UNCHANGED <<world, crashes, pos, saved, epoch, cut, forgotten>>
        /\ arm' = a /\ pc' \in {"final", "tick", "gone"} /\ lines' \in {0, lines}
        /\ retained_fd' \in {"some", retained_fd}
    BY Zenon, <1>2 DEF VisitRotated, VisitRotatedLost
  <2>2. /\ partial' = {}
        /\ delivered' \in SUBSET Byte /\ resent' \in SUBSET Byte /\ dropped' \in SUBSET Byte
    BY Zenon, <2>1, FlushPartialText
  <2>3. TypeOK'
    BY <2>1, <2>2 DEF TypeOK, TailedFileTypeOK
  <2>4. NoSkip'
    BY Zenon, <2>1, FlushAccounts DEF NoSkip
  <2>5. CheckpointNoSkip'
    BY Zenon, <2>1, FlushAccounts DEF CheckpointNoSkip
  <2>6. QED
    BY Zenon, <2>1, <2>2, <2>3, <2>4, <2>5 DEF PartialIsOneLine
<1>3. CASE VisitTruncated(a, ok)
  <2>1. /\ FlushPartial(ok) /\ UNCHANGED <<world, crashes, retained_fd, saved, cut, forgotten>>
        /\ arm' = a /\ pc' \in {"final", "tick", "read"} /\ lines' \in {0, lines}
        /\ pos' = 0 /\ epoch' = "current"
    BY Zenon, <1>3 DEF VisitTruncated
  <2>2. /\ partial' = {}
        /\ delivered' \in SUBSET Byte /\ resent' \in SUBSET Byte /\ dropped' \in SUBSET Byte
    BY Zenon, <2>1, FlushPartialText
  <2>3. TypeOK'
    BY <2>1, <2>2 DEF TypeOK, TailedFileTypeOK
  <2>4. NoSkip'
    <3>1. Text(Span(file, 0, 0)) = {} /\ Len(file) \in Nat
      BY SpanEmpty DEF Text, TypeOK, TailedFileTypeOK
    <3>2. QED
      BY <2>1, <3>1 DEF NoSkip
  <2>5. CheckpointNoSkip'
    BY Zenon, <2>1, FlushAccounts DEF CheckpointNoSkip
  <2>6. QED
    BY Zenon, <2>1, <2>2, <2>3, <2>4, <2>5 DEF PartialIsOneLine
<1>4. QED
  BY Zenon, <1>1, <1>2, <1>3

\* One complete line: shipped, or nothing changes.
LEMMA ReadLineIInv ==
    ASSUME IInv, NEW ok \in BOOLEAN, ReadLine(ok)
    PROVE  IInv'
<1> USE DEF IInv, TypeOK, TailedFileTypeOK, PC, world, saved, shipped, ghosts
<1>1. PICK e \in (pos + 1)..Len(file) : EmitLine(e, ok)
  BY Zenon DEF ReadLine
<1>2. e \in Nat /\ pos <= e /\ e <= Len(file)
  OBVIOUS
<1>3. UNCHANGED <<world, crashes, retained_fd, arm, saved, epoch, cut, ghosts>>
  BY Zenon DEF ReadLine
<1> DEFINE line == TrimEnd(partial \cup Span(file, pos, e))
<1>4. /\ line \in SUBSET Byte
      /\ Text(partial) \cup Text(Span(file, pos, e)) \subseteq Text(line)
  BY Zenon, <1>2, LineText
<1>5. CASE line # {} /\ ~ok
  <2>1. AfterPoll(arm) /\ UNCHANGED <<pos, partial, shipped>>
    BY Zenon, <1>1, <1>5 DEF EmitLine
  <2>2. QED
    BY Zenon, <1>3, <2>1 DEF AfterPoll, NoSkip, CheckpointNoSkip, PartialIsOneLine
<1>6. CASE ~(line # {} /\ ~ok)
  <2>1. Deliver(line) /\ pos' = e /\ partial' = {} /\ NextLine
    BY Zenon, <1>1, <1>6 DEF EmitLine
  <2> HIDE DEF line
  <2>2. /\ delivered' \in SUBSET Byte /\ resent' \in SUBSET Byte
        /\ delivered' = delivered \cup Text(line)
    BY Zenon, <1>4, <2>1 DEF Deliver, Text
  <2>3. pc' \in {"read", "drain", "tick", "final"} /\ lines' \in Nat
    BY <2>1 DEF NextLine, AfterPoll, ReadLine
  <2>4. TypeOK'
    BY Zenon, <1>2, <1>3, <2>1, <2>2, <2>3
  <2>5. NoSkip'
    <3> SUFFICES ASSUME epoch = "current"
                 PROVE  Text(Span(file, 0, e))
                           \subseteq delivered' \cup cut \cup dropped \cup forgotten
      BY Zenon, <1>2, <1>3, <2>1 DEF NoSkip
    <3>1. Span(file, 0, e) = Span(file, 0, pos) \cup Span(file, pos, e)
      BY <1>2, SpanSplit
    <3>2. Text(Span(file, 0, pos))
             \subseteq delivered \cup cut \cup dropped \cup forgotten \cup Text(partial)
      BY Zenon DEF NoSkip, Text
    <3>3. QED
      BY <1>4, <2>2, <3>1, <3>2, TextUnion
  <2>6. CheckpointNoSkip'
    <3> SUFFICES ASSUME saved_epoch = "current"
                 PROVE  Text(Span(file, 0, saved_pos))
                           \subseteq delivered' \cup cut \cup dropped \cup forgotten
      BY Zenon, <1>3, <2>1 DEF CheckpointNoSkip
    <3>1. Text(Span(file, 0, saved_pos))
             \subseteq delivered \cup cut \cup dropped \cup forgotten \cup Text(partial)
      BY Zenon DEF CheckpointNoSkip, Text
    <3>2. QED
      BY Zenon, <1>4, <2>2, <3>1
  <2>7. QED
    BY <2>1, <2>3, <2>4, <2>5, <2>6, SMTT(30) DEF PartialIsOneLine
<1>7. QED
  BY Zenon, <1>5, <1>6

\* Bytes without a newline go to the buffer, and pos behind them.
LEMMA ReadPartialIInv == IInv /\ ReadPartial => IInv'
<1> SUFFICES ASSUME IInv, ReadPartial PROVE IInv'
  BY Zenon
<1> USE DEF IInv, TypeOK, TailedFileTypeOK, PC, world, saved, shipped, ghosts
<1>1. PICK e \in (pos + 1)..Len(file) :
         /\ StopsAt(file, pos, e)
         /\ file[e].k # "n"
         /\ PushPartial(pos, e)
         /\ pos' = e
  BY Zenon DEF ReadPartial
<1>2. e \in Nat /\ pos <= e /\ e <= Len(file)
  OBVIOUS
<1>3. UNCHANGED <<world, crashes, retained_fd, pc, arm, lines, saved, epoch, shipped, ghosts>>
      /\ pc # "down"
  BY Zenon DEF ReadPartial
<1>4. /\ partial' \in SUBSET Byte /\ cut' \in SUBSET Byte
      /\ cut \subseteq cut'
      /\ Text(partial) \cup Text(Span(file, pos, e)) \subseteq partial' \cup cut'
  BY Zenon, <1>1, <1>2, PushPartialText
<1>5. TypeOK'
  BY Zenon, <1>1, <1>2, <1>3, <1>4
<1>6. NoSkip'
  <2> SUFFICES ASSUME epoch = "current"
               PROVE  Text(Span(file, 0, e))
                         \subseteq delivered \cup cut' \cup dropped \cup forgotten \cup partial'
    BY Zenon, <1>1, <1>2, <1>3 DEF NoSkip
  <2>1. Span(file, 0, e) = Span(file, 0, pos) \cup Span(file, pos, e)
    BY <1>2, SpanSplit
  <2>2. Text(Span(file, 0, pos))
           \subseteq delivered \cup cut \cup dropped \cup forgotten \cup Text(partial)
    BY Zenon DEF NoSkip, Text
  <2>3. QED
    BY <1>4, <2>1, <2>2, TextUnion
<1>7. CheckpointNoSkip'
  <2> SUFFICES ASSUME saved_epoch = "current"
               PROVE  Text(Span(file, 0, saved_pos))
                         \subseteq delivered \cup cut' \cup dropped \cup forgotten \cup partial'
    BY Zenon, <1>3 DEF CheckpointNoSkip
  <2>1. Text(Span(file, 0, saved_pos))
           \subseteq delivered \cup cut \cup dropped \cup forgotten \cup Text(partial)
    BY Zenon DEF CheckpointNoSkip, Text
  <2>2. QED
    BY Zenon, <1>4, <2>1
<1>8. PartialIsOneLine'
  <2> SUFFICES ASSUME epoch = "current", NEW b \in partial'
               PROVE  \E i \in 1..e : file[i] = b /\ \A j \in i..e : file[j].k # "n"
    BY Zenon, <1>1, <1>3 DEF PartialIsOneLine
  <2>1. \A j \in (pos + 1)..e : file[j].k # "n"
    BY <1>1, <1>2 DEF StopsAt
  <2>2. b \in partial \cup Span(file, pos, e)
    BY Zenon, <1>1, KeepSubset DEF PushPartial
  <2>3. CASE b \in partial
    <3>1. PICK i \in 1..pos : file[i] = b /\ \A j \in i..pos : file[j].k # "n"
      BY Zenon, <2>3 DEF PartialIsOneLine
    <3>2. QED
      BY <1>2, <2>1, <3>1
  <2>4. CASE b \in Span(file, pos, e)
    <3>1. PICK i \in (pos + 1)..e : file[i] = b
      BY Zenon, <2>4 DEF Span
    <3>2. QED
      BY <1>2, <2>1, <3>1
  <2>5. QED
    BY Zenon, <2>2, <2>3, <2>4
<1>9. QED
  BY Zenon, <1>3, <1>5, <1>6, <1>7, <1>8

\* The steps of read_lines and drain_retained.
LEMMA ReadingIInv == IInv /\ Reading => IInv'
<1> SUFFICES ASSUME IInv, Reading PROVE IInv'
  BY Zenon
<1>1. CASE ReadEof
  BY <1>1, SMTT(30) DEF ReadEof, AfterPoll, IInv, TypeOK, TailedFileTypeOK, PC, NoSkip,
     CheckpointNoSkip, PartialIsOneLine, world, saved, shipped, ghosts
<1>2. ASSUME NEW ok \in BOOLEAN, DrainEof(ok)
      PROVE  IInv'
  <2> USE DEF IInv, PC, world, saved
  <2>1. /\ FlushPartial(ok) /\ UNCHANGED <<world, crashes, pos, arm, saved, epoch, cut, forgotten>>
        /\ pc' = "gone" /\ lines' = 0 /\ retained_fd' = "none"
    BY Zenon, <1>2 DEF DrainEof
  <2>2. /\ partial' = {}
        /\ delivered' \in SUBSET Byte /\ resent' \in SUBSET Byte /\ dropped' \in SUBSET Byte
    BY Zenon, <2>1, FlushPartialText
  <2>3. TypeOK'
    BY Zenon, <2>1, <2>2 DEF TypeOK, TailedFileTypeOK
  <2>4. NoSkip'
    BY Zenon, <2>1, FlushAccounts DEF NoSkip
  <2>5. CheckpointNoSkip'
    BY Zenon, <2>1, FlushAccounts DEF CheckpointNoSkip
  <2>6. QED
    BY Zenon, <2>1, <2>2, <2>3, <2>4, <2>5 DEF PartialIsOneLine
<1>3. QED
  BY Zenon, <1>1, <1>2, ReadLineIInv, ReadPartialIInv DEF Reading

\* The end of a tick, the save tick and the shutdown.
LEMMA LoopingIInv == IInv /\ Looping => IInv'
<1> SUFFICES ASSUME IInv, Looping PROVE IInv'
  BY Zenon
<1> USE DEF IInv, PC, world, saved, shipped, ghosts, SaveOffsets
<1>1. CASE SaveTick \/ \E save \in BOOLEAN : Tick(save)
  <2>1. /\ UNCHANGED <<world, crashes, pos, epoch, partial, shipped, cut, ghosts>>
        /\ \/ saved_pos' = pos /\ saved_epoch' = epoch
           \/ saved_pos' = saved_pos /\ saved_epoch' = saved_epoch
        /\ pc' # "down"
    BY Zenon, <1>1 DEF SaveTick, Tick
  <2>2. TypeOK'
    <3>1. CASE SaveTick
      BY Zenon, <3>1 DEF SaveTick, TypeOK, TailedFileTypeOK
    <3>2. CASE \E save \in BOOLEAN : Tick(save)
      BY Zenon, <3>2 DEF Tick, TypeOK, TailedFileTypeOK
    <3>3. QED
      BY Zenon, <1>1, <3>1, <3>2
  <2>3. NoSkip' /\ CheckpointNoSkip'
    BY Zenon, <2>1 DEF NoSkip, CheckpointNoSkip
  <2>4. PartialIsOneLine'
    BY <2>1 DEF PartialIsOneLine
  <2>5. QED
    BY Zenon, <2>1, <2>2, <2>3, <2>4
<1>2. ASSUME NEW ok \in BOOLEAN, Final(ok)
      PROVE  IInv'
  <2>1. /\ FlushPartial(ok) /\ UNCHANGED <<world, crashes, cut, forgotten>>
        /\ saved_pos' = pos /\ saved_epoch' = epoch
        /\ pc' = "down" /\ pos' = 0 /\ epoch' = "current" /\ retained_fd' = "none"
        /\ arm' = "poll" /\ lines' = 0
    BY Zenon, <1>2 DEF Final, EndProcess, FlushPartial
  <2>2. /\ partial' = {}
        /\ delivered' \in SUBSET Byte /\ resent' \in SUBSET Byte /\ dropped' \in SUBSET Byte
    BY Zenon, <2>1, FlushPartialText
  <2>3. TypeOK'
    BY Zenon, <2>1, <2>2 DEF TypeOK, TailedFileTypeOK
  <2>4. NoSkip'
    <3>1. Text(Span(file, 0, 0)) = {} /\ Len(file) \in Nat
      BY SpanEmpty DEF Text, TypeOK, TailedFileTypeOK
    <3>2. QED
      BY <2>1, <3>1 DEF NoSkip
  <2>5. CheckpointNoSkip'
    BY Zenon, <2>1, FlushAccounts DEF CheckpointNoSkip, NoSkip
  <2>6. QED
    BY Zenon, <2>1, <2>2, <2>3, <2>4, <2>5 DEF PartialIsOneLine
<1>3. QED
  BY Zenon, <1>1, <1>2 DEF Looping

\* A crash forgets the partial, a restart reads the checkpoint.
LEMMA CrashRestartIInv == IInv /\ (Crash \/ Restart) => IInv'
<1> SUFFICES ASSUME IInv, Crash \/ Restart PROVE IInv'
  BY Zenon
<1> USE DEF IInv, TypeOK, TailedFileTypeOK, PC, world, saved, shipped, ghosts
<1>1. Text(Span(file, 0, 0)) = {} /\ Len(file) \in Nat
  BY SpanEmpty DEF Text
<1>2. CASE Crash
  <2>1. /\ forgotten' = forgotten \cup Text(partial) /\ partial' = {}
        /\ UNCHANGED <<world, saved, shipped, cut, dropped>>
        /\ pc' = "down" /\ pos' = 0 /\ epoch' = "current" /\ retained_fd' = "none"
        /\ arm' = "poll" /\ lines' = 0 /\ crashes' = crashes + 1
    BY Zenon, <1>2 DEF Crash, CrashProcess, EndProcess
  <2>2. TypeOK'
    BY <2>1 DEF Text
  <2>3. NoSkip' /\ PartialIsOneLine'
    BY <1>1, <2>1 DEF NoSkip, PartialIsOneLine
  <2>4. CheckpointNoSkip'
    <3>1. saved_epoch = "current" =>
             Text(Span(file, 0, saved_pos))
                \subseteq delivered \cup cut \cup dropped \cup forgotten \cup Text(partial)
      BY SMTT(30) DEF CheckpointNoSkip, Text
    <3>2. QED
      BY Zenon, <2>1, <3>1 DEF CheckpointNoSkip
  <2>5. QED
    BY Zenon, <2>1, <2>2, <2>3, <2>4
<1>3. CASE Restart
  BY Zenon, <1>1, <1>3 DEF Restart, RegisterFile, NoSkip, CheckpointNoSkip, PartialIsOneLine
<1>4. QED
  BY Zenon, <1>2, <1>3

-----------------------------------------------------------------------------
(* The theorems. *)

\* Every step of the writer and the tailer keeps it.
LEMMA NextIInv == IInv /\ [Next]_vars => IInv'
<1> SUFFICES ASSUME IInv, [Next]_vars PROVE IInv'
  BY Zenon
<1>1. CASE UNCHANGED vars
  BY Zenon, <1>1 DEF vars, world, saved, shipped, ghosts, IInv, TypeOK, TailedFileTypeOK, NoSkip,
     CheckpointNoSkip, PartialIsOneLine
<1>2. QED
  BY Zenon, <1>1, EnvironmentIInv, VisitingIInv, ReadingIInv, LoopingIInv, CrashRestartIInv DEF Next

\* The inductive invariant holds in every reachable state.
THEOREM Inductive == Spec => []IInv
BY InitIInv, NextIInv, PTL DEF Spec

\* Every field of the tailer keeps its type.
THEOREM TypeCorrect == Spec => []TypeOK
<1>1. IInv => TypeOK
  BY Zenon DEF IInv
<1>2. QED
  BY <1>1, Inductive, PTL

\* pos passes no text but what was shipped, is buffered, or is one of the
\* losses the code accepts.
THEOREM OffsetAccounts == Spec => []NoSkip
<1>1. IInv => NoSkip
  BY Zenon DEF IInv
<1>2. QED
  BY <1>1, Inductive, PTL

\* The same of the offset on disk.
THEOREM CheckpointAccounts == Spec => []CheckpointNoSkip
<1>1. IInv => CheckpointNoSkip
  BY Zenon DEF IInv
<1>2. QED
  BY <1>1, Inductive, PTL

\* An entry is never assembled from the pieces of two lines.
THEOREM LinesNotGlued == Spec => []PartialIsOneLine
<1>1. IInv => PartialIsOneLine
  BY Zenon DEF IInv
<1>2. QED
  BY <1>1, Inductive, PTL

\* drain_retained gives up the fd only with the whole file accounted for.
THEOREM DrainComplete == Spec => DrainsToTheEnd
<1>1. ASSUME IInv, [Next]_vars, pc = "drain", pc' = "gone", epoch = "current"
      PROVE  Text(Span(file, 0, Len(file)))
                \subseteq delivered' \cup cut' \cup dropped' \cup forgotten'
  <2>1. PICK ok \in BOOLEAN : DrainEof(ok)
    <3>1. ~Environment /\ ~Visiting /\ ~Looping /\ ~Crash /\ ~Restart /\ ~UNCHANGED vars
      BY Zenon, <1>1 DEF Environment, WriterStep, Write, Truncate, Rename, Unlink, tailer, Visiting,
         VisitRetained, VisitRotated, VisitRotatedLost, VisitTruncated, VisitLive, Visit,
         Looping, Tick, SaveTick, Final, EndProcess, Crash, CrashProcess, Restart, RegisterFile,
         vars
    <3>2. ~ReadPartial /\ ~ReadEof
      BY Zenon, <1>1 DEF ReadPartial, ReadEof
    <3>3. ~\E ok \in BOOLEAN : ReadLine(ok)
      BY Zenon, <1>1 DEF ReadLine, EmitLine, NextLine, AfterPoll
    <3>4. QED
      BY <1>1, <3>1, <3>2, <3>3, SMTT(30) DEF Next, Reading
  <2>2. pos = Len(file) /\ FlushPartial(ok) /\ UNCHANGED <<cut, forgotten>>
    BY <1>1, <2>1 DEF DrainEof, IInv, NoSkip, TypeOK, TailedFileTypeOK
  <2>3. /\ Text(Span(file, 0, Len(file)))
             \subseteq delivered' \cup cut' \cup dropped' \cup forgotten' \cup partial'
        /\ partial' = {}
    BY Zenon, <1>1, <2>2, FlushAccounts, FlushPartialText DEF IInv, NoSkip
  <2>4. QED
    BY Zenon, <2>3
<1>2. QED
  BY <1>1, Inductive, PTL DEF Spec, DrainsToTheEnd, Drained
-----------------------------------------------------------------------------
(* Nothing is shipped twice. *)

\* What the file still holds behind an offset.
Behind(p) == Span(file, p, Len(file))

\* Where the next visit reads on: a file shorter than pos is read from its start.
Reach == IF Len(file) < pos THEN 0 ELSE pos

\* Text that is shipped or in memory.
Taken == delivered \cup partial

\* A byte is written once: what was taken, and what is in the file, has a serial
\* number of its own, smaller than that of the next write.
Fresh ==
    /\ \A b \in Taken : b.n < writes
    /\ \A i \in 1..Len(file) : file[i].n < writes
    /\ \A i, j \in 1..Len(file) : i < j => file[i] # file[j]

\* Nothing of what is read next was taken, and nothing that is buffered was shipped.
Once ==
    /\ Fresh
    /\ crashes = 0 =>
          /\ resent = {} /\ delivered \cap partial = {}
          /\ pc = "down" => delivered \cap Behind(saved_pos) = {}
          /\ pc \notin {"down", "gone"} => Taken \cap Behind(Reach) = {}

\* What is behind a later offset is behind an earlier one.
LEMMA BehindShrinks ==
    ASSUME NEW a \in Nat, NEW b \in Nat, a <= b, file \in Seq(Byte)
    PROVE  Behind(b) \subseteq Behind(a)
<1>1. (b + 1)..Len(file) \subseteq (a + 1)..Len(file)
  OBVIOUS
<1>2. QED
  BY Zenon, <1>1 DEF Behind, Span

\* A file that is not truncated has nothing behind its end.
LEMMA BehindAll ==
    ASSUME file \in Seq(Byte)
    PROVE  Behind(Len(file)) = {}
<1>1. Len(file) \in Nat
  OBVIOUS
<1>2. QED
  BY Zenon, <1>1, SpanEmpty DEF Behind

\* What is read next is of the rest, and not of the rest behind it.
LEMMA BehindSplits ==
    ASSUME NEW a \in Nat, NEW e \in (a + 1)..Len(file), file \in Seq(Byte), Fresh
    PROVE  /\ Span(file, a, e) \subseteq Behind(a)
           /\ Span(file, a, e) \cap Behind(e) = {}
<1>1. /\ (a + 1)..e \subseteq (a + 1)..Len(file)
      /\ \A i \in (a + 1)..e : \A j \in (e + 1)..Len(file) :
            i \in 1..Len(file) /\ j \in 1..Len(file) /\ i < j
  OBVIOUS
<1>2. \A i \in (a + 1)..e : \A j \in (e + 1)..Len(file) : file[i] # file[j]
  BY Zenon, <1>1 DEF Fresh
<1>3. QED
  BY Zenon, <1>1, <1>2 DEF Behind, Span

\* The steps that leave the file alone take only what it holds.
LEMMA StaysFresh ==
    ASSUME Fresh, UNCHANGED <<file, writes>>, Taken' \subseteq Taken \cup Behind(0),
           file \in Seq(Byte)
    PROVE  Fresh'
<1>1. \A b \in Behind(0) : b.n < writes
  <2>1. \A i \in (0 + 1)..Len(file) : i \in 1..Len(file)
    OBVIOUS
  <2>2. QED
    BY Zenon, <2>1 DEF Behind, Span, Fresh
<1>2. QED
  BY Zenon, <1>1 DEF Fresh

\* A step of the writer puts nothing behind an offset that was taken before.
LEMMA WriterBehind ==
    ASSUME IInv, Fresh, Environment
    PROVE  /\ Fresh'
           /\ \A p \in Nat : Taken \cap Behind(p)' \subseteq Behind(p)
           /\ Len(file) <= Len(file') \/ \A p \in Nat : Behind(p)' = {}
<1> USE DEF IInv, TypeOK, TailedFileTypeOK
<1>1. Taken' = Taken /\ file \in Seq(Byte) /\ writes \in Nat
  <2>1. UNCHANGED tailer
    BY Zenon DEF Environment, WriterStep, Write, Truncate, Rename, Unlink
  <2>2. QED
    BY Zenon, <2>1 DEF tailer, shipped, Taken
<1>2. ASSUME NEW k \in Kinds, Write(k)
      PROVE  /\ Fresh'
             /\ \A p \in Nat : Taken \cap Behind(p)' \subseteq Behind(p)
             /\ Len(file') = Len(file) + 1
  <2> DEFINE x == [k |-> k, n |-> writes]
  <2>1. x \in Byte /\ x.n = writes
    BY Zenon, TailedFileAssumption DEF Byte
  <2>2. file' = Append(file, x) /\ writes' = writes + 1
    BY Zenon, <1>2 DEF Write
  <2> HIDE DEF x
  <2>3. /\ Len(file') = Len(file) + 1 /\ file' \in Seq(Byte)
        /\ \A i \in 1..Len(file) : file'[i] = file[i]
        /\ file'[Len(file) + 1] = x
        /\ \A i \in 1..Len(file) : file[i] \in Byte
    BY <1>1, <2>1, <2>2
  <2>4. x \notin Taken /\ \A i \in 1..Len(file) : file[i] # x
    BY <1>1, <2>1 DEF Fresh
  <2>5. ASSUME NEW p \in Nat, NEW i \in (p + 1)..Len(file')
        PROVE  file'[i] \in Behind(p) \cup {x}
    <3>1. i \in (p + 1)..Len(file) \/ i = Len(file) + 1
      BY <1>1, <2>3
    <3>2. i \in (p + 1)..Len(file) => file'[i] = file[i]
      BY <1>1, <2>3
    <3>3. QED
      BY Zenon, <2>3, <3>1, <3>2 DEF Behind, Span
  <2>6. \A p \in Nat : Taken \cap Behind(p)' \subseteq Behind(p)
    BY Zenon, <2>4, <2>5 DEF Behind, Span
  <2>7. \A b \in Taken' : b.n < writes'
    <3>1. \A b \in Taken : b.n \in Nat /\ b.n < writes
      BY Zenon DEF Fresh, Taken, Byte
    <3>2. QED
      BY <1>1, <2>2, <3>1
  <2>8. \A i \in 1..Len(file') : file'[i].n < writes'
    <3>1. \A i \in 1..Len(file) : file[i].n \in Nat /\ file[i].n < writes
      BY Zenon, <2>3 DEF Fresh, Byte
    <3>2. QED
      BY <1>1, <2>1, <2>2, <2>3, <3>1
  <2>9. \A i, j \in 1..Len(file') : i < j => file'[i] # file'[j]
    <3>1. \A i, j \in 1..Len(file') : i < j =>
             i \in 1..Len(file) /\ (j \in 1..Len(file) \/ j = Len(file) + 1)
      BY <1>1, <2>3
    <3>2. QED
      BY Zenon, <2>3, <2>4, <3>1 DEF Fresh
  <2>10. QED
    BY Zenon, <2>3, <2>6, <2>7, <2>8, <2>9 DEF Fresh
<1>3. CASE Truncate
  <2>1. file' = <<>> /\ writes' = writes /\ Len(file') = 0
    BY <1>3 DEF Truncate
  <2>2. 1..Len(file') = {} /\ \A p \in Nat : (p + 1)..Len(file') = {}
    BY <2>1
  <2>3. \A p \in Nat : Behind(p)' = {}
    BY Zenon, <2>2 DEF Behind, Span
  <2>4. QED
    BY Zenon, <1>1, <2>1, <2>2, <2>3 DEF Fresh
<1>4. CASE Rename \/ Unlink
  <2>1. UNCHANGED <<file, writes>>
    BY Zenon, <1>4 DEF Rename, Unlink
  <2>2. Fresh' /\ (\A p \in Nat : Behind(p)' = Behind(p)) /\ Len(file') = Len(file)
    BY Zenon, <1>1, <2>1 DEF Fresh, Behind
  <2>3. Len(file) <= Len(file)
    BY <1>1
  <2>4. QED
    BY Zenon, <2>2, <2>3
<1>5. QED
  <2>1. Len(file) <= Len(file) + 1
    BY <1>1
  <2>2. QED
    BY Zenon, <1>2, <1>3, <1>4, <2>1 DEF Environment, WriterStep

\* It holds when the agent starts.
LEMMA InitOnce == Init => Once
<1> SUFFICES ASSUME Init PROVE Once
  BY Zenon
<1>1. 1..Len(file) = {}
  BY DEF Init, InitTailedFile
<1>2. QED
  BY Zenon, <1>1 DEF Init, InitTailedFile, Once, Fresh, Taken

\* What an offset is, and what is behind where the reader goes on.
LEMMA ReachIs ==
    ASSUME IInv
    PROVE  /\ pos \in Nat /\ saved_pos \in Nat /\ Reach \in Nat /\ file \in Seq(Byte)
           /\ Len(file) \in Nat /\ Behind(pos) \subseteq Behind(Reach)
           /\ Len(file) < pos => Reach = 0
           /\ pos <= Len(file) => Reach = pos
<1>1. /\ pos \in Nat /\ saved_pos \in Nat /\ Reach \in Nat /\ file \in Seq(Byte) /\ Len(file) \in Nat
      /\ Len(file) < pos => Reach = 0
      /\ pos <= Len(file) => Reach = pos
      /\ Reach <= pos
  BY DEF IInv, TypeOK, TailedFileTypeOK, Reach
<1>2. QED
  BY Zenon, <1>1, BehindShrinks

\* The writer and the rotation tool.
LEMMA EnvironmentOnce == IInv /\ Once /\ Environment => Once'
<1> SUFFICES ASSUME IInv, Once, Environment PROVE Once'
  BY Zenon
<1>1. UNCHANGED tailer
  BY Zenon DEF Environment, WriterStep, Write, Truncate, Rename, Unlink
<1>2. UNCHANGED <<crashes, pos, pc, saved_pos, delivered, resent, partial, Taken>>
  BY Zenon, <1>1 DEF tailer, shipped, Taken
<1>3. /\ Fresh'
      /\ \A p \in Nat : Taken \cap Behind(p)' \subseteq Behind(p)
      /\ Len(file) <= Len(file') \/ \A p \in Nat : Behind(p)' = {}
  BY Zenon, WriterBehind DEF Once
<1>4. /\ Reach \in Nat /\ Reach' \in Nat /\ saved_pos \in Nat
      /\ Len(file) <= Len(file') => Reach <= Reach'
  <2>1. IInv'
    BY Zenon, EnvironmentIInv
  <2>2. /\ Reach \in Nat /\ Reach' \in Nat /\ saved_pos \in Nat /\ pos \in Nat
        /\ file \in Seq(Byte) /\ file' \in Seq(Byte)
    <3>1. file' \in Seq(Byte) /\ pos' \in Nat
      BY Zenon, <2>1 DEF IInv, TypeOK, TailedFileTypeOK
    <3>2. Reach' \in Nat
      BY <3>1 DEF Reach
    <3>3. QED
      BY Zenon, ReachIs, <3>1, <3>2
  <2>3. Len(file) \in Nat /\ Len(file') \in Nat
    BY <2>2
  <2>4. QED
    BY <1>2, <2>2, <2>3 DEF Reach
<1>5. ASSUME Taken \cap Behind(Reach) = {} PROVE Taken \cap Behind(Reach)' = {}
  <2>1. CASE Len(file) <= Len(file')
    <3>1. Behind(Reach') \subseteq Behind(Reach)
      BY <1>4, <2>1, ReachIs, BehindShrinks
    <3>2. Taken \cap Behind(Reach)' \subseteq Behind(Reach')
      BY Zenon, <1>3, <1>4 DEF Behind
    <3>3. QED
      BY Zenon, <1>5, <3>1, <3>2
  <2>2. CASE \A p \in Nat : Behind(p)' = {}
    BY Zenon, <1>4, <2>2 DEF Behind
  <2>3. QED
    BY Zenon, <1>3, <2>1, <2>2
<1>6. delivered \subseteq Taken
  BY Zenon DEF Taken
<1>7. QED
  BY Zenon, <1>2, <1>3, <1>4, <1>5, <1>6 DEF Once

\* A step that leaves alone the file and what was taken.
LEMMA NothingTaken ==
    ASSUME Once, pc \notin {"down", "gone"}, pc' \notin {"down", "gone"},
           UNCHANGED <<file, writes, crashes, pos, delivered, resent, partial>>
    PROVE  Once'
BY Zenon DEF Once, Fresh, Taken, Reach, Behind

\* flush_partial: the partial is shipped or lost, and no longer there.
LEMMA FlushOnce ==
    ASSUME IInv, Once, NEW ok \in BOOLEAN, FlushPartial(ok), pc \notin {"down", "gone"},
           UNCHANGED <<file, writes, crashes>>
    PROVE  /\ Fresh' /\ partial' = {} /\ Taken' \subseteq Taken /\ delivered' \subseteq Taken
           /\ crashes = 0 => resent' = {}
<1>1. /\ partial' = {}
      /\ \/ delivered' = delivered \cup Text(partial)
            /\ resent' = resent \cup (delivered \cap Text(partial))
         \/ UNCHANGED <<delivered, resent>>
  BY Zenon DEF FlushPartial, Deliver, shipped
<1>2. Taken' \subseteq Taken /\ delivered' \subseteq Taken
  BY Zenon, <1>1 DEF Taken, Text
<1>3. Fresh'
  BY Zenon, <1>2, ReachIs, StaysFresh DEF Once
<1>4. crashes = 0 => resent' = {}
  BY Zenon, <1>1 DEF Once, Text
<1>5. QED
  BY Zenon, <1>1, <1>2, <1>3, <1>4

\* poll_all reaching the file.
LEMMA VisitingOnce == IInv /\ Once /\ Visiting => Once'
<1> SUFFICES ASSUME IInv, Once, Visiting PROVE Once'
  BY Zenon
<1> USE DEF world, shipped
<1>1. ASSUME NEW a \in {"poll", "cancel"}, VisitRetained(a) \/ VisitLive(a) PROVE Once'
  <2>1. /\ UNCHANGED <<file, writes, crashes, pos, delivered, resent, partial>>
        /\ pc = "idle" /\ pc' \in {"drain", "read", "tick", "final"}
    BY Zenon, <1>1 DEF VisitRetained, VisitLive, Visit, AfterPoll
  <2>2. QED
    BY Zenon, <2>1, NothingTaken
<1>2. ASSUME NEW a \in {"poll", "cancel"}, NEW ok \in BOOLEAN, VisitRotated(a, ok) PROVE Once'
  <2>1. /\ UNCHANGED <<file, writes, crashes, pos>> /\ FlushPartial(ok)
        /\ pc = "idle" /\ pc' \in {"tick", "final"}
    BY Zenon, <1>2 DEF VisitRotated, Visit, AfterPoll
  <2>2. QED
    BY Zenon, <2>1, FlushOnce DEF Once, Reach, Behind
<1>3. ASSUME NEW a \in {"poll", "cancel"}, NEW ok \in BOOLEAN, VisitRotatedLost(a, ok) PROVE Once'
  <2>1. UNCHANGED <<file, writes, crashes>> /\ FlushPartial(ok) /\ pc = "idle" /\ pc' = "gone"
    BY Zenon, <1>3 DEF VisitRotatedLost, Visit
  <2>2. QED
    BY Zenon, <2>1, FlushOnce DEF Once
<1>4. ASSUME NEW a \in {"poll", "cancel"}, NEW ok \in BOOLEAN, VisitTruncated(a, ok) PROVE Once'
  <2>1. /\ UNCHANGED <<file, writes, crashes>> /\ FlushPartial(ok) /\ pos' = 0 /\ Len(file) < pos
        /\ pc = "idle" /\ pc' \in {"tick", "final", "read"}
    BY Zenon, <1>4 DEF VisitTruncated, Visit, AfterPoll
  <2>2. Reach = 0 /\ Reach' = 0
    BY <2>1, ReachIs DEF Reach
  <2>3. QED
    BY Zenon, <2>1, <2>2, FlushOnce DEF Once, Behind
<1>5. QED
  BY Zenon, <1>1, <1>2, <1>3, <1>4 DEF Visiting

\* The bytes up to e are taken, and pos moves there.
LEMMA TakenUpTo ==
    ASSUME IInv, Once, NEW e \in (pos + 1)..Len(file), UNCHANGED <<file, writes, crashes>>,
           pos' = e, pc \notin {"down", "gone"}, pc' \notin {"down", "gone"},
           Taken' \subseteq Taken \cup Span(file, pos, e),
           crashes = 0 /\ Span(file, pos, e) \cap Taken = {} =>
               resent' = {} /\ delivered' \cap partial' = {}
    PROVE  Once'
<1>1. /\ Reach = pos /\ Reach' = e /\ e \in Nat /\ pos <= e /\ 0 <= pos
      /\ pos \in Nat /\ file \in Seq(Byte)
  BY ReachIs DEF Reach
<1>2. /\ Span(file, pos, e) \subseteq Behind(pos) /\ Span(file, pos, e) \cap Behind(e) = {}
      /\ Behind(e) \subseteq Behind(pos) /\ Behind(pos) \subseteq Behind(0)
  BY <1>1, BehindSplits, BehindShrinks DEF Once
<1>3. Fresh'
  BY Zenon, <1>1, <1>2, StaysFresh DEF Once
<1>4. crashes = 0 => Taken \cap Behind(pos) = {}
  BY Zenon, <1>1 DEF Once
<1>5. crashes = 0 => Taken' \cap Behind(e) = {}
  BY Zenon, <1>2, <1>4
<1>6. QED
  BY Zenon, <1>1, <1>2, <1>3, <1>4, <1>5 DEF Once, Behind

\* read_lines and drain_retained.
LEMMA ReadingOnce == IInv /\ Once /\ Reading => Once'
<1> SUFFICES ASSUME IInv, Once, Reading PROVE Once'
  BY Zenon
<1> USE DEF world, shipped
<1>1. ASSUME NEW ok \in BOOLEAN, ReadLine(ok) PROVE Once'
  <2>1. PICK e \in (pos + 1)..Len(file) : EmitLine(e, ok)
    BY Zenon, <1>1 DEF ReadLine
  <2>2. UNCHANGED <<file, writes, crashes>> /\ pc \in {"read", "drain"}
    BY Zenon, <1>1 DEF ReadLine
  <2> DEFINE line == TrimEnd(partial \cup Span(file, pos, e))
  <2>3. CASE line # {} /\ ~ok
    <3>1. UNCHANGED <<pos, partial, delivered, resent>> /\ pc' \in {"tick", "final"}
      BY Zenon, <2>1, <2>3 DEF EmitLine, AfterPoll
    <3>2. QED
      BY Zenon, <2>2, <3>1, NothingTaken
  <2>4. CASE ~(line # {} /\ ~ok)
    <3>1. /\ Deliver(line) /\ pos' = e /\ partial' = {}
          /\ pc' \in {"read", "drain", "tick", "final"}
      BY Zenon, <2>1, <2>2, <2>4 DEF EmitLine, NextLine, AfterPoll
    <3>2. Text(line) \subseteq partial \cup Span(file, pos, e)
      BY Zenon DEF TrimEnd, Text
    <3> HIDE DEF line
    <3>3. Taken' \subseteq Taken \cup Span(file, pos, e)
      BY Zenon, <3>1, <3>2 DEF Deliver, Taken
    <3>4. crashes = 0 /\ Span(file, pos, e) \cap Taken = {} =>
             resent' = {} /\ delivered' \cap partial' = {}
      BY Zenon, <2>2, <3>1, <3>2 DEF Deliver, Taken, Once
    <3>5. QED
      BY Zenon, <2>2, <3>1, <3>3, <3>4, TakenUpTo
  <2>5. QED
    BY Zenon, <2>3, <2>4
<1>2. CASE ReadPartial
  <2>1. PICK e \in (pos + 1)..Len(file) : PushPartial(pos, e) /\ pos' = e
    BY Zenon, <1>2 DEF ReadPartial
  <2>2. UNCHANGED <<file, writes, crashes, pc, delivered, resent>> /\ pc \in {"read", "drain"}
    BY Zenon, <1>2 DEF ReadPartial
  <2>3. partial' \subseteq partial \cup Span(file, pos, e)
    BY Zenon, <2>1, KeepSubset DEF PushPartial
  <2>4. crashes = 0 /\ Span(file, pos, e) \cap Taken = {} =>
           resent' = {} /\ delivered' \cap partial' = {}
    BY Zenon, <2>2, <2>3 DEF Taken, Once
  <2>5. Taken' \subseteq Taken \cup Span(file, pos, e)
    BY Zenon, <2>2, <2>3 DEF Taken
  <2>6. QED
    BY Zenon, <2>1, <2>2, <2>4, <2>5, TakenUpTo
<1>3. CASE ReadEof
  <2>1. /\ UNCHANGED <<file, writes, crashes, pos, delivered, resent, partial>>
        /\ pc = "read" /\ pc' \in {"tick", "final"}
    BY Zenon, <1>3 DEF ReadEof, AfterPoll
  <2>2. QED
    BY Zenon, <2>1, NothingTaken
<1>4. ASSUME NEW ok \in BOOLEAN, DrainEof(ok) PROVE Once'
  <2>1. UNCHANGED <<file, writes, crashes>> /\ FlushPartial(ok) /\ pc = "drain" /\ pc' = "gone"
    BY Zenon, <1>4 DEF DrainEof
  <2>2. QED
    BY Zenon, <2>1, FlushOnce DEF Once
<1>5. QED
  BY Zenon, <1>1, <1>2, <1>3, <1>4 DEF Reading

\* The end of a tick, the save tick and the shutdown.
LEMMA LoopingOnce == IInv /\ Once /\ Looping => Once'
<1> SUFFICES ASSUME IInv, Once, Looping PROVE Once'
  BY Zenon
<1> USE DEF world, shipped
<1>1. CASE SaveTick \/ \E save \in BOOLEAN : Tick(save)
  <2>1. /\ UNCHANGED <<file, writes, crashes, pos, delivered, resent, partial>>
        /\ pc \in {"tick", "idle"} /\ pc' = "idle"
    BY Zenon, <1>1 DEF SaveTick, Tick
  <2>2. QED
    BY Zenon, <2>1, NothingTaken
<1>2. ASSUME NEW ok \in BOOLEAN, Final(ok) PROVE Once'
  <2>1. /\ UNCHANGED <<file, writes, crashes>> /\ saved_pos' = pos /\ pc = "final" /\ pc' = "down"
        /\ FlushPartial(ok)
    BY Zenon, <1>2 DEF Final, EndProcess, SaveOffsets, FlushPartial
  <2>2. crashes = 0 => Taken \cap Behind(pos) = {}
    BY Zenon, <2>1, ReachIs DEF Once
  <2>3. QED
    BY Zenon, <2>1, <2>2, FlushOnce DEF Once, Behind
<1>3. QED
  BY Zenon, <1>1, <1>2 DEF Looping

\* A crash, and a restart at the offset on disk.
LEMMA CrashRestartOnce == IInv /\ Once /\ (Crash \/ Restart) => Once'
<1> SUFFICES ASSUME IInv, Once, Crash \/ Restart PROVE Once'
  BY Zenon
<1>1. file \in Seq(Byte) /\ crashes \in Nat /\ saved_pos \in Nat
  BY Zenon DEF IInv, TypeOK, TailedFileTypeOK
<1>2. CASE Crash
  <2>1. UNCHANGED <<file, writes, delivered>> /\ crashes' = crashes + 1 /\ partial' = {}
    BY Zenon, <1>2 DEF Crash, CrashProcess, EndProcess, world, shipped
  <2>2. Taken' \subseteq Taken
    BY Zenon, <2>1 DEF Taken
  <2>3. Fresh'
    BY Zenon, <1>1, <2>1, <2>2, StaysFresh DEF Once
  <2>4. crashes' # 0
    BY <1>1, <2>1
  <2>5. QED
    BY Zenon, <2>3, <2>4 DEF Once
<1>3. CASE Restart
  <2>1. /\ pc = "down" /\ UNCHANGED <<file, writes, crashes, delivered, resent, partial>>
        /\ partial = {}
        /\ \/ pc' = "gone"
           \/ pc' = "idle" /\ pos' = IF saved_pos <= Len(file) THEN saved_pos ELSE Len(file)
    BY Zenon, <1>3 DEF Restart, RegisterFile, world, shipped, IInv
  <2>2. Fresh'
    BY Zenon, <2>1 DEF Once, Fresh, Taken
  <2>3. ASSUME pc' = "idle", crashes = 0 PROVE Taken' \cap Behind(Reach)' = {}
    <3>1. Reach' = pos' /\ pos' \in {saved_pos, Len(file)}
      BY <1>1, <2>1, <2>3 DEF Reach
    <3>2. CASE pos' = saved_pos
      BY Zenon, <2>1, <2>3, <3>1, <3>2 DEF Once, Behind, Taken
    <3>3. CASE pos' = Len(file)
      BY Zenon, <1>1, <2>1, <3>1, <3>3, BehindAll DEF Behind
    <3>4. QED
      BY Zenon, <3>1, <3>2, <3>3
  <2>4. QED
    BY Zenon, <2>1, <2>2, <2>3 DEF Once
<1>4. QED
  BY Zenon, <1>2, <1>3

\* Every step keeps it.
LEMMA NextOnce == IInv /\ Once /\ [Next]_vars => Once'
<1> SUFFICES ASSUME IInv, Once, [Next]_vars PROVE Once'
  BY Zenon
<1>1. CASE UNCHANGED vars
  <2>1. UNCHANGED <<file, writes, crashes, pos, pc, delivered, resent, partial, saved_pos>>
    BY Zenon, <1>1 DEF vars, world, saved, shipped
  <2>2. QED
    BY Zenon, <2>1 DEF Once, Fresh, Taken, Reach, Behind
<1>2. QED
  BY Zenon, <1>1, EnvironmentOnce, VisitingOnce, ReadingOnce, LoopingOnce, CrashRestartOnce DEF Next

\* Without a crash no byte of text is shipped a second time by the default path: a line
\* refused after its beginning was buffered is assembled again, not sent again.
THEOREM ShippedOnce == Spec => []NoDuplicates
<1>1. Once => NoDuplicates
  BY Zenon DEF Once, NoDuplicates
<1>2. QED
  BY <1>1, Inductive, InitOnce, NextOnce, PTL DEF Spec
=============================================================================
