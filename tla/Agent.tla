-------------------------------- MODULE Agent --------------------------------
(***************************************************************************)
(* The life of the agent process (main.rs) and the remote-config poller    *)
(* (remote_config.rs): loading and reloading the configuration, the tasks  *)
(* of a run and their shutdown, signals, and the configuration file, which *)
(* the operator, the poller and the reload share.                          *)
(*                                                                         *)
(* A configuration is a value; its hash is injective.  Valid ones pass     *)
(* parse_config.  Usable ones also get run past the construction of the    *)
(* client and the choice of the log source.  Managed ones name an https    *)
(* server to poll.  Delays and backoff are left to the scheduler.          *)
(***************************************************************************)
EXTENDS Integers, FiniteSets

CONSTANTS Config, Valid, Usable, Managed,
          NoConfig,     \* no value
          FirstConfig,  \* the configuration on disk to begin with
          MaxEdits,     \* bound on operator edits
          MaxPublish,   \* bound on changes at the server
          MaxSignals    \* bound on signals

ASSUME AgentAssumption ==
    /\ Valid \subseteq Config /\ Usable \subseteq Valid /\ Managed \subseteq Valid
    /\ NoConfig \notin Config /\ FirstConfig \in Config
    /\ {MaxEdits, MaxPublish, MaxSignals} \subseteq Nat

VARIABLES
    config_file,    \* the configuration file
    published,      \* what the server answers with
    edits, publishes, signals,  \* counters behind the bounds
    phase,          \* where agent_loop and run are
    cfg,            \* the configuration in use
    applied_hash,   \* the hash the poller of this run was given
    tasks,          \* the collector and the tailer, while they run
    shutdown,       \* shutdown_tx
    reload,         \* reload_rx has changed
    handlers,       \* are signal handlers installed?
    caught,         \* signals the receivers of wait_for_signal hold
    signal,         \* what wait_for_signal returned
    poller,         \* where the poller of this run is
    body,           \* what it is about to write
    etag,           \* the etag it holds
    zombies         \* what aborted pollers are still writing

outside == <<config_file, published, edits, publishes, signals>>
main == <<phase, cfg, applied_hash, signal>>
polls == <<poller, body, etag>>
agentVars == <<outside, main, tasks, shutdown, reload, handlers, caught, polls, zombies>>

\* The process has ended: after SIGTERM, by process::exit, or killed by a signal
\* it does not handle yet.
Ended == phase \in {"stopped", "exit", "killed"}

AgentInit ==
    /\ config_file = FirstConfig /\ published = FirstConfig
    /\ edits = 0 /\ publishes = 0 /\ signals = 0
    /\ phase = "load" /\ cfg = NoConfig /\ applied_hash = NoConfig /\ signal = "none"
    /\ tasks = {} /\ shutdown = FALSE /\ reload = FALSE
    /\ handlers = FALSE /\ caught = {}
    /\ poller = "off" /\ body = NoConfig /\ etag = NoConfig /\ zombies = {}

-----------------------------------------------------------------------------
(* The operator, the server and the signals. *)

Edit(c) ==
    /\ ~Ended /\ edits < MaxEdits
    /\ config_file' = c /\ edits' = edits + 1
    /\ UNCHANGED <<published, publishes, signals, main, tasks, shutdown, reload, handlers,
                   caught, polls, zombies>>

Publish(c) ==
    /\ ~Ended /\ publishes < MaxPublish
    /\ published' = c /\ publishes' = publishes + 1
    /\ UNCHANGED <<config_file, edits, signals, main, tasks, shutdown, reload, handlers,
                   caught, polls, zombies>>

\* A signal: fatal until the handlers are installed; after that, seen by the
\* receivers of wait_for_signal if it is waiting, and by nobody otherwise.
Signal(s) ==
    /\ ~Ended /\ signals < MaxSignals
    /\ signals' = signals + 1
    /\ phase' = IF handlers THEN phase ELSE "killed"
    /\ caught' = IF phase = "wait" THEN caught \cup {s} ELSE caught
    /\ UNCHANGED <<config_file, published, edits, publishes, cfg, applied_hash, signal, tasks,
                   shutdown, reload, handlers, polls, zombies>>

-----------------------------------------------------------------------------
(* agent_loop and run *)

\* load_config at startup: a broken file is fatal.
Load ==
    /\ phase = "load"
    /\ IF config_file \in Valid THEN cfg' = config_file /\ phase' = "hash"
                                ELSE phase' = "exit" /\ UNCHANGED cfg
    /\ UNCHANGED <<outside, applied_hash, signal, tasks, shutdown, reload, handlers, caught,
                   polls, zombies>>

\* applied_config_hash reads the file again.
ReadHash ==
    /\ phase = "hash"
    /\ applied_hash' = config_file
    /\ phase' = "spawn"
    /\ UNCHANGED <<outside, cfg, signal, tasks, shutdown, reload, handlers, caught, polls,
                   zombies>>

\* The client, the log source and the tasks of a run.
Spawn ==
    /\ phase = "spawn"
    /\ IF cfg \in Usable
       THEN /\ phase' = "register"
            /\ tasks' = {"collector", "tailer"}
            /\ shutdown' = FALSE /\ reload' = FALSE
            /\ poller' = IF cfg \in Managed THEN "sleep" ELSE "off"
            /\ body' = NoConfig /\ etag' = NoConfig
       ELSE /\ phase' = "exit"
            /\ UNCHANGED <<tasks, shutdown, reload, polls>>
    /\ UNCHANGED <<outside, cfg, applied_hash, signal, handlers, caught, zombies>>

\* wait_for_signal makes its receivers.
RegisterHandlers ==
    /\ phase = "register"
    /\ handlers' = TRUE /\ caught' = {}
    /\ phase' = "wait"
    /\ UNCHANGED <<outside, cfg, applied_hash, signal, tasks, shutdown, reload, polls, zombies>>

\* wait_for_signal returns; shutdown_tx.send.
Wake(s) ==
    /\ phase = "wait"
    /\ IF s = "shutdown" THEN "term" \in caught ELSE "hup" \in caught \/ reload
    /\ signal' = s /\ caught' = {}
    /\ shutdown' = TRUE
    /\ phase' = "await"
    /\ UNCHANGED <<outside, cfg, applied_hash, tasks, reload, handlers, polls, zombies>>

\* A task sees the shutdown, does its last work and returns.
TaskEnds(t) ==
    /\ ~Ended /\ shutdown /\ t \in tasks
    /\ tasks' = tasks \ {t}
    /\ UNCHANGED <<outside, main, shutdown, reload, handlers, caught, polls, zombies>>

\* (mutant) the tailer is not awaited.
CollectorEnded == "collector" \notin tasks

\* The handles of the collector and of the tailer are awaited.
Awaited == tasks = {}

\* The poller is aborted: at once where it waits, but not while it writes.
Abort ==
    /\ phase = "await"
    /\ Awaited
    /\ zombies' = IF poller = "write" THEN zombies \cup {body} ELSE zombies
    /\ poller' = "off" /\ body' = NoConfig
    /\ phase' = "close"
    /\ UNCHANGED <<outside, cfg, applied_hash, signal, tasks, shutdown, reload, handlers,
                   caught, etag>>

Close ==
    /\ phase = "close"
    /\ phase' = IF signal = "shutdown" THEN "stopped" ELSE "reload"
    /\ UNCHANGED <<outside, cfg, applied_hash, signal, tasks, shutdown, reload, handlers,
                   caught, polls, zombies>>

\* A bad reload keeps the last good configuration.
Reloaded == IF config_file \in Valid THEN config_file ELSE cfg

Reload ==
    /\ phase = "reload"
    /\ cfg' = Reloaded
    /\ phase' = "hash"
    /\ UNCHANGED <<outside, applied_hash, signal, tasks, shutdown, reload, handlers, caught,
                   polls, zombies>>

-----------------------------------------------------------------------------
(* run_poller *)

\* Nothing of main changes, nor of the world.
PollerStep == ~Ended /\ UNCHANGED <<published, edits, publishes, signals, main, tasks, shutdown,
                                    handlers, caught>>

\* The delay is over, or the shutdown ends the poller.
PollerWakes ==
    /\ PollerStep /\ poller = "sleep"
    /\ poller' \in IF shutdown THEN {"off", "fetch"} ELSE {"fetch"}
    /\ UNCHANGED <<config_file, reload, body, etag, zombies>>

\* No usable answer: back off; curl is missing: stop polling.
PollFails ==
    /\ PollerStep /\ poller = "fetch"
    /\ poller' \in {"sleep", "off"}
    /\ UNCHANGED <<config_file, reload, body, etag, zombies>>

\* 304, for the etag the poller sent.
PollNotModified ==
    /\ PollerStep /\ poller = "fetch"
    /\ etag = published
    /\ poller' = "sleep"
    /\ UNCHANGED <<config_file, reload, body, etag, zombies>>

\* (mutants) the body is not compared, or not parsed.
Anything == "changed"
NotParsed == IF published = applied_hash THEN "unchanged" ELSE "changed"

\* classify_response for a 200.
Classify ==
    IF published \notin Valid THEN "invalid"
    ELSE IF published = applied_hash THEN "unchanged" ELSE "changed"

\* (mutant) the etag of a configuration that is still to be written is kept.
EtagAlways == {etag, published}

\* The etags the poller may hold after a 200.
NewEtag == IF Classify = "unchanged" THEN {etag, published} ELSE {etag}

\* 200: the server need not honour the etag, and need not send one.
PollAnswered ==
    /\ PollerStep /\ poller = "fetch"
    /\ IF Classify = "changed"
       THEN poller' = "write" /\ body' = published
       ELSE poller' = "sleep" /\ UNCHANGED body
    /\ etag' \in NewEtag
    /\ UNCHANGED <<config_file, reload, zombies>>

\* write_config_atomic, then reload_tx.send and the end of the poller.
PollWrites(ok) ==
    /\ PollerStep /\ poller = "write"
    /\ IF ok THEN config_file' = body /\ reload' = TRUE /\ poller' = "off"
             ELSE poller' = "sleep" /\ UNCHANGED <<config_file, reload>>
    /\ body' = NoConfig
    /\ UNCHANGED <<etag, zombies>>

\* An aborted poller finishes its write; its reload reaches nobody.
ZombieWrites(ok) ==
    /\ PollerStep
    /\ \E c \in zombies : /\ config_file' = IF ok THEN c ELSE config_file
                         /\ zombies' = zombies \ {c}
    /\ UNCHANGED <<reload, polls>>

-----------------------------------------------------------------------------
Outside ==
    \/ \E c \in Config : Edit(c) \/ Publish(c)
    \/ \E s \in {"term", "hup"} : Signal(s)

Main ==
    \/ Load \/ ReadHash \/ Spawn \/ RegisterHandlers
    \/ \E s \in {"shutdown", "reload"} : Wake(s)
    \/ \E t \in {"collector", "tailer"} : TaskEnds(t)
    \/ Abort \/ Close \/ Reload

Poller == PollerWakes \/ PollFails \/ PollNotModified \/ PollAnswered
              \/ \E ok \in BOOLEAN : PollWrites(ok) \/ ZombieWrites(ok)

AgentNext == Outside \/ Main \/ Poller

AgentSpec == AgentInit /\ [][AgentNext]_agentVars

\* The process is scheduled.  The server answers, and the file can be written,
\* now and then; a server that honours the etag answers 304 to its own.
AgentFairness ==
    /\ WF_agentVars(Main) /\ WF_agentVars(PollerWakes)
    /\ WF_agentVars(PollWrites(TRUE) \/ PollWrites(FALSE))
    /\ WF_agentVars(ZombieWrites(TRUE) \/ ZombieWrites(FALSE))
    /\ SF_agentVars(etag # published /\ PollAnswered) /\ SF_agentVars(PollWrites(TRUE))

AgentFairSpec == AgentSpec /\ AgentFairness

-----------------------------------------------------------------------------
(* Properties. *)

\* Every variable has the values the code can give it; the configuration in use
\* is a valid one, also after a reload of a broken file.
AgentTypeOK ==
    /\ config_file \in Config /\ published \in Config
    /\ phase \in {"load", "hash", "spawn", "register", "wait", "await", "close", "reload",
               "stopped", "exit", "killed"}
    /\ cfg \in Valid \cup {NoConfig} /\ (cfg = NoConfig => phase \in {"load", "exit", "killed"})
    /\ applied_hash \in Config \cup {NoConfig}
    /\ tasks \subseteq {"collector", "tailer"} /\ caught \subseteq {"term", "hup"}
    /\ {shutdown, reload, handlers} \subseteq BOOLEAN
    /\ signal \in {"none", "shutdown", "reload"}
    /\ poller \in {"off", "sleep", "fetch", "write"}
    /\ (poller = "write") <=> (body # NoConfig)
    /\ {body, etag} \subseteq Config \cup {NoConfig} /\ zombies \subseteq Config

\* The sink is closed, and the next run is started, only when both tasks of this
\* one have returned: nothing is sent to a closed sink and no two tailers ever
\* share the offsets.
RunsDoNotOverlap ==
    phase \in {"close", "reload", "stopped", "hash", "spawn"} => tasks = {}

\* The poller never puts a configuration on disk that the reload would reject,
\* not even after it was aborted.
RemoteWritesValid ==
    [][config_file' # config_file /\ edits' = edits => config_file' \in Valid]_agentVars

\* The content-hash guard breaks reload loops: when the operator, the server and
\* the signals are quiet, the agent ends or stays in one run.
NoReloadLoop == <>[](phase = "wait" \/ Ended)

\* A run that can poll ends up with the published configuration as the one its
\* hash is about.
PollerConverges ==
    <>[](phase = "wait" /\ poller # "off" /\ published \in Valid => applied_hash = published)

\* main.rs: after startup "a bad reload keeps the last good config - an agent
\* must not die because an operator fat-fingered a TOML edit and sent SIGHUP".
SurvivesReload == handlers => phase # "exit"
=============================================================================
