------------------------------- MODULE Services -------------------------------
(***************************************************************************)
(* An application's services beside its requests: the configuration they    *)
(* start from, the connection pool of DatabasePlugin and the job loop of    *)
(* SchedulerPlugin, the log behind its ShardedSink, the HealthProbe, and    *)
(* the end of main, which flushes the log and OpenTelemetry, or drops their *)
(* guards when it returns by `?`.  The hooks' order and failures in general *)
(* are module Lifecycle's.                                                  *)
(*                                                                         *)
(* Main is the template's, with the guards wired as the documentation of    *)
(* OtelGuard and init_tracing_sharded shows.                                *)
(***************************************************************************)
EXTENDS Configuration, ShardedSink, HealthProbe

CONSTANTS
    Scenarios   \* what the application starts from: [file, env, configures, order]; and, as a
                \* bound, what it meets: [lines, probed, and how many ticks of the interval]

VARIABLES
    scenario,
    phase,      \* how far main is: "start" to "ended", and "exited" when the runtime is gone
    config,     \* the AppConfig, None before it is resolved
    configured, \* how many of scenario.configures have been applied
    failed,     \* the build failed
    prepared,   \* how many plugins of the order are prepared
    pool,       \* "none", "open", "closing" or "closed"
    job,        \* the job loop of the scheduler
    aborting,   \* the loop has been told to end
    holds,      \* the job's run has a connection
    ticks, runs,    \* intervals elapsed, runs begun
    otel        \* "off", "on", "flushing", "dropping", "flushed", "abandoned" or "landed"

setup == <<scenario, config, configured, failed>>
db == <<prepared, pool>>
jobs == <<job, aborting, holds, ticks, runs>>
log == sinkVars
checks == probeVars
vars == <<setup, phase, db, jobs, log, checks, otel>>

Env == scenario.env

Resolved(s) == Resolve(Definition(s.file, s.env), s.env)

(* What the sink is spawned with: None without a configuration, and for a   *)
(* section that is in error.                                                *)
SinkFor(s) == IF Resolved(s) = None THEN None ELSE SinkOf(Resolved(s))

OtlpEndpointIsConfigured(text) == text \notin {None, ""}

ASSUME ServicesAssumption ==
    /\ \A s \in Scenarios :
        /\ s.configures \in Seq(Range(s.configures))
        /\ s.lines \subseteq Lines /\ s.probed \in BOOLEAN /\ s.ticks \in Nat
    /\ \A s \in Scenarios :
        LET definition == Definition(s.file, s.env)
        IN  /\ \A key \in DOMAIN definition.extra : definition.extra[key] \in Json
            /\ \A env \in DOMAIN definition.environments : definition.environments[env] \in Json
    /\ \A s \in Scenarios : SinkFor(s) \in Settings \cup {None}

Init ==
    /\ scenario \in Scenarios
    /\ phase = "start" /\ config = None /\ configured = 0 /\ failed = FALSE
    /\ prepared = 0 /\ pool = "none"
    /\ job = "none" /\ aborting = FALSE /\ holds = FALSE /\ ticks = 0 /\ runs = 0
    /\ SinkInit /\ ProbeInit
    /\ otel = "off"

-----------------------------------------------------------------------------
(* The start of main: the configuration, tracing and OpenTelemetry; then     *)
(* the build, whose configure hooks change the configuration.               *)

Refuse == phase' = "ended" /\ failed' = TRUE

Start ==
    /\ phase = "start"
    /\ config' = Resolved(scenario)
    /\ \/ /\ SinkFor(scenario) = None
          /\ Refuse
          /\ UNCHANGED <<log, otel>>
       \/ /\ SinkFor(scenario) # None
          /\ phase' = "configuring"
          /\ Spawn(SinkFor(scenario))
          /\ otel' = IF OtlpEndpointIsConfigured(Env.otlp) THEN "on" ELSE "off"
          /\ UNCHANGED failed
    /\ UNCHANGED <<scenario, configured, db, jobs, checks>>

(* The waterfall: each hook is given what the one before it returned.       *)
Configure ==
    /\ phase = "configuring" /\ configured < Len(scenario.configures)
    /\ config' = SetSection(config, scenario.configures[configured + 1])
    /\ configured' = configured + 1
    /\ UNCHANGED <<scenario, failed, phase, db, jobs, log, checks, otel>>

BeginPrepare ==
    /\ phase = "configuring" /\ configured = Len(scenario.configures)
    /\ phase' = "preparing"
    /\ UNCHANGED <<setup, db, jobs, log, checks, otel>>

NextPlugin == scenario.order[prepared + 1]

(* DatabasePlugin::prepare connects; a failure shuts down those before it.  *)
PrepareDatabase ==
    /\ phase = "preparing" /\ prepared < Len(scenario.order) /\ NextPlugin = "database"
    /\ \/ /\ DatabaseOf(config, Env) # None
          /\ pool' = "open" /\ prepared' = prepared + 1
          /\ UNCHANGED <<phase, failed>>
       \/ phase' = "stopping" /\ failed' = TRUE /\ UNCHANGED db
    /\ UNCHANGED <<scenario, config, configured, jobs, log, checks, otel>>

(* SchedulerPlugin::prepare spawns the loop of each job.                    *)
PrepareScheduler ==
    /\ phase = "preparing" /\ prepared < Len(scenario.order) /\ NextPlugin = "scheduler"
    /\ job' = "waiting" /\ prepared' = prepared + 1
    /\ UNCHANGED <<setup, phase, pool, aborting, holds, ticks, runs, log, checks, otel>>

Serve ==
    /\ phase = "preparing" /\ prepared = Len(scenario.order)
    /\ phase' = "serving"
    /\ UNCHANGED <<setup, db, jobs, log, checks, otel>>

-----------------------------------------------------------------------------
(* run_job_loop; the interval makes up for ticks that a long run missed.    *)

Tick ==
    /\ phase \in {"serving", "draining", "stopping"} /\ ticks < scenario.ticks
    /\ ticks' = ticks + 1
    /\ UNCHANGED <<setup, phase, db, job, aborting, holds, runs, log, checks, otel>>

BeginRun ==
    /\ job = "waiting" /\ runs < ticks
    /\ runs' = runs + 1 /\ job' = "running"
    /\ holds' \in {FALSE, pool = "open"}
    /\ UNCHANGED <<setup, phase, db, aborting, ticks, log, checks, otel>>

(* Mutant: a run that fails ends the loop.                                  *)
RunEndsOrBreaks ==
    /\ job = "running"
    /\ job' \in {"waiting", "broken"} /\ holds' = FALSE
    /\ UNCHANGED <<setup, phase, db, aborting, ticks, runs, log, checks, otel>>

(* Well or badly: an error is logged, and the loop goes on.                 *)
RunEnds ==
    /\ job = "running"
    /\ job' = "waiting" /\ holds' = FALSE
    /\ UNCHANGED <<setup, phase, db, aborting, ticks, runs, log, checks, otel>>

(* A panic ends the task of the loop; a run may also never come back.       *)
RunPanics ==
    /\ job = "running"
    /\ job' = "panicked" /\ holds' = FALSE
    /\ UNCHANGED <<setup, phase, db, aborting, ticks, runs, log, checks, otel>>

RunHangs ==
    /\ job = "running"
    /\ job' = "hung"
    /\ UNCHANGED <<setup, phase, db, aborting, holds, ticks, runs, log, checks, otel>>

-----------------------------------------------------------------------------
(* The log and the probe go on beside main.                                 *)

LogStep ==
    /\ \/ phase \in {"serving", "draining", "stopping"} /\ \E x \in scenario.lines : LogLine(x)
       \/ phase # "exited" /\ \E s \in Shards : Worker(s) \/ WriterPanics(s)
    /\ UNCHANGED <<setup, phase, db, jobs, checks, otel>>

ProbeComes ==
    /\ phase = "serving" /\ scenario.probed /\ Probe
    /\ UNCHANGED <<setup, phase, db, jobs, log, otel>>

ContributorAnswers ==
    /\ \E c \in Contributors : Contribute(c)
    /\ UNCHANGED <<setup, phase, db, jobs, log, otel>>

ProbeGoesOn ==
    /\ Answering \/ \E c \in Contributors : CheckTimesOut(c)
    /\ UNCHANGED <<setup, phase, db, jobs, log, otel>>

-----------------------------------------------------------------------------
(* The end: a signal, the open probe, the plugins in reverse, the guards.   *)

Stop ==
    /\ phase = "serving"
    /\ phase' = "draining"
    /\ UNCHANGED <<setup, db, jobs, log, checks, otel>>

(* The server ends with its last request.                                   *)
Drained ==
    /\ phase = "draining" /\ probe = "idle"
    /\ phase' = "stopping"
    /\ UNCHANGED <<setup, db, jobs, log, checks, otel>>

ShuttingDown(plugin) == phase = "stopping" /\ prepared > 0 /\ scenario.order[prepared] = plugin

(* Pool::close lets nobody in and waits for the connections that are out.   *)
CloseDatabase ==
    /\ ShuttingDown("database") /\ pool = "open"
    /\ pool' = "closing"
    /\ UNCHANGED <<setup, phase, prepared, jobs, log, checks, otel>>

(* Mutant: the pool is closed without waiting.                              *)
DatabaseClosedUnawaited ==
    /\ ShuttingDown("database") /\ pool = "closing"
    /\ pool' = "closed" /\ prepared' = prepared - 1
    /\ UNCHANGED <<setup, phase, jobs, log, checks, otel>>

DatabaseClosed ==
    /\ ShuttingDown("database") /\ pool = "closing" /\ ~holds
    /\ pool' = "closed" /\ prepared' = prepared - 1
    /\ UNCHANGED <<setup, phase, jobs, log, checks, otel>>

(* Mutant: the handles are dropped, which lets their tasks run on.          *)
ForgetJobs ==
    /\ ShuttingDown("scheduler")
    /\ prepared' = prepared - 1
    /\ UNCHANGED <<setup, phase, pool, jobs, log, checks, otel>>

(* The loop is told to end, and not waited for.                             *)
AbortJobs ==
    /\ ShuttingDown("scheduler")
    /\ prepared' = prepared - 1 /\ aborting' = TRUE
    /\ UNCHANGED <<setup, phase, pool, job, holds, ticks, runs, log, checks, otel>>

JobIsThere == job \in {"waiting", "running", "hung"}

(* The task is dropped at an await, with the connection of its run.  The    *)
(* poll it is in may end that run, and begin another for a missed tick.     *)
JobDropped ==
    /\ aborting /\ JobIsThere
    /\ job' = "aborted" /\ holds' = FALSE
    /\ UNCHANGED <<setup, phase, db, aborting, ticks, runs, log, checks, otel>>

(* Main returns by `?` and drops the guard of OpenTelemetry, which flushes  *)
(* on the thread of main, without a deadline.                               *)
DropOtelGuard ==
    IF otel = "on" THEN otel' = "dropping" /\ phase' = "dropping_otel"
    ELSE phase' = "ended" /\ UNCHANGED otel

(* Mutant: a build that fails ends the process with its exporter on.        *)
StoppedPastOtel ==
    /\ phase = "stopping" /\ prepared = 0
    /\ IF failed THEN DropGuard /\ phase' = "ended"
       ELSE ShutDown /\ phase' = "flushing_log"
    /\ UNCHANGED <<setup, db, jobs, checks, otel>>

(* After a failed build main returns by `?`; locals are dropped last first. *)
Stopped ==
    /\ phase = "stopping" /\ prepared = 0
    /\ IF failed THEN DropGuard /\ DropOtelGuard
       ELSE ShutDown /\ phase' = "flushing_log" /\ UNCHANGED otel
    /\ UNCHANGED <<setup, db, jobs, checks>>

LogFlushed ==
    /\ phase = "flushing_log" /\ phase' = "flushing_otel"
    /\ Flushed
    /\ UNCHANGED <<setup, db, jobs, checks, otel>>

(* log_guard.shutdown().await?                                              *)
LogFlushFails ==
    /\ phase = "flushing_log"
    /\ ShutDownFails /\ DropOtelGuard
    /\ UNCHANGED <<setup, db, jobs, checks>>

LogFlushTimesOut ==
    /\ phase = "flushing_log"
    /\ TimesOut /\ DropOtelGuard
    /\ UNCHANGED <<setup, db, jobs, checks>>

(* OtelGuard::shutdown: the flush runs on a thread of its own, under        *)
(* SHUTDOWN_DEADLINE.                                                       *)
FlushOtel ==
    /\ phase = "flushing_otel" /\ otel \in {"off", "on"}
    /\ IF otel = "off" THEN phase' = "ended" /\ UNCHANGED otel
       ELSE otel' = "flushing" /\ UNCHANGED phase
    /\ UNCHANGED <<setup, db, jobs, log, checks>>

(* Either flush comes to its end, well or badly.                            *)
OtelFlushed ==
    /\ phase \in {"flushing_otel", "dropping_otel"} /\ otel \in {"flushing", "dropping"}
    /\ otel' = "flushed" /\ phase' = "ended"
    /\ UNCHANGED <<setup, db, jobs, log, checks>>

OtelTimesOut ==
    /\ phase = "flushing_otel" /\ otel = "flushing"
    /\ otel' = "abandoned" /\ phase' = "ended"
    /\ UNCHANGED <<setup, db, jobs, log, checks>>

(* The thread of an abandoned flush comes to its end after all.             *)
FlushLands ==
    /\ otel = "abandoned"
    /\ otel' = "landed"
    /\ UNCHANGED <<setup, phase, db, jobs, log, checks>>

(* #[tokio::main] drops the runtime, which waits for blocking threads and   *)
(* for tasks to come to an await: a worker has none while it has the writer.*)
Exit ==
    /\ phase = "ended"
    /\ otel # "abandoned" /\ lock = 0 /\ ~JobIsThere
    /\ phase' = "exited"
    /\ UNCHANGED <<setup, db, jobs, log, checks, otel>>

-----------------------------------------------------------------------------
JobStep == BeginRun \/ RunEnds \/ JobDropped

MainStep ==
    \/ Start \/ Configure \/ BeginPrepare \/ PrepareDatabase \/ PrepareScheduler \/ Serve
    \/ Drained \/ CloseDatabase \/ DatabaseClosed \/ AbortJobs \/ Stopped
    \/ LogFlushTimesOut \/ LogFlushFails \/ LogFlushed \/ FlushOtel \/ OtelTimesOut \/ Exit

Next ==
    \/ MainStep \/ Stop \/ OtelFlushed \/ FlushLands
    \/ JobStep \/ Tick \/ RunPanics \/ RunHangs
    \/ ProbeComes \/ ContributorAnswers \/ ProbeGoesOn
    \/ LogStep

(* The runtime runs what can run and its timers fire.  No contributor, no   *)
(* collector, no writer of the log and no run of a job has to come back.    *)
Fairness == WF_vars(MainStep) /\ WF_vars(JobStep) /\ WF_vars(ProbeGoesOn)

Spec == Init /\ [][Next]_vars /\ Fairness

-----------------------------------------------------------------------------
(* Properties.                                                              *)

Get(fields, name) == IF name \in DOMAIN fields THEN fields[name] ELSE None

(* What is at the first n names of a path of at most three.                 *)
At(fields, path, n) ==
    LET first == Get(fields, path[1])
        second == Get(FieldsOf(first), path[2])
    IN  CASE n = 1 -> first
          [] n = 2 -> second
          [] n = 3 -> Get(FieldsOf(second), path[3])

Paths(fields) ==
    UNION {{<<a>>} \cup UNION {{<<a, b>>} \cup {<<a, b, c>> : c \in DOMAIN FieldsOf(FieldsOf(fields[a])[b])}
                               : b \in DOMAIN FieldsOf(fields[a])}
           : a \in DOMAIN fields}

ConfiguredKeys(s) == {s.configures[i].key : i \in DOMAIN s.configures}

(* A setting has the value of the environment's overrides if they say       *)
(* anything there, and otherwise the base's, unless an override has         *)
(* replaced what contained it (resolve, deep_merge_json); a plugin's        *)
(* configure has the last word on the sections it sets.                     *)
OverridesWin ==
    config # None =>
        LET definition == Definition(scenario.file, Env)
            base == definition.extra
            over == FieldsOf(Overrides(definition, EnvText(definition, Env)))
            merged == config.sections
            Expected(path) ==
                CASE At(over, path, Len(path)) # None -> At(over, path, Len(path))
                  [] \E n \in 1..(Len(path) - 1) : IsLeaf(At(over, path, n)) -> None
                  [] OTHER -> At(base, path, Len(path))
        IN  \A path \in Paths(base) \cup Paths(over) \cup Paths(merged) :
                /\ path[1] \notin ConfiguredKeys(scenario)
                /\ IsLeaf(Expected(path)) \/ IsLeaf(At(merged, path, Len(path)))
                => At(merged, path, Len(path)) = Expected(path)

(* What the documentation says of the server's address: an override of it   *)
(* for the environment is in force (docs/configuration.md).                 *)
ServerOverrideApplies ==
    config # None =>
        LET definition == Definition(scenario.file, Env)
            over == FieldsOf(Overrides(definition, EnvText(definition, Env)))
            port == At(over, <<"server", "port">>, 2)
        IN  IsLeaf(port) => config.server.port = Content(port)

Returned == phase \in {"ended", "exited"}

(* When the plugins are shut down, after a failed build or a signal, no     *)
(* connection is out of the pool and a job that is still there was told to  *)
(* end; the log is ended after them, and main, by itself or by `?`, returns *)
(* after both (GasketApp::shutdown, ShardedLogGuard).                       *)
NothingOutlivesMain ==
    /\ sink \notin {"none", "open"} => prepared = 0
    /\ prepared = 0 /\ phase # "preparing" =>
        pool \in {"none", "closed"} /\ ~holds /\ (JobIsThere => aborting)
    /\ Returned => prepared = 0 /\ sink \notin {"open", "draining"}

(* The exporter outlives what it exports: its flush begins when the plugins *)
(* are shut down and the log was ended.  Main, by itself or by `?`, does    *)
(* not return with an exporter that was never flushed (OtelGuard).          *)
TelemetryFlushedLast ==
    /\ otel \notin {"off", "on"} => prepared = 0 /\ sink \notin {"none", "open", "draining"}
    /\ Returned /\ sink # "none" /\ OtlpEndpointIsConfigured(Env.otlp) =>
        otel \in {"flushed", "abandoned", "landed"}

(* The next tick runs after a run that failed (SchedulerPlugin::every):     *)
(* only a panic, a run that never returns or the end stops the loop.        *)
EveryTickRuns ==
    (job # "none" /\ runs < ticks) ~> (runs = ticks \/ job \in {"panicked", "hung"} \/ aborting)

(* Once asked to stop, or after a failed build, main returns, whoever hangs:*)
(* a contributor, a job with a connection, the log's writer, the collector. *)
(* The exceptions: a log without a timeout; a pool that is closed before    *)
(* the scheduler is, which waits for the connection of a run that hangs;    *)
(* and a main that returns by `?` with OpenTelemetry on, whose guard flushes*)
(* without a deadline.  The process then exits, unless a flush that was     *)
(* abandoned, or a write to the log, never comes back.                      *)
StopsDespiteHangs ==
    /\ (phase \in {"draining", "stopping"} /\ scenario.order = <<"database", "scheduler">>
            /\ (settings.enabled => settings.shutdown_timeout_secs # None))
       ~> (Returned \/ otel = "dropping")
    /\ phase = "ended" ~> (phase = "exited" \/ [](otel = "abandoned" \/ lock # 0))
=============================================================================
