-------------------------------- MODULE Agent --------------------------------
(***************************************************************************)
(* src/main.rs and pipeline::run: the process.  main loads the             *)
(* configuration, spawns the metrics task, builds and spawns one shipper   *)
(* after the other, and awaits the metrics task and then the shippers.     *)
(* The metrics task builds collectors and forwarders, spawns each          *)
(* forwarder's run, and is the scheduler's loop until Ctrl-C; then it      *)
(* shuts the forwarders down and awaits them.                              *)
(*                                                                         *)
(* Scheduler, forwarders and shippers are here what the modules of these   *)
(* names show them to be: tasks that end once they are told to.  All share *)
(* one thread: between two awaits of main, or of the metrics task, no      *)
(* other task moves.                                                       *)
(*                                                                         *)
(*   process    "loading", "running", or how it ended: "ok" and "error"    *)
(*              (main returned), "killed" (a signal), "aborted" (a panic)  *)
(*   main       "spawn" (in the loop of spawn_logs), "sink" (awaiting the  *)
(*              files of a sink), "metrics" and "logs" (awaiting a task)   *)
(*   metrics    "none", "spawned", "build" (in pipeline::run, before its   *)
(*              next await), "files" (awaiting those of a part), "loop",   *)
(*              "flush", "ok", "error"                                     *)
(*   task[p]    of a forwarder or shipper: "none", "spawned", "running",   *)
(*              "told" (a forwarder: shutdown was called), "ok", "error"   *)
(***************************************************************************)
EXTENDS Config, Sequences

CONSTANT Configs        \* the configurations that are tried

\* A Unix collector has no HTTP client, and no option for one.
ASSUME AgentAssumption ==
    \A c \in Configs : \A p \in DOMAIN c.parts :
        /\ c.parts[p].kind \in {"unix", "prometheus", "otlphttp", "shipper"}
        /\ c.parts[p].auth \subseteq AuthOptions
        /\ c.parts[p].kind = "unix" => c.parts[p].auth = {} /\ c.parts[p].tls = {}

VARIABLES config, process, main, metrics, task,
          header,       \* of the parts that are built: what resolve_header gave
          handles,      \* shippers in the order in which main awaits them
          handler,      \* a SIGINT no longer kills: some task has registered
          told          \* listeners that a Ctrl-C has reached

parts == <<config, header>>
signals == <<handler, told>>
agentVars == <<parts, process, main, metrics, task, handles, signals>>

Part(p) == config.parts[p]

AgentInit == /\ config \in Configs
             /\ process = "loading"
             /\ main = "spawn"
             /\ metrics = "none"
             /\ task = [p \in DOMAIN config.parts |-> "none"]
             /\ header = << >>
             /\ handles = <<>>
             /\ handler = FALSE
             /\ told = {}

Ended == process \in {"ok", "error", "killed", "aborted"}

\* A step of main is possible, of the metrics task, of any other task.
MainRuns == process = "running" /\ metrics # "build"
MetricsRuns == process = "running" /\ main # "spawn"
OthersRun == MainRuns /\ MetricsRuns

Exit(how) == process' = how /\ UNCHANGED <<parts, main, metrics, task, handles, signals>>

\* `ferrometer run'.
Load == /\ process = "loading"
        /\ IF Loads(config) THEN process' = "running" /\ metrics' = "spawned"
                            ELSE process' = "error" /\ UNCHANGED metrics
        /\ UNCHANGED <<parts, main, task, handles, signals>>

\* `ferrometer validate'.
Validate == /\ process = "loading"
            /\ Exit(IF Valid(config) THEN "ok" ELSE "error")

\* A part's client gets its header; an `unreachable!' aborts the process.
Build(p) == LET options == HeaderOptions(Part(p).auth) IN
            /\ header' = [q \in DOMAIN header \cup {p} |->
                             IF q = p THEN options ELSE header[q]]
            /\ process' = IF options = Unreachable THEN "aborted" ELSE process
            /\ UNCHANGED config

Unbuilt(P) == P \ DOMAIN header

-----------------------------------------------------------------------------
(* spawn_logs, in main *)

Unspawned == Unbuilt(Shippers(config))

\* LokiSink::new has files to await ...
AwaitSink == /\ MainRuns
             /\ main = "spawn"
             /\ \E s \in Unspawned : FilesRead(Part(s)) # {}
             /\ main' = "sink"
             /\ UNCHANGED <<parts, process, metrics, task, handles, signals>>

\* ... which have been read, or it has none: spawn_local.
SpawnShipper(s) == /\ MainRuns
                   /\ s \in Unspawned
                   /\ main = IF FilesRead(Part(s)) = {} THEN "spawn" ELSE "sink"
                   /\ Build(s)
                   /\ task' = [task EXCEPT ![s] = "spawned"]
                   /\ handles' = Append(handles, s)
                   /\ main' = "spawn"
                   /\ UNCHANGED <<metrics, signals>>

\* JournaldSource::new or LokiSink::new failed: `?' up to the end of main.
SpawnFails == /\ MainRuns
              /\ main = "spawn" => Unspawned # {}
              /\ main \in {"spawn", "sink"}
              /\ Exit("error")

AwaitMetrics == /\ MainRuns
                /\ main = "spawn"
                /\ Unspawned = {}
                /\ main' = "metrics"
                /\ UNCHANGED <<parts, process, metrics, task, handles, signals>>

-----------------------------------------------------------------------------
(* The metrics task *)

StartMetrics == /\ OthersRun
                /\ metrics = "spawned"
                /\ metrics' = "build"
                /\ UNCHANGED <<parts, process, main, task, handles, signals>>

\* Collectors are built before forwarders.
NextParts == IF Unbuilt(Collectors(config)) # {} THEN Unbuilt(Collectors(config))
                                                 ELSE Unbuilt(Forwarders(config))

AwaitPart == /\ MetricsRuns
             /\ metrics = "build"
             /\ \E p \in NextParts : FilesRead(Part(p)) # {}
             /\ metrics' = "files"
             /\ UNCHANGED <<parts, process, main, task, handles, signals>>

\* A forwarder's run is spawned at once.
BuildPart(p) == /\ MetricsRuns
                /\ p \in NextParts
                /\ metrics = IF FilesRead(Part(p)) = {} THEN "build" ELSE "files"
                /\ Build(p)
                /\ task' = [task EXCEPT ![p] =
                               IF p \in Forwarders(config) THEN "running" ELSE "none"]
                /\ metrics' = "build"
                /\ UNCHANGED <<main, handles, signals>>

\* `?' ends pipeline::run.  Forwarders that are spawned run on, and main hears of
\* it when it awaits the task.
BuildFails == /\ MetricsRuns
              /\ metrics \in {"build", "files"}
              /\ metrics = "build" => NextParts # {}
              /\ metrics' = "error"
              /\ UNCHANGED <<parts, process, main, task, handles, signals>>

\* The loop's first select! registers for Ctrl-C.
StartLoop == /\ MetricsRuns
             /\ metrics = "build"
             /\ NextParts = {}
             /\ metrics' = "loop"
             /\ handler' = TRUE
             /\ UNCHANGED <<parts, process, main, task, handles, told>>


\* scheduler_loop returns (Scheduler!InterruptStopsLoop), each forwarder is told.
StopLoop == /\ OthersRun
            /\ metrics = "loop"
            /\ "metrics" \in told
            /\ metrics' = "flush"
            /\ task' = [p \in DOMAIN task |->
                           IF p \in Forwarders(config) THEN "told" ELSE task[p]]
            /\ UNCHANGED <<parts, process, main, handles, signals>>

\* All forwarders have returned.
MetricsEnds == /\ OthersRun
               /\ metrics = "flush"
               /\ \A f \in Forwarders(config) : task[f] = "ok"
               /\ metrics' = "ok"
               /\ UNCHANGED <<parts, process, main, task, handles, signals>>

-----------------------------------------------------------------------------
(* Forwarders and shippers *)

Becomes(p, state) == /\ task' = [task EXCEPT ![p] = state]
                     /\ UNCHANGED <<parts, process, main, metrics, handles>>

\* The last flush is over (OtlpForwarder!ShutdownEndsRun).
ForwarderEnds(f) == /\ OthersRun
                    /\ f \in Forwarders(config)
                    /\ task[f] = "told"
                    /\ Becomes(f, "ok")
                    /\ UNCHANGED signals

\* A shipper's first select! registers for Ctrl-C.
ShipperListens(s) == /\ OthersRun
                     /\ s \in Shippers(config)
                     /\ task[s] = "spawned"
                     /\ Becomes(s, "running")
                     /\ handler' = TRUE
                     /\ UNCHANGED told

\* LogShipper!InterruptStops.
ShipperStops(s) == /\ OthersRun
                   /\ s \in Shippers(config)
                   /\ task[s] = "running"
                   /\ s \in told
                   /\ Becomes(s, "ok")
                   /\ UNCHANGED signals

\* The source or the cursor file failed.
ShipperFails(s) == /\ OthersRun
                   /\ s \in Shippers(config)
                   /\ task[s] \in {"spawned", "running"}
                   /\ Becomes(s, "error")
                   /\ UNCHANGED signals

-----------------------------------------------------------------------------
(* The end of main *)

AfterMetrics == /\ OthersRun
                /\ main = "metrics"
                /\ metrics = "ok"
                /\ main' = "logs"
                /\ UNCHANGED <<parts, process, metrics, task, handles, signals>>

\* Mistake: the shippers are awaited, whatever became of the metrics task.
MetricsErrorIgnored == /\ OthersRun
                       /\ main = "metrics"
                       /\ metrics = "error"
                       /\ main' = "logs"
                       /\ UNCHANGED <<parts, process, metrics, task, handles, signals>>

MetricsFailed == /\ OthersRun
                 /\ main = "metrics"
                 /\ metrics = "error"
                 /\ Exit("error")

\* The shippers are awaited in the order of their handles.
AfterShipper == /\ OthersRun
                /\ main = "logs"
                /\ handles # <<>>
                /\ task[Head(handles)] = "ok"
                /\ handles' = Tail(handles)
                /\ UNCHANGED <<parts, process, main, metrics, task, signals>>

ShipperFailed == /\ OthersRun
                 /\ main = "logs"
                 /\ handles # <<>>
                 /\ task[Head(handles)] = "error"
                 /\ Exit("error")

\* Mistake: main does not await the shippers.
ReturnEarly == OthersRun /\ main = "logs" /\ Exit("ok")

Return == /\ OthersRun
          /\ main = "logs"
          /\ handles = <<>>
          /\ Exit("ok")

-----------------------------------------------------------------------------
(* The environment *)

Listeners == {s \in Shippers(config) : task[s] = "running"}
             \cup {l \in {"metrics"} : metrics = "loop"}

\* Ctrl-C reaches those who have registered; before anybody has, it kills.
CtrlC == /\ process = "running"
         /\ told' = told \cup Listeners
         /\ process' = IF handler THEN process ELSE "killed"
         /\ UNCHANGED <<parts, main, metrics, task, handles, handler>>

\* SIGTERM, which systemd stops the service with and nothing handles, or a panic.
Dies == /\ process = "running"
        /\ \E how \in {"killed", "aborted"} : Exit(how)

Main == \/ AwaitSink \/ AwaitMetrics \/ AfterMetrics \/ MetricsFailed
        \/ AfterShipper \/ ShipperFailed \/ Return
        \/ \E s \in DOMAIN task : SpawnShipper(s)

Metrics == \/ StartMetrics \/ AwaitPart \/ StartLoop \/ StopLoop \/ MetricsEnds
           \/ \E p \in DOMAIN task : BuildPart(p)

\* What a forwarder or a shipper does once it is polled.
TaskStep(p) == ForwarderEnds(p) \/ ShipperListens(p) \/ ShipperStops(p)

AgentNext == \/ Load \/ Validate
             \/ Main \/ SpawnFails
             \/ Metrics \/ BuildFails
             \/ \E p \in DOMAIN task : TaskStep(p) \/ ShipperFails(p)
             \/ CtrlC \/ Dies

AgentSpec == AgentInit /\ [][AgentNext]_agentVars

Names == UNION {DOMAIN c.parts : c \in Configs}

\* The runtime polls every task that can go on, and files are read in the end.
AgentFairSpec == /\ AgentSpec
                 /\ WF_agentVars(Main)
                 /\ WF_agentVars(Metrics)
                 /\ \A p \in Names : WF_agentVars(p \in DOMAIN task /\ TaskStep(p))

-----------------------------------------------------------------------------
(* Properties *)

\* auth.rs and tls.rs trust validate of config.rs: whatever gets past it, a client
\* uses every credential and every TLS file that is configured and none that is not -
\* no password, no key is silently left out - and no `unreachable!' is reached.
SendsWhatIsConfigured ==
    \A p \in DOMAIN header : /\ header[p] = Part(p).auth
                             /\ TlsFiles(Part(p).tls) = Part(p).tls

\* A clean exit of `run' cuts nothing short and hides no failure: every forwarder
\* has had its last flush and every shipper has stopped by itself without error.
CleanExit ==
    process = "ok" /\ metrics # "none" =>
        /\ metrics = "ok"
        /\ \A p \in Forwarders(config) \cup Shippers(config) : task[p] = "ok"

\* A Ctrl-C that has reached all that listen ends the process, though main awaits
\* the tasks in an order of its own.
AllTold == /\ metrics = "loop" => "metrics" \in told
           /\ metrics \in {"loop", "flush", "ok"}
           /\ \A s \in Shippers(config) :
                  \/ task[s] \in {"ok", "error"}
                  \/ task[s] = "running" /\ s \in told


\* A metrics task that cannot be built takes the process with it, although
\* shippers may run by then: no agent is left that only ships logs.
FailedStartEnds == metrics = "error" ~> Ended
-----------------------------------------------------------------------------
(* The inductive invariant behind SendsWhatIsConfigured and CleanExit.        *)

TaskStates == {"none", "spawned", "running", "told", "ok", "error"}

\* Shippers that main has yet to await.
Awaited == {handles[i] : i \in 1 .. Len(handles)}

\* Nothing is built of a configuration that is not validated.
OnlyValidRuns == /\ config \in Configs
                 /\ process = "running" => Valid(config)
                 /\ process = "loading" => metrics = "none"

\* main goes on to await a task only when what it passed by is over: each shipper
\* it built is awaited still, or has stopped by itself.
MainPassesOnlyEnded ==
    /\ task \in [DOMAIN config.parts -> TaskStates]
    /\ handles \in Seq(DOMAIN config.parts)
    /\ \A s \in Shippers(config) \cap DOMAIN header : s \in Awaited \/ task[s] = "ok"
    /\ main \in {"metrics", "logs"} => Unspawned = {}
    /\ main = "logs" => metrics = "ok"
    /\ metrics = "ok" => \A f \in Forwarders(config) : task[f] = "ok"

AgentInv == /\ OnlyValidRuns
            /\ SendsWhatIsConfigured
            /\ MainPassesOnlyEnded
            /\ CleanExit
=============================================================================
