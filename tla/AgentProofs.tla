------------------------------ MODULE AgentProofs ------------------------------
(* For every set of configurations, of any number of parts, and every width of *)
(* the integers.                                                               *)
EXTENDS Agent, FiniteSetTheorems, TLAPS

-----------------------------------------------------------------------------
(* What resolve_header makes of options that validate lets pass *)

LEMMA AtMostOne ==
    ASSUME NEW S, IsFiniteSet(S), Cardinality(S) <= 1, NEW x \in S, NEW y \in S
    PROVE  x = y
<1>1. Cardinality(S) \in Nat
      BY FS_CardinalityType
<1>2. Cardinality(S) # 0
      BY FS_EmptySet
<1>3. Cardinality(S) = 1
      BY <1>1, <1>2
<1>4. \E z : S = {z}
      BY <1>3, FS_Singleton
<1> QED
    BY <1>4

LEMMA MethodsAreFinite == \A auth : IsFiniteSet(Methods(auth))
<1> TAKE auth
<1> DEFINE All == {BasicOptions, BearerOptions, {"authorization"}}
<1>1. IsFiniteSet({BasicOptions})
      BY FS_Singleton, Zenon
<1>2. IsFiniteSet({BasicOptions} \cup {BearerOptions})
      BY <1>1, FS_AddElement, Zenon
<1>3. IsFiniteSet({BasicOptions} \cup {BearerOptions} \cup {{"authorization"}})
      BY <1>2, FS_AddElement, Zenon
<1>4. All = {BasicOptions} \cup {BearerOptions} \cup {{"authorization"}}
      OBVIOUS
<1>5. IsFiniteSet(All)
      BY <1>3, <1>4, Zenon
<1>6. Methods(auth) \in SUBSET All
      BY DEF Methods
<1> QED
    BY <1>5, <1>6, FS_Subset, Zenon

LEMMA OneMethod ==
    ASSUME NEW auth, AuthValid(auth),
           NEW m \in {BasicOptions, BearerOptions, {"authorization"}}, m \cap auth # {},
           NEW n \in {BasicOptions, BearerOptions, {"authorization"}}, n \cap auth # {}
    PROVE  m = n
<1>1. m \in Methods(auth) /\ n \in Methods(auth)
      BY Zenon DEF Methods
<1>2. Cardinality(Methods(auth)) <= 1
      BY DEF AuthValid
<1> QED
    BY <1>1, <1>2, MethodsAreFinite, AtMostOne, Zenon

LEMMA HeaderIsAuth ==
    ASSUME NEW auth \in SUBSET AuthOptions, AuthValid(auth)
    PROVE  HeaderOptions(auth) = auth
<1>1. CASE "authorization" \in auth
  <2>1. {"authorization"} \cap auth # {}
        BY <1>1
  <2>2. BasicOptions # {"authorization"} /\ BearerOptions # {"authorization"}
        BY DEF BasicOptions, BearerOptions
  <2>3. BasicOptions \cap auth = {}
        BY <2>1, <2>2, OneMethod, Zenon
  <2>4. BearerOptions \cap auth = {}
        BY <2>1, <2>2, OneMethod, Zenon
  <2> QED
      BY <1>1, <2>3, <2>4 DEF HeaderOptions, AuthOptions
<1>2. CASE "authorization" \notin auth /\ BearerOptions \cap auth # {}
  <2>1. BasicOptions # BearerOptions
        BY DEF BasicOptions, BearerOptions
  <2>2. BasicOptions \cap auth = {}
        BY <1>2, <2>1, OneMethod, Zenon
  <2>3. auth \subseteq BearerOptions
        BY <1>2, <2>2 DEF AuthOptions
  <2>4. ~ BearerOptions \subseteq auth
        BY DEF AuthValid
  <2> QED
      BY <1>2, <2>3, <2>4 DEF HeaderOptions, BearerOptions
<1>3. CASE "authorization" \notin auth /\ BearerOptions \cap auth = {}
  <2>1. auth \subseteq BasicOptions
        BY <1>3 DEF AuthOptions
  <2>2. BasicOptions \cap auth # {} => "username" \in auth
        BY DEF AuthValid
  <2>3. ~ {"password", "password-file"} \subseteq auth
        BY DEF AuthValid
  <2>4. "username" \in auth => {"password", "password-file"} \cap auth # {}
        BY DEF AuthValid
  <2> QED
      BY <1>3, <2>1, <2>2, <2>3, <2>4 DEF HeaderOptions, BasicOptions
<1> QED
    BY <1>1, <1>2, <1>3

\* Every part that is built has options that were validated.
LEMMA ValidPart ==
    ASSUME NEW c \in Configs, Valid(c), NEW p \in DOMAIN c.parts
    PROVE  /\ c.parts[p].auth \in SUBSET AuthOptions
           /\ AuthValid(c.parts[p].auth)
           /\ TlsValid(c.parts[p].tls)
<1>1. c.parts[p].auth \in SUBSET AuthOptions
      BY AgentAssumption
<1>2. CASE c.parts[p].kind = "unix"
  <2>1. c.parts[p].auth = {} /\ c.parts[p].tls = {}
        BY <1>2, AgentAssumption
  <2>2. Methods({}) = {}
        BY DEF Methods
  <2>3. AuthValid({})
        BY <2>2, FS_EmptySet DEF AuthValid, BearerOptions
  <2> QED
      BY <1>1, <2>1, <2>3 DEF TlsValid
<1>3. CASE c.parts[p].kind # "unix"
  <2>1. PartValid(c.parts[p])
        BY DEF Valid
  <2>2. HttpValid(c.parts[p])
        BY <1>3, <2>1, AgentAssumption DEF PartValid
  <2> QED
      BY <1>1, <2>2 DEF HttpValid
<1> QED
    BY <1>2, <1>3

-----------------------------------------------------------------------------
(* One step *)

LEMMA KindsAreDisjoint ==
    ASSUME NEW c
    PROVE  /\ Shippers(c) \cap Forwarders(c) = {}
           /\ Shippers(c) \cap Collectors(c) = {}
           /\ Shippers(c) \subseteq DOMAIN c.parts
           /\ Forwarders(c) \subseteq DOMAIN c.parts
BY DEF Shippers, Forwarders, Collectors, OfKind

\* What is built uses what is configured.
LEMMA BuildSends ==
    ASSUME AgentInv, process = "running", NEW p \in DOMAIN config.parts, Build(p)
    PROVE  /\ SendsWhatIsConfigured'
           /\ DOMAIN header' = DOMAIN header \cup {p}
           /\ config' = config
           /\ process' \in {"running", "aborted"}
<1>1. config \in Configs /\ Valid(config)
      BY DEF AgentInv, OnlyValidRuns
<1>2. /\ HeaderOptions(Part(p).auth) = Part(p).auth
      /\ TlsValid(Part(p).tls)
      BY <1>1, ValidPart, HeaderIsAuth, Zenon DEF Part
<1>3. config' = config /\ process' \in {"running", "aborted"}
      BY DEF Build
<1>4. header' = [q \in DOMAIN header \cup {p} |->
                    IF q = p THEN Part(p).auth ELSE header[q]]
      BY <1>2, Zenon DEF Build
<1>5. \A q \in DOMAIN header : /\ header[q] = Part(q).auth
                               /\ TlsFiles(Part(q).tls) = Part(q).tls
      BY DEF AgentInv, SendsWhatIsConfigured
<1>6. TlsFiles(Part(p).tls) = Part(p).tls
      BY <1>2 DEF TlsFiles, TlsValid
<1>7. SendsWhatIsConfigured'
      BY <1>3, <1>4, <1>5, <1>6 DEF SendsWhatIsConfigured, Part
<1> QED
    BY <1>3, <1>4, <1>7

LEMMA SpawnShipperInv ==
    ASSUME AgentInv, NEW s \in DOMAIN task, SpawnShipper(s)
    PROVE  AgentInv'
<1> USE DEF AgentInv, MainPassesOnlyEnded
<1>1. process = "running" /\ main' = "spawn" /\ metrics' = metrics /\ s \in Unspawned
      BY DEF SpawnShipper, MainRuns
<1>2. s \in Shippers(config) /\ s \in DOMAIN config.parts
      BY <1>1, KindsAreDisjoint DEF Unspawned, Unbuilt
<1>3. Build(s) /\ task' = [task EXCEPT ![s] = "spawned"] /\ handles' = Append(handles, s)
      BY DEF SpawnShipper
<1>4. /\ SendsWhatIsConfigured'
      /\ DOMAIN header' = DOMAIN header \cup {s}
      /\ config' = config
      /\ process' \in {"running", "aborted"}
      BY <1>1, <1>2, <1>3, BuildSends
<1>5. OnlyValidRuns'
      BY <1>1, <1>4 DEF OnlyValidRuns
<1>6. CleanExit'
      BY <1>4 DEF CleanExit
<1>7. task' \in [DOMAIN config'.parts -> TaskStates]
      BY <1>3, <1>4 DEF TaskStates
<1>8. handles' \in Seq(DOMAIN config'.parts)
      BY <1>2, <1>3, <1>4
<1>9. Awaited' = Awaited \cup {s}
      BY <1>2, <1>3 DEF Awaited
<1>10. \A r \in Shippers(config') \cap DOMAIN header' : r \in Awaited' \/ task'[r] = "ok"
  <2>1. \A r \in DOMAIN config.parts : r # s => task'[r] = task[r]
        BY <1>3
  <2> QED
      BY <1>4, <1>9, <2>1, KindsAreDisjoint
<1>11. metrics' = "ok" => \A f \in Forwarders(config') : task'[f] = "ok"
       BY <1>1, <1>2, <1>3, <1>4, KindsAreDisjoint
<1> QED
    BY <1>1, <1>4, <1>5, <1>6, <1>7, <1>8, <1>10, <1>11

LEMMA BuildPartInv ==
    ASSUME AgentInv, NEW p \in DOMAIN task, BuildPart(p)
    PROVE  AgentInv'
<1> USE DEF AgentInv, MainPassesOnlyEnded
<1>1. /\ process = "running"
      /\ metrics \in {"build", "files"} /\ metrics' = "build"
      /\ main' = main /\ handles' = handles
      /\ p \in NextParts
      BY DEF BuildPart, MetricsRuns
<1>2. p \in DOMAIN config.parts /\ p \notin Shippers(config)
      BY <1>1 DEF NextParts, Unbuilt, Shippers, Forwarders, Collectors, OfKind
<1>3. Build(p) /\ task' = [task EXCEPT ![p] =
                             IF p \in Forwarders(config) THEN "running" ELSE "none"]
      BY DEF BuildPart
<1>4. /\ SendsWhatIsConfigured'
      /\ DOMAIN header' = DOMAIN header \cup {p}
      /\ config' = config
      /\ process' \in {"running", "aborted"}
      BY <1>1, <1>2, <1>3, BuildSends
<1>5. OnlyValidRuns'
      BY <1>1, <1>4 DEF OnlyValidRuns
<1>6. CleanExit'
      BY <1>4 DEF CleanExit
<1>7. task' \in [DOMAIN config'.parts -> TaskStates]
      BY <1>3, <1>4 DEF TaskStates
<1>8. Awaited' = Awaited
      BY <1>1 DEF Awaited
<1>9. \A r \in Shippers(config') \cap DOMAIN header' : r \in Awaited' \/ task'[r] = "ok"
      BY <1>2, <1>3, <1>4, <1>8, KindsAreDisjoint
<1>10. main' \in {"metrics", "logs"} => Unspawned' = {}
       BY <1>1, <1>4 DEF Unspawned, Unbuilt
<1> QED
    BY <1>1, <1>4, <1>5, <1>6, <1>7, <1>9, <1>10

\* main and the metrics task, apart from building.
LEMMA MainInv ==
    ASSUME AgentInv, Main
    PROVE  AgentInv'
<1> USE DEF AgentInv, OnlyValidRuns, SendsWhatIsConfigured, MainPassesOnlyEnded, CleanExit,
            Part, Unspawned, Unbuilt, parts, signals, MainRuns, MetricsRuns, OthersRun, Exit
<1>1. CASE AwaitSink
      BY <1>1 DEF AwaitSink, Awaited
<1>2. CASE AwaitMetrics
      BY <1>2 DEF AwaitMetrics, Awaited
<1>3. CASE AfterMetrics
      BY <1>3 DEF AfterMetrics, Awaited
<1>4. CASE MetricsFailed
      BY <1>4 DEF MetricsFailed, Awaited
\* Only the head leaves those that main has yet to await, and it has stopped.
<1>5. CASE AfterShipper
  <2>1. /\ handles # <<>> /\ task[Head(handles)] = "ok" /\ handles' = Tail(handles)
        /\ UNCHANGED <<config, header, process, main, metrics, task>>
        BY <1>5 DEF AfterShipper
  <2>2. handles' \in Seq(DOMAIN config'.parts)
        BY <2>1
  <2>3. Awaited \subseteq Awaited' \cup {Head(handles)}
    <3> SUFFICES ASSUME NEW i \in 1 .. Len(handles)
                 PROVE  handles[i] \in Awaited' \cup {Head(handles)}
        BY DEF Awaited
    <3>1. CASE i = 1
          BY <2>1, <3>1
    <3>2. CASE i > 1
      <4>1. i - 1 \in 1 .. Len(handles') /\ handles'[i - 1] = handles[i]
            BY <2>1, <3>2
      <4> QED
          BY <4>1 DEF Awaited
    <3> QED
        BY <3>1, <3>2
  <2> QED
      BY <2>1, <2>2, <2>3
<1>6. CASE ShipperFailed
      BY <1>6 DEF ShipperFailed, Awaited
<1>7. CASE Return
  <2>1. /\ main = "logs" /\ handles = <<>>
        /\ UNCHANGED <<config, header, main, metrics, task, handles>> /\ process' = "ok"
        BY <1>7 DEF Return
  <2>2. Awaited = {}
        BY <2>1 DEF Awaited
  <2>3. \A s \in Shippers(config) : task[s] = "ok"
        BY <2>1, <2>2
  <2> QED
      BY <2>1, <2>3 DEF Awaited
<1>8. CASE \E s \in DOMAIN task : SpawnShipper(s)
      BY <1>8, SpawnShipperInv, Zenon
<1> QED
    BY <1>1, <1>2, <1>3, <1>4, <1>5, <1>6, <1>7, <1>8, Zenon DEF Main

LEMMA MetricsInv ==
    ASSUME AgentInv, Metrics
    PROVE  AgentInv'
<1> USE DEF AgentInv, OnlyValidRuns, SendsWhatIsConfigured, MainPassesOnlyEnded, CleanExit,
            Part, Unspawned, Unbuilt, parts, signals, MainRuns, MetricsRuns, OthersRun
<1>1. CASE StartMetrics
      BY <1>1 DEF StartMetrics, Awaited
<1>2. CASE AwaitPart
      BY <1>2 DEF AwaitPart, Awaited
<1>3. CASE StartLoop
      BY <1>3 DEF StartLoop, Awaited
<1>4. CASE StopLoop
  <2>1. /\ UNCHANGED <<config, header, process, main, handles, handler, told>>
        /\ process = "running" /\ metrics = "loop" /\ metrics' = "flush"
        BY <1>4 DEF StopLoop
  <2>2. task' = [p \in DOMAIN task |-> IF p \in Forwarders(config) THEN "told" ELSE task[p]]
        BY <1>4 DEF StopLoop
  <2>3. task' \in [DOMAIN config'.parts -> TaskStates]
        BY <2>1, <2>2 DEF TaskStates
  <2>4. \A s \in Shippers(config) : task'[s] = task[s]
        BY <2>2, KindsAreDisjoint
  <2> QED
      BY <2>1, <2>3, <2>4 DEF Awaited
<1>5. CASE MetricsEnds
      BY <1>5 DEF MetricsEnds, Awaited
<1>6. CASE \E p \in DOMAIN task : BuildPart(p)
      BY <1>6, BuildPartInv, Zenon
<1> QED
    BY <1>1, <1>2, <1>3, <1>4, <1>5, <1>6, Zenon DEF Metrics

\* A forwarder or a shipper: one that has stopped by itself does not move again.
LEMMA TaskInv ==
    ASSUME AgentInv, NEW p \in DOMAIN task, TaskStep(p) \/ ShipperFails(p)
    PROVE  AgentInv'
<1> USE DEF AgentInv, OnlyValidRuns, SendsWhatIsConfigured, MainPassesOnlyEnded, CleanExit,
            Part, Unspawned, Unbuilt, parts, signals, MainRuns, MetricsRuns, OthersRun
<1>1. /\ UNCHANGED <<config, header, process, main, metrics, handles>>
      /\ process = "running"
      BY DEF TaskStep, ForwarderEnds, ShipperListens, ShipperStops, ShipperFails, Becomes
<1>2. \/ /\ p \in Forwarders(config) \cup Shippers(config)
         /\ task' = [task EXCEPT ![p] = "ok"]
      \/ /\ p \in Shippers(config)
         /\ task[p] # "ok"
         /\ \E state \in {"running", "error"} : task' = [task EXCEPT ![p] = state]
      BY DEF TaskStep, ForwarderEnds, ShipperListens, ShipperStops, ShipperFails, Becomes
<1>3. task' \in [DOMAIN config'.parts -> TaskStates]
      BY <1>1, <1>2 DEF TaskStates
<1>4. Awaited' = Awaited
      BY <1>1 DEF Awaited
<1>5. \A s \in Shippers(config) \cap DOMAIN header : s \in Awaited \/ task'[s] = "ok"
      BY <1>2, KindsAreDisjoint
<1>6. metrics = "ok" => \A f \in Forwarders(config) : task'[f] = "ok"
      BY <1>2, KindsAreDisjoint
<1> QED
    BY <1>1, <1>3, <1>4, <1>5, <1>6

LEMMA AgentStepInv == AgentInv /\ [AgentNext]_agentVars => AgentInv'
<1> SUFFICES ASSUME AgentInv, [AgentNext]_agentVars
             PROVE  AgentInv'
    OBVIOUS
<1> USE DEF AgentInv, OnlyValidRuns, SendsWhatIsConfigured, MainPassesOnlyEnded, CleanExit,
            Part, Unspawned, Unbuilt, Awaited, parts, signals, MainRuns, MetricsRuns, Exit
<1>1. CASE Load
      BY <1>1 DEF Load, Loads
<1>2. CASE Validate
      BY <1>2 DEF Validate
<1>3. CASE Main
      BY <1>3, MainInv, Zenon
<1>4. CASE SpawnFails
      BY <1>4 DEF SpawnFails
<1>5. CASE Metrics
      BY <1>5, MetricsInv, Zenon
<1>6. CASE BuildFails
      BY <1>6 DEF BuildFails
<1>7. CASE \E p \in DOMAIN task : TaskStep(p) \/ ShipperFails(p)
      BY <1>7, TaskInv, Zenon
<1>8. CASE CtrlC
      BY <1>8 DEF CtrlC
<1>9. CASE Dies
      BY <1>9 DEF Dies
<1>10. CASE UNCHANGED agentVars
      BY <1>10 DEF agentVars
<1> QED
    BY <1>1, <1>2, <1>3, <1>4, <1>5, <1>6, <1>7, <1>8, <1>9, <1>10, Zenon DEF AgentNext

LEMMA AgentInitInv == AgentInit => AgentInv
BY DEF AgentInit, AgentInv, OnlyValidRuns, SendsWhatIsConfigured, MainPassesOnlyEnded,
       CleanExit, TaskStates, Unspawned, Unbuilt, Part

-----------------------------------------------------------------------------
(* Results *)

\* Only validated configurations run, and main passes by a task only when it is over.
THEOREM AgentInvariant == AgentSpec => []AgentInv
BY AgentInitInv, AgentStepInv, PTL DEF AgentSpec

\* Whatever options are set in whatever parts: a configuration that loads is sent
\* with every credential and TLS file it has, and resolve_header reaches no `unreachable!'.
THEOREM CredentialsAreUsed == AgentSpec => []SendsWhatIsConfigured
<1>1. AgentInv => SendsWhatIsConfigured
      BY DEF AgentInv
<1> QED
    BY AgentInvariant, <1>1, PTL

\* With any number of forwarders and shippers, and whatever becomes of them, `run'
\* ends without error only after the last flush of each forwarder and the
\* orderly end of each shipper.
THEOREM NoWorkIsCutShort == AgentSpec => []CleanExit
<1>1. AgentInv => CleanExit
      BY DEF AgentInv
<1> QED
    BY AgentInvariant, <1>1, PTL
=============================================================================
