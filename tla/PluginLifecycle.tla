--------------------------- MODULE PluginLifecycle ---------------------------
(***************************************************************************)
(* The process-wide plugin manager (core/nixl_plugin_manager.cpp) and what *)
(* agents build through it: the tracer, the telemetry exporter and the     *)
(* backend engines of createBackend, up to the agent's destruction.        *)
(* Several agents load, create and destroy concurrently; plugin libraries  *)
(* are found in a list file and in directories, and may be refused.        *)
(***************************************************************************)
EXTENDS Integers, Sequences, FiniteSets

CONSTANTS
    PgAgents,      \* agents of the process
    PgScenarios    \* the settings: see pgSc

VARIABLES
    pgSc,        \* the setting: files, the libraries there are, [kind, at, name,
                 \* good]; statics, backends linked in; tele, the telemetry
                 \* exporters wanted; trace, the trace backends wanted; remote, the
                 \* backends that reach other agents; types, the backends asked for; lives and calls bound the agents' lives and calls
    pgDirs,      \* plugin_dirs_
    pgTable,     \* the loaded_*_plugins_ maps: set of [kind, name, h]
    pgHandles,   \* plugin handles in the order of their creation: [lib, live]
    pgFini,      \* library -> how often its fini ran
    pgCaller,    \* thread -> what it is doing; an agent is used by one thread
    pgAgent,     \* agent -> the tables of its nixlAgentData
    pgObjects    \* engines, exporters and trace backends alive

pgVars == <<pgSc, pgDirs, pgTable, pgHandles, pgFini, pgCaller, pgAgent, pgObjects>>

StaticLib == [kind |-> "backend", at |-> "linked", name |-> "", good |-> TRUE]
NoAgent == [up |-> "no", telemetry |-> FALSE, tracer |-> FALSE, sinks |-> {}, handles |-> {},
            conn |-> {}, notif |-> {}, mems |-> {}, engines |-> {}, lives |-> 0, calls |-> 0]
Idle == [pc |-> "idle", type |-> "", h |-> 0]

\* registerBuiltinPlugins: the linked backends are loaded from the start.
PgInit ==
    /\ pgSc \in PgScenarios
    /\ pgDirs = <<"d1">>
    /\ pgHandles = <<[lib |-> StaticLib, live |-> TRUE]>>
    /\ pgTable = {[kind |-> "backend", name |-> b, h |-> 1] : b \in pgSc.statics}
    /\ pgFini = [l \in pgSc.files |-> 0]
    /\ pgCaller = [a \in PgAgents |-> Idle]
    /\ pgAgent = [a \in PgAgents |-> NoAgent]
    /\ pgObjects = {}

-----------------------------------------------------------------------------
(* Loading.                                                                  *)

\* addPluginDirectory: the newest directory is searched first.
AddPluginDirectory(d) ==
    /\ \A i \in DOMAIN pgDirs : pgDirs[i] # d
    /\ pgDirs' = <<d>> \o pgDirs
    /\ UNCHANGED <<pgSc, pgTable, pgHandles, pgFini, pgCaller, pgAgent, pgObjects>>

Cached(kind, name) == {e.h : e \in {t \in pgTable : t.kind = kind /\ t.name = name}}

\* The libraries tried for a plugin, in order: a backend's path in the list
\* file, then the directories; the loaders refuse one without an init function,
\* with a failing one, or with another API version.
SearchPath(kind) == (IF kind = "backend" THEN <<"list">> ELSE <<>>) \o pgDirs

\* backendLoader and its like for the other kinds.
Accepted(lib) == lib.good

Candidates(kind, name) ==
    LET path == SearchPath(kind)
        good(i) == {l \in pgSc.files : l.kind = kind /\ l.at = path[i] /\ l.name = name
                                       /\ Accepted(l)}
        hits == {i \in DOMAIN path : good(i) # {}}
    IN  IF hits = {} THEN {} ELSE good(CHOOSE i \in hits : \A j \in hits : i <= j)

\* The library name behind a telemetry exporter's name.
FileName(name) == IF name = "prometheus" THEN "prometheus_mp" ELSE name

Opened(lib) == Append(pgHandles, [lib |-> lib, live |-> TRUE])
NewHandle == Len(pgHandles) + 1

\* The result of a load, under the manager's mutex: the handle, or 0, the table
\* and the handles there are.
Unchanged(h) == [h |-> h, table |-> pgTable, handles |-> pgHandles]
Kept(kind, names, lib) ==
    [h |-> NewHandle, handles |-> Opened(lib),
     table |-> pgTable \cup {[kind |-> kind, name |-> n, h |-> NewHandle] : n \in names}]

LoadBackendPlugin(name) ==
    IF Cached("backend", name) # {} THEN {Unchanged(h) : h \in Cached("backend", name)}
    ELSE IF Candidates("backend", name) = {} THEN {Unchanged(0)}
    ELSE {Kept("backend", {name}, lib) : lib \in Candidates("backend", name)}

\* Two names of one exporter share a handle, whichever is loaded first.
LoadTelemetryPlugin(name) ==
    IF Cached("telemetry", name) # {} THEN {Unchanged(h) : h \in Cached("telemetry", name)}
    ELSE IF Cached("telemetry", FileName(name)) # {}
    THEN {[Unchanged(h) EXCEPT !.table = @ \cup {[kind |-> "telemetry", name |-> name, h |-> h]}] :
            h \in Cached("telemetry", FileName(name))}
    ELSE IF Candidates("telemetry", FileName(name)) = {} THEN {Unchanged(0)}
    ELSE {Kept("telemetry", {name, FileName(name)}, lib) :
            lib \in Candidates("telemetry", FileName(name))}

LoadTracePlugin(name) ==
    IF Cached("trace", name) # {} THEN {Unchanged(h) : h \in Cached("trace", name)}
    ELSE IF Candidates("trace", name) = {} THEN {Unchanged(0)}
    ELSE {Kept("trace", {name}, lib) : lib \in Candidates("trace", name)}

\* Nobody is inside the manager's mutex (getBackendParams keeps it longest).
MutexFree == \A a \in PgAgents : pgCaller[a].pc # "params"

\* The last reference to a handle is dropped by caller a: fini runs and the
\* library is closed; the handle of a linked plugin has no library.
StillHeld(a, h) ==
    \/ h = 0
    \/ \E e \in pgTable : e.h = h
    \/ \E b \in PgAgents \ {a} : pgCaller[b].h = h

Drop(a, h) ==
    IF StillHeld(a, h) \/ pgHandles[h].lib = StaticLib THEN UNCHANGED <<pgHandles, pgFini>>
    ELSE /\ pgHandles' = [pgHandles EXCEPT ![h].live = FALSE]
         /\ pgFini' = [pgFini EXCEPT ![pgHandles[h].lib] = @ + 1]

\* Caller a loads a plugin and goes on with its handle.
Load(a, results, type, found, missing) ==
    /\ MutexFree
    /\ \E r \in results :
         /\ pgTable' = r.table
         /\ pgHandles' = r.handles
         /\ pgCaller' = [pgCaller EXCEPT ![a] = [pc |-> IF r.h = 0 THEN missing ELSE found,
                                                type |-> IF r.h = 0 THEN "" ELSE type, h |-> r.h]]
    /\ UNCHANGED <<pgSc, pgDirs, pgFini, pgObjects>>

\* Caller a makes an object with the handle it holds.
Object(a, kind) ==
    LET h == pgCaller[a].h
        lib == pgHandles[h].lib
    IN  [a |-> a, kind |-> kind, name |-> pgCaller[a].type, h |-> h,
         fini |-> IF lib = StaticLib THEN 0 ELSE pgFini[lib]]

Goes(a, pc) == pgCaller' = [pgCaller EXCEPT ![a] = [Idle EXCEPT !.pc = pc]]

-----------------------------------------------------------------------------
(* Plugin queries.                                                           *)

\* getPluginParams: a plugin that is not loaded is opened for the question and
\* closed again before the mutex is given up.
GetBackendParams(a, type) ==
    /\ pgCaller[a].pc = "idle" /\ pgAgent[a].calls < pgSc.calls
    /\ pgAgent' = [pgAgent EXCEPT ![a].calls = @ + 1]
    /\ MutexFree
    /\ IF Cached("backend", type) # {}
       THEN UNCHANGED <<pgHandles, pgCaller>>
       ELSE \E lib \in Candidates("backend", type) :
              /\ pgHandles' = Opened(lib)
              /\ pgCaller' = [pgCaller EXCEPT ![a] = [pc |-> "params", type |-> type, h |-> NewHandle]]
    /\ UNCHANGED <<pgSc, pgDirs, pgTable, pgFini, pgObjects>>

GotBackendParams(a) ==
    /\ pgCaller[a].pc = "params"
    /\ Drop(a, pgCaller[a].h)
    /\ Goes(a, "idle")
    /\ UNCHANGED <<pgSc, pgDirs, pgTable, pgAgent, pgObjects>>

\* unloadBackendPluginForUnitTest: never a linked plugin; the tests call it
\* when no engine of the plugin is there and nobody else is loading it.
UnloadBackendPlugin(type) ==
    /\ MutexFree /\ type \notin pgSc.statics
    /\ \A o \in pgObjects : o.kind = "backend" => o.name # type
    /\ \A a \in PgAgents : pgCaller[a].type # type
    /\ \E e \in pgTable :
         /\ e.kind = "backend" /\ e.name = type
         /\ pgTable' = pgTable \ {e}
         /\ pgHandles' = [pgHandles EXCEPT ![e.h].live = FALSE]
         /\ pgFini' = [pgFini EXCEPT ![pgHandles[e.h].lib] = @ + 1]
    /\ UNCHANGED <<pgSc, pgDirs, pgCaller, pgAgent, pgObjects>>

-----------------------------------------------------------------------------
(* An agent: constructor, createBackend, destructor.                         *)

\* makeAgentTracer: a trace plugin that is missing is skipped.
StartAgent(a) ==
    /\ pgCaller[a].pc = "idle" /\ pgAgent[a].up = "no" /\ pgAgent[a].lives < pgSc.lives
    /\ pgAgent' = [pgAgent EXCEPT ![a].up = "starting", ![a].lives = @ + 1]
    /\ IF pgSc.trace = {}
       THEN /\ Goes(a, "telemetry")
            /\ UNCHANGED <<pgSc, pgDirs, pgTable, pgHandles, pgFini, pgObjects>>
       ELSE \E t \in pgSc.trace : Load(a, LoadTracePlugin(t), t, "tracer", "telemetry")

MakeTracer(a) ==
    /\ pgCaller[a].pc = "tracer"
    /\ pgObjects' = pgObjects \cup {Object(a, "trace")}
    /\ pgAgent' = [pgAgent EXCEPT ![a].tracer = TRUE]
    /\ Drop(a, pgCaller[a].h)
    /\ Goes(a, "telemetry")
    /\ UNCHANGED <<pgSc, pgDirs, pgTable>>

\* makeExporter: a telemetry plugin that is missing is an exception, and the
\* constructor undoes the tracer.
StartTelemetry(a) ==
    /\ pgCaller[a].pc = "telemetry"
    /\ IF pgSc.tele[a] = ""
       THEN /\ pgAgent' = [pgAgent EXCEPT ![a].up = "yes"]
            /\ Goes(a, "idle")
            /\ UNCHANGED <<pgSc, pgDirs, pgTable, pgHandles, pgFini, pgObjects>>
       ELSE /\ Load(a, LoadTelemetryPlugin(pgSc.tele[a]), pgSc.tele[a], "exporter", "tracer_gone")
            /\ UNCHANGED pgAgent

MakeExporter(a) ==
    /\ pgCaller[a].pc = "exporter"
    /\ pgObjects' = pgObjects \cup {Object(a, "telemetry")}
    /\ pgAgent' = [pgAgent EXCEPT ![a].telemetry = TRUE, ![a].up = "yes"]
    /\ Drop(a, pgCaller[a].h)
    /\ Goes(a, "idle")
    /\ UNCHANGED <<pgSc, pgDirs, pgTable>>

Illegal == {{"GDS", "GDS_MT"}}

\* createBackend refuses a type the agent has, and an illegal combination.
Refused(a, type) ==
    \/ type \in pgAgent[a].engines
    \/ \E pair \in Illegal : type \in pair /\ (pair \ {type}) \cap pgAgent[a].engines # {}

CreateBackend(a, type) ==
    /\ pgCaller[a].pc = "idle" /\ pgAgent[a].up = "yes" /\ pgAgent[a].calls < pgSc.calls
    /\ pgAgent' = [pgAgent EXCEPT ![a].calls = @ + 1]
    /\ IF Refused(a, type)
       THEN UNCHANGED <<pgSc, pgDirs, pgTable, pgHandles, pgFini, pgCaller, pgObjects>>
       ELSE Load(a, LoadBackendPlugin(type), type, "create", "idle")

\* createEngine: null, or an engine.
CreateEngine(a) ==
    /\ pgCaller[a].pc = "create"
    /\ \/ /\ pgObjects' = pgObjects \cup {Object(a, "backend")}
          /\ pgCaller' = [pgCaller EXCEPT ![a].pc = "settle"]
          /\ UNCHANGED <<pgHandles, pgFini>>
       \/ /\ Drop(a, pgCaller[a].h)
          /\ Goes(a, "idle")
          /\ UNCHANGED pgObjects
    /\ UNCHANGED <<pgSc, pgDirs, pgTable, pgAgent>>

\* The engine passed its checks and the agent enters it into its tables.
RegisterEngine(a) ==
    LET type == pgCaller[a].type IN
    /\ pgCaller[a].pc = "settle"
    /\ pgAgent' = [pgAgent EXCEPT
         ![a].engines = @ \cup {type}, ![a].handles = @ \cup {type}, ![a].mems = @ \cup {type},
         ![a].conn = @ \cup ({type} \cap pgSc.remote), ![a].notif = @ \cup ({type} \cap pgSc.remote),
         ![a].sinks = IF pgAgent[a].tracer THEN @ \cup {type} ELSE @]
    /\ Drop(a, pgCaller[a].h)
    /\ Goes(a, "idle")
    /\ UNCHANGED <<pgSc, pgDirs, pgTable, pgObjects>>

\* It did not: an initialisation error, no notifications, no connection
\* information, or no connection to itself.  The deleter destroys the engine
\* through the plugin loaded under its type.
Destroyed(a, types) ==
    {o \in pgObjects : o.a = a /\ o.kind = "backend" /\ o.name \in types
                      /\ Cached("backend", o.name) # {}}

RejectEngine(a) ==
    /\ pgCaller[a].pc = "settle" /\ MutexFree
    /\ pgObjects' = pgObjects \ Destroyed(a, {pgCaller[a].type})
    /\ Drop(a, pgCaller[a].h)
    /\ Goes(a, "idle")
    /\ UNCHANGED <<pgSc, pgDirs, pgTable, pgAgent>>

\* Variant: the trace sinks go before the engines.
TearDownSinksFirst == <<"sinks_gone", "engines_gone", "tracer_gone", "telemetry_gone">>

\* The agent's members go in the reverse order of their declaration.
TearDownOrder == <<"engines_gone", "sinks_gone", "tracer_gone", "telemetry_gone">>

EndAgent(a) ==
    /\ pgCaller[a].pc = "idle" /\ pgAgent[a].up = "yes"
    /\ pgAgent' = [pgAgent EXCEPT ![a].up = "ending"]
    /\ Goes(a, TearDownOrder[1])
    /\ UNCHANGED <<pgSc, pgDirs, pgTable, pgHandles, pgFini, pgObjects>>

AfterTearDown(pc) ==
    LET i == CHOOSE j \in DOMAIN TearDownOrder : TearDownOrder[j] = pc IN
    IF i = Len(TearDownOrder) THEN "idle" ELSE TearDownOrder[i + 1]

TearDown(a) ==
    LET pc == pgCaller[a].pc
        gone == CASE pc = "engines_gone" -> Destroyed(a, pgAgent[a].engines)
                  [] pc = "tracer_gone" -> {o \in pgObjects : o.a = a /\ o.kind = "trace"}
                  [] pc = "telemetry_gone" -> {o \in pgObjects : o.a = a /\ o.kind = "telemetry"}
                  [] OTHER -> {}
    IN
    /\ \E i \in DOMAIN TearDownOrder : TearDownOrder[i] = pc
    /\ pc = "engines_gone" => MutexFree
    /\ pgObjects' = pgObjects \ gone
    /\ pgAgent' = [pgAgent EXCEPT ![a] =
         CASE pc = "engines_gone" -> [@ EXCEPT !.engines = {}, !.conn = {}]
           [] pc = "sinks_gone" -> [@ EXCEPT !.sinks = {}]
           [] pc = "tracer_gone" -> [@ EXCEPT !.tracer = FALSE]
           [] pc = "telemetry_gone" -> [NoAgent EXCEPT !.lives = pgAgent[a].lives]]
    /\ Goes(a, AfterTearDown(pc))
    /\ UNCHANGED <<pgSc, pgDirs, pgTable, pgHandles, pgFini>>

-----------------------------------------------------------------------------
PgStep ==
    \/ \E d \in {"d1", "d2"} : AddPluginDirectory(d)
    \/ \E type \in pgSc.types : UnloadBackendPlugin(type)
    \/ \E a \in PgAgents :
         \/ \E type \in pgSc.types : GetBackendParams(a, type) \/ CreateBackend(a, type)
         \/ GotBackendParams(a) \/ StartAgent(a) \/ MakeTracer(a) \/ StartTelemetry(a)
         \/ MakeExporter(a) \/ CreateEngine(a) \/ RegisterEngine(a) \/ RejectEngine(a)
         \/ EndAgent(a) \/ TearDown(a)

\* An engine, exporter or trace backend lives only while the handle it came
\* from is loaded and its library was not finalised meanwhile, through any
\* name, temporary load or agent; a library is open at most once; an engine's
\* trace sink and the sink's tracer outlive it (loadBackendPlugin,
\* loadTelemetryPlugin, getBackendParams, nixlAgentData's members).
PgOutlived ==
    /\ \A o \in pgObjects :
         /\ pgHandles[o.h].live
         /\ pgHandles[o.h].lib # StaticLib => pgFini[pgHandles[o.h].lib] = o.fini
    /\ \A i, j \in DOMAIN pgHandles :
         pgHandles[i].live /\ pgHandles[j].live /\ pgHandles[i].lib = pgHandles[j].lib => i = j
    /\ \A a \in PgAgents :
         LET used == {o.name : o \in {x \in pgObjects : x.a = a /\ x.kind = "backend"}} IN
         /\ pgAgent[a].tracer => used \subseteq pgAgent[a].sinks \cup {pgCaller[a].type}
         /\ used # {} /\ pgSc.trace # {} /\ pgAgent[a].sinks # {} => pgAgent[a].tracer

\* Between two calls the agent's tables describe the engines that exist and
\* nothing else, whatever createBackend failed at, and no two of them are an
\* illegal combination.
PgTablesAgree ==
    \A a \in PgAgents : pgCaller[a].pc = "idle" =>
        LET used == {o.name : o \in {x \in pgObjects : x.a = a /\ x.kind = "backend"}} IN
        /\ pgAgent[a].engines = used /\ pgAgent[a].handles = used /\ pgAgent[a].mems = used
        /\ pgAgent[a].conn = used \cap pgSc.remote /\ pgAgent[a].notif = used \cap pgSc.remote
        /\ pgAgent[a].tracer => pgAgent[a].sinks = used
        /\ \A pair \in Illegal : ~(pair \subseteq used)
==============================================================================
