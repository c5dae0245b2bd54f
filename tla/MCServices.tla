----------------------------- MODULE MCServices ------------------------------
(***************************************************************************)
(* What surrounds the agent's transfers: the metrics directory of several  *)
(* processes, the shared ring and the staging queue of the telemetry, the  *)
(* DOCA exporter, the plugins, the agent's views, notifications and        *)
(* connections, and the tracing.  They share no state, so each is explored *)
(* by itself, the others at rest.                                          *)
(***************************************************************************)
EXTENDS MetricsDir, Telemetry, PluginLifecycle, AgentServices, Tracing

VARIABLE part

-----------------------------------------------------------------------------
\* Metrics directory: a process restarts, a file is junk, flock is missing or a
\* foreign server holds the port.
PmScenario(f, j, fo, si, n, t, c) ==
    [time |-> t, count |-> c, flock |-> f, junk |-> j, foreign |-> fo, silent |-> si, files |-> n]
MCPmScenarios ==
    {PmScenario(TRUE, FALSE, FALSE, {}, 3, 1, 0), PmScenario(TRUE, TRUE, FALSE, {}, 3, 2, 1),
     PmScenario(FALSE, TRUE, FALSE, {}, 2, 2, 1), PmScenario(FALSE, FALSE, FALSE, {}, 2, 2, 1),
     PmScenario(TRUE, FALSE, TRUE, {2}, 2, 2, 1)}

\* Shared ring: capacity, working flock, the file found at the start, pushes, starts
\* of the producer, opens of the consumer.
SrScenario(c, f, o, p, s, n) ==
    [cap |-> c, flock |-> f, old |-> o, pushes |-> p, starts |-> s, opens |-> n]
MCSrScenarios ==
    {SrScenario(2, TRUE, 0, 4, 3, 2), SrScenario(4, TRUE, 1, 5, 2, 2),
     SrScenario(4, FALSE, 1, 3, 3, 2), SrScenario(2, TRUE, 2, 2, 2, 2)}

\* Staging queue: a batch fits or not, every metric enabled or some.
TpScenario(c, e, n, p) == [cap |-> c, mask |-> e, calls |-> n, phases |-> p]
MCTpScenarios ==
    {TpScenario(4, {"count", "post_time", "xfer_time", "bytes", "requests", "dropped", "phases"},
                2, 1),
     TpScenario(3, {"count", "xfer_time", "bytes", "dropped"}, 2, 2)}

\* Plugins: one agent and four libraries, two of them of one name, one refused;
\* two agents that share a telemetry and a trace plugin.
Library(k, at, n, g) == [kind |-> k, at |-> at, name |-> n, good |-> g]
PgScenario(f, st, te, tr, re, ty, li, ca) ==
    [files |-> f, statics |-> st, tele |-> te, trace |-> tr, remote |-> re, types |-> ty,
     lives |-> li, calls |-> ca]
MCPgScenarios ==
    {PgScenario({Library("backend", "d1", "GDS", TRUE), Library("backend", "d2", "GDS", TRUE),
                 Library("backend", "list", "GDS_MT", FALSE),
                 Library("backend", "d1", "GDS_MT", TRUE)},
                {"UCX"}, <<"", "">>, {}, {"UCX"}, {"UCX", "GDS", "GDS_MT"}, 1, 2),
     PgScenario({Library("backend", "d1", "GDS", TRUE),
                 Library("telemetry", "d1", "prometheus_mp", TRUE),
                 Library("telemetry", "d2", "prometheus_mp", TRUE),
                 Library("trace", "d2", "nvtx", TRUE)},
                {}, <<"prometheus", "prometheus_mp">>, {"nvtx"}, {"GDS"}, {"GDS"}, 2, 1)}

\* Agent services: views over lists with holes and of several agents;
\* notifications and connections of two engines, of which only one reaches c.
Elem(a, s) == [agent |-> a, slot |-> s]
Covers(a, s, e) == [agent |-> a, slot |-> s, eng |-> e]
Hole == Elem(AvNull, 0)
AvScenario(n, no, lo, ha, co, li, op, vi, ar, ca) ==
    [engines |-> n, notif |-> no, local |-> lo, has |-> ha, covers |-> co, lists |-> li,
     opts |-> op, views |-> vi, arrivals |-> ar, calls |-> ca]
MCAvScenarios ==
    {AvScenario(2, {1, 2}, {2}, [b |-> {1, 2}, c |-> {1}],
                {Covers("b", 1, 1), Covers("b", 1, 2), Covers("c", 1, 1), Covers("self", 1, 2)},
                {<<Elem("b", 1), Hole, Elem("c", 1)>>, <<Hole, Elem("b", 1)>>,
                 <<Elem("self", 1)>>, <<Hole>>},
                {{}, {2}}, 3, 0, 1),
     AvScenario(2, {1, 2}, {2}, [b |-> {1, 2}, c |-> {3}], {}, {}, {{}, {2}}, 0, 2, 3)}

\* Tracing: blocks of random bytes that end inside an id, a failing source,
\* colliding and distinct names.
TcScenario(b, k, h, f, r, p) ==
    [block |-> b, kept |-> k, hash |-> h, slots |-> 4, names |-> <<"x", "y">>, fails |-> f,
     requests |-> r, posts |-> p]
Colliding == [x |-> 3, y |-> 3, z |-> 3]
MCTcScenarios ==
    {TcScenario(3, 1, Colliding, TRUE, <<1, 1>>, <<3, 1>>),
     TcScenario(5, 4, [Colliding EXCEPT !.z = 1], FALSE, <<2, 1>>, <<2, 1>>)}
-----------------------------------------------------------------------------
vars == <<pmVars, srVars, tpVars, pgVars, avVars, tcVars, dxVars, part>>

Some(scenarios) == CHOOSE s \in scenarios : TRUE

Init ==
    /\ part \in {"pm", "sr", "tp", "pg", "av", "tc", "dx"}
    /\ PmInit /\ (part # "pm" => pmSc = Some(PmScenarios))
    /\ SrInit /\ (part # "sr" => srSc = Some(SrScenarios))
    /\ TpInit /\ (part # "tp" => tpSc = Some(TpScenarios))
    /\ PgInit /\ (part # "pg" => pgSc = Some(PgScenarios))
    /\ AvInit /\ (part # "av" => avSc = Some(AvScenarios))
    /\ TcInit /\ (part # "tc" => tcSc = Some(TcScenarios))
    /\ DxInit

Next ==
    \/ /\ part = "pm" /\ PmNext
       /\ UNCHANGED <<srVars, tpVars, pgVars, avVars, tcVars, dxVars, part>>
    \/ /\ part = "sr" /\ SrStep
       /\ UNCHANGED <<pmVars, tpVars, pgVars, avVars, tcVars, dxVars, part>>
    \/ /\ part = "tp" /\ TpStep
       /\ UNCHANGED <<pmVars, srVars, pgVars, avVars, tcVars, dxVars, part>>
    \/ /\ part = "pg" /\ PgStep
       /\ UNCHANGED <<pmVars, srVars, tpVars, avVars, tcVars, dxVars, part>>
    \/ /\ part = "av" /\ AvStep
       /\ UNCHANGED <<pmVars, srVars, tpVars, pgVars, tcVars, dxVars, part>>
    \/ /\ part = "tc" /\ TcStep
       /\ UNCHANGED <<pmVars, srVars, tpVars, pgVars, avVars, dxVars, part>>
    \/ /\ part = "dx" /\ DxStep
       /\ UNCHANGED <<pmVars, srVars, tpVars, pgVars, avVars, tcVars, part>>

Spec == Init /\ [][Next]_vars
-----------------------------------------------------------------------------
(* The metrics of several processes are told once and truly: a scrape      *)
(* shows of every store what it held and only the newest of one identity   *)
(* (PmHonest), a store is reaped only after its writer is gone             *)
(* (PmReapedLate), and one process at a time answers (PmOneServer).        *)
MetricsTrue == part = "pm" => PmHonest /\ PmReapedLate /\ PmOneServer

(* Between a call and whoever reads it no event is lost, repeated or torn: *)
(* the staging queue keeps batches whole and counts what it rejects        *)
(* (TpConserved), the ring gives the consumer what was pushed, in order    *)
(* (SrExact), a producer that starts again leaves an attached consumer its *)
(* ring (SrAttachedKept), and the DOCA exporters of one process share one  *)
(* whole context and flush what each recorded (DxContextWhole, DxFlushed). *)
TelemetryExact ==
    /\ []((part = "tp" => TpConserved) /\ (part = "sr" => SrExact)
          /\ (part = "dx" => DxContextWhole /\ DxFlushed))
    /\ SrAttachedKept

(* No engine, exporter or trace backend is used or destroyed after the     *)
(* library it comes from was closed (PgOutlived), and the tables of an     *)
(* agent name the same engines (PgTablesAgree).                            *)
PluginsOutlive == part = "pg" => PgOutlived /\ PgTablesAgree

(* A view gives its user what they asked for, holes included, in the table *)
(* and in the engine alike (AvViewsAgree); every notification that arrived *)
(* is given once, whichever engine fails (AvNotifsKept); makeConnection    *)
(* reports success only when it connected (AvConnected).                   *)
ServicesAnswer == part = "av" => AvViewsAgree /\ AvNotifsKept /\ AvConnected

(* Parent and forked child never draw the same random bytes (TcFreshBytes),*)
(* a notification names the span of the post that sent it (TcSpansTold),   *)
(* an execution ends once, under its own span (TcOneEnd), and a name       *)
(* always finds its own registered string (TcTables).                      *)
TracesTold == part = "tc" => TcFreshBytes /\ TcSpansTold /\ TcOneEnd /\ TcTables
==============================================================================
