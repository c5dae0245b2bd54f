---------------------------- MODULE AgentServices ----------------------------
(***************************************************************************)
(* The agent's calls that go to its engines without a transfer request     *)
(* (core/nixl_agent.cpp): memory views, notifications and connections, and *)
(* the peers the device proxy gives to the agents of a remote view         *)
(* (utils/device/proxy/proxy_runtime.cpp).                                 *)
(*                                                                         *)
(* Engines are numbered in the order of their names.  A descriptor is      *)
(* [agent, slot]; a hole has the agent AvNull.                             *)
(***************************************************************************)
EXTENDS Integers, Sequences, FiniteSets, SequencesExt

CONSTANTS
    AvSelf,        \* this agent's name
    AvNull,        \* nixl_null_agent
    AvScenarios    \* the settings: see avSc

VARIABLES
    avSc,       \* the setting: engines, how many; notif and local, the engines with
                \* these capabilities; has, agent -> its engines; covers, the
                \* registered memory: [agent, slot, eng]; lists, the descriptor
                \* lists asked for; opts, the choices of extra_params->backends;
                \* views, arrivals and calls are bounds
    avLoaded,   \* the agents of remoteSections_ and remoteBackends_
    avTable,    \* mvhToEngine: set of [h, eng]
    avEngine,   \* engine -> its live views: set of [h, want, got]
    avNext,     \* the next view handle
    avPeers,    \* proxyRuntime::peers_: the names in the order of their peers
    avInbox,    \* engine -> notifications it has not delivered
    avArrived,  \* engine -> notifications it ever received
    avGiven,    \* engine -> notifications getNotifs gave to the user
    avConns,    \* connected pairs <<engine, agent>>
    avLast,     \* the last makeConnection: [agent, opt, status]
    avCalls     \* calls made, a bound

avVars == <<avSc, avLoaded, avTable, avEngine, avNext, avPeers, avInbox, avArrived, avGiven,
            avConns, avLast, avCalls>>
avViews == <<avTable, avEngine, avNext, avPeers>>
avNotifs == <<avInbox, avArrived, avGiven>>
avLinks == <<avConns, avLast>>

AvEngines == 1..avSc.engines
NoConnect == [agent |-> AvNull, opt |-> {}, status |-> "none"]

AvInit ==
    /\ avSc \in AvScenarios
    /\ avLoaded = {} /\ avTable = {} /\ avNext = 1 /\ avPeers = <<>>
    /\ avEngine = [e \in AvEngines |-> {}]
    /\ avInbox = [e \in AvEngines |-> <<>>]
    /\ avArrived = avInbox /\ avGiven = avInbox
    /\ avConns = {} /\ avLast = NoConnect /\ avCalls = 0

\* The metadata of a remote agent comes and goes.  The user drops it only when
\* no view of it is left: the views keep the sections' metadata.
AvLoad(agent) ==
    /\ agent \notin avLoaded \cup {AvSelf}
    /\ avLoaded' = avLoaded \cup {agent}
    /\ UNCHANGED <<avSc, avViews, avNotifs, avLinks, avCalls>>

AvInvalidate(agent) ==
    /\ agent \in avLoaded /\ avCalls < avSc.calls
    /\ \A e \in AvEngines : \A v \in avEngine[e] : \A i \in DOMAIN v.want : v.want[i].agent # agent
    /\ avLoaded' = avLoaded \ {agent}
    /\ avConns' = {c \in avConns : c[2] # agent}
    /\ avLast' = NoConnect
    /\ avCalls' = avCalls + 1
    /\ UNCHANGED <<avSc, avViews, avNotifs>>

-----------------------------------------------------------------------------
(* Memory views.                                                             *)

Covered(d, e) == [agent |-> d.agent, slot |-> d.slot, eng |-> e] \in avSc.covers

\* getBackends: the ones named, else those with memory of the section.
GetBackends(opt, agent) ==
    IF opt # {} THEN opt ELSE {c.eng : c \in {x \in avSc.covers : x.agent = agent}}

Real(list) == {i \in DOMAIN list : list[i].agent # AvNull}

\* The engines a remote list may go to: one of those that can add the first
\* real descriptor (their order is the order of their addresses), if it can
\* also add all the others.
ViewEngines(list, opt) ==
    IF Real(list) = {} THEN {}
    ELSE LET i == CHOOSE j \in Real(list) : \A k \in Real(list) : j <= k
         IN  IF list[i].agent \notin avLoaded THEN {}
             ELSE {e \in GetBackends(opt, list[i].agent) : Covered(list[i], e)}

AllAdded(list, e) ==
    \A i \in Real(list) : list[i].agent \in avLoaded /\ Covered(list[i], e)

\* What the engine is given: addElement fills address, length, device and
\* metadata of the descriptor, not its agent; a hole has no metadata.
AddElements(list) ==
    [i \in DOMAIN list |->
        IF list[i].agent = AvNull
        THEN [agent |-> AvNull, md |-> [agent |-> AvNull, slot |-> 0]]
        ELSE [agent |-> "", md |-> list[i]]]

\* proxyRuntime::prepMemView: each name new to it gets the next peer.
PeersWith(got) ==
    FoldLeft(LAMBDA ps, d : IF d.md.agent = AvNull \/ d.agent \in ToSet(ps) THEN ps
                            ELSE Append(ps, d.agent),
             avPeers, got)

\* The peer a descriptor's commands go to.
PeerOf(d) == SelectInSeq(avPeers, LAMBDA a : a = d.agent)

\* The engine made the view, and the agent remembers whose it is.
NewView(e, want, got) ==
    /\ avEngine' = [avEngine EXCEPT ![e] = @ \cup {[h |-> avNext, want |-> want, got |-> got]}]
    /\ avTable' = avTable \cup {[h |-> avNext, eng |-> e]}
    /\ avNext' = avNext + 1

PrepRemoteMemView(list, opt) ==
    /\ avNext <= avSc.views
    /\ \E e \in ViewEngines(list, opt) :
         /\ AllAdded(list, e)
         /\ avPeers' = PeersWith(AddElements(list))
         /\ \/ NewView(e, list, AddElements(list))
            \/ UNCHANGED <<avEngine, avTable, avNext>>
    /\ UNCHANGED <<avSc, avLoaded, avNotifs, avLinks, avCalls>>

\* Any engine with all the local memory takes a local list.
PrepLocalMemView(list, opt) ==
    /\ avNext <= avSc.views
    /\ \E e \in GetBackends(opt, AvSelf) :
         /\ \A i \in DOMAIN list : Covered(list[i], e)
         /\ NewView(e, list, [i \in DOMAIN list |-> [agent |-> "", md |-> list[i]]])
    /\ UNCHANGED <<avSc, avLoaded, avPeers, avNotifs, avLinks, avCalls>>

\* An unknown handle, released twice say, is ignored.
AvReleaseMemView(h) ==
    /\ \E t \in avTable :
         /\ t.h = h
         /\ avEngine' = [avEngine EXCEPT ![t.eng] = {v \in @ : v.h # h}]
         /\ avTable' = avTable \ {t}
    /\ UNCHANGED <<avSc, avLoaded, avNext, avPeers, avNotifs, avLinks, avCalls>>

-----------------------------------------------------------------------------
(* Notifications.                                                            *)

Arrives(e) ==
    /\ avInbox' = [avInbox EXCEPT ![e] = Append(@, Len(avArrived[e]) + 1)]
    /\ avArrived' = [avArrived EXCEPT ![e] = Append(@, Len(@) + 1)]

RemoteNotif(e) ==
    /\ e \in avSc.notif /\ Len(avArrived[e]) < avSc.arrivals
    /\ Arrives(e)
    /\ UNCHANGED <<avSc, avLoaded, avViews, avGiven, avLinks, avCalls>>

\* The engines asked: the named ones that support notifications, or all.
NotifEngines(opt) == IF opt = {} THEN avSc.notif ELSE opt \cap avSc.notif

\* genNotif to this agent itself: the first engine that can send locally
\* sends it, or fails.
GenLocalNotif(opt) ==
    LET able == NotifEngines(opt) \cap avSc.local IN
    /\ able # {} /\ avCalls < avSc.calls
    /\ avCalls' = avCalls + 1
    /\ LET e == CHOOSE x \in able : \A y \in able : x <= y IN
         \/ Len(avArrived[e]) < avSc.arrivals /\ Arrives(e)
         \/ UNCHANGED <<avInbox, avArrived>>
    /\ UNCHANGED <<avSc, avLoaded, avViews, avGiven, avLinks>>

\* Variant: what an engine gave along with an error is dropped.
GatheredOfGood(e, n, bad) == IF e \in bad THEN <<>> ELSE SubSeq(avInbox[e], 1, n)

\* What getNotifs adds to the user's map from engine e, which handed over n
\* notifications and, if e is in bad, an error.
Gathered(e, n, bad) == SubSeq(avInbox[e], 1, n)

\* getNotifs, best effort: every engine is asked whatever the others returned.
AvGetNotifs(opt) ==
    LET asked == NotifEngines(opt) IN
    /\ asked # {} /\ \E e \in asked : avInbox[e] # <<>>
    /\ \E bad \in SUBSET asked : \E n \in [asked -> 0..avSc.arrivals] :
         /\ \A e \in asked : n[e] <= Len(avInbox[e]) /\ (e \notin bad => n[e] = Len(avInbox[e]))
         /\ avInbox' = [e \in AvEngines |->
              IF e \in asked THEN SubSeq(avInbox[e], n[e] + 1, Len(avInbox[e])) ELSE avInbox[e]]
         /\ avGiven' = [e \in AvEngines |->
              IF e \in asked THEN avGiven[e] \o Gathered(e, n[e], bad) ELSE avGiven[e]]
    /\ UNCHANGED <<avSc, avLoaded, avViews, avArrived, avLinks, avCalls>>

-----------------------------------------------------------------------------
(* Connections.                                                              *)

\* The engines makeConnection connects, in the order of their names: the named
\* ones, or those the remote agent's metadata names and this agent has.
ToConnect(agent, opt) == IF opt = {} THEN avSc.has[agent] \cap AvEngines ELSE opt

ConnectStatus(asked, failed) == IF failed # {} THEN "error" ELSE "ok"

\* connect stops at the first engine that fails; the ones before it stay
\* connected.
MakeConnection(agent, opt) ==
    LET asked == ToConnect(agent, opt) IN
    /\ agent \in avLoaded /\ avCalls < avSc.calls
    /\ avCalls' = avCalls + 1
    /\ \/ /\ asked = {}
          /\ avLast' = [agent |-> agent, opt |-> opt, status |-> "no_backend"]
          /\ UNCHANGED avConns
       \/ \E failed \in SUBSET asked :
            LET reached == {e \in asked : \A f \in failed : e < f} IN
            /\ asked # {} /\ Cardinality(failed) <= 1
            /\ avConns' = avConns \cup {<<e, agent>> : e \in reached}
            /\ avLast' = [agent |-> agent, opt |-> opt, status |-> ConnectStatus(asked, failed)]
    /\ UNCHANGED <<avSc, avLoaded, avViews, avNotifs>>

-----------------------------------------------------------------------------
AvStep ==
    \/ \E agent \in DOMAIN avSc.has : AvLoad(agent) \/ AvInvalidate(agent)
    \/ \E list \in avSc.lists, opt \in avSc.opts :
         PrepRemoteMemView(list, opt) \/ PrepLocalMemView(list, opt)
    \/ \E h \in 1..avSc.views : AvReleaseMemView(h)
    \/ \E e \in AvEngines : RemoteNotif(e)
    \/ \E opt \in avSc.opts : GenLocalNotif(opt) \/ AvGetNotifs(opt)
    \/ \E agent \in DOMAIN avSc.has, opt \in avSc.opts : MakeConnection(agent, opt)

\* The agent knows the engine of exactly the views that live, one engine each,
\* and a view's i-th descriptor is the i-th asked for, holes included, since
\* device code addresses them by index (prepMemView, releaseMemView).
AvViewsAgree ==
    /\ avTable = UNION {{[h |-> v.h, eng |-> e] : v \in avEngine[e]} : e \in AvEngines}
    /\ \A e \in AvEngines : \A v \in avEngine[e] :
         /\ Len(v.got) = Len(v.want)
         /\ \A i \in DOMAIN v.want :
              IF v.want[i].agent = AvNull THEN v.got[i].md.slot = 0 ELSE v.got[i].md = v.want[i]

\* Every notification an engine received is with the engine or was given to
\* the user, once and in order, also when engines fail while being asked
\* (getNotifs, genNotif).
AvNotifsKept == \A e \in AvEngines : avGiven[e] \o avInbox[e] = avArrived[e]

\* When makeConnection succeeds, all the engines it was to connect are, and
\* there is one.
AvConnected ==
    avLast.status = "ok" =>
        /\ ToConnect(avLast.agent, avLast.opt) # {}
        /\ \A e \in ToConnect(avLast.agent, avLast.opt) : <<e, avLast.agent>> \in avConns
=============================================================================
