----------------------------- MODULE UcclEngine -----------------------------
(***************************************************************************)
(* The UCCL engine: connections, and transfers with notifications.         *)
(***************************************************************************)
EXTENDS Integers, FiniteSets, Sequences

(***************************************************************************)
(* The connections of the UCCL engine (src/plugins/uccl): every agent has  *)
(* a main thread, which loads the connection information of its peers and  *)
(* holds conn_mutex_ while uccl_engine_connect blocks, and a listener      *)
(* thread, which accepts connections and takes the same mutex to store     *)
(* each of them.  uccl_engine_connect returns when the peer's listener has *)
(* accepted, so main threads wait for listeners and listeners for main     *)
(* threads.  Which agent connects to which is a graph of the set UlGraphs. *)
(***************************************************************************)

CONSTANTS UlAgents,    \* the agents
          UlGraphs,    \* sets of pairs <<a, b>>: a loads b's information
          UlFaults     \* how many accepts may fail

VARIABLES ulTodo,      \* pairs <<a, b>> whose load is not called yet
          ulCall,      \* the peer a main thread is connecting to
          ulKnocks,    \* pairs <<a, b>>: a's connect waits for b's accept
          ulRefused,   \* pairs <<a, b>>: a's connect will fail
          ulListen,    \* the peer a listener accepted and has not stored
          ulConns,     \* the peers in connected_agents_
          ulOpen,      \* the connections an engine has not destroyed
          ulPhase,     \* up, stopping, joined, gone
          ulFaults

ulVars == <<ulTodo, ulCall, ulKnocks, ulRefused, ulListen, ulConns, ulOpen,
            ulPhase, ulFaults>>

\* no peer: the main thread is in no call, the listener is in accept
NoPeer == "none"

UlStart(graph) ==
    /\ ulTodo = graph
    /\ ulCall = [a \in UlAgents |-> NoPeer]
    /\ ulKnocks = {}
    /\ ulRefused = {}
    /\ ulListen = [a \in UlAgents |-> NoPeer]
    /\ ulConns = [a \in UlAgents |-> {}]
    /\ ulOpen = [a \in UlAgents |-> {}]
    /\ ulPhase = [a \in UlAgents |-> "up"]
    /\ ulFaults = UlFaults

UlInit == \E graph \in UlGraphs : UlStart(graph)

\* loadRemoteConnInfo takes conn_mutex_ and calls the blocking connect.
UlLoadRemoteConnInfo(a, b) ==
    /\ <<a, b>> \in ulTodo
    /\ ulPhase[a] = "up"
    /\ ulCall[a] = NoPeer
    /\ ulTodo' = ulTodo \ {<<a, b>>}
    /\ ulCall' = [ulCall EXCEPT ![a] = b]
    /\ IF ulPhase[b] = "up"
       THEN ulKnocks' = ulKnocks \cup {<<a, b>>} /\ UNCHANGED ulRefused
       ELSE ulRefused' = ulRefused \cup {<<a, b>>} /\ UNCHANGED ulKnocks
    /\ UNCHANGED <<ulListen, ulConns, ulOpen, ulPhase, ulFaults>>

\* The connect returned: the connection is stored under the peer's name, or
\* the error is returned; the mutex is released either way.
UlConnectReturns(a) ==
    LET b == ulCall[a] IN
    /\ b # NoPeer
    /\ <<a, b>> \notin ulKnocks
    /\ ulCall' = [ulCall EXCEPT ![a] = NoPeer]
    /\ IF <<a, b>> \in ulRefused
       THEN /\ ulRefused' = ulRefused \ {<<a, b>>}
            /\ UNCHANGED <<ulConns, ulOpen>>
       ELSE /\ ulConns' = [ulConns EXCEPT ![a] = @ \cup {<<"name", b>>}]
            /\ ulOpen' = [ulOpen EXCEPT ![a] = @ \cup {<<"name", b>>}]
            /\ UNCHANGED ulRefused
    /\ UNCHANGED <<ulTodo, ulKnocks, ulListen, ulPhase, ulFaults>>

\* The listener's accept returns a connection and starts its notification
\* listener; the mutex is not needed yet.
UlAccept(b, a) ==
    /\ ulPhase[b] = "up"
    /\ ulListen[b] = NoPeer
    /\ <<a, b>> \in ulKnocks
    /\ ulKnocks' = ulKnocks \ {<<a, b>>}
    /\ ulListen' = [ulListen EXCEPT ![b] = a]
    /\ ulOpen' = [ulOpen EXCEPT ![b] = @ \cup {<<"address", a>>}]
    /\ UNCHANGED <<ulTodo, ulCall, ulRefused, ulConns, ulPhase, ulFaults>>

\* A failed accept is logged and the loop goes on.
UlAcceptFails(b, a) ==
    /\ ulFaults > 0
    /\ ulPhase[b] = "up"
    /\ ulListen[b] = NoPeer
    /\ <<a, b>> \in ulKnocks
    /\ ulKnocks' = ulKnocks \ {<<a, b>>}
    /\ ulRefused' = ulRefused \cup {<<a, b>>}
    /\ ulFaults' = ulFaults - 1
    /\ UNCHANGED <<ulTodo, ulCall, ulListen, ulConns, ulOpen, ulPhase>>

\* The listener stores the connection under the peer's address, once it has
\* conn_mutex_.
UlStoreAccepted(b) ==
    /\ ulListen[b] # NoPeer
    /\ ulCall[b] = NoPeer
    /\ ulConns' = [ulConns EXCEPT ![b] = @ \cup {<<"address", ulListen[b]>>}]
    /\ ulListen' = [ulListen EXCEPT ![b] = NoPeer]
    /\ UNCHANGED <<ulTodo, ulCall, ulKnocks, ulRefused, ulOpen, ulPhase, ulFaults>>

\* disconnect destroys the connection stored under the peer's name.
UlDisconnect(a, b) ==
    /\ ulPhase[a] = "up"
    /\ ulCall[a] = NoPeer
    /\ <<"name", b>> \in ulConns[a]
    /\ ulConns' = [ulConns EXCEPT ![a] = @ \ {<<"name", b>>}]
    /\ ulOpen' = [ulOpen EXCEPT ![a] = @ \ {<<"name", b>>}]
    /\ UNCHANGED <<ulTodo, ulCall, ulKnocks, ulRefused, ulListen, ulPhase, ulFaults>>

\* The destructor sets stop_listener_ and makes accept return: the peers that
\* wait for an accept are refused.
UlStop(a) ==
    LET waiting == {k \in ulKnocks : k[2] = a} IN
    /\ ulPhase[a] = "up"
    /\ ulCall[a] = NoPeer
    /\ ulPhase' = [ulPhase EXCEPT ![a] = "stopping"]
    /\ ulKnocks' = ulKnocks \ waiting
    /\ ulRefused' = ulRefused \cup waiting
    /\ ulTodo' = {k \in ulTodo : k[1] # a}
    /\ UNCHANGED <<ulCall, ulListen, ulConns, ulOpen, ulFaults>>

\* The listener has left its loop and is joined.
UlJoin(a) ==
    /\ ulPhase[a] = "stopping"
    /\ ulListen[a] = NoPeer
    /\ ulPhase' = [ulPhase EXCEPT ![a] = "joined"]
    /\ UNCHANGED <<ulTodo, ulCall, ulKnocks, ulRefused, ulListen, ulConns, ulOpen, ulFaults>>

\* The destructor destroys every connection of the table.
UlDestroy(a) ==
    /\ ulPhase[a] = "joined"
    /\ ulPhase' = [ulPhase EXCEPT ![a] = "gone"]
    /\ ulOpen' = [ulOpen EXCEPT ![a] = @ \ ulConns[a]]
    /\ ulConns' = [ulConns EXCEPT ![a] = {}]
    /\ UNCHANGED <<ulTodo, ulCall, ulKnocks, ulRefused, ulListen, ulFaults>>

UlAgentStep(a) ==
    \/ UlConnectReturns(a)
    \/ UlStoreAccepted(a)
    \/ UlJoin(a)
    \/ UlDestroy(a)

UlNext ==
    \/ \E a, b \in UlAgents :
          \/ UlLoadRemoteConnInfo(a, b)
          \/ UlAccept(b, a)
          \/ UlAcceptFails(b, a)
          \/ UlDisconnect(a, b)
    \/ \E a \in UlAgents : UlAgentStep(a) \/ UlStop(a)

UlListenerAccepts(b) == \E a \in UlAgents : UlAccept(b, a)

UlFairness ==
    \A a \in UlAgents : WF_ulVars(UlAgentStep(a)) /\ WF_ulVars(UlListenerAccepts(a))

UlSpec == UlInit /\ [][UlNext]_ulVars /\ UlFairness

(***************************************************************************)
(* Properties                                                              *)
(***************************************************************************)

\* No call holds conn_mutex_ and no destructor is under way.
UlAtRest == \A a \in UlAgents : ulCall[a] = NoPeer /\ ulPhase[a] \notin {"stopping", "joined"}

\* A destroyed engine has no connection left, accepted ones included: the
\* listener has stored what it accepted before the table is emptied (81-115).
UlAllClosed ==
    \A a \in UlAgents : ulPhase[a] = "gone" => ulOpen[a] = {}

-----------------------------------------------------------------------------
(***************************************************************************)
(* Memory and transfers of one UCCL engine (src/plugins/uccl): regions are *)
(* registered once per address and counted, the connection to the engine's *)
(* own agent is made at the first registration, and a handle keeps the     *)
(* connection it was prepared with while a post looks the connection up    *)
(* again.  The agent's rules are part of the model: a handle whose remote  *)
(* agent was invalidated is neither posted nor polled, and a transfer is   *)
(* polled only while it is in progress.                                    *)
(***************************************************************************)

CONSTANTS UtAddrs,     \* addresses that are registered
          UtPeers,     \* remote agents
          UtSelf,      \* the engine's own agent
          UtConnects,  \* how many connections may be made
          UtPosts,     \* how many posts there are
          UtRegs,      \* how many registrations there are
          UtFaults     \* how many calls of the UCCL library may fail

VARIABLES utMem,       \* mem_reg_info_: address -> [ref, mr], ref 0: no entry
          utHeld,      \* address -> registrations the agent holds
          utMrs,       \* memory regions alive in the library
          utNextMr,
          utConns,     \* connected_agents_: name -> connection, 0: none
          utOpen,      \* connections alive in the library
          utNextConn,
          utPending,   \* pending_local_agent_ is set
          utH,         \* the handle
          utXfers,     \* transfer id -> [conn, mr, done, notif]
          utSent,      \* transfer ids whose notification was sent, in order
          utBad,       \* a post used a dead region or connection
          utFaults

utVars == <<utMem, utHeld, utMrs, utNextMr, utConns, utOpen, utNextConn,
            utPending, utH, utXfers, utSent, utBad, utFaults>>

UtNames == UtPeers \cup {UtSelf}

\* No handle: tid 0 is a handle that was never posted.
NoHandle == [name |-> UtSelf, addr |-> 0, conn |-> 0, tid |-> 0, notif |-> FALSE,
             status |-> "none", live |-> FALSE]

UtInit ==
    /\ utMem = [a \in UtAddrs |-> [ref |-> 0, mr |-> 0]]
    /\ utHeld = [a \in UtAddrs |-> 0]
    /\ utMrs = {}
    /\ utNextMr = 1
    /\ utConns = [n \in UtNames |-> 0]
    /\ utOpen = {}
    /\ utNextConn = 1
    /\ utPending = TRUE
    /\ utH = NoHandle
    /\ utXfers = <<>>
    /\ utSent = <<>>
    /\ utBad = FALSE
    /\ utFaults = UtFaults

\* prepareLocalConn at the end of a first registration: a failed connect is
\* only a warning and the next registration of a new address tries again.
PrepareLocalConn ==
    IF ~utPending THEN UNCHANGED <<utConns, utOpen, utNextConn, utPending, utFaults>>
    ELSE IF utConns[UtSelf] # 0
    THEN utPending' = FALSE /\ UNCHANGED <<utConns, utOpen, utNextConn, utFaults>>
    ELSE \/ /\ utPending' = FALSE
            /\ utConns' = [utConns EXCEPT ![UtSelf] = utNextConn]
            /\ utOpen' = utOpen \cup {utNextConn}
            /\ utNextConn' = utNextConn + 1
            /\ UNCHANGED utFaults
         \/ /\ utFaults > 0
            /\ utFaults' = utFaults - 1
            /\ UNCHANGED <<utConns, utOpen, utNextConn, utPending>>

\* A second registration of an address counts a reference; the first one
\* makes the memory region, its fifo item and the deferred local connection.
UtRegisterMem(a) ==
    /\ utNextMr <= UtRegs
    /\ utHeld' = [utHeld EXCEPT ![a] = @ + 1]
    /\ IF utMem[a].ref > 0
       THEN /\ utHeld[a] < 2
            /\ utMem' = [utMem EXCEPT ![a].ref = @ + 1]
            /\ UNCHANGED <<utMrs, utNextMr, utConns, utOpen, utNextConn, utPending, utFaults>>
       ELSE /\ utMem' = [utMem EXCEPT ![a] = [ref |-> 1, mr |-> utNextMr]]
            /\ utMrs' = utMrs \cup {utNextMr}
            /\ utNextMr' = utNextMr + 1
            /\ PrepareLocalConn
    /\ UNCHANGED <<utH, utXfers, utSent, utBad>>

\* uccl_engine_reg fails, or the fifo item cannot be made and the region is
\* destroyed again.
UtRegisterFails(a) ==
    /\ utFaults > 0
    /\ utMem[a].ref = 0
    /\ utNextMr <= UtRegs
    /\ utNextMr' = utNextMr + 1
    /\ utFaults' = utFaults - 1
    /\ UNCHANGED <<utMem, utHeld, utMrs, utConns, utOpen, utNextConn, utPending,
                   utH, utXfers, utSent, utBad>>

\* The last reference destroys the region and erases the entry.  The last
\* registration of the handle's own address is kept while the handle lives.
UtDeregisterMem(a) ==
    /\ utHeld[a] > 0
    /\ utH.addr # a \/ utHeld[a] > 1
    /\ utHeld' = [utHeld EXCEPT ![a] = @ - 1]
    /\ IF utMem[a].ref > 1
       THEN utMem' = [utMem EXCEPT ![a].ref = @ - 1] /\ UNCHANGED utMrs
       ELSE /\ utMem' = [utMem EXCEPT ![a] = [ref |-> 0, mr |-> 0]]
            /\ utMrs' = utMrs \ {utMem[a].mr}
    /\ UNCHANGED <<utNextMr, utConns, utOpen, utNextConn, utPending, utH, utXfers,
                   utSent, utBad, utFaults>>

\* loadRemoteConnInfo: the agent loads a peer it has no connection to.
UtConnect(n) ==
    /\ n \in UtPeers
    /\ utConns[n] = 0
    /\ utNextConn <= UtConnects
    /\ utConns' = [utConns EXCEPT ![n] = utNextConn]
    /\ utOpen' = utOpen \cup {utNextConn}
    /\ utNextConn' = utNextConn + 1
    /\ UNCHANGED <<utMem, utHeld, utMrs, utNextMr, utPending, utH, utXfers, utSent,
                   utBad, utFaults>>

\* disconnect destroys the connection; the agent has dropped the metadata of
\* the peer before, so the handles to it are expired.
UtDisconnect(n) ==
    /\ n \in UtPeers
    /\ utConns[n] # 0
    /\ utOpen' = utOpen \ {utConns[n]}
    /\ utConns' = [utConns EXCEPT ![n] = 0]
    /\ utH' = IF utH.name = n THEN [utH EXCEPT !.live = FALSE] ELSE utH
    /\ UNCHANGED <<utMem, utHeld, utMrs, utNextMr, utNextConn, utPending, utXfers,
                   utSent, utBad, utFaults>>

\* prepXfer fails without a connection or without the local registration, and
\* otherwise keeps the connection in the handle.
UtPrepXfer(n, a) ==
    /\ utH = NoHandle
    /\ utHeld[a] > 0
    /\ utConns[n] # 0
    /\ utMem[a].ref > 0
    /\ utH' = [NoHandle EXCEPT !.name = n, !.addr = a, !.conn = utConns[n],
                               !.status = "ready", !.live = TRUE]
    /\ UNCHANGED <<utMem, utHeld, utMrs, utNextMr, utConns, utOpen, utNextConn,
                   utPending, utXfers, utSent, utBad, utFaults>>

\* The agent posts a live handle that is not in progress.
UtMayPost == utH.live /\ utH.status \in {"ready", "done", "error"} /\ Len(utXfers) < UtPosts

\* What postXfer leaves in the handle: the notification of an earlier post is
\* reset.
UtPosted(tid, notif) ==
    [utH EXCEPT !.tid = tid, !.notif = notif, !.status = "posted"]

\* postXfer looks connection and region up again and hands the vector over.
UtPostXfer(notif) ==
    LET conn == utConns[utH.name]
        mr == utMem[utH.addr].mr
    IN
    /\ UtMayPost
    /\ conn # 0
    /\ utMem[utH.addr].ref > 0
    /\ utXfers' = Append(utXfers, [conn |-> conn, mr |-> mr, done |-> FALSE,
                                   notif |-> notif])
    /\ utBad' = (utBad \/ conn \notin utOpen \/ mr \notin utMrs)
    /\ utH' = UtPosted(Len(utXfers) + 1, notif)
    /\ UNCHANGED <<utMem, utHeld, utMrs, utNextMr, utConns, utOpen, utNextConn,
                   utPending, utSent, utFaults>>

\* The library refuses the vector: the handle keeps its earlier transfer.
UtPostFails ==
    /\ UtMayPost
    /\ utFaults > 0
    /\ utFaults' = utFaults - 1
    /\ utH' = [utH EXCEPT !.status = "error"]
    /\ UNCHANGED <<utMem, utHeld, utMrs, utNextMr, utConns, utOpen, utNextConn,
                   utPending, utXfers, utSent, utBad>>

\* The library finishes a transfer.
UtLand(t) ==
    /\ t \in DOMAIN utXfers
    /\ ~utXfers[t].done
    /\ utXfers' = [utXfers EXCEPT ![t].done = TRUE]
    /\ UNCHANGED <<utMem, utHeld, utMrs, utNextMr, utConns, utOpen, utNextConn,
                   utPending, utH, utSent, utBad, utFaults>>

\* checkXfer asks the handle's connection for the handle's transfer and sends
\* the notification of a finished one; a send that fails is an error.
UtCheckXfer ==
    /\ utH.live
    /\ utH.status = "posted"
    /\ utXfers[utH.tid].done
    /\ \/ /\ utH' = [utH EXCEPT !.status = "done"]
          /\ utSent' = IF utH.notif THEN Append(utSent, utH.tid) ELSE utSent
          /\ UNCHANGED utFaults
       \/ /\ utH.notif
          /\ utFaults > 0
          /\ utFaults' = utFaults - 1
          /\ utH' = [utH EXCEPT !.status = "error"]
          /\ UNCHANGED utSent
    /\ UNCHANGED <<utMem, utHeld, utMrs, utNextMr, utConns, utOpen, utNextConn,
                   utPending, utXfers, utBad>>

\* releaseReqH deletes the handle.
UtReleaseReqH ==
    /\ utH # NoHandle
    /\ utH' = NoHandle
    /\ UNCHANGED <<utMem, utHeld, utMrs, utNextMr, utConns, utOpen, utNextConn,
                   utPending, utXfers, utSent, utBad, utFaults>>

UtNext ==
    \/ \E a \in UtAddrs :
          \/ UtRegisterMem(a)
          \/ UtRegisterFails(a)
          \/ UtDeregisterMem(a)
          \/ \E n \in UtNames : UtPrepXfer(n, a)
    \/ \E n \in UtNames : UtConnect(n) \/ UtDisconnect(n)
    \/ \E notif \in BOOLEAN : UtPostXfer(notif)
    \/ UtPostFails
    \/ UtCheckXfer
    \/ \E t \in DOMAIN utXfers : UtLand(t)
    \/ UtReleaseReqH

UtSpec == UtInit /\ [][UtNext]_utVars

(***************************************************************************)
(* Properties                                                              *)
(***************************************************************************)

\* A post never uses a region or a connection the library has destroyed, and
\* a handle in progress is polled on the connection its transfer was posted
\* on, over reconnects and repeated registrations (postXfer 582-598, 620-634,
\* checkXfer 705-711).
UtPostsLive ==
    /\ ~utBad
    /\ utH.live /\ utH.status = "posted" => /\ utXfers[utH.tid].conn = utH.conn
                                            /\ utH.conn \in utOpen

\* A notification is sent once, after its transfer is done and only if that
\* post asked for one ("reset so a re-posted handle cannot resend a stale
\* one", uccl_backend.cpp:684).
UtNotifOnce ==
    /\ \A i \in DOMAIN utSent : /\ utXfers[utSent[i]].done
                                /\ utXfers[utSent[i]].notif
    /\ \A i, j \in DOMAIN utSent : i # j => utSent[i] # utSent[j]
=============================================================================
