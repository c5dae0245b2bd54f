-------------------------- MODULE LibfabricHandshake --------------------------
(***************************************************************************)
(* Connection setup of the libfabric engine                                *)
(* (src/plugins/libfabric/libfabric_handshake.cpp and the connection       *)
(* functions of libfabric_backend.cpp), between two agents.                *)
(*                                                                         *)
(* An agent that loads its peer's connection info enters the peer's        *)
(* addresses in its address vectors and then sends a handshake.  A side    *)
(* that holds a handshake of its peer takes it that the peer can attribute *)
(* its traffic, and starts transfers.  A user thread, the thread that      *)
(* progresses rail 0 and the CM thread of one agent run concurrently; the  *)
(* steps below end where the code releases a lock.                         *)
(*                                                                         *)
(* An agent may stop and start again under its name: it then has new       *)
(* endpoints, and what was sent to the old ones is lost.  libfabric's      *)
(* reliable datagrams arrive in any order.                                 *)
(***************************************************************************)
EXTENDS Integers, Sequences

CONSTANTS
    HsAgents,       \* two names
    HsVersions,     \* per agent, NIXL_LIBFABRIC_PROTO_VERSION of the builds it may be
    HsLoads,        \* per agent, bound on its loads, over its lives
    HsDisconnects,  \* bound on disconnects, both agents together
    HsRestarts,     \* bound on restarts, both agents together
    HsFaults        \* bound on handshakes that cannot be posted

VARIABLES
    hsVer,      \* protocol version of each agent
    hsPt,       \* progress_thread_enabled_
    hsLife,     \* which life an agent is in; its endpoints belong to it
    hsConn,     \* connections_: the record for the peer, a sequence of at most one
    hsAv,       \* lives of the peer whose addresses resolve (src_addr_to_agent_)
    hsBuf,      \* pending_inbound_handshakes_: 0, or the life that sent it
    hsRejBuf,   \* pending_rejected_handshakes_
    hsNet,      \* handshakes under way
    hsSend,     \* threads between creating a record and sending on it: a set of records
    hsIn,       \* the handshake whose handler is between two locks
    hsReplies,  \* pending_replies_
    hsCm,       \* the reply the CM thread has checked and is about to send
    hsWait,     \* a thread waits in establishConnection
    hsCount     \* [load, disc, restart, fault, orphan] so far

hsVars == <<hsVer, hsPt, hsLife, hsConn, hsAv, hsBuf, hsRejBuf, hsNet, hsSend, hsIn,
            hsReplies, hsCm, hsWait, hsCount>>
hsStore == <<hsBuf, hsRejBuf>>
hsThreads == <<hsSend, hsIn, hsReplies, hsCm, hsWait>>
hsFixed == <<hsVer, hsPt, hsLife>>

HsPeer(a) == CHOOSE b \in HsAgents : b # a
HsLives == 1..HsRestarts + 1
HsHas(a) == hsConn[a] # <<>>
HsRec(a) == hsConn[a][1]
HsSame(a, k) == HsHas(a) /\ HsRec(a).key = k

(* nixlLibfabricConnection.  "key" is the object's identity, "to" the life *)
(* whose addresses it holds, "got" is handshake_received_: 0, or the life  *)
(* of the peer whose handshake set it.                                     *)
HsRecord(a, to) ==
    [key |-> hsCount.made[a] + 1, to |-> to, got |-> hsBuf[a], rej |-> hsRejBuf[a], up |-> FALSE]

HsInit ==
    /\ hsVer \in {v \in [HsAgents -> UNION {HsVersions[a] : a \in HsAgents}] :
                  \A a \in HsAgents : v[a] \in HsVersions[a]} /\ hsPt \in BOOLEAN
    /\ hsLife = [a \in HsAgents |-> 1]
    /\ hsConn = [a \in HsAgents |-> <<>>] /\ hsAv = [a \in HsAgents |-> {}]
    /\ hsBuf = [a \in HsAgents |-> 0] /\ hsRejBuf = [a \in HsAgents |-> FALSE]
    /\ hsNet = {}
    /\ hsSend = [a \in HsAgents |-> {}] /\ hsIn = [a \in HsAgents |-> <<>>]
    /\ hsReplies = [a \in HsAgents |-> <<>>] /\ hsCm = [a \in HsAgents |-> <<>>]
    /\ hsWait = [a \in HsAgents |-> FALSE]
    /\ hsCount = [made |-> [a \in HsAgents |-> 0], load |-> [a \in HsAgents |-> 0], disc |-> 0,
                  restart |-> 0, fault |-> 0]

(* What a handshake carries.  It brings the sender's addresses unless the  *)
(* sender already holds a handshake of the receiver.                       *)
HsMsg(a, c) ==
    [to |-> HsPeer(a), life |-> c.to, from |-> hsLife[a], ver |-> hsVer[a],
     hasConn |-> c.got = 0]

(* sendHandshakeTo: a post that fails is reported and not retried.         *)
SendHandshakeTo(a, c, net) ==
    \/ hsNet' = net \cup {HsMsg(a, c)} /\ UNCHANGED hsCount
    \/ /\ hsCount.fault < HsFaults
       /\ hsCount' = [hsCount EXCEPT !.fault = @ + 1]
       /\ hsNet' = net

(* insertAllAddresses: the endpoints of one life of the peer, on all rails.*)
InsertAllAddresses(a, life) == [hsAv EXCEPT ![a] = @ \cup {life}]

(* createAgentConnection, under connection_state_mutex_ and for a peer     *)
(* without a record: enters the addresses, registers the record, applies   *)
(* what was buffered for the peer.  The caller then has a handshake to     *)
(* send.                                                                   *)
CreateAgentConnection(a, life) ==
    \E c \in {HsRecord(a, life)} :
        /\ hsAv' = InsertAllAddresses(a, life)
        /\ hsConn' = [hsConn EXCEPT ![a] = <<c>>]
        /\ hsBuf' = [hsBuf EXCEPT ![a] = 0]
        /\ hsRejBuf' = [hsRejBuf EXCEPT ![a] = FALSE]
        /\ hsSend' = [hsSend EXCEPT ![a] = @ \cup {c}]

(* getConnInfo: the endpoints of the agent's present life.                 *)
GetConnInfo(a) == hsLife[a]

(* loadRemoteConnInfo, called with what the peer last published.  For a    *)
(* peer that has a record it does nothing.                                 *)
LoadRemoteConnInfo(a) ==
    /\ hsCount.load[a] < HsLoads[a] /\ ~HsHas(a)
    /\ CreateAgentConnection(a, GetConnInfo(HsPeer(a)))
    /\ hsCount' = [hsCount EXCEPT !.made[a] = @ + 1, !.load[a] = @ + 1]
    /\ UNCHANGED <<hsFixed, hsNet, hsIn, hsReplies, hsCm, hsWait>>

(* The thread that created a record sends on it after the unlock.  What it *)
(* sends depends on what has arrived by then.                              *)
SendAfterLoad(a) ==
    \E c \in hsSend[a] :
        /\ hsSend' = [hsSend EXCEPT ![a] = @ \ {c}]
        /\ SendHandshakeTo(a, IF HsSame(a, c.key) THEN HsRec(a) ELSE c, hsNet)
        /\ UNCHANGED <<hsFixed, hsConn, hsAv, hsStore, hsIn, hsReplies, hsCm, hsWait>>

(* rejectHandshake: a peer of another protocol version.                    *)
RejectHandshake(a, m) ==
    /\ IF HsHas(a)
       THEN hsConn' = [hsConn EXCEPT ![a][1].rej = TRUE] /\ UNCHANGED hsRejBuf
       ELSE hsRejBuf' = [hsRejBuf EXCEPT ![a] = TRUE] /\ UNCHANGED hsConn
    /\ hsNet' = hsNet \ {m}
    /\ UNCHANGED <<hsBuf, hsIn, hsReplies, hsCount>>

(* The reply to a peer that has not had a handshake of ours: queued for    *)
(* the CM thread (queueHandshakeReply) when a progress thread runs the     *)
(* handler, otherwise sent in place.                                       *)
Reply(a, c, net) ==
    IF hsPt
    THEN /\ hsReplies' = [hsReplies EXCEPT ![a] = Append(@, c)]
         /\ hsNet' = net /\ UNCHANGED hsCount
    ELSE SendHandshakeTo(a, c, net) /\ UNCHANGED hsReplies

(* Variant: a peer we have loaded is not answered.                         *)
StoreOnly(a, m) ==
    /\ hsConn' = [hsConn EXCEPT ![a][1].got = m.from]
    /\ hsNet' = hsNet \ {m}
    /\ UNCHANGED <<hsStore, hsIn, hsReplies, hsCount>>

(* handleHandshake for a registered peer.                                  *)
StoreHandshake(a, m) ==
    \E c \in {[HsRec(a) EXCEPT !.got = m.from]}, net \in {hsNet \ {m}} :
        /\ hsConn' = [hsConn EXCEPT ![a] = <<c>>]
        /\ IF m.hasConn
           THEN Reply(a, c, net)
           ELSE hsNet' = net /\ UNCHANGED <<hsReplies, hsCount>>
        /\ UNCHANGED <<hsStore, hsIn>>

(* handleHandshake up to the lookup of the peer's record, and what follows *)
(* when there is one.  Without one the handler goes on in the steps below. *)
HandleHandshake(a) ==
    \E m \in hsNet :
        /\ m.to = a /\ m.life = hsLife[a] /\ hsIn[a] = <<>>
        /\ \/ m.ver # hsVer[a] /\ RejectHandshake(a, m)
           \/ m.ver = hsVer[a] /\ HsHas(a) /\ StoreHandshake(a, m)
           \/ /\ m.ver = hsVer[a] /\ ~HsHas(a)
              /\ hsIn' = [hsIn EXCEPT ![a] = <<[msg |-> m, at |-> "buffer"]>>]
              /\ hsNet' = hsNet \ {m}
              /\ UNCHANGED <<hsConn, hsStore, hsReplies, hsCount>>
        /\ UNCHANGED <<hsFixed, hsAv, hsSend, hsCm, hsWait>>

(* handleHandshake for an unknown peer: its name is buffered; a handshake  *)
(* without addresses ends here.                                            *)
BufferHandshake(a) ==
    /\ hsIn[a] # <<>> /\ hsIn[a][1].at = "buffer"
    /\ hsBuf' = [hsBuf EXCEPT ![a] = hsIn[a][1].msg.from]
    /\ hsIn' = [hsIn EXCEPT ![a] = IF @[1].msg.hasConn THEN <<[@[1] EXCEPT !.at = "load"]>>
                                                       ELSE <<>>]
    /\ UNCHANGED <<hsFixed, hsConn, hsAv, hsRejBuf, hsNet, hsSend, hsReplies, hsCm, hsWait,
                   hsCount>>

(* handleHandshake for an unknown peer: loads the addresses that came with *)
(* the handshake.  A record the user's thread made meanwhile stays.        *)
LoadPiggybacked(a) ==
    /\ hsIn[a] # <<>> /\ hsIn[a][1].at = "load"
    /\ hsIn' = [hsIn EXCEPT ![a] = <<>>]
    /\ IF HsHas(a)
       THEN UNCHANGED <<hsAv, hsConn, hsStore, hsSend, hsCount>>
       ELSE /\ CreateAgentConnection(a, hsIn[a][1].msg.from)
            /\ hsCount' = [hsCount EXCEPT !.made[a] = @ + 1]
    /\ UNCHANGED <<hsFixed, hsNet, hsReplies, hsCm, hsWait>>

(* cmThread: takes a reply and drops it when its record is no longer the   *)
(* registered one.                                                         *)
CmTake(a) ==
    /\ hsReplies[a] # <<>> /\ hsCm[a] = <<>>
    /\ hsReplies' = [hsReplies EXCEPT ![a] = Tail(@)]
    /\ hsCm' = [hsCm EXCEPT ![a] = IF HsSame(a, Head(hsReplies[a]).key)
                                   THEN <<Head(hsReplies[a])>> ELSE <<>>]
    /\ UNCHANGED <<hsFixed, hsConn, hsAv, hsStore, hsNet, hsSend, hsIn, hsWait, hsCount>>

(* cmThread: the reply it checked.                                         *)
CmSend(a) ==
    /\ hsCm[a] # <<>>
    /\ hsCm' = [hsCm EXCEPT ![a] = <<>>]
    /\ SendHandshakeTo(a, hsCm[a][1], hsNet)
    /\ UNCHANGED <<hsFixed, hsConn, hsAv, hsStore, hsSend, hsIn, hsReplies, hsWait>>

(* connect, up to the wait for a handshake.                                *)
Connect(a) ==
    /\ HsHas(a) /\ ~hsWait[a] /\ ~HsRec(a).up
    /\ hsWait' = [hsWait EXCEPT ![a] = TRUE]
    /\ UNCHANGED <<hsFixed, hsConn, hsAv, hsStore, hsNet, hsSend, hsIn, hsReplies, hsCm, hsCount>>

(* establishConnection after the wait, which a stored or rejected          *)
(* handshake ends, or the deadline; the last two are errors.               *)
EstablishConnection(a) ==
    /\ hsWait[a]
    /\ hsWait' = [hsWait EXCEPT ![a] = FALSE]
    /\ hsConn' = [hsConn EXCEPT ![a][1].up = HsRec(a).got # 0 /\ ~HsRec(a).rej]
    /\ UNCHANGED <<hsFixed, hsAv, hsStore, hsNet, hsSend, hsIn, hsReplies, hsCm, hsCount>>

(* disconnect: forgets the record and the replies queued for the peer.     *)
(* The address vectors keep the peer's addresses.  A thread that waits     *)
(* keeps the dropped record, which nothing updates or finds any more.      *)
Disconnect(a) ==
    /\ HsHas(a) /\ hsCount.disc < HsDisconnects
    /\ hsConn' = [hsConn EXCEPT ![a] = <<>>]
    /\ hsReplies' = [hsReplies EXCEPT ![a] = <<>>]
    /\ hsSend' = [hsSend EXCEPT ![a] = {IF c.key = HsRec(a).key THEN HsRec(a) ELSE c : c \in @}]
    /\ hsWait' = [hsWait EXCEPT ![a] = FALSE]
    /\ hsCount' = [hsCount EXCEPT !.disc = @ + 1]
    /\ UNCHANGED <<hsFixed, hsAv, hsStore, hsNet, hsIn, hsCm>>

(* ~nixlLibfabricEngine, and a new engine under the same name.  The        *)
(* threads are stopped and joined first, so no step is under way.          *)
Restart(a) ==
    /\ hsCount.restart < HsRestarts
    /\ hsSend[a] = {} /\ hsIn[a] = <<>> /\ hsCm[a] = <<>> /\ ~hsWait[a]
    /\ hsLife' = [hsLife EXCEPT ![a] = @ + 1]
    /\ hsConn' = [hsConn EXCEPT ![a] = <<>>] /\ hsAv' = [hsAv EXCEPT ![a] = {}]
    /\ hsBuf' = [hsBuf EXCEPT ![a] = 0] /\ hsRejBuf' = [hsRejBuf EXCEPT ![a] = FALSE]
    /\ hsReplies' = [hsReplies EXCEPT ![a] = <<>>]
    /\ hsNet' = {m \in hsNet : m.to # a}
    /\ hsCount' = [hsCount EXCEPT !.restart = @ + 1]
    /\ UNCHANGED <<hsVer, hsPt, hsSend, hsIn, hsCm, hsWait>>

HsStep(a) ==
    \/ SendAfterLoad(a) \/ HandleHandshake(a) \/ BufferHandshake(a) \/ LoadPiggybacked(a)
    \/ CmTake(a) \/ CmSend(a)

HsNext == \E a \in HsAgents :
    \/ LoadRemoteConnInfo(a) \/ Connect(a) \/ EstablishConnection(a) \/ Disconnect(a)
    \/ Restart(a) \/ HsStep(a)

(* Threads run; callers of the engine may stop calling.                    *)
HsFairness == \A a \in HsAgents : WF_hsVars(HsStep(a))

HsSpec == HsInit /\ [][HsNext]_hsVars /\ HsFairness
-----------------------------------------------------------------------------
(* A side that holds a handshake of the peer's present life, and has that  *)
(* life's addresses, can be attributed by the peer: the peer's address     *)
(* vectors resolve our endpoints, so our writes and notifications are not  *)
(* dropped there as coming from an unknown source.                         *)
HsAttributed ==
    \A a \in HsAgents : \A b \in HsAgents \ {a} :
        (HsHas(a) /\ HsRec(a).got = hsLife[b]) => hsLife[a] \in hsAv[b]

(* A loaded record leads to the peer's present life, and so does the       *)
(* peer's own; the peer need not have loaded one unless one of the two has *)
(* disconnected or restarted.                                              *)
HsSettled(a) ==
    \A b \in HsAgents \ {a} :
        /\ HsHas(a) /\ HsRec(a).to = hsLife[b] /\ hsVer[a] = hsVer[b]
        /\ IF HsHas(b) THEN HsRec(b).to = hsLife[a] ELSE hsCount.disc + hsCount.restart = 0

(* Between agents that stay, whichever side loads first and whatever       *)
(* crosses on the way, both get the other's handshake, unless one could    *)
(* not be posted; so establishConnection does not run into its timeout.    *)
HsCompletes ==
    <>[](\E a \in HsAgents : HsSettled(a)) =>
        <>(hsCount.fault > 0 \/ \A b \in HsAgents : HsHas(b) /\ HsRec(b).got # 0)
=============================================================================
