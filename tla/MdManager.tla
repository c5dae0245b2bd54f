------------------------------ MODULE MdManager ------------------------------
(***************************************************************************)
(* The metadata manager (src/core/nixl_md_manager.cpp) over its backends,  *)
(* in a build without etcd: a call with a peer address goes to the P2P     *)
(* backend, any other to the TCPStore backend if one is configured.        *)
(***************************************************************************)
EXTENDS P2PExchange

CONSTANTS KeyOrder, MaxAge, MaxStoreCalls, MaxFetches, MaxStoreFaults

VARIABLES
    backend,    \* the name-addressed backend, or None
    refused,    \* noTransport was returned
    kv, late, conn, ptasks, published, todo, wish, stray,
    rtasks, rstage, rkey, pending, pass, budget, loaded, used

storeVars == <<kv, late, conn, ptasks, published, todo, wish, stray,
               rtasks, rstage, rkey, pending, pass, budget, loaded, used>>
managerVars == <<backend, refused, p2pVars, storeVars>>

TCPStore == INSTANCE TCPStoreExchange WITH MaxCalls <- MaxStoreCalls, MaxFaults <- MaxStoreFaults

(* The backend the environment configures.                                 *)
MakeBackend(endpoint) == IF endpoint = None THEN None ELSE "tcpstore"

(* hasAddress and select                                                   *)
Select(address) == IF address # None THEN "p2p" ELSE backend

ManagerInit ==
    /\ \E endpoint \in {None, "host:port"} : backend = MakeBackend(endpoint)
    /\ refused = "no"
    /\ P2PInit /\ TCPStore!Init

(* A call, routed; with no backend for it, noTransport.                    *)
Call(address) ==
    \/ /\ Select(address) = "p2p" /\ \E a \in Agents : PeerCall(a)
       /\ UNCHANGED <<backend, refused, storeVars>>
    \/ /\ Select(address) = "tcpstore"
       /\ TCPStore!Call
       /\ UNCHANGED <<backend, refused, p2pVars>>
    \/ /\ Select(address) = None /\ refused = "no"
       /\ refused' = "yes"
       /\ UNCHANGED <<backend, p2pVars, storeVars>>

(* The backends' threads.  A run explores calls with an address only when  *)
(* no store is configured: the two do not share state below the manager.   *)
P2PWorks ==
    /\ PeerWork
    /\ UNCHANGED <<backend, refused, storeVars>>
StoreWorks ==
    /\ TCPStore!Work /\ backend = "tcpstore"
    /\ UNCHANGED <<backend, refused, p2pVars>>

ManagerNext ==
    \/ \E address \in {None} \cup (IF backend = None THEN {"ip"} ELSE {}) : Call(address)
    \/ P2PWorks \/ StoreWorks

P2PTask(a) == PeerTask(a) /\ UNCHANGED <<backend, refused, storeVars>>
P2PService(a) == PeerService(a) /\ UNCHANGED <<backend, refused, storeVars>>
StorePublisher == TCPStore!Publisher /\ backend = "tcpstore" /\ UNCHANGED <<backend, refused, p2pVars>>
StoreReader == TCPStore!Reader /\ backend = "tcpstore" /\ UNCHANGED <<backend, refused, p2pVars>>
StoreServes(c) == TCPStore!Serve(c) /\ backend = "tcpstore" /\ UNCHANGED <<backend, refused, p2pVars>>

(* Every backend's worker runs and the store answers.                      *)
ManagerSpec ==
    /\ ManagerInit /\ [][ManagerNext]_managerVars
    /\ \A a \in Agents : WF_managerVars(P2PTask(a)) /\ WF_managerVars(P2PService(a))
    /\ WF_managerVars(StorePublisher) /\ WF_managerVars(StoreReader)
    /\ \A c \in {"pub", "rd"} : WF_managerVars(StoreServes(c))
=============================================================================
