------------------------------ MODULE MCStorage ------------------------------
(***************************************************************************)
(* The storage engines under the agent's calls, their tables of            *)
(* registrations, queryMem and S3 over RDMA.  They share no state, so each *)
(* is explored by itself, the others at rest.                              *)
(***************************************************************************)
EXTENDS StorageEngines, EngineServices

VARIABLE part

Overlapping == {[base |-> 0, size |-> 2], [base |-> 1, size |-> 1]}

vars == <<storageVars, tableVars, queryVars, rdmaVars, part>>

Init ==
    /\ part \in {"xfer", "tables", "query", "rdma"}
    /\ StorageInit /\ (part # "xfer" => engine = "GDS_MT")
    /\ TablesInit /\ (part # "tables" => tableEngine = "OBJ")
    /\ QueryInit /\ (part # "query" => qe = "OBJ" /\ truth = [i \in Queries |-> TRUE])
    /\ RdmaInit

Xfer(A) == part = "xfer" /\ A /\ UNCHANGED <<tableVars, queryVars, rdmaVars, part>>
Query(A) == part = "query" /\ A /\ UNCHANGED <<storageVars, tableVars, rdmaVars, part>>

Next ==
    \/ Xfer(StorageNext)
    \/ part = "tables" /\ TablesNext /\ UNCHANGED <<storageVars, queryVars, rdmaVars, part>>
    \/ Query(QueryNext)
    \/ part = "rdma" /\ RdmaNext /\ UNCHANGED <<storageVars, tableVars, queryVars, part>>

(* The fairness of StorageSpec and of QueryFairness.                       *)
Spec ==
    /\ Init /\ [][Next]_vars
    /\ WF_storageVars(Xfer(Works))
    /\ \A h \in Handles :
         WF_storageVars(Xfer(GetXferStatus(h))) /\ WF_storageVars(Xfer(ReleaseRunning(h)))
    /\ WF_queryVars(Query(Caller)) /\ WF_queryVars(Query(QueryCallback))
    /\ WF_queryVars(Query(Library))
-----------------------------------------------------------------------------
(* What an engine counts or keeps adds up: pools, slots and queues         *)
(* (PoolsWhole) and the tables of registrations (TablesExact).             *)
EnginesWhole == PoolsWhole /\ (part = "tables" => TablesExact)

(* S3 over RDMA: memory stays pinned while a server may touch it           *)
(* (PinnedWhileUsed), and an object is transferred whole (WholeTransfers). *)
RdmaWhole == part = "rdma" => PinnedWhileUsed /\ WholeTransfers

(* A transfer that is polled ends, whatever the device does, and queryMem  *)
(* returns even when the blob service never answers.                       *)
StorageEnds == []<>(StorageAtRest /\ (part = "query" => QueryOver))
=============================================================================
