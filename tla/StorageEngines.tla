---------------------------- MODULE StorageEngines ----------------------------
(***************************************************************************)
(* The agent's use of a storage engine (src/core/nixl_agent.cpp,           *)
(* transfer_request.h): postXferReq, getXferStatus and releaseXferReq over *)
(* the engine that the process loaded.  The engines' modules share the     *)
(* variables of EngineState.                                               *)
(***************************************************************************)
EXTENDS ObjectEngines, FileEngines, QueueEngines

CONSTANTS
    Loadable,   \* the engines to choose from
    Solo        \* those whose handles share nothing: one handle is enough

VARIABLES
    engine,     \* the engine created by createBackend
    status      \* nixlXferReqH::status, and whether a release is under way

storageVars == <<engine, status, gen, req, dev, eng>>


StorageInit ==
    /\ engine \in Loadable
    /\ status = [h \in Handles |-> "none"]
    /\ \/ engine = "AZURE_BLOB" /\ AzureInit
       \/ engine = "OBJ" /\ ObjInit
       \/ engine = "REDIS" /\ RedisInit
       \/ engine = "GUSLI" /\ GusliInit
       \/ engine = "Mooncake" /\ MooncakeInit
       \/ engine = "GDS_MT" /\ GdsMtInit
       \/ engine = "GDS" /\ GdsInit
       \/ engine = "HF3FS" /\ Hf3fsInit
       \/ engine = "POSIX" /\ PosixInit
       \/ engine = "INFINIA" /\ InfiniaInit
       \/ engine = "DOCA_MEMOS" /\ MemosInit

PrepXfer(h, rc) ==
    \/ engine = "AZURE_BLOB" /\ AzurePrepXfer(h, rc)
    \/ engine = "OBJ" /\ ObjPrepXfer(h, rc)
    \/ engine = "REDIS" /\ RedisPrepXfer(h, rc)
    \/ engine = "GUSLI" /\ GusliPrepXfer(h, rc)
    \/ engine = "Mooncake" /\ MooncakePrepXfer(h, rc)
    \/ engine = "GDS_MT" /\ GdsMtPrepXfer(h, rc)
    \/ engine = "GDS" /\ GdsPrepXfer(h, rc)
    \/ engine = "HF3FS" /\ Hf3fsPrepXfer(h, rc)
    \/ engine = "POSIX" /\ PosixPrepXfer(h, rc)
    \/ engine = "INFINIA" /\ InfiniaPrepXfer(h, rc)
    \/ engine = "DOCA_MEMOS" /\ MemosPrepXfer(h, rc)
PostXfer(h, rc) ==
    \/ engine = "AZURE_BLOB" /\ AzurePostXfer(h, rc)
    \/ engine = "OBJ" /\ ObjPostXfer(h, rc)
    \/ engine = "REDIS" /\ RedisPostXfer(h, rc)
    \/ engine = "GUSLI" /\ GusliPostXfer(h, rc)
    \/ engine = "Mooncake" /\ MooncakePostXfer(h, rc)
    \/ engine = "GDS_MT" /\ GdsMtPostXfer(h, rc)
    \/ engine = "GDS" /\ GdsPostXfer(h, rc)
    \/ engine = "HF3FS" /\ Hf3fsPostXfer(h, rc)
    \/ engine = "POSIX" /\ PosixPostXfer(h, rc)
    \/ engine = "INFINIA" /\ InfiniaPostXfer(h, rc)
    \/ engine = "DOCA_MEMOS" /\ MemosPostXfer(h, rc)
CheckXfer(h, rc) ==
    \/ engine = "AZURE_BLOB" /\ AzureCheckXfer(h, rc)
    \/ engine = "OBJ" /\ ObjCheckXfer(h, rc)
    \/ engine = "REDIS" /\ RedisCheckXfer(h, rc)
    \/ engine = "GUSLI" /\ GusliCheckXfer(h, rc)
    \/ engine = "Mooncake" /\ MooncakeCheckXfer(h, rc)
    \/ engine = "GDS_MT" /\ GdsMtCheckXfer(h, rc)
    \/ engine = "GDS" /\ GdsCheckXfer(h, rc)
    \/ engine = "HF3FS" /\ Hf3fsCheckXfer(h, rc)
    \/ engine = "POSIX" /\ PosixCheckXfer(h, rc)
    \/ engine = "INFINIA" /\ InfiniaCheckXfer(h, rc)
    \/ engine = "DOCA_MEMOS" /\ MemosCheckXfer(h, rc)
ReleaseReqH(h, rc) ==
    \/ engine = "AZURE_BLOB" /\ AzureReleaseReqH(h, rc)
    \/ engine = "OBJ" /\ ObjReleaseReqH(h, rc)
    \/ engine = "REDIS" /\ RedisReleaseReqH(h, rc)
    \/ engine = "GUSLI" /\ GusliReleaseReqH(h, rc)
    \/ engine = "Mooncake" /\ MooncakeReleaseReqH(h, rc)
    \/ engine = "GDS_MT" /\ GdsMtReleaseReqH(h, rc)
    \/ engine = "GDS" /\ GdsReleaseReqH(h, rc)
    \/ engine = "HF3FS" /\ Hf3fsReleaseReqH(h, rc)
    \/ engine = "POSIX" /\ PosixReleaseReqH(h, rc)
    \/ engine = "INFINIA" /\ InfiniaReleaseReqH(h, rc)
    \/ engine = "DOCA_MEMOS" /\ MemosReleaseReqH(h, rc)

Used == IF engine \in Solo THEN {CHOOSE h \in Handles : TRUE} ELSE Handles
Returns(h, rc) == status' = [status EXCEPT ![h] = rc] /\ UNCHANGED engine

(* createXferReq                                                           *)
Create(h) ==
    /\ status[h] = "none"
    /\ \E rc \in {"prepped", "none"} : PrepXfer(h, rc) /\ Returns(h, rc)

(* postXferReq: not while the transfer is in progress.  Backends are       *)
(* promised (docs/BackendGuide.md) that a request is DONE before it is     *)
(* posted again; the agent lets it be posted after an error too, which     *)
(* these two do not cope with.                                             *)
DoneFirst == {"HF3FS", "POSIX"}
PostXferReq(h) ==
    /\ status[h] \in {"prepped", "success"} \cup (IF engine \in DoneFirst THEN {} ELSE {"err"})
    /\ \E rc \in {"in_prog", "success", "err"} : PostXfer(h, rc) /\ Returns(h, rc)

(* getXferStatus                                                           *)
GetXferStatus(h) ==
    /\ status[h] = "in_prog"
    /\ \E rc \in {"in_prog", "success", "err"} : CheckXfer(h, rc) /\ Returns(h, rc)

(* releaseXferReq: a transfer in progress is checked first; if it is not   *)
(* over, the engine may refuse, and the user has to call again.            *)
ReleaseChecks(h) ==
    /\ status[h] = "in_prog"
    /\ \E rc \in {"in_prog", "success", "err"} :
         CheckXfer(h, rc) /\ Returns(h, IF rc = "in_prog" THEN "closing" ELSE rc)
ReleaseRunning(h) ==
    /\ status[h] = "closing"
    /\ \E rc \in {"success", "err"} :
         ReleaseReqH(h, rc) /\ Returns(h, IF rc = "success" THEN "none" ELSE "in_prog")

(* ~nixlXferReqH releases the engine's handle and ignores the answer.      *)
ReleaseEnded(h) ==
    /\ status[h] \in {"prepped", "success", "err"}
    /\ \E rc \in {"success", "err"} :
         ReleaseReqH(h, rc) /\ Returns(h, IF rc = "success" THEN "none" ELSE "lost")

(* The engine's threads and devices.                                       *)
Works ==
    /\ \/ engine = "AZURE_BLOB" /\ AzureWorks
       \/ engine = "OBJ" /\ ObjWorks
       \/ engine = "REDIS" /\ RedisWorks
       \/ engine = "GUSLI" /\ GusliWorks
       \/ engine = "Mooncake" /\ MooncakeWorks
       \/ engine = "GDS_MT" /\ GdsMtWorks
       \/ engine = "GDS" /\ GdsWorks
       \/ engine = "HF3FS" /\ Hf3fsWorks
       \/ engine = "POSIX" /\ PosixWorks
       \/ engine = "INFINIA" /\ InfiniaWorks
       \/ engine = "DOCA_MEMOS" /\ MemosWorks
    /\ UNCHANGED <<engine, status>>

(* Other calls, and faults.                                                *)
Others ==
    /\ \/ engine = "AZURE_BLOB" /\ AzureCalls
       \/ engine = "OBJ" /\ ObjCalls
       \/ engine = "REDIS" /\ RedisCalls
       \/ engine = "Mooncake" /\ MooncakeCalls
       \/ engine = "HF3FS" /\ Hf3fsCalls
    /\ UNCHANGED <<engine, status>>

StorageNext ==
    \/ \E h \in Used :
         \/ Create(h) \/ PostXferReq(h) \/ GetXferStatus(h)
         \/ ReleaseChecks(h) \/ ReleaseRunning(h) \/ ReleaseEnded(h)
    \/ Works \/ Others

(* The user polls a posted transfer, and the device gets on with its work. *)
StorageSpec ==
    /\ StorageInit /\ [][StorageNext]_storageVars
    /\ WF_storageVars(Works)
    /\ \A h \in Handles : WF_storageVars(GetXferStatus(h)) /\ WF_storageVars(ReleaseRunning(h))

-----------------------------------------------------------------------------
(* Every engine keeps the contract the agent's model assumes of it.        *)
Contract == INSTANCE EngineContract WITH
    Patient <- {"REDIS", "GUSLI", "GDS_MT", "GDS", "INFINIA", "DOCA_MEMOS"},
    Quiet <- {"REDIS", "GUSLI", "GDS_MT", "GDS", "INFINIA", "DOCA_MEMOS", "POSIX"},
    Refusing <- {"POSIX", "DOCA_MEMOS"},
    status <- [h \in Handles |-> IF status[h] = "closing" THEN "in_prog" ELSE status[h]],
    left <- [h \in Handles |-> Left(h)],
    work <- [h \in Handles |-> Work(h)]
EnginesKeepContract == Contract!Spec

(* No posted transfer is under way: one that is polled ends, whatever the  *)
(* device does.                                                            *)
StorageAtRest == \A h \in Handles : status[h] \notin {"in_prog", "closing"}

(* What an engine counts in pools and slots adds up.                       *)
PoolsWhole ==
    /\ engine = "REDIS" => RedisWhole
    /\ engine = "GDS" => GdsWhole
    /\ engine = "POSIX" => PosixWhole
    /\ engine = "DOCA_MEMOS" => MemosWhole
=============================================================================
