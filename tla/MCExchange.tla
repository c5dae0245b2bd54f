----------------------------- MODULE MCExchange -----------------------------
(***************************************************************************)
(* The exchange of metadata: the manager over its P2P and TCPStore         *)
(* backends, in a build without etcd, and the etcd backend.  They share no *)
(* state, so each is explored by itself, the other at rest.  Below the     *)
(* manager, two agents that both listen, the first with more calls; two    *)
(* labels.                                                                 *)
(***************************************************************************)
EXTENDS MdManager, EtcdExchange

CONSTANTS A, B, Full, Part,
          Parts     \* what to explore

VARIABLE part

Quota == [x \in {A, B} |-> IF x = A THEN 2 ELSE 1]
Versions == [x \in {A, B} |-> IF x = A THEN 2 ELSE 1]
LabelOrder == <<Full, Part>>

vars == <<managerVars, etcdVars, part>>

Init == part \in Parts /\ ManagerInit /\ (part # "manager" => backend = None) /\ EtcdInit

Manager(action) == part = "manager" /\ action /\ UNCHANGED <<etcdVars, part>>
Etcd(action) == part = "etcd" /\ action /\ UNCHANGED <<managerVars, part>>

Next == Manager(ManagerNext) \/ Etcd(EtcdNext)

(* The fairness of ManagerSpec and EtcdFairSpec.                           *)
Spec ==
    /\ Init /\ [][Next]_vars
    /\ \A a \in Agents :
         WF_managerVars(Manager(P2PTask(a))) /\ WF_managerVars(Manager(P2PService(a)))
    /\ WF_managerVars(Manager(StorePublisher)) /\ WF_managerVars(Manager(StoreReader))
    /\ \A c \in {"pub", "rd"} : WF_managerVars(Manager(StoreServes(c)))
    /\ WF_etcdVars(Etcd(Publisher)) /\ WF_etcdVars(Etcd(Fetch))
    /\ WF_etcdVars(Etcd(Deliver)) /\ WF_etcdVars(Etcd(ServiceEvents))
-----------------------------------------------------------------------------
(* The TCPStore backend knows which keys it has to take back               *)
(* (KeysTracked), the store follows its calls (StoreIsLastCall), and a     *)
(* reader loads only what was published (LoadsPublished).                  *)
TCPStoreExact == TCPStore!KeysTracked /\ TCPStore!StoreIsLastCall /\ TCPStore!LoadsPublished

(* Fetches end, over P2P (FetchesAnswered), TCPStore (NonePending) and     *)
(* etcd, and a removal that etcd reports evicts (EtcdAtRest).              *)
FetchesEnd == []<>(FetchesAnswered /\ TCPStore!NonePending /\ EtcdAtRest)
=============================================================================
