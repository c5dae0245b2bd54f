---------------------------- MODULE EngineContract ----------------------------
(***************************************************************************)
(* What the agent relies on a backend engine for                           *)
(* (src/api/cpp/backend/backend_engine.h), engine by engine:               *)
(*   - a transfer it reports as a success was carried out whole, in the    *)
(*     post it is reported for;                                            *)
(*   - a patient engine ends a transfer only when nothing is outstanding;  *)
(*   - a quiet engine releases a request only when nothing is outstanding; *)
(*   - only a refusing engine does not release a request that has ended.   *)
(* AgentXfer has the engines that are not patient as EarlyErrors and those *)
(* that are quiet as Cancels.                                              *)
(***************************************************************************)
EXTENDS Integers

CONSTANTS Handles, Patient, Quiet, Refusing

VARIABLES
    engine,     \* the engine
    status,     \* of each handle, as the agent knows it
    left,       \* operations of the last post not carried out
    work        \* operations outstanding, of whatever post

vars == <<engine, status, left, work>>

Init ==
    /\ status = [h \in Handles |-> "none"]
    /\ work = [h \in Handles |-> 0]
    /\ left \in [Handles -> Nat]

(* Nothing is taken up for a request that is not in progress.              *)
Proceeds(g) == left'[g] <= left[g] /\ (status[g] = "in_prog" \/ work'[g] <= work[g])
Others(h) == \A g \in Handles \ {h} : status'[g] = status[g] /\ Proceeds(g)
Becomes(h, st) == status'[h] = st /\ Others(h) /\ engine' = engine

Prep(h) ==
    /\ status[h] = "none" /\ Becomes(h, "prepped")
    /\ work' = work

(* Operations of a post that failed may still be outstanding in a later    *)
(* one, if the engine is not patient.                                      *)
Carried(h) == left'[h] = 0 /\ (engine \in Patient => work'[h] = 0)

Post(h) ==
    /\ status[h] \in {"prepped", "success", "err"}
    /\ \/ Becomes(h, "in_prog")
       \/ Becomes(h, "err")
       \/ Becomes(h, "success") /\ Carried(h)

Check(h) ==
    /\ status[h] = "in_prog"
    /\ \/ Becomes(h, "success") /\ Carried(h)
       \/ Becomes(h, "err") /\ (engine \in Patient => work'[h] = 0)

(* Released, or, when the agent is not told that the engine refused, lost. *)
Release(h) ==
    /\ status[h] # "none"
    /\ \/ Becomes(h, "none") /\ (engine \in Quiet => work'[h] = 0)
       \/ Becomes(h, "lost") /\ engine \in Refusing

(* The device, and an engine's thread, get on with it.                     *)
Progress ==
    /\ status' = status /\ engine' = engine
    /\ \A h \in Handles : Proceeds(h)

Next == Progress \/ \E h \in Handles : Prep(h) \/ Post(h) \/ Check(h) \/ Release(h)

Spec == Init /\ [][Next]_vars
=============================================================================
