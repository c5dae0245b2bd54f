------------------------------- MODULE MpscRing -------------------------------
(***************************************************************************)
(* The post queue of a libfabric rail (MpscRing in                         *)
(* src/utils/libfabric/libfabric_rail.h): many producers, one consumer, no *)
(* lock.  A producer claims a slot number with fetch_add, waits until the  *)
(* consumer is less than a lap behind, writes the slot and sets its        *)
(* committed flag.  The consumer takes the slot at the tail once it is     *)
(* committed, clears the flag and advances the tail.  Every step below is  *)
(* one access to shared memory.                                            *)
(***************************************************************************)
EXTENDS Integers, Sequences

CONSTANTS
    MpProducers,
    MpCap,      \* capacity_
    MpPushes    \* bound on pushes, all producers together

ASSUME MpCapAssumption == MpCap \in Nat \ {0}

VARIABLES
    mpHead, mpTail,     \* head_, tail_
    mpRing,             \* ring_; an item is named by its claim: 1, 2, ...
    mpCommitted,        \* committed_
    mpAt,               \* where a producer is: "idle", "claimed", "written"
    mpMine,             \* absHead of a producer
    mpPop,              \* where the consumer is: "idle", "read", "cleared"
    mpItem,             \* what it has read
    mpOut               \* ghost: the items popped, in order

mpVars == <<mpHead, mpTail, mpRing, mpCommitted, mpAt, mpMine, mpPop, mpItem, mpOut>>

MpSlots == 0..MpCap - 1

(* initialize.  The contents of a slot never written are arbitrary; 0 is   *)
(* no item's name.                                                         *)
MpInit ==
    /\ mpHead = 0 /\ mpTail = 0
    /\ mpRing = [s \in MpSlots |-> 0]
    /\ mpCommitted = [s \in MpSlots |-> "no"]
    /\ mpAt = [p \in MpProducers |-> "idle"] /\ mpMine = [p \in MpProducers |-> 0]
    /\ mpPop = "idle" /\ mpItem = 0
    /\ mpOut = <<>>

(* push: fetch_add on head_.                                               *)
MpClaim(p) ==
    /\ mpAt[p] = "idle" /\ mpHead < MpPushes
    /\ mpMine' = [mpMine EXCEPT ![p] = mpHead]
    /\ mpHead' = mpHead + 1
    /\ mpAt' = [mpAt EXCEPT ![p] = "claimed"]
    /\ UNCHANGED <<mpTail, mpRing, mpCommitted, mpPop, mpItem, mpOut>>

(* Variant: the producer may be a full lap ahead.                          *)
MpWriteEarly(p) ==
    /\ mpAt[p] = "claimed" /\ mpMine[p] - mpTail <= MpCap
    /\ mpRing' = [mpRing EXCEPT ![mpMine[p] % MpCap] = mpMine[p] + 1]
    /\ mpAt' = [mpAt EXCEPT ![p] = "written"]
    /\ UNCHANGED <<mpHead, mpTail, mpCommitted, mpMine, mpPop, mpItem, mpOut>>

(* push: the wait for the consumer, and the write.                         *)
MpWrite(p) ==
    /\ mpAt[p] = "claimed" /\ mpMine[p] - mpTail < MpCap
    /\ mpRing' = [mpRing EXCEPT ![mpMine[p] % MpCap] = mpMine[p] + 1]
    /\ mpAt' = [mpAt EXCEPT ![p] = "written"]
    /\ UNCHANGED <<mpHead, mpTail, mpCommitted, mpMine, mpPop, mpItem, mpOut>>

MpCommit(p) ==
    /\ mpAt[p] = "written"
    /\ mpCommitted' = [mpCommitted EXCEPT ![mpMine[p] % MpCap] = "yes"]
    /\ mpAt' = [mpAt EXCEPT ![p] = "idle"]
    /\ UNCHANGED <<mpHead, mpTail, mpRing, mpMine, mpPop, mpItem, mpOut>>

(* pop: not empty, and the slot at the tail is committed.                  *)
MpRead ==
    /\ mpPop = "idle" /\ mpTail # mpHead /\ mpCommitted[mpTail % MpCap] = "yes"
    /\ mpItem' = mpRing[mpTail % MpCap]
    /\ mpPop' = "read"
    /\ UNCHANGED <<mpHead, mpTail, mpRing, mpCommitted, mpAt, mpMine, mpOut>>

MpClear ==
    /\ mpPop = "read"
    /\ mpCommitted' = [mpCommitted EXCEPT ![mpTail % MpCap] = "no"]
    /\ mpPop' = "cleared"
    /\ UNCHANGED <<mpHead, mpTail, mpRing, mpAt, mpMine, mpItem, mpOut>>

MpAdvance ==
    /\ mpPop = "cleared"
    /\ mpTail' = mpTail + 1 /\ mpOut' = Append(mpOut, mpItem)
    /\ mpPop' = "idle"
    /\ UNCHANGED <<mpHead, mpRing, mpCommitted, mpAt, mpMine, mpItem>>

MpPopStep == MpRead \/ MpClear \/ MpAdvance
MpPushStep(p) == MpWrite(p) \/ MpCommit(p)
MpNext == MpPopStep \/ \E p \in MpProducers : MpClaim(p) \/ MpPushStep(p)

MpFairness == WF_mpVars(MpPopStep) /\ \A p \in MpProducers : WF_mpVars(MpPushStep(p))

MpSpec == MpInit /\ [][MpNext]_mpVars /\ MpFairness
-----------------------------------------------------------------------------
(* Items leave the ring in the order of their claims, each one once and    *)
(* none skipped: the n-th item popped is the n-th claimed.  So the posts   *)
(* of one thread reach the provider in the order it made them.             *)
MpFifo == \A n \in 1..Len(mpOut) : mpOut[n] = n

(* A producer about to write or commit has its slot to itself: no other    *)
(* producer is at that slot, and the consumer is not reading it.           *)
MpAlone ==
    \A p \in MpProducers : mpAt[p] = "written" =>
        /\ \A q \in MpProducers \ {p} : mpAt[q] = "written" => mpMine[q] % MpCap # mpMine[p] % MpCap
        /\ (mpPop \in {"read", "cleared"}) => mpTail % MpCap # mpMine[p] % MpCap

(* Every claimed item is popped: neither a full ring nor a slow producer   *)
(* in front blocks the ring for good.  Pushes are bounded, so the ring     *)
(* must get empty.                                                         *)
MpEmpty == Len(mpOut) = mpHead
=============================================================================
