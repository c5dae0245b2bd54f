---------------------------- MODULE MpscRingProofs ----------------------------
(***************************************************************************)
(* Proof that the post queue is a FIFO for any capacity and any number of  *)
(* producers and pushes.  The argument: all slot numbers between the tail  *)
(* and one lap beyond it have different slots, and every slot in use       *)
(* belongs to exactly one number of that range.                            *)
(***************************************************************************)
EXTENDS MpscRing, TLAPS

MpTypeOK ==
    /\ mpHead \in Nat /\ mpTail \in Nat
    /\ mpRing \in [MpSlots -> Nat] /\ mpCommitted \in [MpSlots -> {"yes", "no"}]
    /\ mpAt \in [MpProducers -> {"idle", "claimed", "written"}]
    /\ mpMine \in [MpProducers -> Nat]
    /\ mpPop \in {"idle", "read", "cleared"} /\ mpItem \in Nat
    /\ mpOut \in Seq(Nat)

(* Producers hold different numbers, between the tail and the head.        *)
MpHeld ==
    /\ \A p \in MpProducers : mpAt[p] # "idle" => mpTail <= mpMine[p] /\ mpMine[p] < mpHead
    /\ \A p, q \in MpProducers :
        (p # q /\ mpAt[p] # "idle" /\ mpAt[q] # "idle") => mpMine[p] # mpMine[q]

(* A written slot is within a lap of the tail and holds its item.          *)
MpWritten ==
    \A p \in MpProducers : mpAt[p] = "written" =>
        mpMine[p] - mpTail < MpCap /\ mpRing[mpMine[p] % MpCap] = mpMine[p] + 1

(* A committed slot is the slot of a number within a lap of the tail, that *)
(* no producer holds any more, and holds its item.                         *)
MpReady ==
    \A s \in MpSlots : mpCommitted[s] = "yes" =>
        \E i \in Nat :
            /\ mpTail <= i /\ i < mpHead /\ i - mpTail < MpCap /\ i % MpCap = s
            /\ mpRing[s] = i + 1
            /\ \A p \in MpProducers : mpAt[p] # "idle" => mpMine[p] # i

(* The consumer has the item at the tail, which no producer holds.         *)
MpTaken ==
    mpPop # "idle" =>
        /\ mpItem = mpTail + 1 /\ mpTail < mpHead
        /\ \A p \in MpProducers : mpAt[p] # "idle" => mpMine[p] # mpTail
        /\ mpPop = "cleared" => mpCommitted[mpTail % MpCap] = "no"

(* What has left so far.                                                   *)
MpLeft == Len(mpOut) = mpTail /\ mpTail <= mpHead /\ \A n \in 1..Len(mpOut) : mpOut[n] = n

(* The inductive invariant.                                                *)
MpInv == MpTypeOK /\ MpHeld /\ MpWritten /\ MpReady /\ MpTaken /\ MpLeft

(* A slot number modulo the capacity is a slot.                            *)
LEMMA SlotInRange == ASSUME NEW i \in Nat PROVE i % MpCap \in MpSlots
    BY MpCapAssumption DEF MpSlots

(* Numbers less than a lap apart have different slots.                     *)
LEMMA SlotsDiffer ==
    ASSUME NEW i \in Nat, NEW j \in Nat, i < j, j - i < MpCap
    PROVE  i % MpCap # j % MpCap
<1>1. MpCap \in Nat \ {0}
    BY MpCapAssumption
<1>2. SUFFICES ASSUME i % MpCap = j % MpCap PROVE FALSE
    OBVIOUS
<1> DEFINE a == i \div MpCap  b == j \div MpCap
<1>3. a \in Int /\ i = MpCap * a + (i % MpCap)
    BY <1>1
<1>4. b \in Int /\ j = MpCap * b + (j % MpCap)
    BY <1>1
<1>5. MpCap * a < MpCap * b /\ MpCap * b - MpCap * a < MpCap
    <2>1. i % MpCap \in Int /\ MpCap * a \in Int /\ MpCap * b \in Int
        BY <1>1, <1>3, <1>4
    <2> QED
        BY <1>1, <1>2, <1>3, <1>4, <2>1
<1> HIDE DEF a, b
<1> QED
    BY <1>1, <1>3, <1>4, <1>5

(* Within a lap of a common tail, equal slots are equal numbers.           *)
LEMMA SameSlot ==
    ASSUME NEW t \in Nat, NEW i \in Nat, NEW j \in Nat, t <= i, t <= j,
           i - t < MpCap, j - t < MpCap, i % MpCap = j % MpCap
    PROVE  i = j
<1>1. MpCap \in Nat
    BY MpCapAssumption
<1>2. CASE i < j
    BY <1>1, <1>2, SlotsDiffer
<1>3. CASE j < i
    BY <1>1, <1>3, SlotsDiffer
<1> QED
    BY <1>2, <1>3

LEMMA MpInitInv == MpInit => MpInv
    BY MpCapAssumption DEF MpInit, MpInv, MpTypeOK, MpHeld, MpWritten, MpReady, MpTaken, MpLeft

LEMMA ClaimInv == ASSUME MpInv, NEW p \in MpProducers, MpClaim(p) PROVE MpInv'
<1> USE DEF MpInv, MpClaim
<1>1. MpTypeOK'
    BY DEF MpTypeOK
<1>2. MpHeld'
    BY DEF MpTypeOK, MpHeld, MpLeft
<1>3. MpWritten'
    BY DEF MpTypeOK, MpWritten
<1>4. MpReady'
    BY DEF MpTypeOK, MpReady
<1>5. MpTaken'
    BY DEF MpTypeOK, MpTaken
<1>6. MpLeft'
    BY DEF MpTypeOK, MpLeft
<1> QED
    BY <1>1, <1>2, <1>3, <1>4, <1>5, <1>6

LEMMA WriteInv == ASSUME MpInv, NEW p \in MpProducers, MpWrite(p) PROVE MpInv'
<1> USE DEF MpInv, MpWrite
<1>0. MpCap \in Nat /\ mpMine[p] \in Nat /\ mpMine[p] % MpCap \in MpSlots
    BY MpCapAssumption, SlotInRange DEF MpTypeOK
<1>1. MpTypeOK'
    BY <1>0 DEF MpTypeOK
<1>2. MpHeld'
    BY DEF MpTypeOK, MpHeld
<1>3. MpWritten'
    <2> SUFFICES ASSUME NEW q \in MpProducers, mpAt'[q] = "written"
                 PROVE  mpMine[q] - mpTail < MpCap /\ mpRing'[mpMine[q] % MpCap] = mpMine[q] + 1
        BY DEF MpWritten
    <2>1. CASE q = p
        BY <2>1, <1>0 DEF MpTypeOK
    <2>2. CASE q # p
        <3>1. mpAt[q] = "written" /\ mpMine[q] \in Nat /\ mpMine[q] # mpMine[p]
            BY <2>2 DEF MpTypeOK, MpHeld
        <3>2. mpMine[q] % MpCap # mpMine[p] % MpCap
            BY <3>1, <1>0, SameSlot DEF MpTypeOK, MpHeld, MpWritten
        <3> QED
            BY <3>1, <3>2, <1>0, SlotInRange DEF MpTypeOK, MpWritten
    <2> QED
        BY <2>1, <2>2
<1>4. MpReady'
    <2> SUFFICES ASSUME NEW s \in MpSlots, mpCommitted[s] = "yes"
                 PROVE  \E i \in Nat :
                            /\ mpTail <= i /\ i < mpHead /\ i - mpTail < MpCap /\ i % MpCap = s
                            /\ mpRing'[s] = i + 1
                            /\ \A q \in MpProducers : mpAt'[q] # "idle" => mpMine[q] # i
        BY DEF MpReady
    <2>1. PICK i \in Nat : /\ mpTail <= i /\ i < mpHead /\ i - mpTail < MpCap /\ i % MpCap = s
                           /\ mpRing[s] = i + 1
                           /\ \A q \in MpProducers : mpAt[q] # "idle" => mpMine[q] # i
        BY DEF MpReady
    <2>2. mpMine[p] # i
        BY <2>1
    <2>3. mpMine[p] % MpCap # s
        BY <2>1, <2>2, <1>0, SameSlot DEF MpTypeOK, MpHeld
    <2>4. mpRing'[s] = i + 1
        BY <2>1, <2>3 DEF MpTypeOK
    <2>5. \A q \in MpProducers : mpAt'[q] # "idle" => mpMine[q] # i
        BY <2>1, <2>2 DEF MpTypeOK
    <2> QED
        BY <2>1, <2>4, <2>5
<1>5. MpTaken'
    BY DEF MpTypeOK, MpTaken
<1>6. MpLeft'
    BY DEF MpTypeOK, MpLeft
<1> QED
    BY <1>1, <1>2, <1>3, <1>4, <1>5, <1>6

LEMMA CommitInv == ASSUME MpInv, NEW p \in MpProducers, MpCommit(p) PROVE MpInv'
<1> USE DEF MpInv, MpCommit
<1>0. MpCap \in Nat /\ mpMine[p] \in Nat /\ mpMine[p] % MpCap \in MpSlots
    BY MpCapAssumption, SlotInRange DEF MpTypeOK
<1>1. MpTypeOK'
    BY <1>0 DEF MpTypeOK
<1>2. MpHeld'
    BY DEF MpTypeOK, MpHeld
<1>3. MpWritten'
    BY DEF MpTypeOK, MpWritten
<1>4. MpReady'
    <2> SUFFICES ASSUME NEW s \in MpSlots, mpCommitted'[s] = "yes"
                 PROVE  \E i \in Nat :
                            /\ mpTail <= i /\ i < mpHead /\ i - mpTail < MpCap /\ i % MpCap = s
                            /\ mpRing[s] = i + 1
                            /\ \A q \in MpProducers : mpAt'[q] # "idle" => mpMine[q] # i
        BY DEF MpReady
    <2>1. CASE s = mpMine[p] % MpCap
        <3>1. /\ mpTail <= mpMine[p] /\ mpMine[p] < mpHead /\ mpMine[p] - mpTail < MpCap
              /\ mpRing[s] = mpMine[p] + 1
            BY <2>1 DEF MpTypeOK, MpHeld, MpWritten
        <3>2. \A q \in MpProducers : mpAt'[q] # "idle" => mpMine[q] # mpMine[p]
            BY DEF MpTypeOK, MpHeld
        <3> QED
            BY <2>1, <3>1, <3>2, <1>0
    <2>2. CASE s # mpMine[p] % MpCap
        <3>1. mpCommitted[s] = "yes"
            BY <2>2, <1>0 DEF MpTypeOK
        <3>2. \A q \in MpProducers : mpAt'[q] # "idle" => mpAt[q] # "idle"
            BY DEF MpTypeOK
        <3> QED
            BY <3>1, <3>2 DEF MpReady
    <2> QED
        BY <2>1, <2>2
<1>5. MpTaken'
    <2>1. ASSUME mpPop = "cleared" PROVE mpCommitted'[mpTail % MpCap] = "no"
        <3>1. mpMine[p] # mpTail /\ mpMine[p] - mpTail < MpCap /\ mpTail <= mpMine[p]
            BY <2>1 DEF MpTypeOK, MpTaken, MpHeld, MpWritten
        <3>2. mpMine[p] % MpCap # mpTail % MpCap
            BY <3>1, <1>0, SlotsDiffer DEF MpTypeOK
        <3> QED
            BY <2>1, <3>2, <1>0, SlotInRange DEF MpTypeOK, MpTaken
    <2> QED
        BY <2>1 DEF MpTypeOK, MpTaken
<1>6. MpLeft'
    BY DEF MpTypeOK, MpLeft
<1> QED
    BY <1>1, <1>2, <1>3, <1>4, <1>5, <1>6

LEMMA ReadInv == ASSUME MpInv, MpRead PROVE MpInv'
<1> USE DEF MpInv, MpRead
<1>0. MpCap \in Nat \ {0} /\ mpTail \in Nat /\ mpTail % MpCap \in MpSlots
    BY MpCapAssumption, SlotInRange DEF MpTypeOK
<1>1. MpTypeOK'
    BY <1>0 DEF MpTypeOK
<1>2. PICK i \in Nat : /\ mpTail <= i /\ i < mpHead /\ i - mpTail < MpCap
                       /\ i % MpCap = mpTail % MpCap
                       /\ mpRing[mpTail % MpCap] = i + 1
                       /\ \A p \in MpProducers : mpAt[p] # "idle" => mpMine[p] # i
    BY <1>0 DEF MpReady
<1>3. i = mpTail
    BY <1>0, <1>2, SameSlot
<1>4. MpTaken'
    BY <1>2, <1>3 DEF MpTaken
<1>5. MpHeld' /\ MpWritten' /\ MpReady' /\ MpLeft'
    BY DEF MpHeld, MpWritten, MpReady, MpLeft
<1> QED
    BY <1>1, <1>4, <1>5

LEMMA ClearInv == ASSUME MpInv, MpClear PROVE MpInv'
<1> USE DEF MpInv, MpClear
<1>0. mpTail \in Nat /\ mpTail % MpCap \in MpSlots
    BY SlotInRange DEF MpTypeOK
<1>1. MpTypeOK'
    BY <1>0 DEF MpTypeOK
<1>2. MpReady'
    <2>1. \A s \in MpSlots : mpCommitted'[s] = "yes" => mpCommitted[s] = "yes"
        BY DEF MpTypeOK
    <2> QED
        BY <2>1 DEF MpReady
<1>3. MpTaken'
    BY <1>0 DEF MpTypeOK, MpTaken
<1>4. MpHeld' /\ MpWritten' /\ MpLeft'
    BY DEF MpHeld, MpWritten, MpLeft
<1> QED
    BY <1>1, <1>2, <1>3, <1>4

LEMMA AdvanceInv == ASSUME MpInv, MpAdvance PROVE MpInv'
<1> USE DEF MpInv, MpAdvance
<1>0. MpCap \in Nat \ {0} /\ mpTail \in Nat /\ mpHead \in Nat
    BY MpCapAssumption DEF MpTypeOK
<1>1. MpTypeOK'
    BY DEF MpTypeOK
<1>2. MpHeld'
    BY DEF MpTypeOK, MpHeld, MpTaken
<1>3. MpWritten'
    BY <1>0 DEF MpTypeOK, MpWritten
<1>4. MpReady'
    <2> SUFFICES ASSUME NEW s \in MpSlots, mpCommitted[s] = "yes"
                 PROVE  \E i \in Nat :
                            /\ mpTail' <= i /\ i < mpHead /\ i - mpTail' < MpCap /\ i % MpCap = s
                            /\ mpRing[s] = i + 1
                            /\ \A q \in MpProducers : mpAt[q] # "idle" => mpMine[q] # i
        BY DEF MpReady
    <2>1. PICK i \in Nat : /\ mpTail <= i /\ i < mpHead /\ i - mpTail < MpCap /\ i % MpCap = s
                           /\ mpRing[s] = i + 1
                           /\ \A q \in MpProducers : mpAt[q] # "idle" => mpMine[q] # i
        BY DEF MpReady
    <2>2. i # mpTail
        BY <2>1 DEF MpTaken
    <2>3. mpTail' <= i /\ i - mpTail' < MpCap
        BY <2>1, <2>2, <1>0
    <2> QED
        BY <2>1, <2>3
<1>5. MpTaken'
    BY DEF MpTaken
<1>6. MpLeft'
    BY <1>0 DEF MpTypeOK, MpLeft, MpTaken
<1> QED
    BY <1>1, <1>2, <1>3, <1>4, <1>5, <1>6

LEMMA MpStepInv == MpInv /\ [MpNext]_mpVars => MpInv'
<1> SUFFICES ASSUME MpInv, [MpNext]_mpVars PROVE MpInv'
    OBVIOUS
<1>1. ASSUME NEW p \in MpProducers, MpClaim(p) PROVE MpInv'
    BY <1>1, ClaimInv
<1>2. ASSUME NEW p \in MpProducers, MpPushStep(p) PROVE MpInv'
    BY <1>2, WriteInv, CommitInv DEF MpPushStep
<1>3. CASE MpPopStep
    BY <1>3, ReadInv, ClearInv, AdvanceInv DEF MpPopStep
<1>4. CASE UNCHANGED mpVars
    BY <1>4 DEF mpVars, MpInv, MpTypeOK, MpHeld, MpWritten, MpReady, MpTaken, MpLeft
<1> QED
    BY <1>1, <1>2, <1>3, <1>4 DEF MpNext

(* For any capacity, any producers and any number of pushes, items leave   *)
(* the post queue in the order in which their slots were claimed, each     *)
(* once.                                                                   *)
THEOREM RingIsFifo == MpSpec => []MpFifo
<1>1. MpInv => MpFifo
    BY DEF MpInv, MpLeft, MpFifo
<1> QED
    BY <1>1, MpInitInv, MpStepInv, PTL DEF MpSpec

(* No producer ever writes or commits a slot that another producer or the  *)
(* consumer is at.                                                         *)
THEOREM SlotsAreOwned == MpSpec => []MpAlone
<1>1. MpInv => MpAlone
    <2> SUFFICES ASSUME MpInv, NEW p \in MpProducers, mpAt[p] = "written"
                 PROVE  /\ \A q \in MpProducers \ {p} :
                               mpAt[q] = "written" => mpMine[q] % MpCap # mpMine[p] % MpCap
                        /\ (mpPop \in {"read", "cleared"}) => mpTail % MpCap # mpMine[p] % MpCap
        BY DEF MpAlone
    <2>1. mpMine[p] \in Nat /\ mpTail \in Nat /\ mpTail <= mpMine[p] /\ mpMine[p] - mpTail < MpCap
        BY DEF MpInv, MpTypeOK, MpHeld, MpWritten
    <2>2. ASSUME NEW q \in MpProducers \ {p}, mpAt[q] = "written"
          PROVE  mpMine[q] % MpCap # mpMine[p] % MpCap
        BY <2>1, <2>2, SameSlot DEF MpInv, MpTypeOK, MpHeld, MpWritten
    <2>3. ASSUME mpPop \in {"read", "cleared"} PROVE mpTail % MpCap # mpMine[p] % MpCap
        <3>1. mpMine[p] # mpTail
            BY <2>3 DEF MpInv, MpTaken
        <3> QED
            BY <2>1, <3>1, SlotsDiffer
    <2> QED
        BY <2>2, <2>3
<1> QED
    BY <1>1, MpInitInv, MpStepInv, PTL DEF MpSpec
=============================================================================
