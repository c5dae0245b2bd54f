------------------------------- MODULE Descs -------------------------------
(***************************************************************************)
(* Descriptors, and the sorted lists of them that engines registered.      *)
(***************************************************************************)
EXTENDS Integers, FiniteSets, Sequences, SequencesExt

(***************************************************************************)
(* Descriptors (src/api/cpp/nixl_descriptors.h): a record with a device,   *)
(* an address and a length; one of a section also has the engine's         *)
(* metadata object, md.  Addresses and lengths are machine words: they run *)
(* from 0 to WordMax and wrap.  WordMax is also SIZE_MAX, the length of an *)
(* unbounded registration.                                                 *)
(***************************************************************************)

CONSTANTS
    WordMax,    \* UINTPTR_MAX and SIZE_MAX
    Unbounded   \* "yes" for a BLK, OBJ or FILE list: len 0 means no bound

ASSUME DescsAssumption == WordMax \in Nat

Word == 0..WordMax

(* Addition and subtraction of machine words.                              *)
Plus(a, b) == IF a + b <= WordMax THEN a + b ELSE a + b - (WordMax + 1)
Minus(a, b) == IF a >= b THEN a - b ELSE a - b + (WordMax + 1)

(* operator<: device, then address, then length.                           *)
Less(d, e) ==
    \/ d.dev < e.dev
    \/ d.dev = e.dev /\ d.addr < e.addr
    \/ d.dev = e.dev /\ d.addr = e.addr /\ d.len < e.len

SameRange(d, e) == d.dev = e.dev /\ d.addr = e.addr /\ d.len = e.len

(* nixlBasicDesc::covers                                                   *)
Covers(d, q) ==
    /\ d.dev = q.dev
    /\ d.addr <= q.addr
    /\ IF d.len = WordMax
       THEN q.len <= WordMax - q.addr
       ELSE q.addr <= Plus(d.addr, d.len) /\ q.len <= Plus(d.addr, d.len) - q.addr

(* rangeEnd                                                                *)
RangeEnd(d) == IF d.len = WordMax THEN WordMax ELSE Plus(d.addr, d.len)

(* coversWithEnd, the end of d being in a local variable.                  *)
CoversWithEnd(d, end, q) ==
    /\ d.dev = q.dev
    /\ d.addr <= q.addr
    /\ Plus(q.addr, q.len) >= q.addr
    /\ Plus(q.addr, q.len) <= end

(* Variant: the device is not compared again.                              *)
CoversFollowingAnyDev(d, end, q) ==
    /\ Plus(q.addr, q.len) >= q.addr
    /\ Plus(q.addr, q.len) <= end

(* coversFollowingWithEnd: for a query not less than one that d covers.    *)
CoversFollowing(d, end, q) ==
    /\ d.dev = q.dev
    /\ Plus(q.addr, q.len) >= q.addr
    /\ Plus(q.addr, q.len) <= end

(* normalizeSecDesc and normalizeQuery                                     *)
Normalize(d) ==
    IF Unbounded = "yes" /\ d.len = 0 THEN [d EXCEPT !.len = WordMax] ELSE d

-----------------------------------------------------------------------------
(***************************************************************************)
(* nixlSecDescList (src/infra/mem_section.h, nixl_descriptors.cpp): the    *)
(* sorted vector of the descriptors one engine registered for one memory   *)
(* type.  Positions count from 1, the code's from 0.                       *)
(***************************************************************************)

(* std::lower_bound and std::upper_bound                                   *)
LowerBound(vec, q) == 1 + Cardinality({i \in DOMAIN vec : Less(vec[i], q)})
UpperBound(vec, q) == 1 + Cardinality({i \in DOMAIN vec : ~Less(q, vec[i])})

NotFound == 0

(* getIndex: the first element with exactly the query's range.             *)
GetIndex(vec, query) ==
    LET q == Normalize(query)
        p == LowerBound(vec, q)
    IN  IF p <= Len(vec) /\ SameRange(vec[p], q) THEN p ELSE NotFound

(* getCoveringIndex: the element at the query's place, or the one before.  *)
GetCoveringIndex(vec, q) ==
    LET p == LowerBound(vec, q)
    IN  IF p <= Len(vec) /\ Covers(vec[p], q) THEN p
        ELSE IF p > 1 /\ Covers(vec[p - 1], q) THEN p - 1
        ELSE NotFound

(* addDesc: insert behind the elements that are not greater.               *)
AddDesc(vec, d) == InsertAt(vec, UpperBound(vec, Normalize(d)), Normalize(d))

(* The in-place merge of addSortedDescs, from the back: a counts down the  *)
(* elements of vec, b those of the batch; on a tie the batch's goes last.  *)
MergeBack(vec, batch) ==
    LET Step(acc, k) ==
            IF acc.b = 0 \/ (acc.a > 0 /\ Less(batch[acc.b], vec[acc.a]))
            THEN [acc EXCEPT !.a = @ - 1, !.out = <<vec[acc.a]>> \o @]
            ELSE [acc EXCEPT !.b = @ - 1, !.out = <<batch[acc.b]>> \o @]
        start == [a |-> Len(vec), b |-> Len(batch), out |-> <<>>]
    IN  FoldLeftDomain(Step, start, vec \o batch).out

(* addSortedDescs: behind, in front of, or merged with what is there.      *)
AddSortedDescs(vec, batch) ==
    CASE vec = <<>> -> batch
      [] vec # <<>> /\ ~Less(Head(batch), Last(vec)) -> vec \o batch
      [] vec # <<>> /\ Less(Head(batch), Last(vec)) /\ ~Less(Head(vec), Last(batch)) -> batch \o vec
      [] OTHER -> MergeBack(vec, batch)

(* addDescs, the batch being one of the Orders of what is added.           *)
AddDescs(vec, batch) ==
    CASE batch = <<>> -> vec
      [] Len(batch) = 1 -> AddDesc(vec, batch[1])
      [] OTHER -> AddSortedDescs(vec, batch)

(* normalizeSecDescBatch and std::sort, which does not fix the order of    *)
(* elements that compare equal.                                            *)
Orders(batch) ==
    LET norm == [i \in DOMAIN batch |-> Normalize(batch[i])]
        perms == {p \in [DOMAIN norm -> DOMAIN norm] : IsInjective(p)}
        orders == {[i \in DOMAIN norm |-> norm[p[i]]] : p \in perms}
    IN  {o \in orders : \A i \in 1..(Len(o) - 1) : ~Less(o[i + 1], o[i])}

(* remDescs: one pass over the list, one over the sorted indices; an index *)
(* that is not the next one to be met is never passed.                     *)
RemDescs(vec, indices) ==
    LET idx == SortSeq(indices, <)
        Step(acc, read) ==
            IF acc.ri <= Len(idx) /\ read = idx[acc.ri]
            THEN [acc EXCEPT !.ri = @ + 1]
            ELSE [acc EXCEPT !.out = Append(@, vec[read])]
    IN  FoldLeftDomain(Step, [ri |-> 1, out |-> <<>>], vec).out
=============================================================================
