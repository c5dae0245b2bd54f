--------------------------- MODULE PopulateProofs ---------------------------
(***************************************************************************)
(* The flat loop of populate resolves every descriptor to a registration   *)
(* that covers it, for every section and every query.                      *)
(***************************************************************************)
EXTENDS Populate, FiniteSetTheorems, TLAPS

USE DescsAssumption

SecDesc == [dev : Nat, addr : Word, len : Word, md : MDs]

(* The comparison with a precomputed end, coversWithEnd, is covers.        *)
LEMMA CoversEnd ==
    ASSUME NEW d \in SecDesc, NEW q \in Desc
    PROVE  CoversWithEnd(d, RangeEnd(d), q) <=> Covers(d, q)
BY DEF SecDesc, Desc, Word, CoversWithEnd, RangeEnd, Covers, Plus

(* coversFollowingWithEnd is covers for a query that does not precede one  *)
(* the entry covers: the comparison of the start may be left out.          *)
LEMMA CoversNext ==
    ASSUME NEW d \in SecDesc, NEW p \in Desc, NEW q \in Desc,
           Covers(d, p), ~Less(q, p), CoversFollowing(d, RangeEnd(d), q)
    PROVE  Covers(d, q)
<1>1. d.dev = p.dev /\ d.addr <= p.addr
  BY DEF Covers
<1>2. d.dev = q.dev
  BY DEF CoversFollowing
<1>3. p.addr <= q.addr
  BY <1>1, <1>2 DEF Less, Desc, Word
<1>4. d.addr <= q.addr
  BY <1>1, <1>3 DEF SecDesc, Desc, Word
<1>5. CoversWithEnd(d, RangeEnd(d), q)
  BY <1>2, <1>4 DEF CoversFollowing, CoversWithEnd
<1> QED
  BY <1>5, CoversEnd

(* The lower bound is a position of the list or the one behind it.         *)
LEMMA LowerBoundPlace ==
    ASSUME NEW T, NEW v \in Seq(T), NEW q
    PROVE  LowerBound(v, q) \in Nat /\ LowerBound(v, q) >= 1
<1> DEFINE S == {k \in DOMAIN v : Less(v[k], q)}
<1>1. DOMAIN v = 1..Len(v) /\ Len(v) \in Nat
  OBVIOUS
<1>2. IsFiniteSet(1..Len(v))
  BY <1>1, FS_Interval
<1>3. IsFiniteSet(S)
  BY <1>1, <1>2, FS_Subset
<1>4. Cardinality(S) \in Nat
  BY <1>3, FS_CardinalityType
<1> QED
  BY <1>4 DEF LowerBound

(* What getCoveringIndex returns covers the query.                         *)
LEMMA SearchCovers ==
    ASSUME NEW v \in Seq(SecDesc), NEW q, GetCoveringIndex(v, q) # NotFound
    PROVE  GetCoveringIndex(v, q) \in DOMAIN v /\ Covers(v[GetCoveringIndex(v, q)], q)
<1> DEFINE p == LowerBound(v, q)
<1>1. p \in Nat /\ p >= 1
  BY LowerBoundPlace
<1>2. DOMAIN v = 1..Len(v) /\ Len(v) \in Nat
  OBVIOUS
<1>3. p <= Len(v) + 1
  <2> DEFINE S == {k \in DOMAIN v : Less(v[k], q)}
  <2>1. IsFiniteSet(1..Len(v)) /\ Cardinality(1..Len(v)) = Len(v)
    BY <1>2, FS_Interval
  <2>2. Cardinality(S) <= Len(v)
    BY <1>2, <2>1, FS_Subset
  <2>3. Cardinality(S) \in Nat
    BY <1>2, <2>1, FS_Subset, FS_CardinalityType
  <2> QED
    BY <1>2, <2>2, <2>3 DEF LowerBound
<1>4. CASE p <= Len(v) /\ Covers(v[p], q)
  <2>1. GetCoveringIndex(v, q) = p
    BY <1>4 DEF GetCoveringIndex
  <2> QED
    BY <1>1, <1>2, <1>4, <2>1
<1>5. CASE ~(p <= Len(v) /\ Covers(v[p], q)) /\ p > 1 /\ Covers(v[p - 1], q)
  <2>1. GetCoveringIndex(v, q) = p - 1
    BY <1>5 DEF GetCoveringIndex
  <2>2. p - 1 \in 1..Len(v)
    BY <1>1, <1>2, <1>3, <1>5
  <2> QED
    BY <1>2, <1>5, <2>1, <2>2
<1>6. CASE ~(p <= Len(v) /\ Covers(v[p], q)) /\ ~(p > 1 /\ Covers(v[p - 1], q))
  BY <1>6 DEF GetCoveringIndex
<1> QED
  BY <1>4, <1>5, <1>6

(* The loop's invariant: what was resolved is sound, and s_index is an     *)
(* entry that covers the element before, on which the shortcut rests.      *)
FlatInv ==
    /\ base \in Seq(SecDesc) /\ query \in Seq(Desc)
    /\ i \in Nat /\ i >= 1
    /\ out \in Seq([dev : Nat, addr : Word, len : Word, md : MDs])
    /\ FlatSound
    /\ flat = "run" => Len(out) = i - 1
    /\ flat = "run" /\ i > 1 => s \in DOMAIN base /\ i - 1 \in DOMAIN query /\ Covers(base[s], query[i - 1])

(* Emitting an element with the metadata of an entry that covers it keeps  *)
(* the invariant.                                                          *)
LEMMA FindsKeeps ==
    ASSUME FlatInv, flat = "run", i \in DOMAIN query,
           NEW k \in DOMAIN base, Covers(base[k], query[i]), FlatFinds(k)
    PROVE  FlatInv'
<1> DEFINE m == Meta(query[i], base[k])
<1>1. query[i] \in Desc /\ base[k] \in SecDesc
  BY DEF FlatInv
<1>2. m \in SecDesc /\ SameRange(m, query[i]) /\ m.md = base[k].md
  BY <1>1 DEF Meta, SecDesc, Desc, SameRange
<1>3. Covers(base[k], m)
  BY <1>2 DEF Covers, SameRange
<1>4. base' = base /\ query' = query /\ s' = k /\ i' = i + 1 /\ out' = Append(out, m)
  BY DEF FlatFinds, populateInput
<1>5. out' \in Seq(SecDesc) /\ Len(out') = i /\ i \in Nat
  BY <1>2, <1>4 DEF FlatInv, SecDesc
<1>6. ASSUME NEW n \in DOMAIN out'
      PROVE  SameRange(out'[n], query[n]) /\ Backed(out'[n])
  <2>1. CASE n = i
    <3>1. out'[n] = m
      BY <1>2, <1>4, <2>1 DEF FlatInv, SecDesc
    <3> QED
      BY <1>2, <1>3, <2>1, <3>1 DEF Backed
  <2>2. CASE n # i
    <3>1. n \in DOMAIN out /\ out'[n] = out[n]
      BY <1>2, <1>4, <1>5, <1>6, <2>2 DEF FlatInv, SecDesc
    <3> QED
      BY <3>1 DEF FlatInv, FlatSound
  <2> QED
    BY <2>1, <2>2
<1>7. FlatSound'
  BY <1>4, <1>6 DEF FlatSound, Backed
<1> QED
  BY <1>4, <1>5, <1>7 DEF FlatInv, SecDesc

(* A failure empties the result.                                           *)
LEMMA FailsKeeps ==
    ASSUME FlatInv, FlatFails
    PROVE  FlatInv'
<1>1. base' = base /\ query' = query /\ i' = i /\ out' = <<>> /\ flat' = "error"
  BY DEF FlatFails, populateInput
<1>2. FlatSound'
  BY <1>1 DEF FlatSound
<1> QED
  BY <1>1, <1>2 DEF FlatInv

LEMMA FlatStep ==
    ASSUME FlatInv, [PopulateNext]_populateVars
    PROVE  FlatInv'
<1>1. CASE FlatSearch
  <2>1. flat = "run" /\ i \in DOMAIN query
    BY <1>1 DEF FlatSearch, FlatInv
  <2>2. CASE GetCoveringIndex(base, query[i]) = NotFound
    BY <1>1, <2>2, FailsKeeps DEF FlatSearch
  <2>3. CASE GetCoveringIndex(base, query[i]) # NotFound
    <3>1. FlatFinds(GetCoveringIndex(base, query[i]))
      BY <1>1, <2>3 DEF FlatSearch
    <3>2. base \in Seq(SecDesc)
      BY DEF FlatInv
    <3> QED
      BY <2>1, <2>3, <3>1, <3>2, SearchCovers, FindsKeeps
  <2> QED
    BY <2>2, <2>3
<1>2. CASE FlatStay
  <2>1. flat = "run" /\ i > 1 /\ i \in DOMAIN query /\ ~Less(query[i], query[i - 1])
    BY <1>2 DEF FlatStay, Ordered, FlatInv
  <2>2. s \in DOMAIN base /\ i - 1 \in DOMAIN query /\ Covers(base[s], query[i - 1])
    BY <2>1 DEF FlatInv
  <2>3. base[s] \in SecDesc /\ query[i] \in Desc /\ query[i - 1] \in Desc
    BY <2>1, <2>2 DEF FlatInv
  <2>4. Covers(base[s], query[i])
    BY <1>2, <2>1, <2>2, <2>3, CoversNext DEF FlatStay
  <2> QED
    BY <1>2, <2>1, <2>2, <2>4, FindsKeeps DEF FlatStay
<1>3. CASE FlatWalk
  <2>1. flat = "run" /\ i > 1 /\ i \in DOMAIN query
    BY <1>3 DEF FlatWalk, Ordered, FlatInv
  <2>2. s \in DOMAIN base
    BY <2>1 DEF FlatInv
  <2>3. CASE FlatFails
    BY <2>3, FailsKeeps
  <2>4. ASSUME NEW k \in After(s, query[i]), FlatFinds(k)
        PROVE  FlatInv'
    <3>1. k \in DOMAIN base /\ CoversWithEnd(base[k], RangeEnd(base[k]), query[i])
      BY <2>2 DEF After, FlatInv
    <3>2. base[k] \in SecDesc /\ query[i] \in Desc
      BY <2>1, <3>1 DEF FlatInv
    <3>3. Covers(base[k], query[i])
      BY <3>1, <3>2, CoversEnd
    <3> QED
      BY <2>1, <2>4, <3>1, <3>3, FindsKeeps
  <2> QED
    BY <1>3, <2>3, <2>4 DEF FlatWalk
<1>4. CASE FlatEmpty
  BY <1>4, FailsKeeps DEF FlatEmpty
<1>5. CASE StrideStep \/ StrideMiss \/ RunsStep \/ RunsMiss \/ UNCHANGED populateVars
  <2>1. UNCHANGED <<base, query, i, s, out, flat>>
    BY <1>5 DEF StrideStep, StrideMiss, RunsStep, RunsMiss, StrideFails, populateVars, populateInput, flatVars
  <2>2. FlatSound'
    BY <2>1 DEF FlatInv, FlatSound, Backed
  <2> QED
    BY <2>1, <2>2 DEF FlatInv
<1> QED
  BY <1>1, <1>2, <1>3, <1>4, <1>5 DEF PopulateNext

(* Whatever is registered and whatever is asked for, in any order and with *)
(* any overlaps, the list-to-list populate gives each descriptor the       *)
(* metadata of a registration that covers it.                              *)
THEOREM FlatSoundTheorem == PopulateSpec => []FlatSound
<1>1. PopulateInit => FlatInv
  <2> SUFFICES ASSUME PopulateInit PROVE FlatInv
    OBVIOUS
  <2>1. base \in Seq(SecDesc)
    BY PopulateAssumption DEF PopulateInit, SecDesc
  <2>2. query \in Seq(Desc)
    BY PopulateAssumption DEF PopulateInit
  <2>3. FlatSound
    BY DEF PopulateInit, FlatSound
  <2> QED
    BY <2>1, <2>2, <2>3 DEF PopulateInit, FlatInv
<1>2. FlatInv /\ [PopulateNext]_populateVars => FlatInv'
  BY FlatStep
<1>3. FlatInv => FlatSound
  BY DEF FlatInv
<1> QED
  BY <1>1, <1>2, <1>3, PTL DEF PopulateSpec
=============================================================================
