---------------------------- MODULE MergeIndices ----------------------------
(***************************************************************************)
(* mergeIndices (src/core/nixl_agent.cpp), which makeXferReq calls to turn *)
(* pairs of block indices into descriptors.  The blocks of either side are *)
(* held as strided runs; where both sides' runs are dense, consecutive     *)
(* pairs become one descriptor.  Consecutive pairs are found in a bitmap   *)
(* that is filled a chunk at a time.                                       *)
(*                                                                         *)
(* Pairs, runs, bits and words count from 0, as in the code.               *)
(***************************************************************************)
EXTENDS Integers, Sequences, SequencesExt, FiniteSets

CONSTANTS
    Sides,      \* pairs of run lists, a local and a remote one
    Indices,    \* pairs of index lists of equal length, not empty
    ChunkPairs, \* chunkPairs
    WordBits,   \* wordBits
    IntMax      \* INT_MAX: indices are in -(IntMax + 1)..IntMax

VARIABLES
    side, idx, skip,            \* the arguments
    i, lrun, rrun, dense,       \* the next pair; the cached runs
    chunk,                      \* chunkFirst_ and chunkEnd_
    ldescs, rdescs, total,      \* initiator_descs, target_descs, total_bytes
    status

input == <<side, idx, skip>>
vars == <<input, i, lrun, rrun, dense, chunk, ldescs, rdescs, total, status>>

At(seq, k) == seq[k + 1]
Count == Len(idx.local)
Least(a, b) == IF a <= b THEN a ELSE b

EmptyRun == [addr |-> 0, len |-> 0, stride |-> 0, count |-> 0, start |-> 0, md |-> 0]

Init ==
    /\ side \in Sides /\ idx \in Indices /\ skip \in {"yes", "no"}
    /\ i = 0 /\ lrun = EmptyRun /\ rrun = EmptyRun /\ dense = "no"
    /\ chunk = [first |-> 0, end |-> 0]
    /\ ldescs = <<>> /\ rdescs = <<>> /\ total = 0
    /\ status = "run"

-----------------------------------------------------------------------------
(* nixlMetaStrideDescList                                                  *)

FlatSize(runs) == IF runs = <<>> THEN 0 ELSE Last(runs).start + Last(runs).count

(* Rounded up, so that find's probe stays in the list.                     *)
RunSize(runs) == (FlatSize(runs) + Len(runs) - 1) \div Len(runs)

(* An unsigned comparison: an index in front of the run is far behind it.  *)
InRun(run, n) == n >= run.start /\ n - run.start < run.count

Probe(runs, n) == n \div RunSize(runs)

Middle(lo, hi) == (lo + hi + 1) \div 2

(* find: the probe, then a binary search that starts from it.              *)
Find(runs, n) ==
    LET Search[lo \in 0..Len(runs), hi \in 0..Len(runs), mid \in 0..Len(runs)] ==
            IF lo >= hi THEN lo
            ELSE IF At(runs, mid).start <= n
                 THEN Search[mid, hi, Middle(mid, hi)]
                 ELSE Search[lo, mid - 1, Middle(lo, mid - 1)]
        p == Probe(runs, n)
    IN  IF InRun(At(runs, p), n) THEN At(runs, p)
        ELSE At(runs, Search[0, Len(runs) - 1, p])

(* getMetaDesc                                                             *)
GetMetaDesc(run, n, size) ==
    [addr |-> run.addr + (n - run.start) * run.stride, len |-> run.len * size, md |-> run.md]

-----------------------------------------------------------------------------
(* nixlContinuationBitmap                                                  *)

(* Both indices follow the ones before, in unsigned arithmetic.            *)
IsContinuation(pair) ==
    /\ (At(idx.local, pair) - At(idx.local, pair - 1)) % (2 * (IntMax + 1)) = 1
    /\ (At(idx.remote, pair) - At(idx.remote, pair - 1)) % (2 * (IntMax + 1)) = 1

(* fillChunk; the words follow from where the chunk starts.                *)
FillChunk(first) == [first |-> first, end |-> Least(first + ChunkPairs, Count)]
Bit(c, w, b) ==
    LET pair == c.first + w * WordBits + b
    IN  pair < Count /\ IsContinuation(pair)

(* std::countr_one(words_[w] >> b)                                         *)
Ones(c, w, b) ==
    CHOOSE n \in 0..(WordBits - b) :
        /\ \A k \in b..(b + n - 1) : Bit(c, w, k)
        /\ n < WordBits - b => ~Bit(c, w, b + n)

(* countInChunk: a stretch goes on in the next word while it reaches the   *)
(* end of its own.                                                         *)
CountInChunk(c, pair, limit) ==
    LET bit == pair - c.first
        More[count \in 0..(ChunkPairs + WordBits)] ==
            LET ones == Ones(c, (bit + count) \div WordBits, 0)
            IN  IF count < limit /\ (bit + count) % WordBits = 0 /\ ones > 0
                THEN More[count + ones] ELSE count
        here == Ones(c, bit \div WordBits, bit % WordBits)
    IN  Least(IF here > 0 THEN More[here] ELSE 0, limit)

(* countContinuations: how many, and the chunk that is left.               *)
CountContinuations(pair, limit) ==
    LET Loop[count \in 0..limit, c \in {chunk} \cup {FillChunk(f) : f \in 0..Count}] ==
            IF count >= limit THEN [count |-> count, chunk |-> c]
            ELSE LET next == pair + count
                     d == IF next >= c.end THEN FillChunk(next) ELSE c
                     inChunk == Least(limit - count, d.end - next)
                     continued == CountInChunk(d, next, inChunk)
                 IN  IF continued < inChunk
                     THEN [count |-> count + continued, chunk |-> d]
                     ELSE Loop[count + continued, d]
    IN  Loop[0, chunk]

-----------------------------------------------------------------------------
(* The loop.                                                               *)

InCached(l, r) == InRun(lrun, l) /\ InRun(rrun, r)

Cap(lr, rr, l, r) ==
    Least(Least(lr.start + lr.count - l, rr.start + rr.count - r), Count - i)

(* Variant: a remote run that is not dense is merged too.                  *)
DenseLocal(lr, rr) == skip = "no" /\ lr.stride = lr.len

Dense(lr, rr) == skip = "no" /\ lr.stride = lr.len /\ lr.stride = rr.stride

(* The pairs from i on that one descriptor takes.                          *)
Emit(lr, rr, isDense) ==
    LET l == At(idx.local, i)
        r == At(idx.remote, i)
        found == IF isDense = "yes" THEN CountContinuations(i + 1, Cap(lr, rr, l, r) - 1)
                 ELSE [count |-> 0, chunk |-> chunk]
        seq == 1 + found.count
    IN  /\ ldescs' = Append(ldescs, GetMetaDesc(lr, l, seq))
        /\ rdescs' = Append(rdescs, GetMetaDesc(rr, r, seq))
        /\ total' = total + lr.len * seq
        /\ chunk' = found.chunk
        /\ i' = i + seq
        /\ status' = IF i + seq >= Count THEN "ok" ELSE "run"

(* A pair inside the cached runs.                                          *)
MergeCached ==
    /\ status = "run" /\ InCached(At(idx.local, i), At(idx.remote, i))
    /\ Emit(lrun, rrun, dense)
    /\ UNCHANGED <<input, lrun, rrun, dense>>

Leaves == status = "run" /\ ~InCached(At(idx.local, i), At(idx.remote, i))

(* A negative index is a huge one.                                         *)
InRange(runs, n) == n >= 0 /\ n < FlatSize(runs)
BothInRange == InRange(side.local, At(idx.local, i)) /\ InRange(side.remote, At(idx.remote, i))

SameLen(lr, rr) == lr.len = rr.len

(* A pair that leaves them: look the runs up.                              *)
MergeFound ==
    /\ Leaves /\ BothInRange
    /\ LET lr == Find(side.local, At(idx.local, i))
           rr == Find(side.remote, At(idx.remote, i))
           d == IF Dense(lr, rr) THEN "yes" ELSE "no"
       IN  /\ SameLen(lr, rr)
           /\ Emit(lr, rr, d)
           /\ lrun' = lr /\ rrun' = rr /\ dense' = d
    /\ UNCHANGED input

(* An index out of range, or blocks of different lengths.                  *)
Refuse ==
    /\ Leaves
    /\ \/ ~BothInRange
       \/ /\ BothInRange
          /\ ~SameLen(Find(side.local, At(idx.local, i)), Find(side.remote, At(idx.remote, i)))
    /\ status' = "error"
    /\ UNCHANGED <<input, i, lrun, rrun, dense, chunk, ldescs, rdescs, total>>

Next == MergeCached \/ MergeFound \/ Refuse

Spec == Init /\ [][Next]_vars

-----------------------------------------------------------------------------
(* Properties, against a reference that takes one pair at a time.          *)

(* The run that block n of a list is in.                                   *)
RunOf(runs, n) == CHOOSE run \in {runs[k] : k \in DOMAIN runs} : InRun(run, n)
Exists(runs, n) == \E k \in DOMAIN runs : InRun(runs[k], n)
Block(runs, n) == GetMetaDesc(RunOf(runs, n), n, 1)

Bytes(d) == [b \in 1..d.len |-> <<d.md, d.addr + b - 1>>]
BytesOf(descs) == FlattenSeq([k \in DOMAIN descs |-> Bytes(descs[k])])

Asked(runs, list, n) == [k \in 1..n |-> Block(runs, list[k])]

Valid(k) ==
    /\ Exists(side.local, idx.local[k]) /\ Exists(side.remote, idx.remote[k])
    /\ RunOf(side.local, idx.local[k]).len = RunOf(side.remote, idx.remote[k]).len

(* A merged descriptor never takes in a pair whose index is out of range   *)
(* or whose blocks differ in length: "A negative index becomes a huge one  *)
(* and fails the range check" (nixl_agent.cpp:183), also within a stretch, *)
(* where no check runs.                                                    *)
OnlyValidPairs == \A k \in 1..i : Valid(k)

(* The descriptors made so far are, byte for byte and in order, the blocks *)
(* the indices ask for, on both sides: merging and the cached runs change  *)
(* nothing.  Descriptor k of one side moves as many bytes as descriptor k  *)
(* of the other, and together they are total_bytes.                        *)
BytesAsAsked ==
    OnlyValidPairs =>
        /\ BytesOf(ldescs) = BytesOf(Asked(side.local, idx.local, i))
        /\ BytesOf(rdescs) = BytesOf(Asked(side.remote, idx.remote, i))
        /\ [k \in DOMAIN ldescs |-> ldescs[k].len] = [k \in DOMAIN rdescs |-> rdescs[k].len]
        /\ total = Len(BytesOf(ldescs))

(* makeXferReq fails only for a pair that is not valid.                    *)
RefusesOnlyInvalid == status = "error" => ~Valid(i + 1)

(* find returns the run the block is in, however uneven the runs are, and  *)
(* its "first probe can never exceed the last run index"                   *)
(* (nixl_agent.cpp:167), so it needs no bounds check.                      *)
FindsRun ==
    i = 0 => \A runs \in {side.local, side.remote} : \A n \in 0..(FlatSize(runs) - 1) :
        Probe(runs, n) < Len(runs) /\ InRun(Find(runs, n), n)

(* A stretch that could be longer is not cut at a word or a chunk of the   *)
(* bitmap: two descriptors in a row never continue each other inside the   *)
(* same pair of dense runs.                                                *)
MergesMaximally ==
    [][i' > i /\ i > 0 /\ dense = "yes" /\ UNCHANGED <<lrun, rrun>>
         => ~IsContinuation(i)]_vars
=============================================================================
