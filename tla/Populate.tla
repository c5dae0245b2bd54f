------------------------------ MODULE Populate ------------------------------
(***************************************************************************)
(* nixlMemSection::populate (src/infra/nixl_memory_section.cpp), which     *)
(* finds the registration behind every descriptor of a transfer.  It has   *)
(* three overloads: from a list to a list (the flat loop), from a list to  *)
(* strided runs (the stride loop, which compresses on the way), and from   *)
(* strided runs to strided runs.                                           *)
(*                                                                         *)
(* A behaviour takes one section and one query through them: a list goes   *)
(* through the flat and then the stride loop; a list of runs goes through  *)
(* the third overload while its expansion goes through the flat loop.  An  *)
(* action is one iteration of a loop.  The results can then be compared.   *)
(***************************************************************************)
EXTENDS Descs

CONSTANTS
    Bases,      \* section lists, sorted
    Queries,    \* lists of descriptors
    RunQueries, \* lists of strided runs
    MDs,        \* the engines' metadata objects
    EmptyMD        \* the metadata of an empty result

VARIABLES
    base, form,             \* the section; "list" or "runs"
    query, asked,           \* the descriptors, the runs asked for
    i, s, out, flat,        \* the flat loop: next element, s_index, resp, status
    j, t, curRun, prev, outRuns, stride   \* the loop that makes runs

populateInput == <<base, form, query, asked>>
flatVars == <<i, s, out, flat>>
strideVars == <<j, t, curRun, prev, outRuns, stride>>
populateVars == <<populateInput, flatVars, strideVars>>

Meta(q, d) == [dev |-> q.dev, addr |-> q.addr, len |-> q.len, md |-> d.md]

(* A run as it is made: its first block, and where it starts in the list.  *)
Run(q, d, step, count, start) ==
    [dev |-> q.dev, addr |-> q.addr, len |-> q.len, md |-> d.md,
     stride |-> step, count |-> count, start |-> start]
NoRun == [dev |-> 0, addr |-> 0, len |-> 0, md |-> EmptyMD, stride |-> 0, count |-> 0, start |-> 0]

(* k * step in machine words.                                              *)
Times(k, step) == (k * step) % (WordMax + 1)

(* The blocks of a run, the run as the user wrote it or as it was made.    *)
Blocks(r) ==
    [k \in 1..r.count |-> [dev |-> r.dev, addr |-> Plus(r.addr, Times(k - 1, r.stride)), len |-> r.len]]
MetaBlocks(r) ==
    [k \in 1..r.count |-> [dev |-> r.dev, addr |-> Plus(r.addr, Times(k - 1, r.stride)),
                           len |-> r.len, md |-> r.md]]
Expand(rs, Of(_)) == FlattenSeq([k \in DOMAIN rs |-> Of(rs[k])])

Desc == [dev : Nat, addr : Word, len : Word]

(* Sections and queries are lists of descriptors.                          *)
ASSUME PopulateAssumption ==
    /\ \A v \in Bases : v \in Seq([dev : Nat, addr : Word, len : Word, md : MDs])
    /\ \A v \in Queries : v \in Seq(Desc)
    /\ \A v \in RunQueries : Expand(v, Blocks) \in Seq(Desc)

PopulateInit ==
    /\ base \in Bases
    /\ \/ form = "list" /\ query \in Queries /\ asked = <<>>
       \/ form = "runs" /\ asked \in RunQueries /\ query = Expand(asked, Blocks)
    /\ i = 1 /\ s = 0 /\ out = <<>> /\ flat = "run"
    /\ j = 1 /\ t = 0 /\ curRun = NoRun /\ prev = 0 /\ outRuns = <<>> /\ stride = "run"

-----------------------------------------------------------------------------
(* The list-to-list overload.                                              *)

FlatFails ==
    /\ flat' = "error"
    /\ out' = <<>>
    /\ UNCHANGED <<populateInput, i, s, strideVars>>

FlatFinds(k) ==
    /\ s' = k
    /\ out' = Append(out, Meta(query[i], base[k]))
    /\ i' = i + 1
    /\ flat' = IF i = Len(query) THEN "ok" ELSE "run"
    /\ UNCHANGED <<populateInput, strideVars>>

(* The first element, and one that is less than the element before: search *)
(* the whole list.                                                         *)
FlatSearch ==
    /\ flat = "run" /\ i <= Len(query)
    /\ i = 1 \/ (i > 1 /\ Less(query[i], query[i - 1]))
    /\ LET k == GetCoveringIndex(base, query[i])
       IN  IF k = NotFound THEN FlatFails ELSE FlatFinds(k)

Ordered == flat = "run" /\ i > 1 /\ i <= Len(query) /\ ~Less(query[i], query[i - 1])

(* The entry that covered the element before covers this one too.          *)
FlatStay ==
    /\ Ordered
    /\ CoversFollowing(base[s], RangeEnd(base[s]), query[i])
    /\ FlatFinds(s)

(* The entries behind position p that cover q.                             *)
After(p, q) == {k \in (p + 1)..Len(base) : CoversWithEnd(base[k], RangeEnd(base[k]), q)}

(* Otherwise the first of those behind it, if there is one.                *)
FlatWalk ==
    /\ Ordered
    /\ ~CoversFollowing(base[s], RangeEnd(base[s]), query[i])
    /\ \/ After(s, query[i]) = {} /\ FlatFails
       \/ \E k \in After(s, query[i]) :
             (\A m \in After(s, query[i]) : k <= m) /\ FlatFinds(k)

(* An empty query is refused.                                              *)
FlatEmpty ==
    /\ flat = "run" /\ query = <<>>
    /\ FlatFails

-----------------------------------------------------------------------------
(* The list-to-runs overload, once the flat one is done.                   *)

StrideFails ==
    /\ stride' = "error"
    /\ outRuns' = <<>>
    /\ UNCHANGED <<populateInput, flatVars, j, t, curRun, prev>>

(* The entry of the current element: the one of the element before if it   *)
(* covers this one, else found by a search or by walking on.               *)
Entry ==
    LET q == query[j]
        walk == {k \in t..Len(base) : CoversWithEnd(base[k], RangeEnd(base[k]), q)}
    IN  CASE j = 1 -> GetCoveringIndex(base, q)
          [] j > 1 /\ CoversWithEnd(base[t], RangeEnd(base[t]), q) -> t
          [] j > 1 /\ ~CoversWithEnd(base[t], RangeEnd(base[t]), q) /\ Less(q, query[j - 1])
                -> GetCoveringIndex(base, q)
          [] OTHER -> IF walk = {} THEN NotFound
                      ELSE CHOOSE k \in walk : \A m \in walk : k <= m

(* Variant: any element of the same length and registration joins the run. *)
ExtendsAnyGap(q, d) ==
    /\ q.len = curRun.len /\ q.dev = curRun.dev /\ d.md = curRun.md
    /\ q.addr > prev

(* Does the element extend the current run?  The second one sets its       *)
(* stride.                                                                 *)
Extends(q, d) ==
    /\ q.len = curRun.len /\ q.dev = curRun.dev /\ d.md = curRun.md
    /\ IF curRun.count = 1 THEN q.addr > prev ELSE Minus(q.addr, prev) = curRun.stride

StrideStep ==
    /\ flat # "run" /\ stride = "run" /\ form = "list" /\ j <= Len(query)
    /\ Entry # NotFound
    /\ LET q == query[j]
           d == base[Entry]
           fresh == Run(q, d, q.len, 1, j - 1)
           longer == [curRun EXCEPT !.count = @ + 1,
                                 !.stride = IF curRun.count = 1 THEN q.addr - prev ELSE @]
           joins == j > 1 /\ Extends(q, d)
           next == IF joins THEN longer ELSE fresh
           closed == IF j = 1 \/ joins THEN outRuns ELSE Append(outRuns, curRun)
       IN  /\ curRun' = next
           /\ outRuns' = IF j = Len(query) THEN Append(closed, next) ELSE closed
           /\ prev' = q.addr
    /\ t' = Entry
    /\ j' = j + 1
    /\ stride' = IF j = Len(query) THEN "ok" ELSE "run"
    /\ UNCHANGED <<populateInput, flatVars>>

StrideMiss ==
    /\ flat # "run" /\ stride = "run" /\ form = "list"
    /\ query = <<>> \/ (query # <<>> /\ Entry = NotFound)
    /\ StrideFails

-----------------------------------------------------------------------------
(* The runs-to-runs overload.                                              *)

(* From the first byte of the first block to the last of the last.         *)
Span(r) == (r.count - 1) * r.stride + r.len

(* The checks on a run, which also keep the arithmetic from overflowing.   *)
WellFormed(r, start) ==
    /\ r.count # 0 /\ r.len # 0 /\ r.stride >= r.len
    /\ r.len <= WordMax - r.addr
    /\ r.count - 1 <= (WordMax - r.addr - r.len) \div r.stride
    /\ r.count <= WordMax - start

SpanEntry(r) == GetCoveringIndex(base, [dev |-> r.dev, addr |-> r.addr, len |-> Span(r)])

RunsStep ==
    /\ stride = "run" /\ form = "runs" /\ j <= Len(asked)
    /\ WellFormed(asked[j], prev)
    /\ SpanEntry(asked[j]) # NotFound
    /\ LET r == asked[j]
       IN  /\ outRuns' = Append(outRuns, Run(r, base[SpanEntry(r)], r.stride, r.count, prev))
           /\ prev' = prev + r.count
    /\ j' = j + 1
    /\ stride' = IF j = Len(asked) THEN "ok" ELSE "run"
    /\ UNCHANGED <<populateInput, flatVars, t, curRun>>

(* An empty list of runs, a malformed run, or one that no entry covers.    *)
RunsMiss ==
    /\ stride = "run" /\ form = "runs"
    /\ \/ asked = <<>>
       \/ j <= Len(asked) /\ ~WellFormed(asked[j], prev)
       \/ j <= Len(asked) /\ WellFormed(asked[j], prev) /\ SpanEntry(asked[j]) = NotFound
    /\ StrideFails

PopulateNext ==
    \/ FlatSearch \/ FlatStay \/ FlatWalk \/ FlatEmpty
    \/ StrideStep \/ StrideMiss
    \/ RunsStep \/ RunsMiss

PopulateSpec == PopulateInit /\ [][PopulateNext]_populateVars

-----------------------------------------------------------------------------
(* Properties.                                                             *)

PopulateTypeOK ==
    /\ form \in {"list", "runs"}
    /\ i \in 1..(Len(query) + 1) /\ s \in 0..Len(base) /\ t \in 0..Len(base)
    /\ Len(out) \in {0, i - 1}
    /\ flat \in {"run", "ok", "error"} /\ stride \in {"run", "ok", "error"}
    /\ prev \in Word

(* Block m, with metadata, is backed: an entry of the section that has its *)
(* metadata covers it.                                                     *)
Backed(m) == \E k \in DOMAIN base : base[k].md = m.md /\ Covers(base[k], m)

(* Every descriptor the flat loop resolved is the one asked for, with the  *)
(* metadata of a registration that covers it, whatever order the query has *)
(* and however the registrations overlap (the shortcut of                  *)
(* coversFollowingWithEnd leaves out the comparison of the start).         *)
FlatSound ==
    \A k \in DOMAIN out :
        /\ SameRange(out[k], query[k])
        /\ Backed(out[k])

(* The registrations of an engine that gives each address once: non-empty, *)
(* in range and pairwise disjoint.                                         *)
Disjoint ==
    /\ \A k \in DOMAIN base : base[k].len > 0 /\ base[k].addr <= RangeEnd(base[k])
    /\ \A k, m \in DOMAIN base :
          k < m /\ base[k].dev = base[m].dev => RangeEnd(base[k]) <= base[m].addr

(* On disjoint registrations the flat loop fails only if the query is      *)
(* empty or some descriptor of it is covered by no registration: neither   *)
(* the forward walk nor the search around the lower bound misses an entry. *)
FlatComplete ==
    flat = "error" /\ Disjoint =>
        query = <<>> \/ \E n \in DOMAIN query : \A k \in DOMAIN base : ~Covers(base[k], query[n])

(* The runs made so far, with the one being made.                          *)
Made == IF form = "list" /\ stride = "run" /\ j > 1 THEN Append(outRuns, curRun) ELSE outRuns

(* Expanded, the runs are exactly the descriptors consumed so far, each    *)
(* with the metadata of a registration that covers it: compression loses,  *)
(* invents and reorders nothing.  Their start_idx number the blocks without*)
(* a gap, which nixlMetaStrideDescList::find and flatSize rely on.         *)
RunsSound ==
    LET blocks == Expand(Made, MetaBlocks)
    IN  /\ \A k \in DOMAIN blocks : SameRange(blocks[k], query[k]) /\ Backed(blocks[k])
        /\ form = "list" /\ stride # "error" => Len(blocks) = j - 1
        /\ \A k \in DOMAIN Made :
            Made[k].start = (IF k = 1 THEN 0 ELSE Made[k - 1].start + Made[k - 1].count)

(* On disjoint registrations a list prepared as runs resolves exactly as   *)
(* the same list prepared flat: both fail, or both give the same blocks.   *)
SameAsFlat ==
    form = "list" /\ stride # "run" /\ Disjoint =>
        stride = flat /\ Expand(outRuns, MetaBlocks) = out

(* Runs the user gave, once accepted, resolve to what the expanded list    *)
(* resolves to: the equivalence nixl.h states for the stride overloads.    *)
RunsSameAsExpanded ==
    form = "runs" /\ stride = "ok" /\ flat # "run" /\ Disjoint =>
        flat = "ok" /\ Expand(outRuns, MetaBlocks) = out

=============================================================================
