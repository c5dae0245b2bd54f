------------------------------- MODULE Tracing -------------------------------
(***************************************************************************)
(* Trace contexts (core/tracing): the random bytes they are made of, also  *)
(* over a fork, the context of a request and of each of its posts, the     *)
(* correlation scope around a call, the events that end a post             *)
(* (core/nixl_agent.cpp), the context on the wire of a UCX notification,   *)
(* and the name table of the NVTX backend.                                 *)
(*                                                                         *)
(* A byte is <<block, position>>: two bytes drawn from the system are      *)
(* different bytes.  Ids are sequences of bytes, <<>> for an id of zeros.  *)
(***************************************************************************)
EXTENDS Integers, Sequences, FiniteSets, SequencesExt

CONSTANT
    TcScenarios    \* the settings: see tcSc

VARIABLES
    tcSc,       \* the setting: block, RandomBuffer's block size; kept, how many of the
                \* TcValues trace ids are sampled; names, the registered span names,
                \* hash, the hash of each name, slots, the size of their table; fails,
                \* whether the system's random source may fail; requests and posts
                \* bound the work of each process
    tcAlive,    \* the processes: 1, and after a fork 2
    tcBuf,      \* process -> its thread's RandomBuffer: [blk, used]
    tcBlocks,   \* blocks drawn from the system so far
    tcHanded,   \* the bytes handed out
    tcTwice,    \* whether a byte was handed out twice
    tcReq,      \* process -> its nixlXferReqH, or NoReq
    tcMade,     \* process -> requests made
    tcCall,     \* process -> the call it is in: [pc, ctx]
    tcStack,    \* process -> correlationStack
    tcSpans,    \* the spans of posts: [p, n, exec, span, corr]
    tcEnds,     \* process -> its xfer.complete and xfer.error events: [n, exec, span]
    tcNotes     \* notifications as the target read them: [p, n, exec, ctx]

tcVars == <<tcSc, tcAlive, tcBuf, tcBlocks, tcHanded, tcTwice, tcReq, tcMade, tcCall, tcStack,
            tcSpans, tcEnds, tcNotes>>
tcRandom == <<tcBuf, tcBlocks, tcHanded, tcTwice>>
tcOut == <<tcSpans, tcEnds, tcNotes>>

TcProcesses == {1, 2}
TcValues == 0..3                 \* what traceIdRandomness may be
NoContext == [trace |-> <<>>, span |-> <<>>, flags |-> 0]
NoReq == [n |-> 0]
NoCall == [pc |-> "idle", ctx |-> NoContext]

TcInit ==
    /\ tcSc \in TcScenarios
    /\ tcAlive = {1}
    /\ tcBuf = [p \in TcProcesses |-> [blk |-> 0, used |-> tcSc.block]]
    /\ tcBlocks = 0 /\ tcHanded = {} /\ tcTwice = FALSE
    /\ tcReq = [p \in TcProcesses |-> NoReq]
    /\ tcMade = [p \in TcProcesses |-> 0]
    /\ tcCall = [p \in TcProcesses |-> NoCall]
    /\ tcStack = [p \in TcProcesses |-> <<>>]
    /\ tcSpans = {} /\ tcEnds = [p \in TcProcesses |-> <<>>] /\ tcNotes = {}

-----------------------------------------------------------------------------
(* Random bytes.                                                             *)

NextByte(r, fail) ==
    IF ~r.ok THEN r
    ELSE IF r.used < tcSc.block
    THEN [r EXCEPT !.used = @ + 1, !.bytes = Append(@, <<r.blk, r.used + 1>>)]
    ELSE IF fail THEN [r EXCEPT !.ok = FALSE]
    ELSE [ok |-> TRUE, blk |-> r.blocks + 1, used |-> 1, blocks |-> r.blocks + 1,
          bytes |-> Append(r.bytes, <<r.blocks + 1, 1>>)]

\* RandomBuffer::fill of n bytes after r; an exception of the refill keeps the
\* bytes copied so far consumed.
Fill(r, n, fail) == FoldLeft(LAMBDA x, i : NextByte(x, fail), r, [i \in 1..n |-> i])

Source(p) == [ok |-> TRUE, blk |-> tcBuf[p].blk, used |-> tcBuf[p].used, blocks |-> tcBlocks,
              bytes |-> <<>>]

\* The buffer of process p after the draws of r.
Drawn(p, r) ==
    /\ tcBuf' = [tcBuf EXCEPT ![p] = [blk |-> r.blk, used |-> r.used]]
    /\ tcBlocks' = r.blocks
    /\ tcHanded' = tcHanded \cup ToSet(r.bytes)
    /\ tcTwice' = (tcTwice \/ ToSet(r.bytes) \cap tcHanded # {})

\* Variant: the child keeps its parent's bytes.
KeepRandomBuffer(buf) == buf

\* clearRandomBuffer, run by pthread_atfork in the child.
ClearRandomBuffer(buf) == [buf EXCEPT !.used = tcSc.block]

\* The process forks between two calls; the child has the forking thread only.
Fork ==
    /\ tcAlive = {1} /\ tcCall[1].pc = "idle"
    /\ tcAlive' = TcProcesses
    /\ tcBuf' = [tcBuf EXCEPT ![2] = ClearRandomBuffer(tcBuf[1])]
    /\ UNCHANGED <<tcSc, tcBlocks, tcHanded, tcTwice, tcReq, tcMade, tcCall, tcStack, tcOut>>

-----------------------------------------------------------------------------
(* Contexts.                                                                 *)

Valid(ctx) == ctx.trace # <<>> /\ ctx.span # <<>>
Sampled(ctx) == ctx.flags % 2 = 1

\* sampledByRatio: kept of the possible values are sampled, the largest ones.
SampledByRatio(value, kept) ==
    kept > 0 /\ (kept >= Cardinality(TcValues) \/ value >= Cardinality(TcValues) - kept)

\* generateInto: an id of two bytes for the trace and of one for the span.
NewContext(bytes, sampled) ==
    [trace |-> SubSeq(bytes, 1, 2), span |-> SubSeq(bytes, 3, 3),
     flags |-> 2 + (IF sampled THEN 1 ELSE 0)]

\* generateRequestId: the last byte drawn, or none when the source failed.
RequestId(r) == IF r.ok THEN <<Last(r.bytes)>> ELSE <<>>

\* A request's context and then its id: what fails is left empty and the
\* request goes on without it.
MakeRequest(p) ==
    /\ p \in tcAlive /\ tcReq[p] = NoReq /\ tcMade[p] < tcSc.requests[p]
    /\ \E sampled \in {SampledByRatio(v, tcSc.kept) : v \in TcValues},
          fail1, fail2 \in {FALSE, tcSc.fails} :
         LET a == Fill(Source(p), 3, fail1)
             b == Fill([a EXCEPT !.ok = TRUE], 1, fail2)
             ctx == IF a.ok THEN NewContext(a.bytes, sampled) ELSE NoContext
         IN  /\ Drawn(p, b)
             /\ tcReq' = [tcReq EXCEPT ![p] =
                  [n |-> tcMade[p] + 1, ctx |-> ctx, post |-> ctx, used |-> FALSE, id |-> RequestId(b),
                   exec |-> 0, status |-> "not_posted", whole |-> TRUE]]
    /\ tcMade' = [tcMade EXCEPT ![p] = @ + 1]
    /\ UNCHANGED <<tcSc, tcAlive, tcCall, tcStack, tcOut>>

\* CorrelationScope pushes the request's id when there is a context or an id.
Pushed(p, ctx, id) == IF Valid(ctx) \/ id # <<>> THEN Append(tcStack[p], id) ELSE tcStack[p]

Popped(p, ctx, id) ==
    IF (Valid(ctx) \/ id # <<>>) /\ tcStack[p] # <<>> THEN Front(tcStack[p]) ELSE tcStack[p]

\* applyCorrelation for a plain span, setCorrelation for a context's own.
Correlation(stack, ctx, id) ==
    IF Sampled(ctx) THEN id ELSE IF stack = <<>> THEN <<>> ELSE Last(stack)

\* A post after the first draws a span id of its own.
NeedsPostContext(r) == Sampled(r.ctx) /\ r.used

\* generatePostContext: the request's context under a new span id, or unchanged
\* when the random source fails.
PostContext(request, r) == IF r.ok THEN [request EXCEPT !.span = r.bytes] ELSE request

Calls(p, n) == Cardinality({s \in tcSpans : s.p = p /\ s.n = n})

\* postXferReq up to its lock: the context of the call (PostContext),
\* the correlation scope and the span of the call.
PostStarts(p) ==
    LET r == tcReq[p] IN
    /\ r # NoReq /\ tcCall[p].pc = "idle" /\ Calls(p, r.n) < tcSc.posts[p]
    /\ \E fail \in {FALSE, tcSc.fails} :
         LET d == Fill(Source(p), 1, fail)
             ctx == IF NeedsPostContext(r) THEN PostContext(r.ctx, d) ELSE r.ctx
             stack == Pushed(p, ctx, r.id)
         IN  /\ IF NeedsPostContext(r) THEN Drawn(p, d) ELSE UNCHANGED tcRandom
             /\ tcCall' = [tcCall EXCEPT ![p] = [pc |-> "post", ctx |-> ctx]]
             /\ tcStack' = [tcStack EXCEPT ![p] = stack]
             /\ tcReq' = [tcReq EXCEPT ![p].used = TRUE,
                                       ![p].whole = @ /\ (NeedsPostContext(r) => d.ok)]
             /\ tcSpans' = tcSpans \cup {[p |-> p, n |-> r.n, call |-> Calls(p, r.n),
                                          span |-> ctx.span, id |-> r.id, whole |-> r.whole /\ d.ok,
                                          corr |-> Correlation(stack, ctx, r.id),
                                          sampled |-> Sampled(r.ctx)]}
    /\ UNCHANGED <<tcSc, tcAlive, tcMade, tcEnds, tcNotes>>

\* traceXferComplete and traceXferError name the latest post's context.
EndEvent(r) == [n |-> r.n, exec |-> r.exec, span |-> r.post.span]

CallEnds(p) ==
    /\ tcStack' = [tcStack EXCEPT ![p] = Popped(p, tcCall[p].ctx, tcReq[p].id)]
    /\ tcCall' = [tcCall EXCEPT ![p] = NoCall]

\* The post is refused: the previous one is in progress, or its remote agent
\* is gone.
PostRefused(p) ==
    /\ tcCall[p].pc = "post"
    /\ CallEnds(p)
    /\ UNCHANGED <<tcSc, tcAlive, tcRandom, tcReq, tcMade, tcOut>>

\* encodeTraceContext: version, flags, trace id, span id; only a sampled valid
\* context is put into a notification.
Encode(ctx) == IF Sampled(ctx) /\ Valid(ctx) THEN <<1, ctx.flags % 4, ctx.trace, ctx.span>> ELSE <<>>

\* decodeTraceContext: the wire version it knows, whole and valid.
Decode(wire) ==
    IF wire = <<>> \/ wire[1] # 1 \/ Len(wire) # 4 \/ wire[3] = <<>> \/ wire[4] = <<>>
    THEN NoContext
    ELSE [trace |-> wire[3], span |-> wire[4], flags |-> wire[2]]

\* The post reaches the engine, after the end of a previous one was seen: the
\* post's context becomes the request's, and the engine sends it along with
\* the notification; the engine may be done or have failed at once.
PostHanded(p) ==
    LET r == tcReq[p]
        next == [r EXCEPT !.post = tcCall[p].ctx, !.exec = IF r.id = <<>> THEN 0 ELSE @ + 1]
    IN
    /\ tcCall[p].pc = "post"
    /\ \E status \in {"prog", "done"} :
         LET ended == (IF r.status = "prog" THEN <<EndEvent(r)>> ELSE <<>>)
                      \o (IF status = "done" THEN <<EndEvent(next)>> ELSE <<>>)
         IN  /\ tcReq' = [tcReq EXCEPT ![p] = [next EXCEPT !.status = status]]
             /\ tcEnds' = [tcEnds EXCEPT ![p] = @ \o ended]
    /\ tcNotes' = tcNotes \cup {[p |-> p, n |-> r.n, exec |-> next.exec,
                                 ctx |-> Decode(Encode(tcCall[p].ctx))]}
    /\ CallEnds(p)
    /\ UNCHANGED <<tcSc, tcAlive, tcRandom, tcMade, tcSpans>>

\* getXferStatus sees the end of the transfer.
TcGetXferStatus(p) ==
    LET r == tcReq[p] IN
    /\ r # NoReq /\ tcCall[p].pc = "idle" /\ r.status = "prog"
    /\ tcReq' = [tcReq EXCEPT ![p].status = "done"]
    /\ tcEnds' = [tcEnds EXCEPT ![p] = Append(@, EndEvent(r))]
    /\ UNCHANGED <<tcSc, tcAlive, tcRandom, tcMade, tcCall, tcStack, tcSpans, tcNotes>>

\* releaseXferReq: a transfer in progress ends now, or is cancelled.
TcReleaseXferReq(p) ==
    LET r == tcReq[p] IN
    /\ r # NoReq /\ tcCall[p].pc = "idle"
    /\ tcEnds' = [tcEnds EXCEPT ![p] = IF r.status = "prog" THEN Append(@, EndEvent(r)) ELSE @]
    /\ tcReq' = [tcReq EXCEPT ![p] = NoReq]
    /\ UNCHANGED <<tcSc, tcAlive, tcRandom, tcMade, tcCall, tcStack, tcSpans, tcNotes>>

-----------------------------------------------------------------------------
(* The NVTX backend's table of names: open addressing.                       *)

Slots == 0..tcSc.slots - 1
Home(name) == tcSc.hash[name]
Probe(slot, i) == (slot + i) % tcSc.slots

\* kNameTable, built name by name: -1 is a free slot.
NameTable ==
    LET free(t, name) ==
          CHOOSE i \in Slots : t[Probe(Home(name), i)] = -1
                               /\ \A j \in 0..i - 1 : t[Probe(Home(name), j)] # -1
    IN  FoldLeft(LAMBDA t, i : [t EXCEPT ![Probe(Home(tcSc.names[i]), free(t, tcSc.names[i]))] = i],
                 [s \in Slots |-> -1], [i \in DOMAIN tcSc.names |-> i])

\* registeredIndex: probing stops at a free slot; 0 is "not registered".
RegisteredIndex(name) ==
    LET at(i) == NameTable[Probe(Home(name), i)]
        hits == {i \in Slots : at(i) > 0 /\ tcSc.names[at(i)] = name
                               /\ \A j \in 0..i - 1 : at(j) # -1}
    IN  IF hits = {} THEN 0 ELSE at(CHOOSE i \in hits : TRUE)

-----------------------------------------------------------------------------
TcStep ==
    \/ Fork
    \/ \E p \in TcProcesses :
         \/ MakeRequest(p) \/ PostStarts(p) \/ PostRefused(p) \/ PostHanded(p)
         \/ TcGetXferStatus(p) \/ TcReleaseXferReq(p)

\* No random byte is used twice, in the process or in a forked child, so no two
\* ids come from the same bytes: "A forked child must not hand out the bytes
\* its parent still holds" (trace_context.cpp, RandomBuffer).
TcFreshBytes == ~tcTwice

\* Unless the random source failed, the spans of a sampled request's posts are
\* different; every span carries the request's id, and between calls the
\* correlation stack is empty (postXferReq, CorrelationScope).
TcSpansTold ==
    /\ \A s, t \in tcSpans :
         /\ s.corr = s.id
         /\ s # t /\ s.sampled /\ s.whole /\ t.whole /\ s.p = t.p /\ s.n = t.n => s.span # t.span
    /\ \A p \in TcProcesses : tcCall[p].pc = "idle" => tcStack[p] = <<>>

\* Every post handed to the engine has one end event, at the latest when its
\* request is released, and the event and the target's notification name the
\* span of that very post.
TcOneEnd ==
    \A note \in tcNotes :
        LET events == tcEnds[note.p]
            ends == {i \in DOMAIN events : events[i].n = note.n /\ events[i].exec = note.exec}
            r == tcReq[note.p]
            running == r # NoReq /\ r.n = note.n /\ r.exec = note.exec /\ r.status = "prog"
        IN  note.exec > 0 =>
              /\ Cardinality(ends) = IF running THEN 0 ELSE 1
              /\ Valid(note.ctx) => \A i \in ends : events[i].span = note.ctx.span

\* As many trace ids are sampled as the ratio keeps, and looking a name up finds
\* exactly the registered names, wherever their hashes collide.
TcTables ==
    /\ \A kept \in 0..4 : Cardinality({v \in TcValues : SampledByRatio(v, kept)}) = kept
    /\ \A i \in DOMAIN tcSc.names : RegisteredIndex(tcSc.names[i]) = i
    /\ \A name \in DOMAIN tcSc.hash \ ToSet(tcSc.names) : RegisteredIndex(name) = 0
==============================================================================
