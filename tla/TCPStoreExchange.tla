--------------------------- MODULE TCPStoreExchange ---------------------------
(***************************************************************************)
(* Metadata exchange through a c10d TCPStore                               *)
(* (src/core/nixl_tcpstore_metadata_backend.cpp and nixl_tcpstore_client): *)
(* one agent publishes and invalidates, another fetches.  Each has a       *)
(* worker and a client with at most one connection.  The store has no      *)
(* watch: a key that is not there stays pending and is probed again.       *)
(*                                                                         *)
(* The store is external.  It serves the requests of a connection in order; *)
(* SET has no answer.  Requests of a connection the client gave up may     *)
(* still be served, at any later time.                                     *)
(***************************************************************************)
EXTENDS Integers, Sequences, SequencesExt, FiniteSets

CONSTANTS
    KeyOrder,   \* the keys (labels), in the order pendingFetches_ is iterated
    None,
    MaxAge,     \* passes after which a pending fetch is past its deadline
    MaxCalls,   \* bound on sendLocal, sendLocalPartial and invalidateLocal
    MaxFetches, \* bound on fetchRemote of each key
    MaxFaults   \* bound on failing operations of the clients

VARIABLES
    kv,                     \* external: what the TCPStore holds
    late,                   \* external: requests of abandoned connections
    conn,                   \* per client, the connection's two streams; closed
    ptasks, published,      \* the publisher: its queue, publishedKeys_
    todo,                   \* the keys its invalidation has still to delete
    wish,                   \* ghost: what it last asked for, key by key
    stray,                  \* ghost: keys set by an abandoned connection
    rtasks, rstage, rkey,   \* the reader: its queue, its place in tryFetch
    pending,                \* pendingFetches_, with their age
    pass, budget,           \* the rest of a serviceEvents pass, and its budget
    loaded,                 \* the publisher's metadata, by label
    used                    \* what was used of the bounds

pub == <<ptasks, published, todo, wish>>
rd == <<rtasks, rstage, rkey, pending, pass, budget, loaded>>
vars == <<kv, late, conn, pub, stray, rd, used>>

Keys == ToSet(KeyOrder)
Nothing == [k \in Keys |-> None]
Closed == [fd |-> "none", req |-> <<>>, ans |-> <<>>]

Init ==
    /\ kv = Nothing /\ late = {}
    /\ conn = [c \in {"pub", "rd"} |-> Closed]
    /\ ptasks = <<[op |-> "connect"]>> /\ published = {} /\ todo = {}
    /\ wish = Nothing /\ stray = {}
    /\ rtasks = <<>> /\ rstage = "idle" /\ rkey = None
    /\ pending = [k \in {} |-> 0] /\ pass = <<>> /\ budget = "in"
    /\ loaded = Nothing
    /\ used = [calls |-> 0, fetches |-> [k \in Keys |-> 0], faults |-> 0]

Used(b, max) == used[b] < max /\ used' = [used EXCEPT ![b] = @ + 1]
Fault == Used("faults", MaxFaults)

-----------------------------------------------------------------------------
(* The client.  ensureConnected opens a fresh connection when there is     *)
(* none; an operation that fails closes it (fd_.reset), so that no later   *)
(* operation reads an answer that was meant for this one.                  *)

Ask(c, r) ==
    conn' = [conn EXCEPT ![c] = [fd |-> "open", req |-> Append(@.req, r), ans |-> @.ans]]

Answer(c) == conn[c].ans[1]
HasAnswer(c) == conn[c].ans # <<>>
Taken(c) == conn' = [conn EXCEPT ![c].ans = Tail(@)]

Abandon(c) ==
    /\ conn' = [conn EXCEPT ![c] = Closed]
    /\ late' = IF conn[c].req = <<>> THEN late ELSE late \cup {conn[c].req}

-----------------------------------------------------------------------------
(* The store.                                                              *)

Applied(r) ==
    CASE r.op = "set" -> [kv EXCEPT ![r.key] = r.val]
      [] r.op = "delete" -> [kv EXCEPT ![r.key] = None]
      [] OTHER -> kv

(* CHECK says whether the key is there; GET of a missing key is empty.     *)
AnswerTo(r) ==
    CASE r.op = "set" -> <<>>
      [] r.op = "check" -> <<[to |-> "check", key |-> r.key, val |-> IF kv[r.key] = None THEN 0 ELSE 1]>>
      [] r.op = "get" -> <<[to |-> "get", key |-> r.key, val |-> kv[r.key]]>>
      [] r.op = "delete" -> <<[to |-> "delete", key |-> r.key, val |-> 0]>>

Serve(c) ==
    /\ conn[c].req # <<>>
    /\ kv' = Applied(Head(conn[c].req))
    /\ conn' = [conn EXCEPT ![c].req = Tail(@), ![c].ans = @ \o AnswerTo(Head(conn[c].req))]
    /\ UNCHANGED <<late, pub, stray, rd, used>>

(* A request of an abandoned connection is served after all, or was lost.  *)
ServeLate ==
    \E q \in late :
        LET left == (late \ {q}) \cup (IF Len(q) = 1 THEN {} ELSE {Tail(q)}) IN
        /\ \/ /\ late' = left /\ kv' = Applied(Head(q))
              /\ stray' = IF Head(q).op = "set" THEN stray \cup {Head(q).key} ELSE stray
           \/ late' = late \ {q} /\ UNCHANGED <<kv, stray>>
        /\ UNCHANGED <<conn, pub, rd, used>>

-----------------------------------------------------------------------------
(* The publisher.                                                          *)

SendLocal(k) ==
    /\ Used("calls", MaxCalls)
    /\ wish' = [wish EXCEPT ![k] = used.calls + 1]
    /\ ptasks' = Append(ptasks, [op |-> "set", key |-> k, val |-> used.calls + 1])
    /\ UNCHANGED <<kv, late, conn, published, todo, stray, rd>>

InvalidateLocal ==
    /\ Used("calls", MaxCalls)
    /\ wish' = Nothing
    /\ ptasks' = Append(ptasks, [op |-> "invalidate"])
    /\ UNCHANGED <<kv, late, conn, published, todo, stray, rd>>

Running(op) == ptasks # <<>> /\ Head(ptasks).op = op
Rest == UNCHANGED <<kv, wish, stray, rd>>

(* start() queues the first connection; the client connects on demand.     *)
Connect ==
    /\ Running("connect")
    /\ ptasks' = Tail(ptasks)
    /\ UNCHANGED <<late, conn, published, todo, used>> /\ Rest

(* publishKey: set returns once the request is on its way.  When it        *)
(* throws, the request was not sent whole.                                 *)
PublishKey ==
    /\ Running("set")
    /\ ptasks' = Tail(ptasks)
    /\ \/ /\ Ask("pub", Head(ptasks))
          /\ published' = published \cup {Head(ptasks).key}
          /\ UNCHANGED <<late, used>>
       \/ Fault /\ Abandon("pub") /\ UNCHANGED published
    /\ UNCHANGED todo /\ Rest

(* invalidateLocal's task: one DELETE and its answer after the other; the  *)
(* keys are forgotten only when all went well.                             *)
DeleteNext ==
    /\ Running("invalidate")
    /\ todo = {} /\ published # {} /\ conn["pub"].ans = <<>>
    /\ todo' = published
    /\ \E k \in published : Ask("pub", [op |-> "delete", key |-> k])
    /\ UNCHANGED <<ptasks, published, late, used>> /\ Rest

(* Variant: the task ends with the first key deleted.                      *)
DeletedOne ==
    /\ Running("invalidate") /\ todo # {} /\ HasAnswer("pub")
    /\ Taken("pub")
    /\ published' = todo \ {Answer("pub").key} /\ todo' = {} /\ ptasks' = Tail(ptasks)
    /\ UNCHANGED <<late, used>> /\ Rest

Deleted ==
    /\ Running("invalidate") /\ todo # {} /\ HasAnswer("pub")
    /\ LET left == todo \ {Answer("pub").key}
           got == [conn["pub"] EXCEPT !.ans = Tail(@)] IN
       IF left = {}
       THEN /\ conn' = [conn EXCEPT !["pub"] = got]
            /\ published' = {} /\ todo' = {} /\ ptasks' = Tail(ptasks)
       ELSE /\ \E k \in left :
                 conn' = [conn EXCEPT !["pub"] =
                            [got EXCEPT !.req = Append(@, [op |-> "delete", key |-> k])]]
            /\ todo' = left
            /\ UNCHANGED <<published, ptasks>>
    /\ UNCHANGED <<late, used>> /\ Rest

NothingPublished ==
    /\ Running("invalidate") /\ todo = {} /\ published = {}
    /\ ptasks' = Tail(ptasks)
    /\ UNCHANGED <<late, conn, published, todo, used>> /\ Rest

DeleteFails ==
    /\ Running("invalidate") /\ published # {}
    /\ Fault /\ Abandon("pub")
    /\ todo' = {} /\ ptasks' = Tail(ptasks)
    /\ UNCHANGED published /\ Rest

-----------------------------------------------------------------------------
(* The reader.                                                             *)

Kept == UNCHANGED <<kv, pub, stray>>

FetchRemote(k) ==
    /\ used.fetches[k] < MaxFetches /\ used' = [used EXCEPT !.fetches[k] = @ + 1]
    /\ rtasks' = Append(rtasks, k)
    /\ UNCHANGED <<late, conn, rstage, rkey, pending, pass, budget, loaded>> /\ Kept

(* tryFetch for a task, or for the next pending fetch of a pass.           *)
StartFetch ==
    /\ rstage = "idle"
    /\ \/ pass = <<>> /\ rtasks # <<>> /\ rkey' = Head(rtasks)
       \/ pass # <<>> /\ budget = "in" /\ pending[Head(pass)] < MaxAge /\ rkey' = Head(pass)
    /\ rstage' = "check"
    /\ Ask("rd", [op |-> "check", key |-> rkey'])
    /\ UNCHANGED <<late, rtasks, pending, pass, budget, loaded, used>> /\ Kept

Without(f, k) == [x \in DOMAIN f \ {k} |-> f[x]]

(* tryFetch is over.  A task whose key is not there becomes pending; an    *)
(* iteration of the pass may have used up its budget.                      *)
Settle(found) ==
    /\ rstage' = "idle" /\ rkey' = None
    /\ IF pass = <<>>
       THEN /\ rtasks' = Tail(rtasks)
            /\ pending' = IF found THEN pending
                          ELSE [x \in DOMAIN pending \cup {rkey} |-> IF x = rkey THEN 0 ELSE pending[x]]
            /\ UNCHANGED <<pass, budget>>
       ELSE /\ pass' = Tail(pass)
            /\ budget' \in {"in", "out"}
            /\ pending' = IF found THEN Without(pending, rkey) ELSE pending
            /\ UNCHANGED rtasks

Checked ==
    /\ rstage = "check" /\ HasAnswer("rd")
    /\ IF Answer("rd").val = 1
       THEN /\ rstage' = "get"
            /\ conn' = [conn EXCEPT !["rd"].ans = Tail(@),
                                    !["rd"].req = Append(@, [op |-> "get", key |-> rkey])]
            /\ UNCHANGED <<rkey, rtasks, pending, pass, budget>>
       ELSE Taken("rd") /\ Settle(FALSE)
    /\ UNCHANGED <<late, loaded, used>> /\ Kept

(* An empty value: deleted between the CHECK and the GET.  Otherwise it is *)
(* loaded; a load that fails settles the fetch as well.                    *)
Got ==
    /\ rstage = "get" /\ HasAnswer("rd")
    /\ Taken("rd")
    /\ \/ Answer("rd").val = None /\ Settle(FALSE) /\ UNCHANGED <<loaded, used>>
       \/ /\ Answer("rd").val # None /\ Settle(TRUE)
          /\ \/ loaded' = [loaded EXCEPT ![rkey] = Answer("rd").val] /\ UNCHANGED used
             \/ Fault /\ UNCHANGED loaded
    /\ UNCHANGED late /\ Kept

(* No connection, or no answer before the deadline of the operation.       *)
FetchFails ==
    /\ rstage # "idle" /\ Fault /\ Settle(FALSE)
    /\ Abandon("rd")
    /\ UNCHANGED loaded /\ Kept

(* serviceEvents: one pass over the pending fetches.  Between two passes   *)
(* the clock moves on.                                                     *)
BeginPass ==
    /\ rstage = "idle" /\ pass = <<>> /\ rtasks = <<>> /\ DOMAIN pending # {}
    /\ pending' = [k \in DOMAIN pending |-> pending[k] + 1]
    /\ pass' = SelectSeq(KeyOrder, LAMBDA k : k \in DOMAIN pending)
    /\ budget' = "in"
    /\ UNCHANGED <<late, conn, rtasks, rstage, rkey, loaded, used>> /\ Kept

GiveUp ==
    /\ rstage = "idle" /\ pass # <<>> /\ pending[Head(pass)] >= MaxAge
    /\ pending' = Without(pending, Head(pass))
    /\ pass' = Tail(pass)
    /\ UNCHANGED <<late, conn, rtasks, rstage, rkey, budget, loaded, used>> /\ Kept

OutOfBudget ==
    /\ rstage = "idle" /\ pass # <<>> /\ budget = "out" /\ pending[Head(pass)] < MaxAge
    /\ pass' = Tail(pass)
    /\ UNCHANGED <<late, conn, rtasks, rstage, rkey, pending, budget, loaded, used>> /\ Kept

-----------------------------------------------------------------------------
Publisher ==
    Connect \/ PublishKey \/ DeleteNext \/ Deleted \/ NothingPublished \/ DeleteFails
Reader ==
    StartFetch \/ Checked \/ Got \/ FetchFails \/ BeginPass \/ GiveUp \/ OutOfBudget
Server == ServeLate \/ \E c \in DOMAIN conn : Serve(c)

Call == InvalidateLocal \/ \E k \in Keys : SendLocal(k) \/ FetchRemote(k)
Work == Publisher \/ Reader \/ Server

Next == Call \/ Work

Spec == Init /\ [][Next]_vars

(* The workers run and the store answers.                                  *)
Fairness ==
    /\ WF_vars(Publisher) /\ WF_vars(Reader)
    /\ \A c \in {"pub", "rd"} : WF_vars(Serve(c))

-----------------------------------------------------------------------------
(* Nothing of this agent is in the store without being in publishedKeys_,  *)
(* which is all invalidateLocal can delete, except what an abandoned       *)
(* connection wrote late; and no answer is read by an operation it was not *)
(* meant for, whatever timed out before.                                   *)
KeysTracked ==
    /\ \A k \in Keys : kv[k] # None => k \in published \cup stray
    /\ \A c \in DOMAIN conn : Len(conn[c].ans) <= 1
    /\ rstage \in {"check", "get"} /\ HasAnswer("rd") =>
          Answer("rd").to = rstage /\ Answer("rd").key = rkey

(* The store follows the calls: with no failed operation, it holds what    *)
(* was last asked for once the publisher's tasks and requests are served.  *)
StoreIsLastCall ==
    used.faults = 0 /\ ptasks = <<>> /\ conn["pub"].req = <<>> => kv = wish

(* A fetch ends: it is loaded, fails to load, or is given up, though the   *)
(* key never appears, the budget is never enough for it, or the store      *)
(* fails.                                                                  *)
NonePending == DOMAIN pending = {}

(* Only what was once published is loaded, never the emptiness of a key    *)
(* deleted between the CHECK and the GET.                                  *)
LoadsPublished == \A k \in Keys : loaded[k] = None \/ loaded[k] \in 1..MaxCalls
=============================================================================
