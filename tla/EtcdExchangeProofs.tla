------------------------- MODULE EtcdExchangeProofs -------------------------
(***************************************************************************)
(* Proofs about EtcdExchange for every set of labels and any number of     *)
(* calls, fetches and faults.                                              *)
(***************************************************************************)
EXTENDS EtcdExchange, TLAPS

(* A put that is between its two round trips is the head of the queue.     *)
StageSound == stage = "put" => queue # <<>> /\ Head(queue).op = "put"

(* A put event of a label carries a value.                                 *)
EventsSound ==
    /\ last.kind = "put" /\ last.keys # {} => last.val # NoValue
    /\ \A i \in DOMAIN seen : seen[i].kind = "put" => seen[i].val # NoValue

TypeInv == EtcdTypeOK /\ StageSound /\ EventsSound

(* agentPrefixStored_ is never ahead of the store, and a put follows it.   *)
PrefixInv ==
    /\ prefixStored = "yes" => prefix = "present"
    /\ stage = "put" => prefixStored = "yes"
    /\ PrefixAnnounced

(* Between the load and the arming of the watcher, and only there, cached  *)
(* metadata may be unwatched.                                              *)
WatchInv == copy # NoValue /\ fetchStage # "arm" => watcher # "off"

(* A task decides what label l holds; and what it makes of it.             *)
Settles(task, l) == task.op = "remove" \/ (task.op = "put" /\ task.label = l)
Outcome(task) == IF task.op = "put" THEN task.val ELSE NoValue
LastOf(q, k, l) ==
    Settles(q[k], l) /\ \A j \in DOMAIN q : j > k => ~Settles(q[j], l)

(* What the publisher last asked for is what the last queued task that     *)
(* settles a label will make of it or, without one, what is there.         *)
Ordered(l) ==
    /\ (\A k \in DOMAIN queue : ~Settles(queue[k], l)) => store[l] = ewanted[l]
    /\ \A k \in DOMAIN queue : LastOf(queue, k, l) => ewanted[l] = Outcome(queue[k])

(* That a removal is skipped when the prefix is not stored is sound        *)
(* because such a publisher has stored nothing.                            *)
OrderInv ==
    efaults = 0 => /\ prefixStored = "no" => store = Nothing
                   /\ \A l \in Labels : Ordered(l)

USE EtcdAssumption

(* What a queued put carries.                                              *)
LEMMA PutTask ==
    ASSUME NEW t \in Task, t.op = "put"
    PROVE  t.label \in Labels /\ t.val \in Values /\ t.val # NoValue
  BY DEF Task, Values

(* The head of a queue stays when something is appended.                   *)
LEMMA HeadStays ==
    ASSUME NEW S, NEW q \in Seq(S), NEW x \in S
    PROVE  /\ Append(q, x) \in Seq(S) /\ Append(q, x) # <<>>
           /\ q # <<>> => Head(Append(q, x)) = Head(q)
<1>1. Append(q, x) \in Seq(S) /\ Len(Append(q, x)) = Len(q) + 1 /\ Len(q) \in Nat
  OBVIOUS
<1>2. Append(q, x) # <<>>
  BY <1>1
<1>3. ASSUME q # <<>> PROVE Head(Append(q, x)) = Head(q)
  <2>1. Len(q) >= 1 /\ Append(q, x)[1] = q[1]
    BY <1>3
  <2> QED
    BY <2>1, <1>1, <1>2, <1>3
<1> QED
  BY <1>1, <1>2, <1>3

(* The part of the type invariant that a store call can disturb.           *)
StoreTypes ==
    /\ prefix \in {"present", "absent"}
    /\ store \in [Labels -> Values \cup {NoValue}] /\ last \in Event
    /\ seen \in Seq(Event) /\ EventsSound
    /\ events \in Seq({"put", "delete"}) /\ due \in {"yes", "no"}

(* An event reaches the fetch watch only if it is about its label.         *)
LEMMA NotifyTypes ==
    ASSUME EtcdTypeOK, EventsSound, NEW ev \in Event, Notify(ev),
           ev.kind = "put" /\ ev.keys # {} => ev.val # NoValue
    PROVE  last' \in Event /\ seen' \in Seq(Event) /\ EventsSound'
<1>1. last' = ev
  BY DEF Notify
<1>2. CASE seen' = seen
  BY <1>1, <1>2 DEF EventsSound, EtcdTypeOK
<1>3. CASE seen' = Append(seen, ev) /\ ev.keys # {}
  <2>1. seen \in Seq(Event)
    BY DEF EtcdTypeOK
  <2>2. seen' \in Seq(Event)
    BY <1>3, <2>1
  <2>3. \A i \in DOMAIN seen' : seen'[i] = ev \/ (i \in DOMAIN seen /\ seen'[i] = seen[i])
    BY <1>3, <2>1
  <2>4. \A i \in DOMAIN seen' : seen'[i].kind = "put" => seen'[i].val # NoValue
    BY <2>3, <1>3 DEF EventsSound
  <2> QED
    BY <1>1, <2>2, <2>4 DEF EventsSound
<1> QED
  BY <1>2, <1>3 DEF Notify

(* A store call keeps the types.                                           *)
LEMMA StoreCallTypes ==
    ASSUME EtcdTypeOK, EventsSound,
           \/ PutPrefix \/ RemovePrefix \/ Untouched
           \/ \E l \in Labels, v \in Values : PutKey(l, v)
    PROVE  StoreTypes'
<1>1. CASE PutPrefix
  <2>1. [kind |-> "put", keys |-> {}, val |-> NoValue] \in Event
    BY DEF Event
  <2>2. last' \in Event /\ seen' \in Seq(Event) /\ EventsSound'
    BY <2>1, <1>1, NotifyTypes DEF PutPrefix
  <2> QED
    BY <2>2, <1>1 DEF PutPrefix, EtcdTypeOK, StoreTypes
<1>2. CASE RemovePrefix
  <2> DEFINE ev == [kind |-> "delete", keys |-> {l \in Labels : store[l] # NoValue}, val |-> NoValue]
  <2>1. ev \in Event
    BY DEF Event
  <2>2. Notify(ev)
    BY <1>2 DEF RemovePrefix
  <2>3. last' \in Event /\ seen' \in Seq(Event) /\ EventsSound'
    BY <2>1, <2>2, NotifyTypes
  <2>4. events' \in Seq({"put", "delete"}) /\ due' \in {"yes", "no"}
    <3>1. events \in Seq({"put", "delete"}) /\ due \in {"yes", "no"}
      BY DEF EtcdTypeOK
    <3>2. events' \in {events, Append(events, "delete")} /\ due' \in {"yes", due}
      BY <1>2 DEF RemovePrefix
    <3>3. Append(events, "delete") \in Seq({"put", "delete"})
      BY <3>1
    <3> QED
      BY <3>1, <3>2, <3>3
  <2> QED
    BY <2>3, <2>4, <1>2 DEF RemovePrefix, EtcdTypeOK, StoreTypes, Nothing
<1>3. CASE Untouched
  BY <1>3 DEF Untouched, EtcdTypeOK, StoreTypes, EventsSound, etcd
<1>4. ASSUME NEW l \in Labels, NEW v \in Values, PutKey(l, v)
      PROVE  StoreTypes'
  <2>1. [kind |-> "put", keys |-> {l}, val |-> v] \in Event /\ v # NoValue
    BY DEF Event, Values
  <2>2. last' \in Event /\ seen' \in Seq(Event) /\ EventsSound'
    BY <2>1, <1>4, NotifyTypes DEF PutKey
  <2> QED
    BY <2>2, <1>4 DEF PutKey, EtcdTypeOK, StoreTypes
<1> QED
  BY <1>1, <1>2, <1>3, <1>4

-----------------------------------------------------------------------------
(* Type correctness: in particular what is about to be loaded is a value.  *)
LEMMA TypeInvariant == EtcdSpec => []TypeInv
<1>1. EtcdInit => TypeInv
  <2> SUFFICES ASSUME EtcdInit PROVE TypeInv
    OBVIOUS
  <2>1. [op |-> "announce"] \in Task
    BY DEF Task
  <2>2. queue \in Seq(Task)
    BY <2>1 DEF EtcdInit
  <2>3. NoEvent \in Event
    BY DEF NoEvent, Event
  <2> QED
    BY <2>2, <2>3 DEF EtcdInit, TypeInv, EtcdTypeOK, StageSound, EventsSound, Nothing, NoEvent
<1>2. TypeInv /\ [EtcdNext]_etcdVars => TypeInv'
  <2> SUFFICES ASSUME TypeInv, [EtcdNext]_etcdVars
               PROVE  TypeInv'
    OBVIOUS
  <2> USE DEF TypeInv
  <2>1. ASSUME NEW l \in Labels, SendLocal(l)
        PROVE  TypeInv'
    <3>1. ecalls + 1 \in Values
      BY <2>1 DEF SendLocal, EtcdTypeOK, Values
    <3>2. [op |-> "put", label |-> l, val |-> ecalls + 1] \in Task
      BY <3>1 DEF Task
    <3>3. /\ queue' \in Seq(Task) /\ queue' # <<>>
          /\ queue # <<>> => Head(queue') = Head(queue)
      BY <2>1, <3>2, HeadStays DEF SendLocal, EtcdTypeOK
    <3>4. StageSound'
      BY <2>1, <3>3 DEF SendLocal, StageSound
    <3> QED
      BY <2>1, <3>1, <3>3, <3>4
      DEF SendLocal, EtcdTypeOK, EventsSound, etcd, fetching, watching, Values
  <2>2. CASE InvalidateLocal
    <3>1. [op |-> "remove"] \in Task
      BY DEF Task
    <3>2. /\ queue' \in Seq(Task) /\ queue' # <<>>
          /\ queue # <<>> => Head(queue') = Head(queue)
      BY <2>2, <3>1, HeadStays DEF InvalidateLocal, EtcdTypeOK
    <3>3. StageSound'
      BY <2>2, <3>2 DEF InvalidateLocal, StageSound
    <3> QED
      BY <2>2, <3>2, <3>3
      DEF InvalidateLocal, EtcdTypeOK, EventsSound, etcd, fetching, watching, Nothing
  <2>3. CASE Publisher
    <3>1. Rest /\ stage' \in {"idle", "put"} /\ prefixStored' \in {"yes", "no"}
          /\ efaults' \in 0..MaxEtcdFaults
      BY <2>3 DEF Publisher, Announce, AnnounceFails, Announced, Store, StoreFails, RemoveNothing,
         Remove, RemoveFails, TaskDone, Fault, EtcdTypeOK
    <3>2. queue # <<>> /\ Head(queue) \in Task
      BY <2>3 DEF Publisher, Announce, AnnounceFails, Announced, Store, StoreFails, RemoveNothing,
         Remove, RemoveFails, Running, StageSound, EtcdTypeOK
    <3>3. TaskDone \/ (UNCHANGED queue /\ Running("put"))
      BY <2>3 DEF Publisher, Announce, AnnounceFails, Announced, Store, StoreFails, RemoveNothing,
         Remove, RemoveFails
    <3>4. queue' \in Seq(Task) /\ StageSound'
      <4>1. queue \in Seq(Task)
        BY DEF EtcdTypeOK
      <4>2. CASE TaskDone
        BY <4>1, <4>2, <3>2 DEF TaskDone, StageSound
      <4>3. CASE UNCHANGED queue /\ Running("put")
        BY <4>1, <4>3 DEF Running, StageSound
      <4> QED
        BY <4>2, <4>3, <3>3
    <3>5. \/ PutPrefix \/ RemovePrefix \/ Untouched
          \/ \E l \in Labels, v \in Values : PutKey(l, v)
      <4>1. stage = "put" => Head(queue).label \in Labels /\ Head(queue).val \in Values
        BY <3>2, PutTask DEF StageSound
      <4> QED
        BY <2>3, <4>1 DEF Publisher, Announce, AnnounceFails, Announced, Store, StoreFails,
           RemoveNothing, Remove, RemoveFails
    <3>6. StoreTypes'
      BY <3>5, StoreCallTypes
    <3> QED
      BY <3>1, <3>4, <3>6 DEF Rest, fetching, StoreTypes, EtcdTypeOK
  <2>4. ASSUME Kept, UNCHANGED <<seen>>, StageSound
        PROVE  StageSound' /\ EventsSound'
    BY <2>4 DEF Kept, publishing, etcd, StageSound, EventsSound
  <2>5. ASSUME NEW l \in Labels, FetchRemote(l)
        PROVE  TypeInv'
    BY <2>5, <2>4 DEF FetchRemote, Kept, publishing, etcd, watching, EtcdTypeOK
  <2>6. CASE Get
    <3>1. rqueue' \in Seq(Labels) /\ rlabel' \in Labels
      BY <2>6 DEF Get, EtcdTypeOK
    <3>2. /\ fetchStage' \in {"wait", "load"} /\ efaults' \in 0..MaxEtcdFaults
          /\ blob' \in Values \cup {NoValue} /\ (fetchStage' = "load" => blob' # NoValue)
      BY <2>6, <3>1 DEF Get, EtcdTypeOK, Fault
    <3> QED
      BY <2>6, <3>1, <3>2, <2>4 DEF Get, Kept, publishing, etcd, watching, EtcdTypeOK
  <2>7. CASE StartWatch
    <3>1. seen' \in Seq(Event) /\ EventsSound'
      BY <2>7 DEF StartWatch, EtcdTypeOK, EventsSound, Kept, etcd
    <3> QED
      BY <2>7, <3>1 DEF StartWatch, Kept, publishing, etcd, watching, EtcdTypeOK, StageSound
  <2>8. CASE WatchAnswers
    <3>1. Head(seen) \in Event /\ (Head(seen).kind = "put" => Head(seen).val # NoValue)
      BY <2>8 DEF WatchAnswers, EtcdTypeOK, EventsSound
    <3>2. Head(seen).val \in Values \cup {NoValue}
      BY <3>1 DEF Event
    <3> QED
      BY <2>8, <3>1, <3>2
      DEF WatchAnswers, RDone, Kept, publishing, etcd, watching, EtcdTypeOK, StageSound, EventsSound
  <2>9. CASE WatchEnds
    BY <2>9 DEF WatchEnds, RDone, Fault, Kept, publishing, etcd, watching, EtcdTypeOK, StageSound,
       EventsSound
  <2>10. CASE Load
    <3>1. StageSound' /\ EventsSound'
      BY <2>10, <2>4 DEF Load
    <3> QED
      BY <2>10, <3>1 DEF Load, watching, Kept, publishing, etcd, EtcdTypeOK
  <2>11. CASE LoadFails
    <3>1. StageSound' /\ EventsSound'
      BY <2>11, <2>4 DEF LoadFails
    <3> QED
      BY <2>11, <3>1 DEF LoadFails, RDone, Fault, Kept, publishing, etcd, EtcdTypeOK
  <2>12. CASE SetupAgentWatcher
    <3>1. StageSound' /\ EventsSound'
      BY <2>12, <2>4 DEF SetupAgentWatcher
    <3>2. events' \in Seq({"put", "delete"}) /\ watcher' \in {"off", "on", "broken"}
      <4>1. events' = <<>> \/ events' = events
        BY <2>12 DEF SetupAgentWatcher
      <4>2. watcher' = "on" \/ watcher' = watcher
        BY <2>12 DEF SetupAgentWatcher
      <4>3. events \in Seq({"put", "delete"}) /\ watcher \in {"off", "on", "broken"}
        BY DEF EtcdTypeOK
      <4>4. <<>> \in Seq({"put", "delete"})
        OBVIOUS
      <4> QED
        BY <4>1, <4>2, <4>3, <4>4
    <3> QED
      BY <2>12, <3>1, <3>2 DEF SetupAgentWatcher, RDone, Kept, publishing, etcd, EtcdTypeOK
  <2>13. CASE Deliver
    <3>1. StageSound' /\ EventsSound'
      BY <2>13, <2>4 DEF Deliver
    <3>2. events' \in Seq({"put", "delete"}) /\ invalidated' \in Nat
      <4>1. events \in Seq({"put", "delete"}) /\ invalidated \in Nat
        BY DEF EtcdTypeOK
      <4>2. events' = Tail(events) /\ events # <<>> /\ invalidated' \in {invalidated, invalidated + 1}
        BY <2>13 DEF Deliver
      <4> QED
        BY <4>1, <4>2
    <3> QED
      BY <2>13, <3>1, <3>2 DEF Deliver, fetching, Kept, publishing, etcd, EtcdTypeOK
  <2>14. CASE WatcherBreaks
    <3>1. StageSound' /\ EventsSound'
      BY <2>14, <2>4 DEF WatcherBreaks
    <3> QED
      BY <2>14, <3>1 DEF WatcherBreaks, Fault, fetching, Kept, publishing, etcd, EtcdTypeOK
  <2>15. CASE ServiceEvents
    <3>1. StageSound' /\ EventsSound'
      BY <2>15, <2>4 DEF ServiceEvents
    <3> QED
      BY <2>15, <3>1 DEF ServiceEvents, fetching, Kept, publishing, etcd, EtcdTypeOK
  <2>16. CASE InvalidateRemote
    <3>1. StageSound' /\ EventsSound'
      BY <2>16, <2>4 DEF InvalidateRemote
    <3> QED
      BY <2>16, <3>1 DEF InvalidateRemote, fetching, Kept, publishing, etcd, EtcdTypeOK
  <2>17. CASE UNCHANGED etcdVars
    BY <2>17 DEF etcdVars, publishing, etcd, fetching, watching, EtcdTypeOK, StageSound, EventsSound
  <2> QED
    BY <2>1, <2>2, <2>3, <2>5, <2>6, <2>7, <2>8, <2>9, <2>10, <2>11, <2>12, <2>13,
       <2>14, <2>15, <2>16, <2>17 DEF EtcdNext, Fetch
<1> QED
  BY <1>1, <1>2, PTL DEF EtcdSpec

(* Every variable keeps its type, and what is about to be loaded is a      *)
(* value (nixl_etcd_metadata_backend.cpp: fetchRemote).                    *)
THEOREM TypeCorrect == EtcdSpec => []EtcdTypeOK
  BY TypeInvariant, PTL DEF TypeInv

-----------------------------------------------------------------------------
(* agentPrefixStored_ never runs ahead of the prefix key.                  *)
LEMMA PrefixInvariant == EtcdSpec => []PrefixInv
<1>1. EtcdInit => PrefixInv
  BY DEF EtcdInit, PrefixInv, PrefixAnnounced, Nothing
<1>2. TypeInv /\ PrefixInv /\ [EtcdNext]_etcdVars => PrefixInv'
  <2> SUFFICES ASSUME TypeInv, PrefixInv, [EtcdNext]_etcdVars
               PROVE  PrefixInv'
    OBVIOUS
  <2>1. ASSUME UNCHANGED <<stage, prefixStored, etcd>>
        PROVE  PrefixInv'
    BY <2>1 DEF PrefixInv, PrefixAnnounced, etcd
  <2>2. ASSUME PutPrefix
        PROVE  prefix' = "present" /\ PrefixAnnounced'
    BY <2>2 DEF PutPrefix, PrefixAnnounced
  <2>3. ASSUME Untouched
        PROVE  prefix' = prefix /\ PrefixAnnounced'
    BY <2>3 DEF Untouched, etcd, PrefixInv, PrefixAnnounced
  <2>4. ASSUME RemovePrefix
        PROVE  PrefixAnnounced'
    BY <2>4 DEF RemovePrefix, PrefixAnnounced, Nothing
  <2>5. CASE Announce \/ AnnounceFails \/ Announced
    BY <2>2, <2>3, <2>5
    DEF Announce, AnnounceFails, Announced, Running, TaskDone, PrefixInv
  <2>6. CASE Store \/ StoreFails
    <3>1. prefix = "present" /\ prefixStored' = prefixStored /\ stage' = "idle"
      BY <2>6 DEF Store, StoreFails, TaskDone, PrefixInv
    <3>2. prefix' = prefix
      BY <2>6 DEF Store, StoreFails, PutKey, Untouched, etcd
    <3> QED
      BY <3>1, <3>2 DEF PrefixInv, PrefixAnnounced
  <2>7. CASE RemoveNothing \/ Remove \/ RemoveFails
    BY <2>3, <2>4, <2>7
    DEF RemoveNothing, Remove, RemoveFails, Running, TaskDone, PrefixInv
  <2>8. ASSUME NEW l \in Labels, SendLocal(l) \/ FetchRemote(l)
        PROVE  PrefixInv'
    BY <2>1, <2>8 DEF SendLocal, FetchRemote, Kept, publishing
  <2>9. CASE InvalidateLocal \/ InvalidateRemote \/ Deliver \/ WatcherBreaks \/ ServiceEvents
    BY <2>1, <2>9
    DEF InvalidateLocal, InvalidateRemote, Deliver, WatcherBreaks, ServiceEvents, Kept, publishing
  <2>10. CASE Fetch
    BY <2>1, <2>10 DEF Fetch, Get, StartWatch, WatchAnswers, WatchEnds, Load, LoadFails,
       SetupAgentWatcher, Kept, publishing
  <2>11. CASE UNCHANGED etcdVars
    BY <2>1, <2>11 DEF etcdVars, publishing
  <2> QED
    BY <2>5, <2>6, <2>7, <2>8, <2>9, <2>10, <2>11 DEF EtcdNext, Publisher
<1> QED
  BY <1>1, <1>2, TypeInvariant, PTL DEF EtcdSpec

(* Loaded metadata is watched, but for the moment before the arming.       *)
LEMMA WatchInvariant == EtcdSpec => []WatchInv
<1>1. EtcdInit => WatchInv
  BY DEF EtcdInit, WatchInv
<1>2. WatchInv /\ [EtcdNext]_etcdVars => WatchInv'
  <2> SUFFICES ASSUME WatchInv, [EtcdNext]_etcdVars
               PROVE  WatchInv'
    OBVIOUS
  <2> USE DEF WatchInv
  <2>1. ASSUME NEW l \in Labels, SendLocal(l) \/ FetchRemote(l)
        PROVE  WatchInv'
    BY <2>1 DEF SendLocal, FetchRemote, fetching, watching
  <2>2. CASE Publisher
    BY <2>2 DEF Publisher, Announce, AnnounceFails, Announced, Store, StoreFails, RemoveNothing,
       Remove, RemoveFails, Rest, fetching
  <2>3. CASE Get \/ StartWatch \/ WatchAnswers \/ WatchEnds
    BY <2>3 DEF Get, StartWatch, WatchAnswers, WatchEnds, RDone, watching
  <2>4. CASE Load \/ LoadFails \/ SetupAgentWatcher
    BY <2>4 DEF Load, LoadFails, SetupAgentWatcher, RDone, watching
  <2>5. CASE InvalidateLocal \/ InvalidateRemote \/ Deliver \/ WatcherBreaks \/ ServiceEvents
    BY <2>5
    DEF InvalidateLocal, InvalidateRemote, Deliver, WatcherBreaks, ServiceEvents, fetching, watching
  <2>6. CASE UNCHANGED etcdVars
    BY <2>6 DEF etcdVars, fetching, watching
  <2> QED
    BY <2>1, <2>2, <2>3, <2>4, <2>5, <2>6 DEF EtcdNext, Fetch
<1> QED
  BY <1>1, <1>2, PTL DEF EtcdSpec

(* The key that readers watch is in the store while metadata is, and       *)
(* metadata that a fetch loaded has a watcher (ensureAgentPrefix,          *)
(* setupAgentWatcher), whatever calls, failures and breaks came before.    *)
THEOREM WatchedTheorem == EtcdSpec => []EtcdWatched
<1>1. PrefixInv /\ WatchInv => EtcdWatched
  BY DEF PrefixInv, WatchInv, EtcdWatched, WatchedWhenLoaded
<1> QED
  BY <1>1, PrefixInvariant, WatchInvariant, PTL

-----------------------------------------------------------------------------
(* The tasks behind the head, seen from the queue without it.              *)
LEMMA TailTasks ==
    ASSUME NEW q \in Seq(Task), q # <<>>
    PROVE  /\ 1 \in DOMAIN q /\ q[1] = Head(q)
           /\ \A k \in DOMAIN Tail(q) : k + 1 \in DOMAIN q /\ Tail(q)[k] = q[k + 1]
           /\ \A k \in DOMAIN q : k > 1 => k - 1 \in DOMAIN Tail(q) /\ q[k] = Tail(q)[k - 1]
  OBVIOUS

(* A task that is done leaves a label as it settles it, or alone.          *)
LEMMA DoneOrder ==
    ASSUME NEW l \in Labels, queue \in Seq(Task), queue # <<>>, Ordered(l),
           queue' = Tail(queue), ewanted' = ewanted,
           store'[l] = IF Settles(Head(queue), l) THEN Outcome(Head(queue)) ELSE store[l]
    PROVE  Ordered(l)'
<1>1. ASSUME \A k \in DOMAIN queue' : ~Settles(queue'[k], l)
      PROVE  store'[l] = ewanted'[l]
  <2>1. \A k \in DOMAIN queue : k > 1 => ~Settles(queue[k], l)
    BY <1>1, TailTasks
  <2>2. CASE Settles(Head(queue), l)
    BY <2>1, <2>2, TailTasks DEF Ordered, LastOf
  <2>3. CASE ~Settles(Head(queue), l)
    <3>1. \A k \in DOMAIN queue : k = 1 \/ k > 1
      OBVIOUS
    <3> QED
      BY <2>1, <2>3, <3>1, TailTasks DEF Ordered
  <2> QED
    BY <2>2, <2>3
<1>2. ASSUME NEW k \in DOMAIN queue', LastOf(queue', k, l)
      PROVE  ewanted'[l] = Outcome(queue'[k])
  <2>1. k + 1 \in DOMAIN queue /\ queue'[k] = queue[k + 1]
    BY <1>2, TailTasks
  <2>2. ASSUME NEW j \in DOMAIN queue, j > k + 1
        PROVE  ~Settles(queue[j], l)
    <3>1. k \in Nat /\ j \in Nat /\ k >= 1
      OBVIOUS
    <3>2. j - 1 \in DOMAIN queue' /\ queue[j] = queue'[j - 1] /\ j - 1 > k
      BY <2>2, <3>1, TailTasks
    <3> QED
      BY <1>2, <3>2 DEF LastOf
  <2>3. LastOf(queue, k + 1, l)
    BY <1>2, <2>1, <2>2 DEF LastOf
  <2> QED
    BY <2>1, <2>3 DEF Ordered
<1> QED
  BY <1>1, <1>2 DEF Ordered

(* A call that settles a label is the last to do so; one that does not     *)
(* leaves its order as it was.                                             *)
LEMMA CallOrder ==
    ASSUME NEW l \in Labels, queue \in Seq(Task), NEW t \in Task, Ordered(l),
           queue' = Append(queue, t), store' = store,
           ewanted'[l] = IF Settles(t, l) THEN Outcome(t) ELSE ewanted[l]
    PROVE  Ordered(l)'
<1>1. /\ DOMAIN queue' = 1..Len(queue) + 1 /\ queue'[Len(queue) + 1] = t
      /\ DOMAIN queue = 1..Len(queue) /\ Len(queue) \in Nat
      /\ \A k \in DOMAIN queue : queue'[k] = queue[k]
  OBVIOUS
<1>2. CASE Settles(t, l)
  <2>1. \A k \in DOMAIN queue' : LastOf(queue', k, l) => k = Len(queue) + 1
    BY <1>1, <1>2 DEF LastOf
  <2> QED
    BY <1>1, <1>2, <2>1 DEF Ordered
<1>3. CASE ~Settles(t, l)
  <2>1. \A k \in DOMAIN queue : k \in DOMAIN queue'
    BY <1>1
  <2>2. (\A k \in DOMAIN queue' : ~Settles(queue'[k], l)) => \A k \in DOMAIN queue : ~Settles(queue[k], l)
    BY <1>1, <2>1
  <2>3. \A k \in DOMAIN queue' : LastOf(queue', k, l) => k \in DOMAIN queue /\ LastOf(queue, k, l)
    BY <1>1, <2>1, <1>3 DEF LastOf
  <2> QED
    BY <1>1, <1>3, <2>2, <2>3 DEF Ordered
<1> QED
  BY <1>2, <1>3

(* Tasks take effect in the order of the calls.                            *)
LEMMA OrderInvariant == EtcdSpec => []OrderInv
<1>1. EtcdInit => OrderInv
  BY DEF EtcdInit, OrderInv, Ordered, LastOf, Settles, Nothing
<1>2. TypeInv /\ PrefixInv /\ OrderInv /\ [EtcdNext]_etcdVars => OrderInv'
  <2> SUFFICES ASSUME TypeInv, PrefixInv, OrderInv, [EtcdNext]_etcdVars, efaults' = 0
               PROVE  OrderInv'
    BY DEF OrderInv
  <2>1. queue \in Seq(Task) /\ efaults \in Nat /\ store \in [Labels -> Values \cup {NoValue}]
        /\ ewanted \in [Labels -> Values \cup {NoValue}] /\ prefixStored \in {"yes", "no"}
    BY DEF TypeInv, EtcdTypeOK
  <2>2. ~Fault
    BY <2>1 DEF Fault
  <2>3. ASSUME UNCHANGED <<queue, store, ewanted, prefixStored, efaults>>
        PROVE  OrderInv'
    BY <2>3 DEF OrderInv, Ordered
  <2>4. ASSUME NEW l \in Labels, SendLocal(l)
        PROVE  OrderInv'
    <3> DEFINE t == [op |-> "put", label |-> l, val |-> ecalls + 1]
    <3>1. t \in Task
      BY <2>4 DEF SendLocal, TypeInv, EtcdTypeOK, Task, Values
    <3>2. queue' = Append(queue, t) /\ UNCHANGED <<store, prefixStored, efaults>>
      BY <2>4 DEF SendLocal, etcd
    <3>3. \A m \in Labels : ewanted'[m] = IF Settles(t, m) THEN Outcome(t) ELSE ewanted[m]
      BY <2>4, <2>1 DEF SendLocal, Settles, Outcome
    <3> HIDE DEF t
    <3>4. \A m \in Labels : Ordered(m)'
      BY <2>1, <3>1, <3>2, <3>3, CallOrder DEF OrderInv
    <3> QED
      BY <3>2, <3>4 DEF OrderInv
  <2>5. CASE InvalidateLocal
    <3> DEFINE t == [op |-> "remove"]
    <3>1. t \in Task
      BY DEF Task
    <3>2. queue' = Append(queue, t) /\ UNCHANGED <<store, prefixStored, efaults>>
      BY <2>5 DEF InvalidateLocal, etcd
    <3>3. \A m \in Labels : ewanted'[m] = IF Settles(t, m) THEN Outcome(t) ELSE ewanted[m]
      BY <2>5, <2>1 DEF InvalidateLocal, Settles, Outcome, Nothing
    <3> HIDE DEF t
    <3>4. \A m \in Labels : Ordered(m)'
      BY <2>1, <3>1, <3>2, <3>3, CallOrder DEF OrderInv
    <3> QED
      BY <3>2, <3>4 DEF OrderInv
  <2>6. ASSUME queue # <<>>, TaskDone, Rest, UNCHANGED efaults,
               \A l \in Labels :
                  store'[l] = IF Settles(Head(queue), l) THEN Outcome(Head(queue)) ELSE store[l],
               prefixStored' = "no" => store' = Nothing
        PROVE  OrderInv'
    <3>1. \A l \in Labels : Ordered(l)'
      BY <2>1, <2>6, DoneOrder DEF OrderInv, TaskDone, Rest
    <3> QED
      BY <2>6, <3>1 DEF OrderInv
  <2>7. CASE Announce \/ Announced
    <3>1. store' = store /\ prefixStored' = "yes" /\ Rest /\ efaults' = efaults
      BY <2>7 DEF Announce, Announced, PutPrefix, Untouched, etcd
    <3>2. CASE Running("put")
      BY <2>7, <3>1, <3>2 DEF Announce, Announced, Rest, OrderInv, Ordered
    <3>3. CASE ~Running("put")
      <4>1. queue # <<>> /\ TaskDone /\ \A l \in Labels : ~Settles(Head(queue), l)
        BY <2>7, <3>3 DEF Announce, Announced, Running, Settles
      <4> QED
        BY <4>1, <3>1, <2>6
    <3> QED
      BY <3>2, <3>3
  <2>8. CASE Store
    <3>1. queue # <<>> /\ Head(queue).op = "put" /\ prefixStored' = "yes" /\ TaskDone /\ Rest
          /\ UNCHANGED efaults
      BY <2>8 DEF Store, TypeInv, StageSound, PrefixInv
    <3>2. store' = [store EXCEPT ![Head(queue).label] = Head(queue).val]
      BY <2>8 DEF Store, PutKey
    <3>3. \A l \in Labels :
             store'[l] = IF Settles(Head(queue), l) THEN Outcome(Head(queue)) ELSE store[l]
      BY <2>1, <3>1, <3>2 DEF Settles, Outcome
    <3> QED
      BY <3>1, <3>3, <2>6
  <2>9. CASE RemoveNothing \/ Remove
    <3>1. queue # <<>> /\ Head(queue).op = "remove" /\ TaskDone /\ Rest /\ UNCHANGED efaults
      BY <2>9 DEF RemoveNothing, Remove, Running
    <3>2. store' = Nothing
      BY <2>9 DEF RemoveNothing, Remove, RemovePrefix, Untouched, etcd, OrderInv
    <3>3. \A l \in Labels : Settles(Head(queue), l) /\ Outcome(Head(queue)) = store'[l]
      BY <3>1, <3>2 DEF Settles, Outcome, Nothing
    <3> QED
      BY <3>1, <3>2, <3>3, <2>6
  <2>10. CASE AnnounceFails \/ StoreFails \/ RemoveFails \/ LoadFails \/ WatcherBreaks
    BY <2>2, <2>10 DEF AnnounceFails, StoreFails, RemoveFails, LoadFails, WatcherBreaks
  <2>11. ASSUME NEW l \in Labels, FetchRemote(l)
        PROVE  OrderInv'
    BY <2>3, <2>11 DEF FetchRemote, Kept, publishing, etcd
  <2>12. CASE Get \/ StartWatch \/ WatchAnswers \/ WatchEnds \/ Load \/ SetupAgentWatcher
    BY <2>2, <2>3, <2>12
    DEF Get, StartWatch, WatchAnswers, WatchEnds, Load, SetupAgentWatcher, Kept, publishing, etcd
  <2>13. CASE Deliver \/ ServiceEvents \/ InvalidateRemote
    BY <2>3, <2>13 DEF Deliver, ServiceEvents, InvalidateRemote, Kept, publishing, etcd
  <2>14. CASE UNCHANGED etcdVars
    BY <2>3, <2>14 DEF etcdVars, publishing, etcd
  <2> QED
    BY <2>4, <2>5, <2>7, <2>8, <2>9, <2>10, <2>11, <2>12, <2>13, <2>14
    DEF EtcdNext, Publisher, Fetch
<1> QED
  BY <1>1, <1>2, TypeInvariant, PrefixInvariant, PTL DEF EtcdSpec

(* Sends and invalidations reach etcd in the order of the calls: when the  *)
(* worker has run them all and no store call failed, the store holds, for  *)
(* every label, what was last asked for (sendLocal, sendLocalPartial,      *)
(* invalidateLocal and the tasks they queue).                              *)
THEOREM LastCallTheorem == EtcdSpec => []EtcdIsLastCall
<1>1. TypeInv /\ OrderInv => EtcdIsLastCall
  <2> SUFFICES ASSUME TypeInv, OrderInv, efaults = 0, queue = <<>>
               PROVE  store = ewanted
    BY DEF EtcdIsLastCall
  <2>1. \A l \in Labels : store[l] = ewanted[l]
    BY DEF OrderInv, Ordered
  <2> QED
    BY <2>1 DEF TypeInv, EtcdTypeOK
<1> QED
  BY <1>1, TypeInvariant, OrderInvariant, PTL
=============================================================================
