---------------------------- MODULE EtcdExchange ----------------------------
(***************************************************************************)
(* Metadata exchange through etcd                                          *)
(* (src/core/nixl_etcd_metadata_backend.cpp): one agent publishes its      *)
(* metadata under labels and invalidates it, another fetches it, caches it *)
(* and watches for its removal.  Each has a worker that runs its tasks one *)
(* at a time; an action is one step of a task, at most one round trip to   *)
(* the store.                                                              *)
(*                                                                         *)
(* etcd and its client are external.  A call may fail before or after the  *)
(* store applied it.  A watch from a revision delivers the events of that  *)
(* revision and all later ones, in order and one at a time.                *)
(***************************************************************************)
EXTENDS Integers, Sequences, FiniteSets

CONSTANTS
    Labels,     \* metadata labels
    NoValue,
    MaxEtcdCalls,   \* bound on sendLocal, sendLocalPartial and invalidateLocal
    MaxEtcdFetches, \* bound on fetchRemote
    MaxEtcdFaults   \* bound on failing store calls and loads

ASSUME EtcdAssumption ==
    /\ MaxEtcdCalls \in Nat /\ MaxEtcdFetches \in Nat /\ MaxEtcdFaults \in Nat
    /\ NoValue \notin 1..MaxEtcdCalls

VARIABLES
    ecalls, fetches, efaults,     \* what was used of the bounds
    ewanted,                     \* per label, what the publisher last asked for
    queue, stage,               \* the publisher's tasks, and its place in one
    prefixStored,               \* agentPrefixStored_
    prefix, store, last,        \* etcd: the prefix key, the labels, the last event
    rqueue, fetchStage, rlabel,     \* the reader's tasks, and its place in one
    blob, seen,                 \* what it fetched; the events of its fetch watch
    copy,                      \* the publisher's metadata in the reader
    watcher, events,            \* agentWatchers_, and what is on its way to it
    invalidated,                \* length of invalidatedAgents_
    due                         \* a watched removal not yet acted on

publishing == <<ecalls, ewanted, queue, stage, prefixStored>>
etcd == <<prefix, store, last>>
fetching == <<fetches, rqueue, fetchStage, rlabel, blob>>
watching == <<watcher, events, invalidated, due>>
etcdVars == <<publishing, etcd, fetching, seen, copy, watching, efaults>>

Values == 1..MaxEtcdCalls
Nothing == [l \in Labels |-> NoValue]
NoEvent == [kind |-> "none", keys |-> {}, val |-> NoValue]

(* start() queues the announcement.                                        *)
EtcdInit ==
    /\ ecalls = 0 /\ fetches = 0 /\ efaults = 0
    /\ ewanted = Nothing
    /\ queue = <<[op |-> "announce"]>> /\ stage = "idle" /\ prefixStored = "no"
    /\ prefix = "absent" /\ store = Nothing /\ last = NoEvent
    /\ rqueue = <<>> /\ fetchStage = "idle" /\ rlabel = NoValue /\ blob = NoValue
    /\ seen = <<>>
    /\ copy = NoValue
    /\ watcher = "off" /\ events = <<>> /\ invalidated = 0 /\ due = "no"

-----------------------------------------------------------------------------
(* The publisher's calls: the blob is made at once, the rest is queued.    *)

SendLocal(l) ==
    /\ ecalls < MaxEtcdCalls
    /\ ecalls' = ecalls + 1
    /\ ewanted' = [ewanted EXCEPT ![l] = ecalls + 1]
    /\ queue' = Append(queue, [op |-> "put", label |-> l, val |-> ecalls + 1])
    /\ UNCHANGED <<stage, prefixStored, etcd, fetching, seen, copy, watching, efaults>>

InvalidateLocal ==
    /\ ecalls < MaxEtcdCalls
    /\ ecalls' = ecalls + 1
    /\ ewanted' = Nothing
    /\ queue' = Append(queue, [op |-> "remove"])
    /\ UNCHANGED <<stage, prefixStored, etcd, fetching, seen, copy, watching, efaults>>

-----------------------------------------------------------------------------
(* etcd: what a write does to the store and to the watches.  The agent     *)
(* watch is on the prefix key alone; the fetch watch on one label.         *)

Notify(ev) ==
    /\ last' = ev
    /\ seen' = IF fetchStage = "waiting" /\ rlabel \in ev.keys THEN Append(seen, ev) ELSE seen

PutPrefix ==
    /\ prefix' = "present"
    /\ Notify([kind |-> "put", keys |-> {}, val |-> NoValue])
    /\ events' = IF watcher = "on" THEN Append(events, "put") ELSE events
    /\ UNCHANGED <<store, due>>

PutKey(l, v) ==
    /\ store' = [store EXCEPT ![l] = v]
    /\ Notify([kind |-> "put", keys |-> {l}, val |-> v])
    /\ UNCHANGED <<prefix, events, due>>

RemovePrefix ==
    /\ prefix' = "absent"
    /\ store' = Nothing
    /\ Notify([kind |-> "delete", keys |-> {l \in Labels : store[l] # NoValue}, val |-> NoValue])
    /\ IF watcher = "on" /\ prefix = "present"
       THEN /\ events' = Append(events, "delete")
            /\ due' = IF copy # NoValue THEN "yes" ELSE due
       ELSE UNCHANGED <<events, due>>

Untouched == UNCHANGED <<etcd, seen, events, due>>

Fault == efaults < MaxEtcdFaults /\ efaults' = efaults + 1

-----------------------------------------------------------------------------
(* The publisher's worker.                                                 *)

Running(op) == stage = "idle" /\ queue # <<>> /\ Head(queue).op = op
TaskDone == queue' = Tail(queue) /\ stage' = "idle"
Rest == UNCHANGED <<ecalls, ewanted, fetching, copy, watcher, invalidated>>

(* Variant: the publication that announces the agent is not made.          *)
AnnounceOnly ==
    /\ Running("announce") \/ Running("put")
    /\ prefixStored = "no"
    /\ PutPrefix /\ UNCHANGED efaults
    /\ prefixStored' = "yes"
    /\ TaskDone
    /\ Rest

(* ensureAgentPrefix for the announcement or for a publication.            *)
Announce ==
    /\ Running("announce") \/ Running("put")
    /\ prefixStored = "no"
    /\ PutPrefix /\ UNCHANGED efaults
    /\ prefixStored' = "yes"
    /\ IF Running("put") THEN stage' = "put" /\ UNCHANGED queue ELSE TaskDone
    /\ Rest

AnnounceFails ==
    /\ Running("announce") \/ Running("put")
    /\ prefixStored = "no"
    /\ Fault /\ (PutPrefix \/ Untouched)
    /\ TaskDone
    /\ UNCHANGED prefixStored /\ Rest

(* The prefix is there already.                                            *)
Announced ==
    /\ Running("announce") \/ Running("put")
    /\ prefixStored = "yes"
    /\ IF Running("put") THEN stage' = "put" /\ UNCHANGED queue ELSE TaskDone
    /\ Untouched /\ UNCHANGED <<efaults, prefixStored>> /\ Rest

(* storeMetadataInEtcd                                                     *)
Store ==
    /\ stage = "put"
    /\ PutKey(Head(queue).label, Head(queue).val) /\ UNCHANGED efaults
    /\ TaskDone
    /\ UNCHANGED prefixStored /\ Rest

StoreFails ==
    /\ stage = "put"
    /\ Fault /\ (PutKey(Head(queue).label, Head(queue).val) \/ Untouched)
    /\ TaskDone
    /\ UNCHANGED prefixStored /\ Rest

(* removeMetadataFromEtcd: nothing to do unless the prefix was stored.     *)
RemoveNothing ==
    /\ Running("remove") /\ prefixStored = "no"
    /\ TaskDone
    /\ Untouched /\ UNCHANGED <<efaults, prefixStored>> /\ Rest

Remove ==
    /\ Running("remove") /\ prefixStored = "yes"
    /\ RemovePrefix /\ UNCHANGED efaults
    /\ prefixStored' = "no"
    /\ TaskDone
    /\ Rest

(* An error response clears the flag all the same, an exception does not.  *)
RemoveFails ==
    /\ Running("remove") /\ prefixStored = "yes"
    /\ Fault
    /\ \/ (RemovePrefix \/ Untouched) /\ prefixStored' = "no"
       \/ Untouched /\ UNCHANGED prefixStored
    /\ TaskDone
    /\ Rest

-----------------------------------------------------------------------------
(* The reader: fetchRemote queues a task, its worker runs it.              *)

Kept == UNCHANGED <<publishing, etcd>>

FetchRemote(l) ==
    /\ fetches < MaxEtcdFetches
    /\ fetches' = fetches + 1
    /\ rqueue' = Append(rqueue, l)
    /\ UNCHANGED <<fetchStage, rlabel, blob, seen, copy, watching, efaults>> /\ Kept

RDone == fetchStage' = "idle" /\ blob' = NoValue /\ rlabel' = NoValue

(* fetchMetadataFromEtcd: a key that is absent, or a failing get, means    *)
(* waiting for it.                                                         *)
Get ==
    /\ fetchStage = "idle" /\ rqueue # <<>>
    /\ rqueue' = Tail(rqueue)
    /\ rlabel' = Head(rqueue)
    /\ \/ /\ store[Head(rqueue)] # NoValue
          /\ fetchStage' = "load" /\ blob' = store[Head(rqueue)]
          /\ UNCHANGED efaults
       \/ /\ store[Head(rqueue)] = NoValue
          /\ fetchStage' = "wait" /\ UNCHANGED <<blob, efaults>>
       \/ Fault /\ fetchStage' = "wait" /\ UNCHANGED blob
    /\ UNCHANGED <<fetches, seen, copy, watching>> /\ Kept

(* waitForMetadataFromEtcd: the value the second get finds is not used,    *)
(* its revision is where the watch starts, that revision included.         *)
StartWatch ==
    /\ fetchStage = "wait"
    /\ fetchStage' = "waiting"
    /\ seen' = IF rlabel \in last.keys THEN <<last>> ELSE <<>>
    /\ UNCHANGED <<fetches, rqueue, rlabel, blob, copy, watching, efaults>> /\ Kept

(* The first event decides.                                                *)
WatchAnswers ==
    /\ fetchStage = "waiting" /\ seen # <<>>
    /\ seen' = <<>>
    /\ IF Head(seen).kind = "put"
       THEN fetchStage' = "load" /\ blob' = Head(seen).val /\ UNCHANGED rlabel
       ELSE RDone
    /\ UNCHANGED <<fetches, rqueue, copy, watching, efaults>> /\ Kept

(* The watch times out, or the get or the watch fails.                     *)
WatchEnds ==
    /\ \/ fetchStage = "waiting" /\ UNCHANGED efaults
       \/ fetchStage \in {"wait", "waiting"} /\ Fault
    /\ RDone /\ seen' = <<>>
    /\ UNCHANGED <<fetches, rqueue, copy, watching>> /\ Kept

(* loadRemoteMD; when it fails it may have dropped what was there.         *)
Load ==
    /\ fetchStage = "load"
    /\ copy' = blob
    /\ fetchStage' = "arm"
    /\ UNCHANGED <<fetches, rqueue, rlabel, blob, seen, watching, efaults>> /\ Kept

LoadFails ==
    /\ fetchStage = "load" /\ Fault
    /\ \/ copy' = NoValue /\ due' = "no"
       \/ UNCHANGED <<copy, due>>
    /\ RDone
    /\ UNCHANGED <<fetches, rqueue, seen, watcher, events, invalidated>> /\ Kept

(* Variant: no watcher after a fetch.                                      *)
SetupNoWatcher ==
    /\ fetchStage = "arm"
    /\ RDone
    /\ UNCHANGED <<fetches, rqueue, seen, copy, watching, efaults>> /\ Kept

(* setupAgentWatcher: one watcher, from now on; one that is there, even    *)
(* one whose watch broke, is left alone.                                   *)
SetupAgentWatcher ==
    /\ fetchStage = "arm"
    /\ RDone
    /\ IF watcher = "off" THEN watcher' = "on" /\ events' = <<>>
                          ELSE UNCHANGED <<watcher, events>>
    /\ UNCHANGED <<fetches, rqueue, seen, copy, invalidated, due, efaults>> /\ Kept

-----------------------------------------------------------------------------
(* The watcher's callback, on the client's thread: only a DELETE counts.   *)
Deliver ==
    /\ watcher = "on" /\ events # <<>>
    /\ events' = Tail(events)
    /\ invalidated' = IF Head(events) = "delete" THEN invalidated + 1 ELSE invalidated
    /\ UNCHANGED <<fetching, seen, copy, watcher, due, efaults>> /\ Kept

(* A watch that breaks reports once and stays in agentWatchers_.           *)
WatcherBreaks ==
    /\ watcher = "on" /\ Fault
    /\ watcher' = "broken" /\ events' = <<>>
    /\ due' = IF invalidated > 0 THEN due ELSE "no"
    /\ UNCHANGED <<fetching, seen, copy, invalidated>> /\ Kept

(* Variant: the queue is emptied without an eviction.                      *)
ServiceForgets ==
    /\ fetchStage = "idle" /\ invalidated > 0
    /\ invalidated' = 0
    /\ UNCHANGED <<fetching, seen, copy, watcher, events, due, efaults>> /\ Kept

(* processInvalidatedAgents, which the worker runs between two tasks.      *)
ServiceEvents ==
    /\ fetchStage = "idle" /\ invalidated > 0
    /\ invalidated' = 0
    /\ watcher' = "off" /\ events' = <<>>
    /\ copy' = NoValue /\ due' = "no"
    /\ UNCHANGED <<fetching, seen, efaults>> /\ Kept

(* invalidateRemoteMD, called by the reader's application.                 *)
InvalidateRemote ==
    /\ copy # NoValue
    /\ copy' = NoValue /\ due' = "no"
    /\ UNCHANGED <<fetching, seen, watcher, events, invalidated, efaults>> /\ Kept

-----------------------------------------------------------------------------
Publisher ==
    \/ Announce \/ AnnounceFails \/ Announced
    \/ Store \/ StoreFails
    \/ RemoveNothing \/ Remove \/ RemoveFails

Fetch ==
    \/ Get \/ StartWatch \/ WatchAnswers \/ WatchEnds
    \/ Load \/ LoadFails \/ SetupAgentWatcher

EtcdNext ==
    \/ \E l \in Labels : SendLocal(l) \/ FetchRemote(l)
    \/ InvalidateLocal \/ InvalidateRemote
    \/ Publisher \/ Fetch
    \/ Deliver \/ WatcherBreaks \/ ServiceEvents

EtcdSpec == EtcdInit /\ [][EtcdNext]_etcdVars

(* Both workers and the client's thread run; the wait is timed, the poll   *)
(* comes round between tasks.  Calls and faults need not happen.           *)
EtcdFairSpec ==
    /\ EtcdSpec
    /\ WF_etcdVars(Publisher) /\ WF_etcdVars(Fetch)
    /\ WF_etcdVars(Deliver) /\ WF_etcdVars(ServiceEvents)

-----------------------------------------------------------------------------
Task ==
    [op : {"announce", "remove"}] \cup [op : {"put"}, label : Labels, val : Values]
Event ==
    [kind : {"none", "put", "delete"}, keys : SUBSET Labels, val : Values \cup {NoValue}]

(* Every variable has its type, and what is about to be loaded is a value: *)
(* loadRemoteMD is never handed the nothing of an absent or deleted key.   *)
EtcdTypeOK ==
    /\ ecalls \in 0..MaxEtcdCalls /\ fetches \in 0..MaxEtcdFetches /\ efaults \in 0..MaxEtcdFaults
    /\ ewanted \in [Labels -> Values \cup {NoValue}]
    /\ queue \in Seq(Task) /\ stage \in {"idle", "put"}
    /\ prefixStored \in {"yes", "no"}
    /\ prefix \in {"present", "absent"}
    /\ store \in [Labels -> Values \cup {NoValue}] /\ last \in Event
    /\ rqueue \in Seq(Labels) /\ rlabel \in Labels \cup {NoValue}
    /\ fetchStage \in {"idle", "wait", "waiting", "load", "arm"}
    /\ blob \in Values \cup {NoValue} /\ (fetchStage \in {"load", "arm"} => blob # NoValue)
    /\ seen \in Seq(Event)
    /\ copy \in Values \cup {NoValue}
    /\ watcher \in {"off", "on", "broken"} /\ events \in Seq({"put", "delete"})
    /\ invalidated \in Nat /\ due \in {"yes", "no"}

(* No label is in the store without the prefix key, whose removal is the   *)
(* only event that readers watch: ensureAgentPrefix before every put, and  *)
(* agentPrefixStored_ cleared by every rmdir that may have removed it.     *)
PrefixAnnounced == (\E l \in Labels : store[l] # NoValue) => prefix = "present"

(* The sends and invalidations of an agent reach the store in the order of *)
(* the calls: once its worker has run them all and no store call failed,   *)
(* the store holds what was last asked for, label by label.                *)
EtcdIsLastCall ==
    efaults = 0 /\ queue = <<>> => store = ewanted

(* Metadata that a fetch left in the cache has a watcher, however fetches, *)
(* failures and invalidations interleave.                                  *)
WatchedWhenLoaded ==
    copy # NoValue /\ fetchStage = "idle" => watcher # "off"

(* What readers rely on: the prefix key they watch is there while metadata *)
(* is (PrefixAnnounced), and metadata they loaded is watched               *)
(* (WatchedWhenLoaded).                                                    *)
EtcdWatched == PrefixAnnounced /\ WatchedWhenLoaded

(* A removal that happens while its watcher is armed evicts the metadata,  *)
(* though the callback only queues it and the poll waits for the worker;   *)
(* and a fetch of a label that never appears does not hold the worker,     *)
(* with all queued behind it, for ever: the watch is timed.                *)
EtcdAtRest == due = "no" /\ fetchStage = "idle"

(* Metadata that its agent invalidated, and that nobody publishes again,   *)
(* leaves the cache of every agent that loaded it (nixl.h: "Invalidate     *)
(* your own memory in one/all remote agent(s).").                          *)
InvalidationReaches ==
    <>[](efaults = 0 /\ queue = <<>> /\ store = Nothing) => <>[](copy = NoValue)
=============================================================================
