----------------------------- MODULE P2PExchange -----------------------------
(***************************************************************************)
(* Metadata exchange over sockets                                          *)
(* (src/core/nixl_p2p_metadata_backend.cpp), between two agents.  A call   *)
(* queues a message; the worker sends it on the connection this agent      *)
(* opened to its peer, and between tasks accepts connections and reads one *)
(* frame at a time from every socket it knows.  The answer to a SEND goes  *)
(* back on the socket the SEND came from, so messages of one agent reach   *)
(* its peer on two connections.                                            *)
(*                                                                         *)
(* A connection is a pair of FIFO streams.  When it breaks, or one end     *)
(* closes it, what was under way is lost.  TCP is external.                *)
(***************************************************************************)
EXTENDS Integers, Sequences

CONSTANTS
    Agents,     \* two
    Listeners,  \* those with useListenThread
    None,
    MaxCalls,   \* per agent, bound on its calls
    MaxVersion, \* per agent, bound on the changes of its metadata
    MaxConns,   \* bound on connections
    MaxFaults   \* bound on connections that fail or break, and on failing loads

VARIABLES
    md,         \* version of an agent's own metadata: getLocalMD
    tasks,      \* the worker's queue
    out,        \* remoteSockets_: the connection opened to the peer
    acc,        \* remoteSockets_: the connections accepted from it
    backlog,    \* connections the listener has not accepted
    wire,       \* per connection and receiver, the frames under way
    dead,       \* connections that no longer carry anything
    cache,      \* the peer's metadata, as loaded
    calls, faults,
    wanted,     \* ghost: what the last send or invalidation asked the peer to hold
    asked       \* ghost: fetches: none yet, unanswered, answered

net == <<out, acc, backlog, wire, dead>>
p2pVars == <<md, tasks, net, cache, calls, faults, wanted, asked>>

Conns == 1..MaxConns

ASSUME P2PConstants ==
    /\ \E a, b \in Agents : a # b /\ Agents = {a, b}
    /\ MaxConns \in Nat /\ None \notin Nat

Message == [op : {"LOAD"}, val : Nat] \cup [op : {"SEND", "INVL"}]
Peer(a) == CHOOSE b \in Agents : b # a
Sockets(a) == acc[a] \cup ({out[a]} \ {None})
Opened == {c \in Conns : \E a \in Agents : c \in Sockets(a) \cup backlog[a]} \cup dead

P2PInit ==
    /\ md = [a \in Agents |-> 1]
    /\ tasks = [a \in Agents |-> <<>>]
    /\ out = [a \in Agents |-> None]
    /\ acc = [a \in Agents |-> {}] /\ backlog = [a \in Agents |-> {}]
    /\ wire = [c \in Conns |-> [a \in Agents |-> <<>>]]
    /\ dead = {}
    /\ cache = [a \in Agents |-> None]
    /\ calls = [a \in Agents |-> 0] /\ faults = 0
    /\ wanted = [a \in Agents |-> None]
    /\ asked = [a \in Agents |-> "no"]

PeerFault == faults < MaxFaults /\ faults' = faults + 1

-----------------------------------------------------------------------------
(* The calls: the blob is made at once, the sending is queued.             *)

Submit(a, m) ==
    /\ calls[a] < MaxCalls[a]
    /\ calls' = [calls EXCEPT ![a] = @ + 1]
    /\ tasks' = [tasks EXCEPT ![a] = Append(@, m)]
    /\ UNCHANGED <<md, net, cache, faults>>

(* sendLocal and sendLocalPartial                                          *)
P2PSendLocal(a) ==
    /\ Submit(a, [op |-> "LOAD", val |-> md[a]])
    /\ wanted' = [wanted EXCEPT ![a] = md[a]]
    /\ UNCHANGED asked

P2PFetchRemote(a) ==
    /\ Submit(a, [op |-> "SEND"])
    /\ asked' = [asked EXCEPT ![a] = "open"]
    /\ UNCHANGED wanted

P2PInvalidateLocal(a) ==
    /\ Submit(a, [op |-> "INVL"])
    /\ wanted' = [wanted EXCEPT ![a] = None]
    /\ UNCHANGED asked

(* The agent registers or deregisters memory.                              *)
NewMetadata(a) ==
    /\ md[a] < MaxVersion[a]
    /\ md' = [md EXCEPT ![a] = @ + 1]
    /\ UNCHANGED <<tasks, net, cache, calls, faults, wanted, asked>>

-----------------------------------------------------------------------------
(* sendToPeer, run as a task.  A message that cannot be sent is dropped.   *)

Sent(c, to, m) == wire' = [wire EXCEPT ![c][to] = Append(@, m)]
Popped(a) ==
    /\ tasks' = [tasks EXCEPT ![a] = Tail(@)]
    /\ UNCHANGED <<md, cache, calls, wanted, asked>>

SendToPeer(a) ==
    /\ tasks[a] # <<>> /\ out[a] \in Conns \ dead
    /\ Sent(out[a], Peer(a), Head(tasks[a]))
    /\ Popped(a)
    /\ UNCHANGED <<out, acc, backlog, dead, faults>>

(* The first writes to a socket the peer has closed still succeed.         *)
SendToClosed(a) ==
    /\ tasks[a] # <<>> /\ out[a] \in dead
    /\ out' \in {out, [out EXCEPT ![a] = None]}
    /\ Popped(a)
    /\ UNCHANGED <<acc, backlog, wire, dead, faults>>

(* Variant: a connection of its own for every message.                     *)
ConnectAlways(a) ==
    /\ tasks[a] # <<>> /\ Peer(a) \in Listeners
    /\ \E c \in Conns :
          /\ c \notin Opened /\ \A d \in 1..(c - 1) : d \in Opened
          /\ out' = [out EXCEPT ![a] = c]
          /\ backlog' = [backlog EXCEPT ![Peer(a)] = @ \cup {c}]
          /\ Sent(c, Peer(a), Head(tasks[a]))
    /\ Popped(a)
    /\ UNCHANGED <<acc, dead, faults>>

ConnectAndSend(a) ==
    /\ tasks[a] # <<>> /\ out[a] = None /\ Peer(a) \in Listeners
    /\ \E c \in Conns :
          /\ c \notin Opened /\ \A d \in 1..(c - 1) : d \in Opened
          /\ out' = [out EXCEPT ![a] = c]
          /\ backlog' = [backlog EXCEPT ![Peer(a)] = @ \cup {c}]
          /\ Sent(c, Peer(a), Head(tasks[a]))
    /\ Popped(a)
    /\ UNCHANGED <<acc, dead, faults>>

ConnectFails(a) ==
    /\ tasks[a] # <<>> /\ out[a] = None
    /\ IF Peer(a) \in Listeners THEN PeerFault ELSE UNCHANGED faults
    /\ Popped(a)
    /\ UNCHANGED net

-----------------------------------------------------------------------------
(* serviceEvents: acceptPeers and readIncoming.                            *)

Cut(c) == wire' = [wire EXCEPT ![c] = [a \in Agents |-> <<>>]]

Accept(a, c) ==
    /\ a \in Listeners /\ c \in backlog[a]
    /\ backlog' = [backlog EXCEPT ![a] = @ \ {c}]
    /\ \/ /\ acc' = [acc EXCEPT ![a] = @ \cup {c}]
          /\ UNCHANGED <<wire, dead, faults>>
       \/ PeerFault /\ Cut(c) /\ dead' = dead \cup {c} /\ UNCHANGED acc
    /\ UNCHANGED <<md, tasks, out, cache, calls, wanted, asked>>

(* The frame at the head of a socket, in a's hands.                        *)
Reads(a, c, op) ==
    /\ a \in Listeners /\ c \in Sockets(a) /\ wire[c][a] # <<>>
    /\ Head(wire[c][a]).op = op
    /\ UNCHANGED <<md, tasks, backlog, calls>>

Answered(a, c) == [asked EXCEPT ![a] = IF out[a] = c /\ @ = "open" THEN "done" ELSE @]

ReadLoad(a, c) ==
    /\ Reads(a, c, "LOAD")
    /\ wire' = [wire EXCEPT ![c][a] = Tail(@)]
    /\ \/ cache' = [cache EXCEPT ![a] = Head(wire[c][a]).val] /\ UNCHANGED faults
       \/ PeerFault /\ UNCHANGED cache
    /\ asked' = Answered(a, c)
    /\ UNCHANGED <<out, acc, dead, wanted>>

ReadSend(a, c) ==
    /\ Reads(a, c, "SEND")
    /\ wire' = [wire EXCEPT ![c] = [b \in Agents |->
          IF b = a THEN Tail(@[a]) ELSE Append(@[b], [op |-> "LOAD", val |-> md[a]])]]
    /\ UNCHANGED <<out, acc, dead, cache, faults, wanted, asked>>

ReadInvl(a, c) ==
    /\ Reads(a, c, "INVL")
    /\ wire' = [wire EXCEPT ![c][a] = Tail(@)]
    /\ cache' = [cache EXCEPT ![a] = None]
    /\ UNCHANGED <<out, acc, dead, faults, wanted, asked>>

(* A connection breaks: what it carried is gone.                           *)
Break(c) ==
    /\ c \in Opened \ dead
    /\ PeerFault
    /\ dead' = dead \cup {c} /\ Cut(c)
    /\ UNCHANGED <<md, tasks, out, acc, backlog, cache, calls, wanted, asked>>

(* Reading a reset connection throws and erases the socket.  One that was  *)
(* closed in order reads as "nothing to read yet" and stays.               *)
ReadBroken(a, c) ==
    /\ a \in Listeners /\ c \in Sockets(a) \cap dead
    /\ out' = [out EXCEPT ![a] = IF @ = c THEN None ELSE @]
    /\ acc' = [acc EXCEPT ![a] = @ \ {c}]
    /\ UNCHANGED <<md, tasks, backlog, wire, dead, cache, calls, faults, wanted, asked>>

-----------------------------------------------------------------------------
PeerTask(a) == SendToPeer(a) \/ SendToClosed(a) \/ ConnectAndSend(a) \/ ConnectFails(a)
PeerService(a) ==
    \E c \in Conns : Accept(a, c) \/ ReadLoad(a, c) \/ ReadSend(a, c) \/ ReadInvl(a, c)
PeerCall(a) == P2PSendLocal(a) \/ P2PFetchRemote(a) \/ P2PInvalidateLocal(a) \/ NewMetadata(a)

PeerWork ==
    \/ \E a \in Agents : PeerTask(a) \/ PeerService(a)
    \/ \E c \in Conns : Break(c) \/ \E a \in Agents : ReadBroken(a, c)

P2PNext == PeerWork \/ \E a \in Agents : PeerCall(a)

P2PSpec == P2PInit /\ [][P2PNext]_p2pVars

(* Both workers run their tasks and come back to their sockets.            *)
Fairness == \A a \in Agents : WF_p2pVars(PeerTask(a)) /\ WF_p2pVars(PeerService(a))

-----------------------------------------------------------------------------
(* The sends and invalidations of an agent take effect at its peer in the  *)
(* order of the calls, since sendToPeer keeps one connection a peer: with  *)
(* nothing lost, and no fetch whose answer comes on another connection,    *)
(* the peer holds what was last asked for once nothing is under way.       *)
LastCallReaches ==
    \A a \in Agents :
        /\ faults = 0 /\ asked[Peer(a)] = "no" /\ Peer(a) \in Listeners
        /\ tasks[a] = <<>> /\ \A c \in Conns : wire[c][Peer(a)] = <<>>
        => cache[Peer(a)] = wanted[a]

(* A fetch is answered: SEND is accepted, read and answered on the same    *)
(* socket, and the answer read, as long as nothing breaks.                 *)
FetchesAnswered ==
    \A a \in Agents :
        a \in Listeners /\ Peer(a) \in Listeners => asked[a] # "open" \/ faults > 0
=============================================================================
