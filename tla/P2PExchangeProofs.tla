------------------------- MODULE P2PExchangeProofs -------------------------
(***************************************************************************)
(* Proofs about P2PExchange for two agents and any number of calls,        *)
(* versions, connections and faults.                                       *)
(***************************************************************************)
EXTENDS P2PExchange, TLAPS

TypeOK ==
    /\ md \in [Agents -> Nat] /\ tasks \in [Agents -> Seq(Message)]
    /\ out \in [Agents -> Conns \cup {None}]
    /\ acc \in [Agents -> SUBSET Conns] /\ backlog \in [Agents -> SUBSET Conns]
    /\ wire \in [Conns -> [Agents -> Seq(Message)]] /\ dead \subseteq Conns
    /\ cache \in [Agents -> Nat \cup {None}] /\ wanted \in [Agents -> Nat \cup {None}]
    /\ faults \in Nat
    /\ asked \in [Agents -> {"no", "open", "done"}]

(* An agent that never asked has no SEND queued or under way.              *)
NoneAsked ==
    \A p \in Agents : asked[p] = "no" =>
        /\ \A i \in DOMAIN tasks[p] : tasks[p][i].op # "SEND"
        /\ \A c \in Conns : \A i \in DOMAIN wire[c][Peer(p)] : wire[c][Peer(p)][i].op # "SEND"

(* While nothing failed, what is under way to an agent that never asked is *)
(* on the one connection its peer opened.                                  *)
OneRoute ==
    faults = 0 =>
        /\ dead = {}
        /\ \A a \in Agents : asked[Peer(a)] = "no" =>
             \A c \in Conns : wire[c][Peer(a)] # <<>> => c = out[a]

(* What a has under way and queued for its peer, first to last.            *)
Route(a) == IF out[a] = None THEN <<>> ELSE wire[out[a]][Peer(a)]
Pending(a) == Route(a) \o tasks[a]

(* A message decides what the peer holds; and what it makes of it.         *)
Settles(m) == m.op \in {"LOAD", "INVL"}
Outcome(m) == IF m.op = "LOAD" THEN m.val ELSE None

(* The last pending message that settles it makes the peer hold what was   *)
(* last asked for; without one, the peer holds it.                         *)
Ordered(q, held, want) ==
    /\ (\A k \in DOMAIN q : ~Settles(q[k])) => held = want
    /\ \A k \in DOMAIN q :
         Settles(q[k]) /\ (\A j \in DOMAIN q : j > k => ~Settles(q[j])) => want = Outcome(q[k])

Quiet(a) == faults = 0 /\ asked[Peer(a)] = "no" /\ Peer(a) \in Listeners
OrderInv ==
    \A a \in Agents : Quiet(a) => Ordered(Pending(a), cache[Peer(a)], wanted[a])

-----------------------------------------------------------------------------
(* The two agents are each other's peer.                                   *)
LEMMA Peers ==
    ASSUME NEW a \in Agents
    PROVE  Peer(a) \in Agents /\ Peer(a) # a /\ Peer(Peer(a)) = a
           /\ \A b \in Agents : b # a => b = Peer(a)
  BY P2PConstants DEF Peer

(* Delivering the first of the pending messages.                           *)
LEMMA Delivered ==
    ASSUME NEW q \in Seq(Message), q # <<>>, NEW held, NEW want, Ordered(q, held, want)
    PROVE  Ordered(Tail(q), IF Settles(Head(q)) THEN Outcome(Head(q)) ELSE held, want)
<1>1. /\ 1 \in DOMAIN q /\ q[1] = Head(q)
      /\ \A k \in DOMAIN Tail(q) : k + 1 \in DOMAIN q /\ Tail(q)[k] = q[k + 1]
      /\ \A k \in DOMAIN q : k > 1 => k - 1 \in DOMAIN Tail(q) /\ q[k] = Tail(q)[k - 1]
      /\ \A k \in DOMAIN q : k = 1 \/ k > 1
  OBVIOUS
<1>2. ASSUME \A k \in DOMAIN Tail(q) : ~Settles(Tail(q)[k])
      PROVE  (IF Settles(Head(q)) THEN Outcome(Head(q)) ELSE held) = want
  <2>1. \A k \in DOMAIN q : k > 1 => ~Settles(q[k])
    BY <1>1, <1>2
  <2>2. CASE Settles(Head(q))
    BY <1>1, <2>1, <2>2 DEF Ordered
  <2>3. CASE ~Settles(Head(q))
    BY <1>1, <2>1, <2>3 DEF Ordered
  <2> QED
    BY <2>2, <2>3
<1>3. ASSUME NEW k \in DOMAIN Tail(q), Settles(Tail(q)[k]),
             \A j \in DOMAIN Tail(q) : j > k => ~Settles(Tail(q)[j])
      PROVE  want = Outcome(Tail(q)[k])
  <2>1. k + 1 \in DOMAIN q /\ Tail(q)[k] = q[k + 1]
    BY <1>1
  <2>2. ASSUME NEW j \in DOMAIN q, j > k + 1
        PROVE  ~Settles(q[j])
    <3>1. k \in Nat /\ j \in Nat /\ k >= 1
      OBVIOUS
    <3>2. j - 1 \in DOMAIN Tail(q) /\ q[j] = Tail(q)[j - 1] /\ j - 1 > k
      BY <2>2, <3>1, <1>1
    <3> QED
      BY <1>3, <3>2
  <2> QED
    BY <1>3, <2>1, <2>2 DEF Ordered
<1> QED
  BY <1>2, <1>3 DEF Ordered

(* Queueing one more message.                                              *)
LEMMA Queued ==
    ASSUME NEW q \in Seq(Message), NEW m \in Message, NEW held, NEW want, Ordered(q, held, want)
    PROVE  Ordered(Append(q, m), held, IF Settles(m) THEN Outcome(m) ELSE want)
<1>1. /\ DOMAIN Append(q, m) = 1..Len(q) + 1 /\ Append(q, m)[Len(q) + 1] = m
      /\ DOMAIN q = 1..Len(q) /\ Len(q) \in Nat
      /\ \A k \in DOMAIN q : Append(q, m)[k] = q[k]
  OBVIOUS
<1>2. CASE Settles(m)
  <2>1. Len(q) + 1 \in DOMAIN Append(q, m) /\ \A k \in DOMAIN Append(q, m) : k = Len(q) + 1 \/ Len(q) + 1 > k
    BY <1>1
  <2> QED
    BY <1>1, <1>2, <2>1 DEF Ordered
<1>3. CASE ~Settles(m)
  <2>1. \A k \in DOMAIN q : k \in DOMAIN Append(q, m)
    BY <1>1
  <2>2. \A k \in DOMAIN Append(q, m) : k \in DOMAIN q \/ ~Settles(Append(q, m)[k])
    BY <1>1, <1>3
  <2> QED
    BY <1>1, <1>3, <2>1, <2>2 DEF Ordered
<1> QED
  BY <1>2, <1>3

(* A message moves from the queue to the route: nothing is reordered.      *)
LEMMA Moved ==
    ASSUME NEW w \in Seq(Message), NEW t \in Seq(Message), t # <<>>
    PROVE  Append(w, Head(t)) \o Tail(t) = w \o t
  OBVIOUS

(* The first message of the route is the first that is pending.            *)
LEMMA FirstOfRoute ==
    ASSUME NEW w \in Seq(Message), NEW t \in Seq(Message), w # <<>>
    PROVE  /\ w \o t \in Seq(Message) /\ w \o t # <<>>
           /\ Head(w \o t) = Head(w) /\ Tail(w \o t) = Tail(w) \o t
  OBVIOUS

(* A call is queued behind all that is pending.                            *)
LEMMA LastOfQueue ==
    ASSUME NEW w \in Seq(Message), NEW t \in Seq(Message), NEW m \in Message
    PROVE  w \o Append(t, m) = Append(w \o t, m)
  OBVIOUS

(* One stream of one connection changes.                                   *)
LEMMA OneStream ==
    ASSUME wire \in [Conns -> [Agents -> Seq(Message)]],
           NEW c \in Conns, NEW b \in Agents, NEW s \in Seq(Message),
           wire' = [wire EXCEPT ![c][b] = s]
    PROVE  /\ wire' \in [Conns -> [Agents -> Seq(Message)]] /\ wire'[c][b] = s
           /\ \A d \in Conns, e \in Agents : d # c \/ e # b => wire'[d][e] = wire[d][e]
  OBVIOUS

(* Both streams of a connection are cut.                                   *)
LEMMA CutStreams ==
    ASSUME wire \in [Conns -> [Agents -> Seq(Message)]], NEW c \in Conns, Cut(c)
    PROVE  /\ wire' \in [Conns -> [Agents -> Seq(Message)]]
           /\ \A e \in Agents : wire'[c][e] = <<>>
           /\ \A d \in Conns, e \in Agents : d # c => wire'[d][e] = wire[d][e]
<1>1. [a \in Agents |-> <<>>] \in [Agents -> Seq(Message)]
  OBVIOUS
<1> QED
  BY <1>1 DEF Cut

(* What a call queues is a message.                                        *)
LEMMA Messages ==
    /\ \A v \in Nat : [op |-> "LOAD", val |-> v] \in Message
    /\ [op |-> "SEND"] \in Message /\ [op |-> "INVL"] \in Message
    /\ \A m \in Message : m.op \in {"LOAD", "SEND", "INVL"} /\ (m.op = "LOAD" => m.val \in Nat)
  BY DEF Message

-----------------------------------------------------------------------------
(* Every variable keeps its type.                                          *)
LEMMA TypeInvariant == P2PSpec => []TypeOK
<1>1. P2PInit => TypeOK
  <2> SUFFICES ASSUME P2PInit PROVE TypeOK
    OBVIOUS
  <2>1. wire \in [Conns -> [Agents -> Seq(Message)]] /\ tasks \in [Agents -> Seq(Message)]
    BY DEF P2PInit
  <2> QED
    BY <2>1 DEF P2PInit, TypeOK
<1>2. TypeOK /\ [P2PNext]_p2pVars => TypeOK'
  <2> SUFFICES ASSUME TypeOK, [P2PNext]_p2pVars PROVE TypeOK'
    OBVIOUS
  <2>1. ASSUME NEW a \in Agents, NEW m \in Message, Submit(a, m),
               wanted' \in [Agents -> Nat \cup {None}],
               asked' \in [Agents -> {"no", "open", "done"}]
        PROVE  TypeOK'
    <3>1. tasks' \in [Agents -> Seq(Message)]
      BY <2>1 DEF Submit, TypeOK
    <3> QED
      BY <2>1, <3>1 DEF Submit, TypeOK, net
  <2>2. ASSUME NEW a \in Agents, PeerCall(a)
        PROVE  TypeOK'
    <3>1. CASE P2PSendLocal(a)
      BY <2>1, <3>1, Messages DEF P2PSendLocal, TypeOK
    <3>2. CASE P2PFetchRemote(a)
      BY <2>1, <3>2, Messages DEF P2PFetchRemote, TypeOK
    <3>3. CASE P2PInvalidateLocal(a)
      BY <2>1, <3>3, Messages DEF P2PInvalidateLocal, TypeOK
    <3>4. CASE NewMetadata(a)
      BY <3>4 DEF NewMetadata, TypeOK, net
    <3> QED
      BY <2>2, <3>1, <3>2, <3>3, <3>4 DEF PeerCall
  <2>3. ASSUME NEW a \in Agents, PeerTask(a)
        PROVE  TypeOK'
    <3>1. tasks[a] \in Seq(Message) /\ tasks[a] # <<>> /\ Popped(a)
      BY <2>3 DEF PeerTask, SendToPeer, SendToClosed, ConnectAndSend, ConnectFails, TypeOK
    <3>2. Head(tasks[a]) \in Message /\ tasks' \in [Agents -> Seq(Message)]
      BY <3>1 DEF Popped, TypeOK
    <3>3. ASSUME NEW c \in Conns, Sent(c, Peer(a), Head(tasks[a]))
          PROVE  wire' \in [Conns -> [Agents -> Seq(Message)]]
      <4>1. Append(wire[c][Peer(a)], Head(tasks[a])) \in Seq(Message) /\ Peer(a) \in Agents
        BY <3>2, Peers DEF TypeOK
      <4> QED
        BY <3>3, <4>1, OneStream DEF Sent, TypeOK
    <3>4. CASE SendToPeer(a)
      BY <3>1, <3>2, <3>3, <3>4 DEF SendToPeer, Popped, TypeOK
    <3>5. CASE SendToClosed(a)
      BY <3>1, <3>2, <3>5 DEF SendToClosed, Popped, TypeOK
    <3>6. CASE ConnectAndSend(a)
      <4>1. PICK c \in Conns : /\ out' = [out EXCEPT ![a] = c]
                               /\ backlog' = [backlog EXCEPT ![Peer(a)] = @ \cup {c}]
                               /\ Sent(c, Peer(a), Head(tasks[a]))
        BY <3>6 DEF ConnectAndSend
      <4> QED
        BY <3>1, <3>2, <3>3, <3>6, <4>1, Peers DEF ConnectAndSend, Popped, TypeOK
    <3>7. CASE ConnectFails(a)
      <4>1. faults' \in Nat /\ UNCHANGED net
        BY <3>7 DEF ConnectFails, PeerFault, TypeOK
      <4> QED
        BY <3>1, <3>2, <4>1 DEF Popped, TypeOK, net
    <3> QED
      BY <2>3, <3>4, <3>5, <3>6, <3>7 DEF PeerTask
  <2>4. ASSUME NEW a \in Agents, NEW c \in Conns, Accept(a, c)
        PROVE  TypeOK'
    <3>1. wire' \in [Conns -> [Agents -> Seq(Message)]]
      <4>1. CASE UNCHANGED wire
        BY <4>1 DEF TypeOK
      <4>2. CASE Cut(c)
        BY <4>2, CutStreams DEF TypeOK
      <4> QED
        BY <2>4, <4>1, <4>2 DEF Accept
    <3>2. backlog' \in [Agents -> SUBSET Conns] /\ acc' \in [Agents -> SUBSET Conns]
      <4>1. backlog[a] \ {c} \in SUBSET Conns /\ acc[a] \cup {c} \in SUBSET Conns
        BY DEF TypeOK
      <4>2. backlog' = [backlog EXCEPT ![a] = backlog[a] \ {c}]
            /\ (acc' = acc \/ acc' = [acc EXCEPT ![a] = acc[a] \cup {c}])
        BY <2>4 DEF Accept
      <4> QED
        BY <4>1, <4>2 DEF TypeOK
    <3>3. dead' \subseteq Conns /\ faults' \in Nat
      BY <2>4 DEF Accept, PeerFault, TypeOK
    <3> QED
      BY <2>4, <3>1, <3>2, <3>3 DEF Accept, TypeOK
  <2>5. ASSUME NEW a \in Agents, NEW c \in Conns, wire[c][a] # <<>>
        PROVE  Tail(wire[c][a]) \in Seq(Message) /\ Head(wire[c][a]) \in Message
    <3>1. wire[c][a] \in Seq(Message)
      BY DEF TypeOK
    <3> QED
      BY <2>5, <3>1
  <2>6. ASSUME NEW a \in Agents, NEW c \in Conns, ReadLoad(a, c)
        PROVE  TypeOK'
    <3>1. Head(wire[c][a]).val \in Nat /\ Tail(wire[c][a]) \in Seq(Message)
      BY <2>5, <2>6, Messages DEF ReadLoad, Reads
    <3>2. wire' \in [Conns -> [Agents -> Seq(Message)]]
      BY <2>6, <3>1, OneStream DEF ReadLoad, TypeOK
    <3> QED
      <4>1. cache' \in [Agents -> Nat \cup {None}] /\ faults' \in Nat
        <5>1. cache' = [cache EXCEPT ![a] = Head(wire[c][a]).val] \/ cache' = cache
          BY <2>6 DEF ReadLoad
        <5>2. faults' = faults \/ PeerFault
          BY <2>6 DEF ReadLoad
        <5>3. cache' \in [Agents -> Nat \cup {None}]
          BY <3>1, <5>1 DEF TypeOK
        <5>4. faults' \in Nat
          BY <5>2 DEF PeerFault, TypeOK
        <5> QED
          BY <5>3, <5>4
      <4>2. asked' \in [Agents -> {"no", "open", "done"}]
        BY <2>6 DEF ReadLoad, Answered, TypeOK
      <4> QED
        BY <2>6, <3>2, <4>1, <4>2 DEF ReadLoad, Reads, TypeOK
  <2>7. ASSUME NEW a \in Agents, NEW c \in Conns, ReadSend(a, c)
        PROVE  TypeOK'
    <3>1. Tail(wire[c][a]) \in Seq(Message) /\ [op |-> "LOAD", val |-> md[a]] \in Message
      BY <2>5, <2>7, Messages DEF ReadSend, Reads, TypeOK
    <3>2. \A b \in Agents : Append(wire[c][b], [op |-> "LOAD", val |-> md[a]]) \in Seq(Message)
      BY <3>1 DEF TypeOK
    <3>3. [b \in Agents |-> IF b = a THEN Tail(wire[c][a])
                            ELSE Append(wire[c][b], [op |-> "LOAD", val |-> md[a]])]
            \in [Agents -> Seq(Message)]
      BY <3>1, <3>2
    <3>4. wire' \in [Conns -> [Agents -> Seq(Message)]]
      BY <2>7, <3>3 DEF ReadSend, TypeOK
    <3> QED
      BY <2>7, <3>4 DEF ReadSend, Reads, TypeOK
  <2>8. ASSUME NEW a \in Agents, NEW c \in Conns, ReadInvl(a, c)
        PROVE  TypeOK'
    <3>1. wire' \in [Conns -> [Agents -> Seq(Message)]]
      BY <2>5, <2>8, OneStream DEF ReadInvl, Reads, TypeOK
    <3> QED
      BY <2>8, <3>1 DEF ReadInvl, Reads, TypeOK
  <2>9. ASSUME NEW c \in Conns, Break(c)
        PROVE  TypeOK'
    <3>1. wire' \in [Conns -> [Agents -> Seq(Message)]]
      BY <2>9, CutStreams DEF Break, TypeOK
    <3> QED
      BY <2>9, <3>1 DEF Break, PeerFault, TypeOK
  <2>10. ASSUME NEW a \in Agents, NEW c \in Conns, ReadBroken(a, c)
        PROVE  TypeOK'
    BY <2>10 DEF ReadBroken, TypeOK
  <2>11. CASE UNCHANGED p2pVars
    BY <2>11 DEF p2pVars, net, TypeOK
  <2> QED
    BY <2>2, <2>3, <2>4, <2>6, <2>7, <2>8, <2>9, <2>10, <2>11 DEF P2PNext, PeerWork, PeerService
<1> QED
  BY <1>1, <1>2, PTL DEF P2PSpec

-----------------------------------------------------------------------------
(* A SEND is queued or under way only after a fetch.                       *)
LEMMA NoneAskedStep ==
    ASSUME TypeOK, NoneAsked, [P2PNext]_p2pVars
    PROVE  NoneAsked'
<1>1. ASSUME asked' = asked \/ \A p \in Agents : asked'[p] = "no" => asked[p] = "no",
             tasks' = tasks,
             \A c \in Conns, b \in Agents : \A i \in DOMAIN wire'[c][b] :
                \/ wire'[c][b][i].op # "SEND"
                \/ \E j \in DOMAIN wire[c][b] : wire[c][b][j] = wire'[c][b][i]
      PROVE  NoneAsked'
  <2> SUFFICES ASSUME NEW p \in Agents, asked'[p] = "no", NEW c \in Conns,
                      NEW i \in DOMAIN wire'[c][Peer(p)], wire'[c][Peer(p)][i].op = "SEND"
               PROVE  FALSE
    BY <1>1 DEF NoneAsked
  <2> QED
    BY <1>1, Peers DEF NoneAsked
<1>2. ASSUME NEW a \in Agents, NEW m \in Message, Submit(a, m),
             m.op = "SEND" => asked'[a] # "no",
             \A p \in Agents : asked'[p] = "no" => asked[p] = "no"
      PROVE  NoneAsked'
  <2>1. wire' = wire /\ tasks' = [tasks EXCEPT ![a] = Append(tasks[a], m)]
    BY <1>2 DEF Submit, net
  <2>2. \A i \in DOMAIN Append(tasks[a], m) :
           Append(tasks[a], m)[i] = m
           \/ (i \in DOMAIN tasks[a] /\ Append(tasks[a], m)[i] = tasks[a][i])
    <3>1. tasks[a] \in Seq(Message)
      BY DEF TypeOK
    <3> QED
      BY <3>1
  <2> SUFFICES ASSUME NEW p \in Agents, asked'[p] = "no"
               PROVE  \A i \in DOMAIN tasks'[p] : tasks'[p][i].op # "SEND"
    BY <1>2, <2>1 DEF NoneAsked
  <2>3. CASE p = a
    BY <1>2, <2>1, <2>2, <2>3 DEF NoneAsked, TypeOK
  <2>4. CASE p # a
    BY <1>2, <2>1, <2>4 DEF NoneAsked, TypeOK
  <2> QED
    BY <2>3, <2>4
<1>3. ASSUME NEW a \in Agents, PeerCall(a)
      PROVE  NoneAsked'
  <2>1. CASE P2PSendLocal(a)
    BY <1>2, <2>1, Messages DEF P2PSendLocal, TypeOK
  <2>2. CASE P2PFetchRemote(a)
    BY <1>2, <2>2, Messages DEF P2PFetchRemote, TypeOK
  <2>3. CASE P2PInvalidateLocal(a)
    BY <1>2, <2>3, Messages DEF P2PInvalidateLocal, TypeOK
  <2>4. CASE NewMetadata(a)
    BY <2>4 DEF NewMetadata, net, NoneAsked
  <2> QED
    BY <1>3, <2>1, <2>2, <2>3, <2>4 DEF PeerCall
<1>4. ASSUME NEW a \in Agents, PeerTask(a)
      PROVE  NoneAsked'
  <2>1. tasks[a] \in Seq(Message) /\ tasks[a] # <<>> /\ Popped(a)
    BY <1>4 DEF PeerTask, SendToPeer, SendToClosed, ConnectAndSend, ConnectFails, TypeOK
  <2>2. asked' = asked /\ tasks' = [tasks EXCEPT ![a] = Tail(tasks[a])]
    BY <2>1 DEF Popped
  <2>3. \A i \in DOMAIN Tail(tasks[a]) :
           i + 1 \in DOMAIN tasks[a] /\ Tail(tasks[a])[i] = tasks[a][i + 1]
    BY <2>1
  <2>4. ASSUME NEW p \in Agents, asked'[p] = "no"
        PROVE  \A i \in DOMAIN tasks'[p] : tasks'[p][i].op # "SEND"
    <3>1. CASE p = a
      BY <2>2, <2>3, <2>4, <3>1 DEF NoneAsked, TypeOK
    <3>2. CASE p # a
      BY <2>2, <2>4, <3>2 DEF NoneAsked, TypeOK
    <3> QED
      BY <3>1, <3>2
  <2>5. CASE wire' = wire
    BY <2>2, <2>4, <2>5 DEF NoneAsked
  <2>6. ASSUME NEW c \in Conns, Sent(c, Peer(a), Head(tasks[a]))
        PROVE  NoneAsked'
    <3> DEFINE s == Append(wire[c][Peer(a)], Head(tasks[a]))
    <3>1. Head(tasks[a]) = tasks[a][1] /\ 1 \in DOMAIN tasks[a] /\ Head(tasks[a]) \in Message
      BY <2>1
    <3>2. wire[c][Peer(a)] \in Seq(Message) /\ Peer(a) \in Agents
      BY Peers DEF TypeOK
    <3>3. s \in Seq(Message)
          /\ \A i \in DOMAIN s : s[i] = Head(tasks[a])
                 \/ (i \in DOMAIN wire[c][Peer(a)] /\ s[i] = wire[c][Peer(a)][i])
      BY <3>1, <3>2
    <3> HIDE DEF s
    <3>4. /\ wire'[c][Peer(a)] = s
          /\ \A d \in Conns, e \in Agents : d # c \/ e # Peer(a) => wire'[d][e] = wire[d][e]
      BY <2>6, <3>2, <3>3, OneStream DEF Sent, TypeOK, s
    <3> SUFFICES ASSUME NEW p \in Agents, asked'[p] = "no", NEW d \in Conns,
                        NEW i \in DOMAIN wire'[d][Peer(p)]
                 PROVE  wire'[d][Peer(p)][i].op # "SEND"
      BY <2>4 DEF NoneAsked
    <3>5. CASE d = c /\ p = a
      BY <2>2, <3>1, <3>3, <3>4, <3>5 DEF NoneAsked
    <3>6. CASE d # c \/ p # a
      BY <2>2, <3>2, <3>4, <3>6, Peers DEF NoneAsked
    <3> QED
      BY <3>5, <3>6
  <2> QED
    BY <1>4, <2>5, <2>6 DEF PeerTask, SendToPeer, SendToClosed, ConnectAndSend, ConnectFails, net
<1>5. ASSUME NEW c \in Conns, Cut(c), tasks' = tasks, asked' = asked
      PROVE  NoneAsked'
  <2>1. \A d \in Conns, e \in Agents : wire'[d][e] = <<>> \/ wire'[d][e] = wire[d][e]
    BY <1>5, CutStreams DEF TypeOK
  <2> QED
    BY <1>5, <2>1, Peers DEF NoneAsked
<1>6. ASSUME NEW a \in Agents, NEW c \in Conns, Accept(a, c)
      PROVE  NoneAsked'
  BY <1>5, <1>6 DEF Accept, NoneAsked
<1>7. ASSUME NEW c \in Conns, Break(c)
      PROVE  NoneAsked'
  BY <1>5, <1>7 DEF Break
<1>8. ASSUME NEW a \in Agents, NEW c \in Conns, wire[c][a] # <<>>
      PROVE  /\ wire[c][a] \in Seq(Message) /\ Tail(wire[c][a]) \in Seq(Message)
             /\ \A i \in DOMAIN Tail(wire[c][a]) :
                  \E j \in DOMAIN wire[c][a] : wire[c][a][j] = Tail(wire[c][a])[i]
  <2>1. wire[c][a] \in Seq(Message)
    BY DEF TypeOK
  <2>2. \A i \in DOMAIN Tail(wire[c][a]) :
           i + 1 \in DOMAIN wire[c][a] /\ wire[c][a][i + 1] = Tail(wire[c][a])[i]
    BY <1>8, <2>1
  <2> QED
    BY <1>8, <2>1, <2>2
<1>9. ASSUME NEW a \in Agents, NEW c \in Conns, ReadLoad(a, c) \/ ReadInvl(a, c)
      PROVE  NoneAsked'
  <2>1. wire[c][a] # <<>> /\ wire' = [wire EXCEPT ![c][a] = Tail(wire[c][a])] /\ tasks' = tasks
    BY <1>9 DEF ReadLoad, ReadInvl, Reads
  <2>2. \A p \in Agents : asked'[p] = "no" => asked[p] = "no"
    BY <1>9 DEF ReadLoad, ReadInvl, Answered, TypeOK
  <2>3. \A d \in Conns, e \in Agents :
           wire'[d][e] = wire[d][e] \/ (d = c /\ e = a /\ wire'[d][e] = Tail(wire[c][a]))
    BY <2>1, <1>8, OneStream DEF TypeOK
  <2> QED
    BY <1>1, <1>8, <2>1, <2>2, <2>3
<1>10. ASSUME NEW a \in Agents, NEW c \in Conns, ReadSend(a, c)
      PROVE  NoneAsked'
  <2> DEFINE m == [op |-> "LOAD", val |-> md[a]]
  <2>1. wire[c][a] # <<>> /\ tasks' = tasks /\ asked' = asked
    BY <1>10 DEF ReadSend, Reads
  <2>2. \A d \in Conns, e \in Agents :
           \/ wire'[d][e] = wire[d][e]
           \/ d = c /\ e = a /\ wire'[d][e] = Tail(wire[c][a])
           \/ d = c /\ wire'[d][e] = Append(wire[c][e], m)
    BY <1>10 DEF ReadSend, TypeOK
  <2>3. ASSUME NEW e \in Agents, NEW i \in DOMAIN Append(wire[c][e], m)
        PROVE  \/ Append(wire[c][e], m)[i].op # "SEND"
               \/ \E j \in DOMAIN wire[c][e] : wire[c][e][j] = Append(wire[c][e], m)[i]
    <3>1. wire[c][e] \in Seq(Message) /\ m \in Message /\ m.op # "SEND"
      BY Messages DEF TypeOK
    <3> HIDE DEF m
    <3> QED
      BY <3>1
  <2> HIDE DEF m
  <2>4. ASSUME NEW d \in Conns, NEW e \in Agents, NEW i \in DOMAIN wire'[d][e]
        PROVE  \/ wire'[d][e][i].op # "SEND"
               \/ \E j \in DOMAIN wire[d][e] : wire[d][e][j] = wire'[d][e][i]
    <3>1. CASE wire'[d][e] = wire[d][e]
      BY <3>1
    <3>2. CASE d = c /\ e = a /\ wire'[d][e] = Tail(wire[c][a])
      BY <3>2, <2>1, <1>8
    <3>3. CASE d = c /\ wire'[d][e] = Append(wire[c][e], m)
      BY <3>3, <2>3
    <3> QED
      BY <2>2, <3>1, <3>2, <3>3
  <2> QED
    BY <1>1, <2>1, <2>4
<1>11. ASSUME NEW a \in Agents, NEW c \in Conns, ReadBroken(a, c)
      PROVE  NoneAsked'
  BY <1>11 DEF ReadBroken, NoneAsked
<1>12. CASE UNCHANGED p2pVars
  BY <1>12 DEF p2pVars, net, NoneAsked
<1> QED
  BY <1>3, <1>4, <1>6, <1>7, <1>9, <1>10, <1>11, <1>12 DEF P2PNext, PeerWork, PeerService

-----------------------------------------------------------------------------
(* Nothing fails unnoticed, and who asked has asked.                       *)
LEMMA Monotone ==
    ASSUME TypeOK, [P2PNext]_p2pVars
    PROVE  /\ faults' = 0 => faults = 0 /\ ~PeerFault
           /\ \A p \in Agents : asked'[p] = "no" => asked[p] = "no"
<1>1. faults \in Nat /\ asked \in [Agents -> {"no", "open", "done"}]
  BY DEF TypeOK
<1>2. faults' = faults \/ PeerFault
  BY DEF P2PNext, PeerWork, PeerService, PeerTask, PeerCall, P2PSendLocal, P2PFetchRemote, P2PInvalidateLocal, NewMetadata,
     Submit, SendToPeer, SendToClosed, ConnectAndSend, ConnectFails, Accept, ReadLoad, ReadSend,
     ReadInvl, Break, ReadBroken, p2pVars
<1>3. asked' = asked \/ (\E a \in Agents : asked' = [asked EXCEPT ![a] = "open"])
      \/ (\E a \in Agents, c \in Conns : asked' = Answered(a, c))
  BY DEF P2PNext, PeerWork, PeerService, PeerTask, PeerCall, P2PSendLocal, P2PFetchRemote, P2PInvalidateLocal, NewMetadata,
     Popped, SendToPeer, SendToClosed, ConnectAndSend, ConnectFails, Accept, ReadLoad, ReadSend,
     ReadInvl, Break, ReadBroken, p2pVars
<1>4. \A p \in Agents : asked'[p] = "no" => asked[p] = "no"
  BY <1>1, <1>3 DEF Answered
<1> QED
  BY <1>1, <1>2, <1>4 DEF PeerFault

(* What a sending agent does to the streams.                               *)
LEMMA SentOn ==
    ASSUME TypeOK, NEW a \in Agents, NEW c \in Conns, tasks[a] # <<>>,
           Sent(c, Peer(a), Head(tasks[a]))
    PROVE  /\ wire'[c][Peer(a)] = Append(wire[c][Peer(a)], Head(tasks[a]))
           /\ \A d \in Conns : d # c => wire'[d][Peer(a)] = wire[d][Peer(a)]
           /\ \A d \in Conns : wire'[d][a] = wire[d][a]
<1>1. tasks[a] \in Seq(Message) /\ wire[c][Peer(a)] \in Seq(Message) /\ Peer(a) \in Agents /\ Peer(a) # a
  BY Peers DEF TypeOK
<1>2. Append(wire[c][Peer(a)], Head(tasks[a])) \in Seq(Message)
  BY <1>1
<1> QED
  BY <1>1, <1>2, OneStream DEF Sent, TypeOK

(* What a reading agent does to the streams.                               *)
LEMMA ReadOn ==
    ASSUME TypeOK, NEW a \in Agents, NEW c \in Conns,
           ReadLoad(a, c) \/ ReadInvl(a, c) \/ ReadSend(a, c)
    PROVE  /\ wire[c][a] \in Seq(Message) /\ wire[c][a] # <<>>
           /\ wire'[c][a] = Tail(wire[c][a])
           /\ \A d \in Conns : d # c => wire'[d][a] = wire[d][a]
           /\ ~ReadSend(a, c) => \A d \in Conns : wire'[d][Peer(a)] = wire[d][Peer(a)]
<1>1. wire[c][a] \in Seq(Message) /\ wire[c][a] # <<>> /\ Peer(a) \in Agents /\ Peer(a) # a
  BY Peers DEF ReadLoad, ReadInvl, ReadSend, Reads, TypeOK
<1>2. CASE ReadLoad(a, c) \/ ReadInvl(a, c)
  <2>1. wire' = [wire EXCEPT ![c][a] = Tail(wire[c][a])]
    BY <1>2 DEF ReadLoad, ReadInvl
  <2>2. Tail(wire[c][a]) \in Seq(Message)
    BY <1>1
  <2> QED
    BY <1>1, <2>1, <2>2, OneStream DEF TypeOK
<1>3. CASE ReadSend(a, c)
  <2>1. wire' = [wire EXCEPT ![c] = [b \in Agents |->
           IF b = a THEN Tail(wire[c][a]) ELSE Append(wire[c][b], [op |-> "LOAD", val |-> md[a]])]]
    BY <1>3 DEF ReadSend
  <2> QED
    BY <1>1, <1>3, <2>1 DEF TypeOK
<1> QED
  BY <1>2, <1>3

(* A SEND that is read was sent by an agent that asked.                    *)
LEMMA SenderAsked ==
    ASSUME TypeOK, NoneAsked, NEW a \in Agents, NEW c \in Conns, ReadSend(a, c)
    PROVE  asked[Peer(a)] # "no"
<1>1. wire[c][a] \in Seq(Message) /\ wire[c][a] # <<>> /\ Head(wire[c][a]).op = "SEND"
  BY DEF ReadSend, Reads, TypeOK
<1>2. 1 \in DOMAIN wire[c][a] /\ wire[c][a][1].op = "SEND"
  BY <1>1
<1> QED
  BY <1>2, Peers DEF NoneAsked

(* While nothing failed there is one route to an agent that never asked.   *)
LEMMA OneRouteStep ==
    ASSUME TypeOK, NoneAsked, OneRoute, [P2PNext]_p2pVars
    PROVE  OneRoute'
<1> SUFFICES ASSUME faults' = 0
             PROVE  /\ dead' = {}
                    /\ \A a \in Agents : asked'[Peer(a)] = "no" =>
                         \A c \in Conns : wire'[c][Peer(a)] # <<>> => c = out'[a]
  BY DEF OneRoute
<1> DEFINE Routed == \A a \in Agents : asked'[Peer(a)] = "no" =>
                       \A c \in Conns : wire'[c][Peer(a)] # <<>> => c = out'[a]
<1>1. faults = 0 /\ ~PeerFault /\ dead = {}
  BY Monotone DEF OneRoute
<1>2. \A a \in Agents : asked'[Peer(a)] = "no" => asked[Peer(a)] = "no"
  BY Monotone, Peers
<1>3. dead' = {}
  BY <1>1 DEF P2PNext, PeerWork, PeerService, PeerTask, PeerCall, P2PSendLocal, P2PFetchRemote, P2PInvalidateLocal, NewMetadata,
     Submit, SendToPeer, SendToClosed, ConnectAndSend, ConnectFails, Accept, ReadLoad, ReadSend,
     ReadInvl, Break, ReadBroken, net, p2pVars
<1>4. ASSUME out' = out, wire' = wire
      PROVE  Routed
  BY <1>1, <1>2, <1>4 DEF OneRoute
<1>5. ASSUME NEW a \in Agents, PeerCall(a)
      PROVE  Routed
  BY <1>4, <1>5 DEF PeerCall, P2PSendLocal, P2PFetchRemote, P2PInvalidateLocal, NewMetadata, Submit, net
<1>6. ASSUME NEW a \in Agents, PeerTask(a)
      PROVE  Routed
  <2>1. CASE SendToPeer(a)
    <3>1. out[a] \in Conns /\ tasks[a] # <<>> /\ out' = out /\ Sent(out[a], Peer(a), Head(tasks[a]))
      BY <2>1 DEF SendToPeer
    <3>2. /\ \A d \in Conns : d # out[a] => wire'[d][Peer(a)] = wire[d][Peer(a)]
          /\ \A d \in Conns : wire'[d][a] = wire[d][a]
      BY <3>1, SentOn
    <3>3. \A b \in Agents : b = a \/ (b = Peer(a) /\ Peer(b) = a)
      BY Peers
    <3> QED
      BY <1>1, <1>2, <3>1, <3>2, <3>3 DEF OneRoute
  <2>2. CASE ConnectAndSend(a)
    <3>1. PICK c \in Conns : out' = [out EXCEPT ![a] = c] /\ Sent(c, Peer(a), Head(tasks[a]))
      BY <2>2 DEF ConnectAndSend
    <3>2. out[a] = None /\ tasks[a] # <<>> /\ None \notin Conns
      BY <2>2, P2PConstants DEF ConnectAndSend, Conns
    <3>3. /\ \A d \in Conns : d # c => wire'[d][Peer(a)] = wire[d][Peer(a)]
          /\ \A d \in Conns : wire'[d][a] = wire[d][a]
      BY <3>1, <3>2, SentOn
    <3>4. \A b \in Agents : b = a \/ (b = Peer(a) /\ Peer(b) = a /\ b # a)
      BY Peers
    <3>5. out'[a] = c /\ out'[Peer(a)] = out[Peer(a)]
      BY <3>1, Peers DEF TypeOK
    <3>6. asked'[Peer(a)] = "no" => \A d \in Conns : wire'[d][Peer(a)] # <<>> => d = out'[a]
      BY <1>1, <1>2, <3>2, <3>3, <3>5 DEF OneRoute
    <3>7. asked'[a] = "no" => \A d \in Conns : wire'[d][a] # <<>> => d = out'[Peer(a)]
      BY <1>1, <1>2, <3>3, <3>5, Peers DEF OneRoute
    <3> QED
      BY <3>4, <3>6, <3>7
  <2>3. CASE SendToClosed(a)
    BY <1>1, <2>3 DEF SendToClosed
  <2>4. CASE ConnectFails(a)
    BY <1>4, <2>4 DEF ConnectFails, net
  <2> QED
    BY <1>6, <2>1, <2>2, <2>3, <2>4 DEF PeerTask
<1>7. ASSUME NEW a \in Agents, NEW c \in Conns, ReadLoad(a, c) \/ ReadInvl(a, c) \/ ReadSend(a, c)
      PROVE  Routed
  <2>1. out' = out
    BY <1>7 DEF ReadLoad, ReadInvl, ReadSend
  <2>2. \A b \in Agents : b = a \/ (b = Peer(a) /\ Peer(b) = a)
    BY Peers
  <2>3. asked'[a] = "no" => \A d \in Conns : wire'[d][a] # <<>> => d = out'[Peer(a)]
    <3>1. wire[c][a] # <<>> /\ \A d \in Conns : d # c => wire'[d][a] = wire[d][a]
      BY <1>7, ReadOn
    <3> QED
      BY <1>1, <1>2, <2>1, <3>1, Peers DEF OneRoute
  <2>4. asked'[Peer(a)] = "no" => \A d \in Conns : wire'[d][Peer(a)] # <<>> => d = out'[a]
    <3>1. CASE ReadSend(a, c)
      BY <1>2, <3>1, SenderAsked
    <3>2. CASE ~ReadSend(a, c)
      BY <1>1, <1>2, <1>7, <2>1, <3>2, ReadOn DEF OneRoute
    <3> QED
      BY <3>1, <3>2
  <2> QED
    BY <2>2, <2>3, <2>4
<1>8. ASSUME NEW a \in Agents, NEW c \in Conns, Accept(a, c) \/ ReadBroken(a, c)
      PROVE  Routed
  BY <1>1, <1>4, <1>8 DEF Accept, ReadBroken
<1>9. ASSUME UNCHANGED p2pVars
      PROVE  Routed
  <2>1. out' = out /\ wire' = wire
    BY <1>9 DEF p2pVars, net
  <2> QED
    BY <1>4, <2>1
<1>10. ASSUME NEW c \in Conns, Break(c)
       PROVE  Routed
  BY <1>1, <1>10 DEF Break
<1> QED
  BY <1>3, <1>5, <1>6, <1>7, <1>8, <1>9, <1>10 DEF P2PNext, PeerWork, PeerService

-----------------------------------------------------------------------------
(* What is pending for an agent that never asked stays in order.           *)
LEMMA OrderStep ==
    ASSUME TypeOK, NoneAsked, OneRoute, OrderInv, [P2PNext]_p2pVars
    PROVE  OrderInv'
<1> SUFFICES ASSUME NEW a \in Agents, Quiet(a)'
             PROVE  Ordered(Pending(a), cache[Peer(a)], wanted[a])'
  BY DEF OrderInv
<1> DEFINE p == Peer(a)
           Goal == Ordered(Pending(a)', cache'[p], wanted'[a])
<1> SUFFICES Goal
  OBVIOUS
<1>1. p \in Agents /\ p # a /\ Peer(p) = a /\ \A b \in Agents : b = a \/ b = p
  BY Peers
<1>2. faults = 0 /\ ~PeerFault /\ dead = {} /\ asked[p] = "no" /\ asked'[p] = "no" /\ p \in Listeners
  BY <1>1, Monotone DEF Quiet, OneRoute
<1>3. Ordered(Pending(a), cache[p], wanted[a])
  BY <1>2 DEF OrderInv, Quiet
<1>4. \A c \in Conns : wire[c][p] # <<>> => c = out[a]
  BY <1>2 DEF OneRoute
<1>5. /\ tasks[a] \in Seq(Message) /\ out[a] \in Conns \cup {None} /\ None \notin Conns
      /\ \A c \in Conns : wire[c][p] \in Seq(Message)
      /\ Route(a) \in Seq(Message) /\ Pending(a) \in Seq(Message)
  BY <1>1, P2PConstants DEF TypeOK, Conns, Route, Pending
<1> HIDE DEF p
<1>6. ASSUME out'[a] = out[a], \A c \in Conns : wire'[c][p] = wire[c][p], tasks'[a] = tasks[a],
             cache'[p] = cache[p], wanted'[a] = wanted[a]
      PROVE  Goal
  <2>1. Pending(a)' = Pending(a)
    BY <1>5, <1>6 DEF Pending, Route, p
  <2> QED
    BY <1>3, <1>6, <2>1
<1>7. ASSUME NEW m \in Message, Submit(a, m),
             wanted'[a] = IF Settles(m) THEN Outcome(m) ELSE wanted[a]
      PROVE  Goal
  <2>1. out' = out /\ wire' = wire /\ cache' = cache /\ tasks'[a] = Append(tasks[a], m)
    BY <1>7 DEF Submit, net, TypeOK
  <2>2. Pending(a)' = Append(Pending(a), m)
    <3>1. Route(a)' = Route(a)
      BY <2>1 DEF Route
    <3>2. Route(a) \o Append(tasks[a], m) = Append(Route(a) \o tasks[a], m)
      BY <1>5, LastOfQueue
    <3> QED
      BY <2>1, <3>1, <3>2 DEF Pending
  <2> QED
    BY <1>3, <1>5, <1>7, <2>1, <2>2, Queued
<1>8. ASSUME PeerCall(a)
      PROVE  Goal
  <2>1. CASE P2PSendLocal(a)
    <3> DEFINE m == [op |-> "LOAD", val |-> md[a]]
    <3>1. m \in Message /\ Settles(m) /\ Outcome(m) = md[a] /\ wanted'[a] = md[a] /\ Submit(a, m)
      BY <2>1, Messages DEF P2PSendLocal, TypeOK, Settles, Outcome
    <3> HIDE DEF m
    <3> QED
      BY <1>7, <3>1
  <2>2. CASE P2PFetchRemote(a)
    BY <1>7, <2>2, Messages DEF P2PFetchRemote, Settles
  <2>3. CASE P2PInvalidateLocal(a)
    <3> DEFINE m == [op |-> "INVL"]
    <3>1. m \in Message /\ Settles(m) /\ Outcome(m) = None /\ wanted'[a] = None /\ Submit(a, m)
      BY <2>3, Messages DEF P2PInvalidateLocal, TypeOK, Settles, Outcome
    <3> HIDE DEF m
    <3> QED
      BY <1>7, <3>1
  <2>4. CASE NewMetadata(a)
    BY <1>6, <2>4 DEF NewMetadata, net
  <2> QED
    BY <1>8, <2>1, <2>2, <2>3, <2>4 DEF PeerCall
<1>9. ASSUME PeerCall(p)
      PROVE  Goal
  <2>1. out' = out /\ wire' = wire /\ cache' = cache
    BY <1>9 DEF PeerCall, P2PSendLocal, P2PFetchRemote, P2PInvalidateLocal, NewMetadata, Submit, net
  <2>2. tasks'[a] = tasks[a]
    BY <1>1, <1>9 DEF PeerCall, P2PSendLocal, P2PFetchRemote, P2PInvalidateLocal, NewMetadata, Submit, TypeOK
  <2>3. wanted'[a] = wanted[a]
    BY <1>1, <1>9 DEF PeerCall, P2PSendLocal, P2PFetchRemote, P2PInvalidateLocal, NewMetadata, TypeOK
  <2> QED
    BY <1>6, <2>1, <2>2, <2>3
<1>10. ASSUME PeerTask(a)
       PROVE  Goal
  <2>1. tasks[a] # <<>> /\ cache' = cache /\ wanted' = wanted /\ tasks'[a] = Tail(tasks[a])
    BY <1>10 DEF PeerTask, SendToPeer, SendToClosed, ConnectAndSend, ConnectFails, Popped, TypeOK
  <2>2. SUFFICES Pending(a)' = Pending(a)
    BY <1>3, <2>1
  <2>3. CASE SendToPeer(a)
    <3>1. out[a] \in Conns /\ out' = out /\ Sent(out[a], p, Head(tasks[a]))
      BY <2>3 DEF SendToPeer, p
    <3>2. wire'[out[a]][p] = Append(wire[out[a]][p], Head(tasks[a]))
      BY <2>1, <3>1, SentOn DEF p
    <3>3. Pending(a)' = Append(wire[out[a]][p], Head(tasks[a])) \o Tail(tasks[a])
          /\ Pending(a) = wire[out[a]][p] \o tasks[a]
      BY <1>5, <2>1, <3>1, <3>2 DEF Pending, Route, p
    <3> QED
      BY <1>5, <2>1, <3>1, <3>3, Moved
  <2>4. CASE ConnectAndSend(a)
    <3>1. PICK c \in Conns : out' = [out EXCEPT ![a] = c] /\ Sent(c, p, Head(tasks[a]))
      BY <2>4 DEF ConnectAndSend, p
    <3>2. out[a] = None /\ wire[c][p] = <<>>
      BY <1>4, <1>5, <2>4 DEF ConnectAndSend
    <3>3. wire'[c][p] = Append(wire[c][p], Head(tasks[a])) /\ out'[a] = c
      BY <2>1, <3>1, SentOn DEF p, TypeOK
    <3>4. Pending(a)' = Append(wire[c][p], Head(tasks[a])) \o Tail(tasks[a])
          /\ Pending(a) = wire[c][p] \o tasks[a]
      BY <1>5, <2>1, <3>2, <3>3 DEF Pending, Route, p
    <3> QED
      BY <1>5, <2>1, <3>4, Moved
  <2>5. CASE SendToClosed(a)
    BY <1>2, <2>5 DEF SendToClosed
  <2>6. CASE ConnectFails(a)
    BY <1>2, <2>6 DEF ConnectFails, p
  <2> QED
    BY <1>10, <2>3, <2>4, <2>5, <2>6 DEF PeerTask
<1>11. ASSUME PeerTask(p)
       PROVE  Goal
  <2>1. tasks[p] # <<>> /\ cache' = cache /\ wanted' = wanted /\ tasks'[a] = tasks[a]
    BY <1>1, <1>11 DEF PeerTask, SendToPeer, SendToClosed, ConnectAndSend, ConnectFails, Popped, TypeOK
  <2>2. out'[a] = out[a]
    BY <1>1, <1>11
    DEF PeerTask, SendToPeer, SendToClosed, ConnectAndSend, ConnectFails, net, TypeOK
  <2>3. wire' = wire \/ \E c \in Conns : Sent(c, Peer(p), Head(tasks[p]))
    BY <1>11 DEF PeerTask, SendToPeer, SendToClosed, ConnectAndSend, ConnectFails, net
  <2>4. \A c \in Conns : wire'[c][p] = wire[c][p]
    BY <1>1, <2>1, <2>3, SentOn
  <2> QED
    BY <1>6, <2>1, <2>2, <2>4
<1>12. ASSUME NEW c \in Conns, ReadLoad(p, c) \/ ReadInvl(p, c) \/ ReadSend(p, c)
       PROVE  Goal
  <2>1. wire[c][p] # <<>> /\ wire'[c][p] = Tail(wire[c][p]) /\ c = out[a]
    BY <1>1, <1>4, <1>12, ReadOn
  <2>2. out' = out /\ tasks' = tasks /\ wanted' = wanted
    BY <1>12 DEF ReadLoad, ReadInvl, ReadSend, Reads
  <2> DEFINE first == Head(wire[c][p])
  <2>3. cache'[p] = IF Settles(first) THEN Outcome(first) ELSE cache[p]
    <3>1. CASE ReadLoad(p, c)
      BY <1>1, <1>2, <3>1 DEF ReadLoad, Reads, Settles, Outcome, TypeOK
    <3>2. CASE ReadInvl(p, c)
      BY <1>1, <3>2 DEF ReadInvl, Reads, Settles, Outcome, TypeOK
    <3>3. CASE ReadSend(p, c)
      BY <3>3 DEF ReadSend, Reads, Settles
    <3> QED
      BY <1>12, <3>1, <3>2, <3>3
  <2>4. Pending(a) = wire[c][p] \o tasks[a] /\ Pending(a)' = Tail(wire[c][p]) \o tasks[a]
    BY <1>5, <2>1, <2>2 DEF Pending, Route, p
  <2>5. Pending(a) # <<>> /\ Head(Pending(a)) = first /\ Pending(a)' = Tail(Pending(a))
    <3> DEFINE w == wire[c][p]
    <3>1. w \in Seq(Message) /\ w # <<>> /\ tasks[a] \in Seq(Message)
      BY <1>5, <2>1
    <3> HIDE DEF w
    <3>2. w \o tasks[a] # <<>> /\ Head(w \o tasks[a]) = Head(w)
          /\ Tail(w \o tasks[a]) = Tail(w) \o tasks[a]
      BY <3>1, FirstOfRoute
    <3> QED
      BY <2>4, <3>2 DEF w
  <2> HIDE DEF first
  <2> QED
    BY <1>3, <1>5, <2>2, <2>3, <2>5, Delivered
<1>13. ASSUME NEW c \in Conns, ReadLoad(a, c) \/ ReadInvl(a, c) \/ ReadSend(a, c)
       PROVE  Goal
  <2>1. ~ReadSend(a, c)
    BY <1>2, SenderAsked DEF p
  <2>2. \A d \in Conns : wire'[d][p] = wire[d][p]
    BY <1>13, <2>1, ReadOn DEF p
  <2>3. out' = out /\ tasks' = tasks /\ wanted' = wanted
    BY <1>13 DEF ReadLoad, ReadInvl, ReadSend, Reads
  <2>4. cache'[p] = cache[p]
    BY <1>1, <1>13, <2>1 DEF ReadLoad, ReadInvl, TypeOK
  <2> QED
    BY <1>6, <2>2, <2>3, <2>4
<1>14. ASSUME NEW b \in Agents, NEW c \in Conns, Accept(b, c) \/ ReadBroken(b, c)
       PROVE  Goal
  BY <1>2, <1>6, <1>14 DEF Accept, ReadBroken
<1>15. ASSUME NEW c \in Conns, Break(c)
       PROVE  Goal
  BY <1>2, <1>15 DEF Break
<1>16. ASSUME UNCHANGED p2pVars
       PROVE  Goal
  <2>1. out' = out /\ wire' = wire /\ tasks' = tasks /\ cache' = cache /\ wanted' = wanted
    BY <1>16 DEF p2pVars, net
  <2> QED
    BY <1>6, <2>1
<1>17. ASSUME NEW b \in Agents, PeerCall(b) \/ PeerTask(b) \/ PeerService(b)
       PROVE  Goal
  <2>1. CASE b = a
    BY <1>8, <1>10, <1>13, <1>14, <1>17, <2>1 DEF PeerService
  <2>2. CASE b = p
    BY <1>9, <1>11, <1>12, <1>14, <1>17, <2>2 DEF PeerService
  <2> QED
    BY <1>1, <2>1, <2>2
<1> HIDE DEF Goal
<1> QED
  BY <1>14, <1>15, <1>16, <1>17 DEF P2PNext, PeerWork

-----------------------------------------------------------------------------
(* Sends and invalidations take effect at the peer in the order of the     *)
(* calls (nixl_p2p_metadata_backend.cpp: sendToPeer, readIncoming): with   *)
(* nothing lost, and no fetch of the peer whose answer comes on another    *)
(* connection, it holds what was last asked for once nothing is under way. *)
THEOREM LastCallTheorem == P2PSpec => []LastCallReaches
<1> DEFINE Inv == NoneAsked /\ OneRoute /\ OrderInv
<1>1. P2PInit => Inv
  <2> SUFFICES ASSUME P2PInit PROVE Inv
    OBVIOUS
  <2>1. \A a \in Agents : Peer(a) \in Agents
    BY Peers
  <2>2. NoneAsked /\ OneRoute
    BY <2>1 DEF P2PInit, NoneAsked, OneRoute
  <2>3. \A a \in Agents : Pending(a) = <<>> /\ cache[Peer(a)] = None /\ wanted[a] = None
    <3>1. \A a \in Agents : Route(a) = <<>> /\ tasks[a] = <<>>
      BY DEF P2PInit, Route
    <3>2. \A a \in Agents : cache[Peer(a)] = None /\ wanted[a] = None
      BY <2>1 DEF P2PInit
    <3>3. <<>> \in Seq(Message) /\ <<>> \o <<>> = <<>>
      OBVIOUS
    <3>4. \A a \in Agents : Pending(a) = <<>>
      BY <3>1, <3>3 DEF Pending
    <3> QED
      BY <3>2, <3>4
  <2>4. OrderInv
    BY <2>3 DEF OrderInv, Ordered
  <2> QED
    BY <2>2, <2>4
<1>2. TypeOK /\ Inv /\ [P2PNext]_p2pVars => Inv'
  BY NoneAskedStep, OneRouteStep, OrderStep
<1>3. TypeOK /\ Inv => LastCallReaches
  <2> SUFFICES ASSUME TypeOK, Inv, NEW a \in Agents, Quiet(a), tasks[a] = <<>>,
                      \A c \in Conns : wire[c][Peer(a)] = <<>>
               PROVE  cache[Peer(a)] = wanted[a]
    BY DEF LastCallReaches, Quiet
  <2>1. Pending(a) = <<>>
    BY DEF Pending, Route, TypeOK
  <2> QED
    BY <2>1 DEF OrderInv, Ordered
<1>4. P2PSpec => []TypeOK
  BY TypeInvariant
<1> HIDE DEF Inv
<1> QED
  BY <1>1, <1>2, <1>3, <1>4, PTL DEF P2PSpec
=============================================================================
