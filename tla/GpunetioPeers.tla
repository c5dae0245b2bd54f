--------------------------- MODULE GpunetioPeers ---------------------------
(***************************************************************************)
(* GPUNETIO between agents: connection setup and notifications.            *)
(***************************************************************************)
EXTENDS Integers, Sequences, FiniteSets, SequencesExt

(***************************************************************************)
(* Connection set-up of the GPUNETIO engine.  loadRemoteConnInfo opens a   *)
(* TCP session to the peer's server thread; both ends create the queue     *)
(* pairs for the other agent if they do not exist, fill its receive ring,  *)
(* exchange the queue pair numbers, program their own queue pairs with the *)
(* other's numbers and acknowledge.  Two agents may load each other at the *)
(* same time, sessions break and are retried, and an agent may restart.    *)
(***************************************************************************)

CONSTANTS GcAgents,
          GcLoads,     \* agent -> how often it loads a peer
          GcFaults,    \* timeouts and failed calls there are
          GcRestarts   \* restarts there are

VARIABLES gcQp,        \* agent -> peer -> its queue pairs for the peer
          gcLoaded,    \* agent -> peer -> entry of remoteConnMap
          gcCli,       \* agent -> state of its loadRemoteConnInfo call
          gcSrv,       \* agent -> state of its server thread
          gcSess,      \* sessions, in the order they were opened
          gcNumber,    \* the next queue pair number
          gcLoads, gcFaults, gcRestarts

gcVars == <<gcQp, gcLoaded, gcCli, gcSrv, gcSess, gcNumber, gcLoads, gcFaults, gcRestarts>>

\* Queue pairs for a peer: number (0 before they exist), receive ring filled,
\* the peer's number they are programmed with, and what is programmed.
NoQp == [num |-> 0, ring |-> FALSE, remote |-> 0, data |-> FALSE, notif |-> FALSE, conn |-> FALSE]
NoThread == [pc |-> "idle", sess |-> 0, peer |-> "", got |-> 0]

GcInit ==
    /\ gcQp = [a \in GcAgents |-> [b \in GcAgents |-> NoQp]]
    /\ gcLoaded = [a \in GcAgents |-> [b \in GcAgents |-> "none"]]
    /\ gcCli = [a \in GcAgents |-> NoThread]
    /\ gcSrv = [a \in GcAgents |-> NoThread]
    /\ gcSess = <<>>
    /\ gcNumber = 1
    /\ gcLoads = GcLoads
    /\ gcFaults = GcFaults
    /\ gcRestarts = GcRestarts

\* A session: who opened it to whom, the messages on their way to the server
\* (up) and to the client (down), and the ends still open.
Session(a, b) == [from |-> a, to |-> b, up |-> <<>>, down |-> <<>>, ends |-> {"up", "down"}]

\* "up" is read by the server and "down" by the client; what a closed end
\* has not read is lost.
PushOob(i, way, msg) ==
    IF way \in gcSess[i].ends THEN [gcSess EXCEPT ![i][way] = Append(@, msg)] ELSE gcSess
Pop(i, way) == [gcSess EXCEPT ![i][way] = Tail(@)]
CloseEnd(i, end) == [gcSess EXCEPT ![i].ends = @ \ {end}, ![i][end] = <<>>]

(***************************************************************************)
(* Steps both threads share; th is the thread's record with agent a        *)
(***************************************************************************)

\* Variant: the thread does not see what the other created.
AddRdmaQpAgain(a, p) ==
    /\ gcQp' = [gcQp EXCEPT ![a][p].num = gcNumber]
    /\ gcNumber' = gcNumber + 1

\* addRdmaQp creates the peer's queue pairs once, under qpLock.
AddRdmaQp(a, p) ==
    IF gcQp[a][p].num # 0 THEN UNCHANGED <<gcQp, gcNumber>>
    ELSE /\ gcQp' = [gcQp EXCEPT ![a][p].num = gcNumber]
         /\ gcNumber' = gcNumber + 1

\* nixlDocaInitNotif registers the buffers and has the GPU fill the ring.
InitNotif(a, p) == gcQp' = [gcQp EXCEPT ![a][p].ring = TRUE]

RouteChanged(qp, got) == (qp.data \/ qp.notif) /\ qp.remote # got

\* Programming under connectLock: what is programmed is skipped, and a fault
\* stops it before the data or before the notification queue pair.
Programmed(qp, got, upto) ==
    LET routed == IF qp.data \/ qp.notif THEN qp ELSE [qp EXCEPT !.remote = got]
    IN  CASE qp.conn -> routed
          [] ~qp.conn /\ upto = "none" -> routed
          [] ~qp.conn /\ upto = "data" -> [routed EXCEPT !.data = TRUE]
          [] OTHER -> [routed EXCEPT !.data = TRUE, !.notif = TRUE, !.conn = TRUE]

(***************************************************************************)
(* loadRemoteConnInfo                                                      *)
(***************************************************************************)

\* A peer that is being loaded or is loaded is refused; disconnect leaves
\* remoteConnMap alone.
LoadConn(a, b) ==
    /\ gcCli[a].pc = "idle"
    /\ gcLoads[a] > 0
    /\ gcLoaded[a][b] = "none"
    /\ gcLoads' = [gcLoads EXCEPT ![a] = @ - 1]
    /\ gcLoaded' = [gcLoaded EXCEPT ![a][b] = "pending"]
    /\ gcSess' = Append(gcSess, Session(a, b))
    /\ gcCli' = [gcCli EXCEPT ![a] = [pc |-> "name", sess |-> Len(gcSess) + 1, peer |-> b, got |-> 0]]
    /\ UNCHANGED <<gcQp, gcSrv, gcNumber, gcFaults, gcRestarts>>

\* The call fails: the socket is closed and the pending entry removed.
ClientFails(a) ==
    /\ gcSess' = CloseEnd(gcCli[a].sess, "down")
    /\ gcLoaded' = [gcLoaded EXCEPT ![a][gcCli[a].peer] = "none"]
    /\ gcCli' = [gcCli EXCEPT ![a] = NoThread]

ClientGoes(a, pc) == gcCli' = [gcCli EXCEPT ![a].pc = pc]

SendName(a) ==
    /\ gcCli[a].pc = "name"
    /\ gcSess' = PushOob(gcCli[a].sess, "up", a)
    /\ ClientGoes(a, "add")
    /\ UNCHANGED <<gcQp, gcLoaded, gcNumber>>

ClientAdds(a) ==
    /\ gcCli[a].pc = "add"
    /\ AddRdmaQp(a, gcCli[a].peer)
    /\ ClientGoes(a, "send")
    /\ UNCHANGED <<gcSess, gcLoaded>>

\* The ring is filled before the numbers are sent.
ClientSends(a) ==
    /\ gcCli[a].pc = "send"
    /\ InitNotif(a, gcCli[a].peer)
    /\ gcSess' = PushOob(gcCli[a].sess, "up", gcQp[a][gcCli[a].peer].num)
    /\ ClientGoes(a, "recv")
    /\ UNCHANGED <<gcLoaded, gcNumber>>

\* recvAll: the next message, or an error once the other end is closed.
ClientReceives(a) ==
    LET i == gcCli[a].sess IN
    /\ gcCli[a].pc \in {"recv", "ack"}
    /\ \/ /\ gcSess[i].down # <<>>
          /\ IF gcCli[a].pc = "recv"
             THEN /\ gcSess' = Pop(i, "down")
                  /\ gcCli' = [gcCli EXCEPT ![a].pc = "program", ![a].got = Head(gcSess[i].down)]
                  /\ UNCHANGED gcLoaded
             ELSE /\ gcSess' = [gcSess EXCEPT ![i].down = <<>>, ![i].ends = @ \ {"down"},
                                    ![i].up = IF "up" \in gcSess[i].ends THEN Append(@, 1) ELSE @]
                  /\ gcLoaded' = [gcLoaded EXCEPT ![a][gcCli[a].peer] = "connected"]
                  /\ gcCli' = [gcCli EXCEPT ![a] = NoThread]
       \/ /\ gcSess[i].down = <<>>
          /\ "up" \notin gcSess[i].ends
          /\ ClientFails(a)
    /\ UNCHANGED <<gcQp, gcNumber>>

ClientPrograms(a, upto) ==
    LET p == gcCli[a].peer IN
    /\ gcCli[a].pc = "program"
    /\ IF RouteChanged(gcQp[a][p], gcCli[a].got) THEN UNCHANGED gcQp
       ELSE gcQp' = [gcQp EXCEPT ![a][p] = Programmed(@, gcCli[a].got, upto)]
    /\ IF gcQp'[a][p].conn /\ ~RouteChanged(gcQp[a][p], gcCli[a].got)
       THEN ClientGoes(a, "ack") /\ UNCHANGED <<gcSess, gcLoaded>>
       ELSE ClientFails(a)
    /\ UNCHANGED gcNumber

(***************************************************************************)
(* The server thread                                                       *)
(***************************************************************************)

ServerGoes(b, pc) == gcSrv' = [gcSrv EXCEPT ![b].pc = pc]

ServerEnds(b) ==
    /\ gcSess' = CloseEnd(gcSrv[b].sess, "up")
    /\ gcSrv' = [gcSrv EXCEPT ![b] = NoThread]

\* accept takes the oldest session whose server end is open.
Accept(b) ==
    LET open == {i \in DOMAIN gcSess : gcSess[i].to = b /\ "up" \in gcSess[i].ends} IN
    /\ gcSrv[b].pc = "idle"
    /\ open # {}
    /\ gcSrv' = [gcSrv EXCEPT ![b] = [NoThread EXCEPT !.pc = "name",
                    !.sess = CHOOSE i \in open : \A j \in open : i <= j]]
    /\ UNCHANGED <<gcQp, gcSess, gcNumber>>

\* A receive of the server: the name, the numbers (answered with its own) or
\* the final acknowledgement.
ServerReceives(b) ==
    LET i == gcSrv[b].sess IN
    /\ gcSrv[b].pc \in {"name", "recv", "ack"}
    /\ \/ /\ gcSess[i].up # <<>>
          /\ CASE gcSrv[b].pc = "name" ->
                    /\ gcSess' = Pop(i, "up")
                    /\ gcSrv' = [gcSrv EXCEPT ![b].pc = "add", ![b].peer = Head(gcSess[i].up)]
               [] gcSrv[b].pc = "recv" ->
                    /\ gcSess' = [gcSess EXCEPT ![i].up = Tail(@),
                                    ![i].down = IF "down" \in gcSess[i].ends
                                                THEN Append(@, gcQp[b][gcSrv[b].peer].num) ELSE @]
                    /\ gcSrv' = [gcSrv EXCEPT ![b].pc = "program", ![b].got = Head(gcSess[i].up)]
               [] OTHER -> ServerEnds(b)
       \/ /\ gcSess[i].up = <<>>
          /\ "down" \notin gcSess[i].ends
          /\ ServerEnds(b)
    /\ UNCHANGED <<gcQp, gcNumber>>

ServerAdds(b) ==
    /\ gcSrv[b].pc = "add"
    /\ AddRdmaQp(b, gcSrv[b].peer)
    /\ ServerGoes(b, "ring")
    /\ UNCHANGED gcSess

ServerFills(b) ==
    /\ gcSrv[b].pc = "ring"
    /\ InitNotif(b, gcSrv[b].peer)
    /\ ServerGoes(b, "recv")
    /\ UNCHANGED <<gcSess, gcNumber>>

\* The server programs its queue pairs and acknowledges.
ServerPrograms(b, upto) ==
    LET p == gcSrv[b].peer IN
    /\ gcSrv[b].pc = "program"
    /\ IF RouteChanged(gcQp[b][p], gcSrv[b].got) THEN UNCHANGED gcQp
       ELSE gcQp' = [gcQp EXCEPT ![b][p] = Programmed(@, gcSrv[b].got, upto)]
    /\ IF gcQp'[b][p].conn /\ ~RouteChanged(gcQp[b][p], gcSrv[b].got)
       THEN /\ gcSess' = PushOob(gcSrv[b].sess, "down", 1)
            /\ ServerGoes(b, "ack")
       ELSE ServerEnds(b)
    /\ UNCHANGED gcNumber

(***************************************************************************)
(* Faults                                                                  *)
(***************************************************************************)

\* A socket call times out, or creating the queue pairs or buffers fails.
ThreadFails(a) ==
    /\ gcFaults > 0
    /\ gcFaults' = gcFaults - 1
    /\ \/ /\ gcCli[a].pc # "idle"
          /\ ClientFails(a)
          /\ UNCHANGED gcSrv
       \/ /\ gcSrv[a].pc # "idle"
          /\ ServerEnds(a)
          /\ UNCHANGED <<gcCli, gcLoaded>>
    /\ UNCHANGED <<gcQp, gcNumber, gcLoads, gcRestarts>>

\* A queue pair cannot be programmed.
ProgrammingFails(a, upto) ==
    /\ gcFaults > 0
    /\ gcFaults' = gcFaults - 1
    /\ \/ ClientPrograms(a, upto) /\ UNCHANGED gcSrv
       \/ ServerPrograms(a, upto) /\ UNCHANGED <<gcCli, gcLoaded>>
    /\ UNCHANGED <<gcLoads, gcRestarts>>

\* The agent's process is replaced: its sessions break, the peers keep theirs.
GcRestart(a) ==
    /\ gcRestarts > 0
    /\ gcRestarts' = gcRestarts - 1
    /\ gcQp' = [gcQp EXCEPT ![a] = [b \in GcAgents |-> NoQp]]
    /\ gcLoaded' = [gcLoaded EXCEPT ![a] = [b \in GcAgents |-> "none"]]
    /\ gcCli' = [gcCli EXCEPT ![a] = NoThread]
    /\ gcSrv' = [gcSrv EXCEPT ![a] = NoThread]
    /\ gcSess' = [i \in DOMAIN gcSess |->
                    LET mine == {e \in {"up", "down"} : a = IF e = "up" THEN gcSess[i].to
                                                            ELSE gcSess[i].from}
                    IN  [e \in DOMAIN gcSess[i] |->
                            IF e \in mine THEN <<>>
                            ELSE IF e = "ends" THEN gcSess[i].ends \ mine
                            ELSE gcSess[i][e]]]
    /\ UNCHANGED <<gcNumber, gcLoads, gcFaults>>

GcClient(a) ==
    /\ SendName(a) \/ ClientAdds(a) \/ ClientSends(a)
          \/ ClientReceives(a) \/ ClientPrograms(a, "all")
    /\ UNCHANGED <<gcSrv, gcLoads, gcFaults, gcRestarts>>

GcServer(b) ==
    /\ Accept(b) \/ ServerReceives(b) \/ ServerAdds(b) \/ ServerFills(b)
          \/ ServerPrograms(b, "all")
    /\ UNCHANGED <<gcCli, gcLoaded, gcLoads, gcFaults, gcRestarts>>

GcNext ==
    \E a \in GcAgents :
        \/ \E b \in GcAgents \ {a} : LoadConn(a, b)
        \/ GcClient(a)
        \/ GcServer(a)
        \/ ThreadFails(a)
        \/ \E upto \in {"none", "data"} : ProgrammingFails(a, upto)
        \/ GcRestart(a)

GcFairness == \A a \in GcAgents : WF_gcVars(GcClient(a)) /\ WF_gcVars(GcServer(a))

GcSpec == GcInit /\ [][GcNext]_gcVars /\ GcFairness

(***************************************************************************)
(* Properties                                                              *)
(***************************************************************************)

\* An agent that finished loading a peer, and whose queue pairs name the
\* peer's present ones, can use them: the peer's are programmed with its own
\* and both receive rings are filled, whichever thread created and programmed
\* them and however many attempts failed before.
GcLoadedIsUsable ==
    \A a, b \in GcAgents :
        gcLoaded[a][b] = "connected" =>
            /\ gcQp[a][b].conn /\ gcQp[a][b].ring
            /\ gcQp[a][b].remote = gcQp[b][a].num =>
                  gcQp[b][a].conn /\ gcQp[b][a].ring /\ gcQp[b][a].remote = gcQp[a][b].num

\* Without a restart every programmed route leads to the peer's queue pairs,
\* so no retry is refused as "Remote QP route changed during retry".
GcRoutesAgree ==
    gcRestarts = GcRestarts =>
        \A a, b \in GcAgents : gcQp[a][b].data => gcQp[a][b].remote = gcQp[b][a].num

GcAtRest == \A a \in GcAgents : gcCli[a].pc = "idle"

-----------------------------------------------------------------------------
(***************************************************************************)
(* Notifications of the GPUNETIO engine.  genNotif takes a send buffer,    *)
(* hands it to the sending kernel through one mailbox and waits; the       *)
(* receiver's kernel polls the completion queue when getNotifs asks for    *)
(* it, reposts the receive and lets the CPU read the buffer.               *)
(***************************************************************************)

CONSTANTS GnCallers,   \* threads that call genNotif
          GnMsgs,      \* how many messages are sent
          GnBuffers,   \* send buffers
          GnRing,      \* receive buffers, DOCA_MAX_NOTIF_INFLIGHT
          GnFaults     \* sends that fail

VARIABLES gnFree,      \* send_free, the last one is taken first
          gnBuf,       \* send buffer -> message in it
          gnCall,      \* caller -> [pc, slot, msg]
          gnBox,       \* mailbox notif_send: the caller whose buffer it names, or 0
          gnFailed,    \* host_state->failed of the sender
          gnSent,      \* messages the network card accepted, in order
          gnRbuf,      \* receive buffer -> message
          gnPosted,    \* receives posted
          gnPolled,    \* completions the receiver's kernel consumed
          gnRead,      \* recv_pi
          gnAsk,       \* mailbox notif_progress: "none", "asked", "one", "zero"
          gnOut,       \* messages getNotifs returned
          gnOverrun,   \* a message landed in a buffer that was not read yet
          gnMsg, gnFaults

gnVars == <<gnFree, gnBuf, gnCall, gnBox, gnFailed, gnSent, gnRbuf, gnPosted, gnPolled, gnRead,
            gnAsk, gnOut, gnOverrun, gnMsg, gnFaults>>
gnSend == <<gnFree, gnBuf, gnCall, gnBox, gnFailed, gnMsg, gnFaults>>
gnRecv == <<gnPosted, gnPolled, gnRead, gnAsk, gnOut>>

GnInit ==
    /\ gnFree = [i \in 1 .. GnBuffers |-> GnBuffers + 1 - i]
    /\ gnBuf = [b \in 1 .. GnBuffers |-> 0]
    /\ gnCall = [c \in GnCallers |-> [pc |-> "idle", slot |-> 0, msg |-> 0]]
    /\ gnBox = 0
    /\ gnFailed = FALSE
    /\ gnSent = <<>>
    /\ gnRbuf = [i \in 0 .. GnRing - 1 |-> 0]
    /\ gnPosted = GnRing
    /\ gnPolled = 0
    /\ gnRead = 0
    /\ gnAsk = "none"
    /\ gnOut = <<>>
    /\ gnOverrun = FALSE
    /\ gnMsg = 0
    /\ gnFaults = GnFaults

\* genNotif: refused on a failed engine or without a buffer; the message is
\* copied into the buffer.
GenNotif(c) ==
    /\ gnCall[c].pc = "idle"
    /\ gnMsg < GnMsgs
    /\ ~gnFailed
    /\ gnFree # <<>>
    /\ LET slot == Last(gnFree) IN
       /\ gnFree' = Front(gnFree)
       /\ gnBuf' = [gnBuf EXCEPT ![slot] = gnMsg + 1]
       /\ gnCall' = [gnCall EXCEPT ![c] = [pc |-> "copied", slot |-> slot, msg |-> gnMsg + 1]]
    /\ gnMsg' = gnMsg + 1
    /\ UNCHANGED <<gnBox, gnFailed, gnFaults, gnSent, gnRbuf, gnOverrun>>
    /\ UNCHANGED gnRecv

\* Under notifSendLock the mailbox is filled in.
GnPostNotif(c) ==
    /\ gnCall[c].pc = "copied"
    /\ \A d \in GnCallers : gnCall[d].pc # "posted"
    /\ gnBox' = c
    /\ gnCall' = [gnCall EXCEPT ![c].pc = "posted"]
    /\ UNCHANGED <<gnFree, gnBuf, gnFailed, gnMsg, gnFaults, gnSent, gnRbuf, gnOverrun>>
    /\ UNCHANGED gnRecv

\* The sending kernel: the card reads the buffer and the message lands in the
\* next posted receive; then the mailbox is cleared.
SendLands ==
    /\ gnBox # 0
    /\ ~gnFailed
    /\ Len(gnSent) < gnPosted
    /\ gnRbuf' = [gnRbuf EXCEPT ![Len(gnSent) % GnRing] = gnBuf[gnCall[gnBox].slot]]
    /\ gnSent' = Append(gnSent, gnCall[gnBox].msg)
    /\ gnOverrun' = (gnOverrun \/ Len(gnSent) - gnRead >= GnRing)
    /\ gnBox' = 0
    /\ UNCHANGED <<gnFree, gnBuf, gnCall, gnFailed, gnMsg, gnFaults>>
    /\ UNCHANGED gnRecv

\* The send fails; the kernel marks the engine failed and clears the mailbox.
SendBreaks ==
    /\ gnBox # 0
    /\ gnFaults > 0
    /\ gnFaults' = gnFaults - 1
    /\ gnFailed' = TRUE
    /\ gnBox' = 0
    /\ UNCHANGED <<gnFree, gnBuf, gnCall, gnMsg, gnSent, gnRbuf, gnOverrun>>
    /\ UNCHANGED gnRecv

\* The call returns when the mailbox is clear and gives the buffer back; if
\* the engine failed meanwhile it may leave early and the buffer stays owned.
SendReturns(c) ==
    /\ gnCall[c].pc = "posted"
    /\ gnBox # c \/ gnFailed
    /\ gnCall' = [gnCall EXCEPT ![c] = [pc |-> "idle", slot |-> 0, msg |-> 0]]
    /\ gnFree' = IF gnBox # c THEN Append(gnFree, gnCall[c].slot) ELSE gnFree
    /\ UNCHANGED <<gnBuf, gnBox, gnFailed, gnMsg, gnFaults, gnSent, gnRbuf, gnOverrun>>
    /\ UNCHANGED gnRecv

(***************************************************************************)
(* The receiver                                                            *)
(***************************************************************************)

\* getNotifs asks the kernel to poll the peer's completion queue.
AskNotifs ==
    /\ gnAsk = "none"
    /\ gnAsk' = "asked"
    /\ UNCHANGED <<gnPosted, gnPolled, gnRead, gnOut, gnOverrun, gnSent, gnRbuf>>
    /\ UNCHANGED gnSend

\* The kernel takes at most one completion and posts its receive again
\* before the CPU has read the buffer.
KernelPolls ==
    /\ gnAsk = "asked"
    /\ IF gnPolled < Len(gnSent)
       THEN /\ gnPolled' = gnPolled + 1
            /\ gnPosted' = gnPosted + 1
            /\ gnAsk' = "one"
       ELSE /\ gnAsk' = "zero"
            /\ UNCHANGED <<gnPolled, gnPosted>>
    /\ UNCHANGED <<gnRead, gnOut, gnOverrun, gnSent, gnRbuf>>
    /\ UNCHANGED gnSend

\* The CPU reads the buffer at recv_pi, clears its tag and moves on.
ReadNotifs ==
    /\ gnAsk \in {"one", "zero"}
    /\ gnAsk' = "none"
    /\ IF gnAsk = "one"
       THEN /\ gnOut' = Append(gnOut, gnRbuf[gnRead % GnRing])
            /\ gnRbuf' = [gnRbuf EXCEPT ![gnRead % GnRing] = 0]
            /\ gnRead' = gnRead + 1
       ELSE UNCHANGED <<gnOut, gnRbuf, gnRead>>
    /\ UNCHANGED <<gnPosted, gnPolled, gnOverrun, gnSent>>
    /\ UNCHANGED gnSend

GnSender == SendLands \/ \E c \in GnCallers : GnPostNotif(c) \/ SendReturns(c)
GnReceiver == AskNotifs \/ KernelPolls \/ ReadNotifs

GnNext == GnSender \/ GnReceiver \/ SendBreaks \/ \E c \in GnCallers : GenNotif(c)

GnFairness == WF_gnVars(GnSender) /\ WF_gnVars(GnReceiver)
                /\ \A c \in GnCallers : WF_gnVars(SendReturns(c)) /\ WF_gnVars(GnPostNotif(c))

GnSpec == GnInit /\ [][GnNext]_gnVars /\ GnFairness

(***************************************************************************)
(* Properties                                                              *)
(***************************************************************************)

\* getNotifs returns the messages the callers of genNotif gave, each once and
\* in the order they were sent, although buffers are reused at both ends, as
\* long as no more than the ring holds are unread.  (The kernel reposts a
\* receive before the CPU reads its buffer, so with a full ring the next
\* message may land in the buffer that is being read.)
GnIntact == ~gnOverrun => IsPrefix(gnOut, gnSent)

GnAtRest == \A c \in GnCallers : gnCall[c].pc = "idle"
=============================================================================
