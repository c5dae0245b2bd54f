----------------------------- MODULE AgentXfer -----------------------------
(***************************************************************************)
(* The part of nixlAgent (src/core/nixl_agent.cpp) that caches the         *)
(* metadata of remote agents and builds, posts, polls and releases         *)
(* transfer requests against it.                                           *)
(*                                                                         *)
(* Two maps make a peer addressable: remoteSections_ (its memory           *)
(* descriptors, with the metadata each engine loaded for them) and         *)
(* remoteBackends_ (its connection info, per engine).  A transfer request  *)
(* or a prepared descriptor list holds a weak reference to the section it  *)
(* was made from.  The weak reference is modelled by a generation number:  *)
(* every nixlRemoteSection object gets the next one, and the reference has *)
(* expired when the map no longer holds that number.                       *)
(*                                                                         *)
(* Every operation runs whole under the agent's lock, so it is one action; *)
(* posting and polling share the lock, and a handle is used by one thread  *)
(* at a time.  Only the engine works in between (EngineEnd).  An operation *)
(* that returns an error and changes nothing is a stuttering step and is   *)
(* not written down.  Which descriptors a list holds is left to Populate;  *)
(* here a section either has the metadata an engine needs or it has not.   *)
(***************************************************************************)
EXTENDS Naturals, FiniteSets

CONSTANTS
    Remotes,        \* names of remote agents
    Engines,        \* backendEngines_: the engines created here
    Infos,          \* lives of a remote agent: conn info and MD differ in each
    Blobs,          \* the metadata blobs peers may send
    Handles,        \* transfer request handles
    Dlists,         \* prepared remote descriptor lists
    NotifEngines,   \* engines whose supportsNotif() is true
    Lenient,        \* engines whose loadRemoteMD needs no connection info
    Cancels,        \* engines whose releaseReqH stops a running transfer
    EarlyErrors,    \* engines whose checkXfer may fail while work is outstanding
    None,           \* no conn info, no metadata, no list, no remote
    MaxGens         \* bound on the nixlRemoteSection objects ever created

(* A blob: the life it was made in, the backend types whose connection     *)
(* info it carries and those whose memory sections it carries.             *)
ASSUME XferAssumption ==
    /\ NotifEngines \subseteq Engines
    /\ Lenient \subseteq Engines
    /\ Cancels \subseteq Engines
    /\ EarlyErrors \subseteq Engines
    /\ \A m \in Blobs : m.info \in Infos
    /\ None \notin Infos
    /\ None \notin Remotes
    /\ MaxGens \in Nat

VARIABLES
    sections,   \* remoteSections_: the generation of each remote's section, 0 if none
    secs,       \* the metadata each engine loaded into that section
    conns,      \* remoteBackends_
    gens,       \* nixlRemoteSection objects created so far
    dlist,      \* nixlDlistH of a remote side: remote, generation and engines
    live,       \* the handles the user holds
    peer, gen, eng, status, notif,      \* nixlXferReqH
    held,       \* backend requests prepared and not released
    runs,       \* transfers the engine is running for each backend request
    outcome     \* how the last finished one ended

cache == <<sections, secs, conns, gens>>
request == <<peer, gen, eng>>
backend == <<held, runs, outcome>>
xferVars == <<cache, dlist, live, request, status, notif, backend>>

Statuses == {"NOT_POSTED", "IN_PROG", "SUCCESS", "ERR", "DISC"}
NoMD == [b \in Engines |-> None]

XferInit ==
    /\ sections = [r \in Remotes |-> 0]
    /\ secs = [r \in Remotes |-> NoMD]
    /\ conns = [r \in Remotes |-> NoMD]
    /\ gens = 0
    /\ dlist = [d \in Dlists |-> None]
    /\ live = {}
    /\ peer = [h \in Handles |-> None]
    /\ gen = [h \in Handles |-> 0]
    /\ eng = [h \in Handles |-> None]
    /\ status = [h \in Handles |-> "NOT_POSTED"]
    /\ notif = [h \in Handles |-> "none"]
    /\ held = {}
    /\ runs = [h \in Handles |-> 0]
    /\ outcome = [h \in Handles |-> "NOT_POSTED"]

-----------------------------------------------------------------------------
(* The remote metadata cache.                                              *)

(* Variant: changed connection info replaces the old.                      *)
AcceptsAny(r, b, i) == TRUE

(* loadConnInfo accepts what it has already, refuses a change, and asks    *)
(* the engine for anything new.                                            *)
Accepts(r, b, i) == conns[r][b] \in {None, i}

(* remoteBackends_[r] once loadConnInfo succeeded for the engines in C.    *)
WithConns(r, C, i) == [b \in Engines |-> IF b \in C THEN i ELSE conns[r][b]]

(* nixlRemoteSection::addDescList: a descriptor known already must come    *)
(* with the same metadata; a new one is handed to the engine, which needs  *)
(* the connection info unless it is lenient.                               *)
Loads(r, b, i, known) ==
    \/ secs[r][b] = i
    \/ secs[r][b] = None /\ (b \in Lenient \/ known[b] # None)

(* loadRemoteMD, all of it successful: what the blob carries is merged     *)
(* into the section of r, which is created if there is none.               *)
LoadRemoteMD(r, m) ==
    LET common == m.conns \cap Engines
        known  == WithConns(r, common, m.info)
    IN  /\ m.conns = {} \/ common # {}
        /\ \A b \in common : Accepts(r, b, m.info)
        /\ \A b \in m.secs \cap Engines : Loads(r, b, m.info, known)
        /\ conns' = [conns EXCEPT ![r] = known]
        /\ secs' = [secs EXCEPT ![r] = [b \in Engines |->
                        IF b \in m.secs THEN m.info ELSE secs[r][b]]]
        /\ \/ /\ sections[r] # 0
              /\ UNCHANGED <<sections, gens>>
           \/ /\ sections[r] = 0
              /\ gens < MaxGens
              /\ gens' = gens + 1
              /\ sections' = [sections EXCEPT ![r] = gens + 1]
        /\ UNCHANGED <<dlist, live, request, status, notif, backend>>

(* loadRemoteMD returning an error of loadConnInfo: the connection info    *)
(* accepted before it stays, the sections are not looked at.               *)
LoadConnFails(r, m) ==
    \E C \in SUBSET (m.conns \cap Engines) :
        /\ \A b \in C : Accepts(r, b, m.info)
        /\ \E b \in (m.conns \cap Engines) \ C : conns[r][b] # m.info
        /\ conns' = [conns EXCEPT ![r] = WithConns(r, C, m.info)]
        /\ UNCHANGED <<sections, secs, gens, dlist, live, request, status, notif, backend>>

(* invalidateRemoteMDLocked: erase the section, which unloads its          *)
(* metadata, then disconnect and erase the connection info.                *)
Evict(r) ==
    /\ sections' = [sections EXCEPT ![r] = 0]
    /\ secs' = [secs EXCEPT ![r] = NoMD]
    /\ conns' = [conns EXCEPT ![r] = NoMD]

(* loadRemoteMD whose connection info was accepted and whose sections are  *)
(* not: metadata changed, or the engine refused it.  Everything cached for *)
(* r goes, what earlier blobs brought included.                            *)
LoadSectionsFails(r, m) ==
    /\ m.conns = {} \/ m.conns \cap Engines # {}
    /\ \A b \in m.conns \cap Engines : Accepts(r, b, m.info)
    /\ \E b \in m.secs \cap Engines : secs[r][b] # m.info
    /\ Evict(r)
    /\ UNCHANGED <<gens, dlist, live, request, status, notif, backend>>

(* invalidateRemoteMD, by the user or by a metadata backend.               *)
InvalidateRemoteMD(r) ==
    /\ sections[r] # 0 \/ conns[r] # NoMD
    /\ Evict(r)
    /\ UNCHANGED <<gens, dlist, live, request, status, notif, backend>>

(* Variant: a list or handle made from an earlier section still passes.    *)
CurrentByName(r, g) == sections[r] # 0

(* !remoteSection.expired()                                                *)
Current(r, g) == sections[r] # 0 /\ sections[r] = g

-----------------------------------------------------------------------------
(* Building requests.                                                      *)

(* prepXferDlist of a remote side keeps the engines that had the metadata. *)
PrepXferDlist(d, r) ==
    /\ dlist[d] = None
    /\ sections[r] # 0
    /\ \E B \in SUBSET {b \in Engines : secs[r][b] # None} :
        /\ B # {}
        /\ dlist' = [dlist EXCEPT ![d] = [remote |-> r, gen |-> sections[r], engines |-> B]]
    /\ UNCHANGED <<cache, live, request, status, notif, backend>>

ReleasedDlistH(d) ==
    /\ dlist[d] # None
    /\ dlist' = [dlist EXCEPT ![d] = None]
    /\ UNCHANGED <<cache, live, request, status, notif, backend>>

(* The common end of makeXferReq and createXferReq: engine b prepared the  *)
(* backend request of a new handle.                                        *)
NewRequest(h, r, g, b, n) ==
    /\ h \notin live \cup held
    /\ n = "msg" => b \in NotifEngines
    /\ live' = live \cup {h}
    /\ held' = held \cup {h}
    /\ peer' = [peer EXCEPT ![h] = r]
    /\ gen' = [gen EXCEPT ![h] = g]
    /\ eng' = [eng EXCEPT ![h] = b]
    /\ status' = [status EXCEPT ![h] = "NOT_POSTED"]
    /\ notif' = [notif EXCEPT ![h] = n]
    /\ outcome' = [outcome EXCEPT ![h] = "NOT_POSTED"]
    /\ UNCHANGED <<cache, dlist, runs>>

CreateXferReq(h, r, n) ==
    \E b \in Engines :
        /\ sections[r] # 0
        /\ secs[r][b] # None
        /\ NewRequest(h, r, sections[r], b, n)

(* makeXferReq works on the snapshot in the list, not on the section.      *)
MakeXferReq(h, d, n) ==
    /\ dlist[d] # None
    /\ Current(dlist[d].remote, dlist[d].gen)
    /\ \E b \in dlist[d].engines : NewRequest(h, dlist[d].remote, dlist[d].gen, b, n)

-----------------------------------------------------------------------------
(* Posting, polling and releasing.                                         *)

(* The status of a handle after `if (status == NIXL_IN_PROG) status =      *)
(* engine->checkXfer(backendHandle)'.                                      *)
Polled(h) ==
    CASE status[h] # "IN_PROG" -> {status[h]}
      [] status[h] = "IN_PROG" /\ runs[h] = 0 -> {outcome[h]}
      [] OTHER -> {"IN_PROG"} \cup (IF eng[h] \in EarlyErrors THEN {"ERR"} ELSE {})

(* Variant: a finished poll is not required before a repost.               *)
MayRepostAlways(h, s) == TRUE

(* postXferReq goes on to the engine unless its own poll found the         *)
(* transfer still in progress or the peer gone.                            *)
MayRepost(h, s) == status[h] = "IN_PROG" => s \notin {"IN_PROG", "DISC"}

(* The notification of this post: carried over, replaced or cleared.       *)
PostNotif(h, arg) == IF arg = "keep" THEN notif[h] ELSE arg

PostRefused(h) ==
    /\ h \in live
    /\ Current(peer[h], gen[h])
    /\ \E s \in Polled(h) :
        /\ ~MayRepost(h, s)
        /\ status' = [status EXCEPT ![h] = s]
    /\ UNCHANGED <<cache, dlist, live, request, notif, backend>>

(* A notification the engine cannot send: refused, but already recorded in *)
(* the handle, as is what the poll found.                                  *)
PostNoNotif(h, arg) ==
    /\ h \in live
    /\ Current(peer[h], gen[h])
    /\ \E s \in Polled(h) :
        /\ MayRepost(h, s)
        /\ status' = [status EXCEPT ![h] = s]
    /\ PostNotif(h, arg) = "msg"
    /\ eng[h] \notin NotifEngines
    /\ notif' = [notif EXCEPT ![h] = "msg"]
    /\ UNCHANGED <<cache, dlist, live, request, backend>>

(* postXferReq up to the engine, which starts the transfer or ends it at   *)
(* once.                                                                   *)
PostXferReq(h, arg) ==
    /\ h \in live
    /\ Current(peer[h], gen[h])
    /\ \E s \in Polled(h) : MayRepost(h, s)
    /\ PostNotif(h, arg) = "msg" => eng[h] \in NotifEngines
    /\ notif' = [notif EXCEPT ![h] = PostNotif(h, arg)]
    /\ \/ /\ status' = [status EXCEPT ![h] = "IN_PROG"]
          /\ runs' = [runs EXCEPT ![h] = @ + 1]
          /\ UNCHANGED outcome
       \/ \E o \in {"SUCCESS", "ERR", "DISC"} :
          /\ status' = [status EXCEPT ![h] = o]
          /\ outcome' = [outcome EXCEPT ![h] = o]
          /\ UNCHANGED runs
    /\ UNCHANGED <<cache, dlist, live, request, held>>

(* getXferStatus polls an unfinished transfer, unless the peer's section   *)
(* is gone: then it reports NIXL_ERR_NOT_FOUND and leaves IN_PROG behind.  *)
GetXferStatus(h) ==
    /\ h \in live
    /\ status[h] = "IN_PROG"
    /\ Current(peer[h], gen[h])
    /\ \E s \in Polled(h) : status' = [status EXCEPT ![h] = s]
    /\ UNCHANGED <<cache, dlist, live, request, notif, backend>>

(* A backend request is released: whatever ran for it is stopped.          *)
FreeBackend(h) ==
    /\ held' = held \ {h}
    /\ runs' = [runs EXCEPT ![h] = 0]
    /\ outcome' = [outcome EXCEPT ![h] = "NOT_POSTED"]

(* delete req_hndl: nothing of the handle is left.                         *)
DeleteHandle(h) ==
    /\ live' = live \ {h}
    /\ peer' = [peer EXCEPT ![h] = None]
    /\ gen' = [gen EXCEPT ![h] = 0]
    /\ eng' = [eng EXCEPT ![h] = None]
    /\ status' = [status EXCEPT ![h] = "NOT_POSTED"]
    /\ notif' = [notif EXCEPT ![h] = "none"]

(* Variant: only a transfer that can be polled can be released.            *)
ReleaseXferReqCurrent(h) ==
    /\ h \in live
    /\ Current(peer[h], gen[h]) \/ status[h] # "IN_PROG"
    /\ runs[h] = 0
    /\ DeleteHandle(h)
    /\ FreeBackend(h)
    /\ UNCHANGED <<cache, dlist>>

(* releaseXferReq.  A transfer still in progress after a poll must be      *)
(* stopped by the engine's releaseReqH, whose refusal keeps the handle (a  *)
(* stuttering step).  Otherwise the handle is deleted, and its destructor  *)
(* calls releaseReqH without looking at the result.                        *)
ReleaseXferReq(h) ==
    /\ h \in live
    /\ \E s \in Polled(h) : s = "IN_PROG" => eng[h] \in Cancels
    /\ DeleteHandle(h)
    /\ IF runs[h] = 0 \/ eng[h] \in Cancels
       THEN FreeBackend(h)
       ELSE UNCHANGED backend
    /\ UNCHANGED <<cache, dlist>>

(* The engine ends a transfer it runs.                                     *)
EngineEnd(h) ==
    /\ h \in held
    /\ runs[h] > 0
    /\ runs' = [runs EXCEPT ![h] = @ - 1]
    /\ \E o \in {"SUCCESS", "ERR", "DISC"} : outcome' = [outcome EXCEPT ![h] = o]
    /\ UNCHANGED <<cache, dlist, live, request, status, notif, held>>

-----------------------------------------------------------------------------
XferNext ==
    \/ \E r \in Remotes, m \in Blobs :
        \/ LoadRemoteMD(r, m)
        \/ LoadConnFails(r, m)
        \/ LoadSectionsFails(r, m)
    \/ \E r \in Remotes : InvalidateRemoteMD(r)
    \/ \E d \in Dlists, r \in Remotes : PrepXferDlist(d, r)
    \/ \E d \in Dlists : ReleasedDlistH(d)
    \/ \E h \in Handles, n \in {"none", "msg"} :
        \/ \E r \in Remotes : CreateXferReq(h, r, n)
        \/ \E d \in Dlists : MakeXferReq(h, d, n)
    \/ \E h \in Handles, arg \in {"keep", "none", "msg"} :
        \/ PostNoNotif(h, arg)
        \/ PostXferReq(h, arg)
    \/ \E h \in Handles :
        \/ PostRefused(h)
        \/ GetXferStatus(h)
        \/ ReleaseXferReq(h)
        \/ EngineEnd(h)

XferSpec == XferInit /\ [][XferNext]_xferVars

(* The scheduling: the engine ends what it runs, and a user that waits for *)
(* a transfer polls it, one that releases an expired handle tries again.   *)
XferFairness ==
    \A h \in Handles :
        /\ WF_xferVars(EngineEnd(h))
        /\ WF_xferVars(GetXferStatus(h))
        /\ WF_xferVars(ReleaseXferReq(h) /\ ~Current(peer[h], gen[h]))

XferFairSpec == XferSpec /\ XferFairness

-----------------------------------------------------------------------------
MaybeInfo == Infos \cup {None}

(* Every variable has its type: maps of the cache hold lives of the peer,  *)
(* generations are those handed out, a live handle has an engine.          *)
XferTypeOK ==
    /\ sections \in [Remotes -> 0..gens]
    /\ secs \in [Remotes -> [Engines -> MaybeInfo]]
    /\ conns \in [Remotes -> [Engines -> MaybeInfo]]
    /\ gens \in 0..MaxGens
    /\ dlist \in [Dlists -> {None} \cup [remote: Remotes, gen: 1..gens, engines: SUBSET Engines]]
    /\ live \in SUBSET Handles
    /\ peer \in [Handles -> Remotes \cup {None}]
    /\ gen \in [Handles -> 0..gens]
    /\ eng \in [Handles -> Engines \cup {None}]
    /\ status \in [Handles -> Statuses]
    /\ notif \in [Handles -> {"none", "msg"}]
    /\ held \in SUBSET Handles
    /\ runs \in [Handles -> Nat]
    /\ outcome \in [Handles -> Statuses \ {"IN_PROG"}]
    /\ \A h \in live : peer[h] \in Remotes /\ eng[h] \in Engines

Starts(h) == runs'[h] > runs[h]

(* postXferReq never hands the engine target descriptors whose metadata is *)
(* gone: whatever was invalidated, reloaded or re-registered since the     *)
(* request was built, a transfer starts only on the section it was built   *)
(* from, and that section still has the engine's metadata loaded.          *)
PostsLoadedMetadata ==
    [][\A h \in Handles : Starts(h) =>
            /\ sections[peer[h]] = gen[h]
            /\ secs[peer[h]][eng[h]] # None]_xferVars

(* docs/nixl.md: per transfer handle there is only one active transfer.    *)
(* Whatever is posted, polled, invalidated and released in between, the    *)
(* engine never runs two transfers for one backend request.                *)
OneActiveTransfer == \A h \in Handles : runs[h] <= 1

(* releaseXferReq cancels an active transfer or fails: once the user's     *)
(* handle is gone, the engine runs nothing for it and its backend request  *)
(* was released.                                                           *)
ReleasedMeansStopped == \A h \in Handles : h \notin live => h \notin held /\ runs[h] = 0

(* getXferStatus says SUCCESS only of a transfer that the engine ended     *)
(* with success, and of the last one posted.                               *)
SuccessIsReal ==
    \A h \in live : status[h] = "SUCCESS" => runs[h] = 0 /\ outcome[h] = "SUCCESS"

(* What the user is told of a transfer is what the engine does: one runs   *)
(* at a time (OneActiveTransfer), none after the release                   *)
(* (ReleasedMeansStopped), and success is success (SuccessIsReal).         *)
TransfersHonest == OneActiveTransfer /\ ReleasedMeansStopped /\ SuccessIsReal

(* What loadRemoteMD leaves behind, in success or failure, never mixes two *)
(* lives of a peer: an engine's metadata comes from the life whose         *)
(* connection info the engine holds.  For blobs that carry connection info *)
(* with their sections.                                                    *)
SameLife ==
    \A r \in Remotes, b \in Engines : secs[r][b] # None => secs[r][b] = conns[r][b]

(* A transfer that is polled leaves NIXL_IN_PROG, unless the peer is       *)
(* invalidated meanwhile, the handle released, or the user posts it again  *)
(* and again (each post polls the one before).                             *)
PolledTransferEnds ==
    \A h \in Handles :
        <>[][~Starts(h)]_xferVars =>
            ((h \in live /\ status[h] = "IN_PROG")
                ~> (h \notin live \/ status[h] # "IN_PROG" \/ ~Current(peer[h], gen[h])))

(* A handle whose peer was invalidated, which can be neither posted nor    *)
(* polled any more, can still be given back: releasing it again and again  *)
(* succeeds, also with an engine that cannot stop a running transfer.      *)
ExpiredHandleReleased ==
    \A h \in Handles :
        (h \in live /\ ~Current(peer[h], gen[h])) ~> h \notin live

(* Both: no handle is stuck, whether its peer stays or goes.               *)
HandlesEnd == PolledTransferEnds /\ ExpiredHandleReleased

=============================================================================
