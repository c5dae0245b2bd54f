-------------------------- MODULE AgentXferProofs --------------------------
(***************************************************************************)
(* Theorems about AgentXfer: what its runs check for one peer and two      *)
(* handles holds for any number of them, of engines, of blobs and of       *)
(* reloads.                                                                *)
(***************************************************************************)
EXTENDS AgentXfer, TLAPS

USE XferAssumption

-----------------------------------------------------------------------------
(* The cache, the prepared lists and the handles keep their types under    *)
(* every operation of the agent.                                           *)
LEMMA TypeStep == XferTypeOK /\ [XferNext]_xferVars => XferTypeOK'
<1> SUFFICES ASSUME XferTypeOK, [XferNext]_xferVars PROVE XferTypeOK'
  OBVIOUS
<1> USE DEF XferTypeOK, MaybeInfo, Statuses, cache, request, backend, NoMD
<1>1. ASSUME NEW r \in Remotes, NEW m \in Blobs, LoadRemoteMD(r, m) PROVE XferTypeOK'
  <2> USE <1>1 DEF LoadRemoteMD
  <2>1. conns' \in [Remotes -> [Engines -> MaybeInfo]]
    BY DEF WithConns
  <2>2. secs' \in [Remotes -> [Engines -> MaybeInfo]]
    OBVIOUS
  <2>3. gens' \in 0..MaxGens /\ gens' >= gens
    OBVIOUS
  <2>4. sections' \in [Remotes -> 0..gens']
    <3>1. CASE sections[r] # 0
      BY <3>1
    <3>2. CASE sections[r] = 0
      <4>1. gens' = gens + 1 /\ sections' = [sections EXCEPT ![r] = gens + 1]
        BY <3>2
      <4>2. gens + 1 \in 0..(gens + 1) /\ 0..gens \subseteq 0..(gens + 1)
        OBVIOUS
      <4> HIDE <1>1
      <4> QED
        BY <4>1, <4>2
    <3> QED
      BY <3>1, <3>2
  <2>5. gen' \in [Handles -> 0..gens']
    BY <2>3
  <2>6. 1..gens \subseteq 1..gens'
    BY <2>3
  <2>7. dlist' \in [Dlists -> {None} \cup [remote: Remotes, gen: 1..gens', engines: SUBSET Engines]]
    BY <2>6
  <2> QED
    BY <2>1, <2>2, <2>3, <2>4, <2>5, <2>7
<1>2. ASSUME NEW r \in Remotes, NEW m \in Blobs, LoadConnFails(r, m) PROVE XferTypeOK'
  <2>1. conns' \in [Remotes -> [Engines -> MaybeInfo]]
    BY <1>2 DEF LoadConnFails, WithConns
  <2> QED
    BY <1>2, <2>1 DEF LoadConnFails
<1>3. ASSUME NEW r \in Remotes, NEW m \in Blobs, LoadSectionsFails(r, m) PROVE XferTypeOK'
  BY <1>3 DEF LoadSectionsFails, Evict
<1>4. ASSUME NEW r \in Remotes, InvalidateRemoteMD(r) PROVE XferTypeOK'
  BY <1>4 DEF InvalidateRemoteMD, Evict
<1>5. ASSUME NEW d \in Dlists, NEW r \in Remotes, PrepXferDlist(d, r) PROVE XferTypeOK'
  BY <1>5 DEF PrepXferDlist
<1>6. ASSUME NEW d \in Dlists, ReleasedDlistH(d) PROVE XferTypeOK'
  BY <1>6 DEF ReleasedDlistH
<1>7. ASSUME NEW h \in Handles, NEW r \in Remotes, NEW g \in 0..gens, NEW b \in Engines,
             NEW n \in {"none", "msg"}, NewRequest(h, r, g, b, n)
      PROVE  XferTypeOK'
  BY <1>7 DEF NewRequest
<1>8. ASSUME NEW h \in Handles, NEW r \in Remotes, NEW n \in {"none", "msg"}, CreateXferReq(h, r, n)
      PROVE  XferTypeOK'
  BY <1>7, <1>8 DEF CreateXferReq
<1>9. ASSUME NEW h \in Handles, NEW d \in Dlists, NEW n \in {"none", "msg"}, MakeXferReq(h, d, n)
      PROVE  XferTypeOK'
  <2>1. dlist[d] \in [remote: Remotes, gen: 1..gens, engines: SUBSET Engines]
    BY <1>9 DEF MakeXferReq
  <2>2. PICK b \in dlist[d].engines : NewRequest(h, dlist[d].remote, dlist[d].gen, b, n)
    BY <1>9 DEF MakeXferReq
  <2> QED
    BY <1>7, <2>1, <2>2
<1>10. ASSUME NEW h \in Handles, NEW s \in Polled(h) PROVE s \in Statuses
  BY <1>10 DEF Polled
<1>11. ASSUME NEW h \in Handles, NEW arg \in {"keep", "none", "msg"}, PostNoNotif(h, arg)
       PROVE  XferTypeOK'
  BY <1>10, <1>11 DEF PostNoNotif
<1>12. ASSUME NEW h \in Handles, NEW arg \in {"keep", "none", "msg"}, PostXferReq(h, arg)
       PROVE  XferTypeOK'
  <2>1. PostNotif(h, arg) \in {"none", "msg"}
    BY DEF PostNotif
  <2>2. notif' \in [Handles -> {"none", "msg"}]
    BY <1>12, <2>1 DEF PostXferReq
  <2>3. status' \in [Handles -> Statuses] /\ outcome' \in [Handles -> Statuses \ {"IN_PROG"}]
    <3>1. \E x \in Statuses : status' = [status EXCEPT ![h] = x]
      BY <1>12 DEF PostXferReq
    <3>2. \/ outcome' = outcome
          \/ \E o \in Statuses \ {"IN_PROG"} : outcome' = [outcome EXCEPT ![h] = o]
      BY <1>12 DEF PostXferReq
    <3>3. status' \in [Handles -> Statuses]
      BY <3>1
    <3>4. outcome' \in [Handles -> Statuses \ {"IN_PROG"}]
      BY <3>2
    <3> QED
      BY <3>3, <3>4
  <2>4. runs' \in [Handles -> Nat]
    BY <1>12 DEF PostXferReq
  <2> QED
    BY <1>12, <2>2, <2>3, <2>4 DEF PostXferReq
<1>13. ASSUME NEW h \in Handles, PostRefused(h) PROVE XferTypeOK'
  BY <1>10, <1>13 DEF PostRefused
<1>14. ASSUME NEW h \in Handles, GetXferStatus(h) PROVE XferTypeOK'
  BY <1>10, <1>14 DEF GetXferStatus
<1>15. ASSUME NEW h \in Handles, ReleaseXferReq(h) PROVE XferTypeOK'
  <2>1. /\ held' \in SUBSET Handles
        /\ runs' \in [Handles -> Nat]
        /\ outcome' \in [Handles -> Statuses \ {"IN_PROG"}]
    <3>1. CASE runs[h] = 0 \/ eng[h] \in Cancels
      <4>1. FreeBackend(h)
        BY <1>15, <3>1 DEF ReleaseXferReq
      <4> QED
        BY <4>1 DEF FreeBackend
    <3>2. CASE ~(runs[h] = 0 \/ eng[h] \in Cancels)
      BY <1>15, <3>2 DEF ReleaseXferReq
    <3> QED
      BY <3>1, <3>2
  <2>2. /\ live' \in SUBSET Handles
        /\ status' \in [Handles -> Statuses]
        /\ notif' \in [Handles -> {"none", "msg"}]
    BY <1>15 DEF ReleaseXferReq, DeleteHandle
  <2>3. /\ peer' \in [Handles -> Remotes \cup {None}]
        /\ gen' \in [Handles -> 0..gens]
        /\ eng' \in [Handles -> Engines \cup {None}]
    BY <1>15 DEF ReleaseXferReq, DeleteHandle
  <2>4. \A k \in live' : peer'[k] \in Remotes /\ eng'[k] \in Engines
    BY <1>15 DEF ReleaseXferReq, DeleteHandle
  <2> QED
    BY <1>15, <2>1, <2>2, <2>3, <2>4 DEF ReleaseXferReq
<1>16. ASSUME NEW h \in Handles, EngineEnd(h) PROVE XferTypeOK'
  BY <1>16 DEF EngineEnd
<1>17. CASE UNCHANGED xferVars
  BY <1>17 DEF xferVars
<1> HIDE DEF XferTypeOK, MaybeInfo, Statuses, xferVars
<1> QED
  BY <1>1, <1>2, <1>3, <1>4, <1>5, <1>6, <1>8, <1>9, <1>11, <1>12, <1>13, <1>14, <1>15, <1>16, <1>17
     DEF XferNext

(* Every variable of the agent keeps its type.                             *)
THEOREM TypeCorrect == XferSpec => []XferTypeOK
<1>1. XferInit => XferTypeOK
  BY DEF XferInit, XferTypeOK, NoMD, MaybeInfo, Statuses
<1> QED
  BY <1>1, TypeStep, PTL DEF XferSpec

-----------------------------------------------------------------------------
(* Why a post is safe.  Sections only gain metadata until they are erased, *)
(* and a new section has a number no handle or list has seen, so an engine *)
(* that had the metadata when the request was built has it for as long as  *)
(* the weak reference is alive.                                            *)
Loaded(r, g, b) == sections[r] = g => secs[r][b] # None

LoadedInv ==
    /\ \A r \in Remotes : sections[r] = 0 => secs[r] = NoMD
    /\ \A h \in live : gen[h] # 0 /\ Loaded(peer[h], gen[h], eng[h])
    /\ \A d \in Dlists : dlist[d] # None =>
        /\ dlist[d].gen # 0
        /\ \A b \in dlist[d].engines : Loaded(dlist[d].remote, dlist[d].gen, b)

(* Eviction puts the section of a remote out of reach of every reference.  *)
LEMMA EvictKeepsLoaded ==
    ASSUME XferTypeOK, LoadedInv, NEW r \in Remotes, Evict(r), UNCHANGED <<dlist, live, request>>
    PROVE  LoadedInv'
<1> USE DEF XferTypeOK, LoadedInv, Loaded, Evict, request, NoMD
<1>1. \A q \in Remotes : sections'[q] = 0 => secs'[q] = NoMD
  OBVIOUS
<1>2. \A h \in live' : gen'[h] # 0 /\ Loaded(peer[h], gen[h], eng[h])'
  OBVIOUS
<1>3. \A d \in Dlists : dlist'[d] # None =>
        /\ dlist'[d].gen # 0
        /\ \A b \in dlist'[d].engines : (Loaded(dlist[d].remote, dlist[d].gen, b))'
  <2> SUFFICES ASSUME NEW d \in Dlists, dlist[d] # None
               PROVE  /\ dlist[d].gen # 0
                      /\ \A b \in dlist[d].engines :
                            (Loaded(dlist[d].remote, dlist[d].gen, b))'
    OBVIOUS
  <2>1. dlist[d] \in [remote: Remotes, gen: 1..gens, engines: SUBSET Engines]
    OBVIOUS
  <2> QED
    BY <2>1
<1> QED
  BY <1>1, <1>2, <1>3

(* A new request refers to the section it was built from and to an engine  *)
(* whose metadata is in it.                                                *)
LEMMA NewRequestLoaded ==
    ASSUME XferTypeOK, LoadedInv,
           NEW h \in Handles, NEW r \in Remotes, NEW g \in 1..gens, NEW b \in Engines, NEW n,
           Loaded(r, g, b), NewRequest(h, r, g, b, n)
    PROVE  LoadedInv'
BY DEF XferTypeOK, LoadedInv, Loaded, NewRequest, cache, NoMD

LEMMA LoadedStep == XferTypeOK /\ LoadedInv /\ [XferNext]_xferVars => LoadedInv'
<1> SUFFICES ASSUME XferTypeOK, LoadedInv, [XferNext]_xferVars PROVE LoadedInv'
  OBVIOUS
<1> USE DEF cache, request, backend
<1>1. ASSUME NEW r \in Remotes, NEW m \in Blobs, LoadRemoteMD(r, m) PROVE LoadedInv'
  <2> USE <1>1 DEF XferTypeOK
  <2>1. secs' = [secs EXCEPT ![r] = [b \in Engines |->
                        IF b \in m.secs THEN m.info ELSE secs[r][b]]]
    BY DEF LoadRemoteMD
  <2>2. m.info # None
    OBVIOUS
  <2>3. \A q \in Remotes, b \in Engines : secs[q][b] # None => secs'[q][b] # None
    BY <2>1, <2>2
  <2>4. UNCHANGED <<dlist, live, peer, gen, eng>>
    BY DEF LoadRemoteMD
  <2>5. \A q \in Remotes : \/ sections'[q] = sections[q]
                           \/ sections'[q] = gens + 1
    BY DEF LoadRemoteMD
  <2>6. \A q \in Remotes : sections'[q] = 0 => secs'[q] = NoMD
    <3>1. sections'[r] # 0
      BY DEF LoadRemoteMD
    <3>2. \A q \in Remotes \ {r} : sections'[q] = sections[q] /\ secs'[q] = secs[q]
      BY DEF LoadRemoteMD
    <3> QED
      BY <3>1, <3>2 DEF LoadedInv
  <2> HIDE <1>1
  <2>7. ASSUME NEW q \in Remotes, NEW g \in 1..gens, NEW b \in Engines, Loaded(q, g, b)
        PROVE  Loaded(q, g, b)'
    BY <2>3, <2>5, <2>7 DEF Loaded
  <2>8. \A h \in live' : gen'[h] # 0 /\ Loaded(peer[h], gen[h], eng[h])'
    <3> SUFFICES ASSUME NEW h \in live
                 PROVE  gen[h] # 0 /\ Loaded(peer[h], gen[h], eng[h])'
      BY <2>4
    <3>1. /\ gen[h] \in 1..gens
          /\ peer[h] \in Remotes
          /\ eng[h] \in Engines
          /\ Loaded(peer[h], gen[h], eng[h])
      BY DEF LoadedInv
    <3> QED
      BY <2>3, <2>4, <2>5, <3>1 DEF Loaded
  <2>9. \A d \in Dlists : dlist'[d] # None =>
        /\ dlist'[d].gen # 0
        /\ \A b \in dlist'[d].engines : Loaded(dlist[d].remote, dlist[d].gen, b)'
    <3> SUFFICES ASSUME NEW d \in Dlists, dlist[d] # None
                 PROVE  /\ dlist[d].gen # 0
                        /\ \A b \in dlist[d].engines : Loaded(dlist[d].remote, dlist[d].gen, b)'
      BY <2>4
    <3>1. dlist[d] \in [remote: Remotes, gen: 1..gens, engines: SUBSET Engines]
      OBVIOUS
    <3>2. \A b \in dlist[d].engines : Loaded(dlist[d].remote, dlist[d].gen, b)
      BY DEF LoadedInv
    <3> QED
      BY <2>3, <2>4, <2>5, <3>1, <3>2 DEF Loaded
  <2> QED
    BY <2>6, <2>8, <2>9 DEF LoadedInv
<1>2. ASSUME NEW r \in Remotes, NEW m \in Blobs, LoadConnFails(r, m) PROVE LoadedInv'
  BY <1>2 DEF LoadConnFails, LoadedInv, Loaded, NoMD
<1>3. ASSUME NEW r \in Remotes, NEW m \in Blobs, LoadSectionsFails(r, m) PROVE LoadedInv'
  BY <1>3, EvictKeepsLoaded DEF LoadSectionsFails
<1>4. ASSUME NEW r \in Remotes, InvalidateRemoteMD(r) PROVE LoadedInv'
  BY <1>4, EvictKeepsLoaded DEF InvalidateRemoteMD
<1>5. ASSUME NEW d \in Dlists, NEW r \in Remotes, PrepXferDlist(d, r) PROVE LoadedInv'
  <2>1. PICK B \in SUBSET {b \in Engines : secs[r][b] # None} :
            dlist' = [dlist EXCEPT ![d] = [remote |-> r, gen |-> sections[r], engines |-> B]]
    BY <1>5 DEF PrepXferDlist
  <2>2. sections[r] # 0
    BY <1>5 DEF PrepXferDlist
  <2>3. UNCHANGED <<sections, secs, live, peer, gen, eng>>
    BY <1>5 DEF PrepXferDlist
  <2>4. ASSUME NEW k \in Dlists, dlist'[k] # None
        PROVE  /\ dlist'[k].gen # 0
               /\ \A b \in dlist'[k].engines : Loaded(dlist[k].remote, dlist[k].gen, b)'
    BY <2>1, <2>2, <2>3, <2>4 DEF LoadedInv, Loaded, XferTypeOK
  <2> QED
    BY <2>3, <2>4 DEF LoadedInv, Loaded, NoMD
<1>6. ASSUME NEW d \in Dlists, ReleasedDlistH(d) PROVE LoadedInv'
  BY <1>6 DEF ReleasedDlistH, LoadedInv, Loaded, NoMD, XferTypeOK
<1>7. ASSUME NEW h \in Handles, NEW r \in Remotes, NEW n, CreateXferReq(h, r, n) PROVE LoadedInv'
  <2>1. PICK b \in Engines : secs[r][b] # None /\ NewRequest(h, r, sections[r], b, n)
    BY <1>7 DEF CreateXferReq
  <2>2. sections[r] \in 1..gens /\ Loaded(r, sections[r], b)
    BY <1>7, <2>1 DEF CreateXferReq, XferTypeOK, Loaded
  <2> QED
    BY <2>1, <2>2, NewRequestLoaded
<1>8. ASSUME NEW h \in Handles, NEW d \in Dlists, NEW n, MakeXferReq(h, d, n) PROVE LoadedInv'
  <2>1. dlist[d] \in [remote: Remotes, gen: 1..gens, engines: SUBSET Engines]
    BY <1>8 DEF MakeXferReq, XferTypeOK
  <2>2. PICK b \in dlist[d].engines : NewRequest(h, dlist[d].remote, dlist[d].gen, b, n)
    BY <1>8 DEF MakeXferReq
  <2>3. Loaded(dlist[d].remote, dlist[d].gen, b)
    BY <1>8, <2>2 DEF MakeXferReq, LoadedInv
  <2> QED
    BY <2>1, <2>2, <2>3, NewRequestLoaded
<1>9. ASSUME UNCHANGED <<cache, dlist, live, request>> PROVE LoadedInv'
  BY <1>9 DEF LoadedInv, Loaded, NoMD
<1>10. ASSUME NEW h \in Handles, NEW arg, PostNoNotif(h, arg) \/ PostXferReq(h, arg)
       PROVE  LoadedInv'
  BY <1>9, <1>10 DEF PostNoNotif, PostXferReq
<1>11. ASSUME NEW h \in Handles, PostRefused(h) \/ GetXferStatus(h) \/ EngineEnd(h)
       PROVE  LoadedInv'
  BY <1>9, <1>11 DEF PostRefused, GetXferStatus, EngineEnd
<1>12. ASSUME NEW h \in Handles, ReleaseXferReq(h) PROVE LoadedInv'
  BY <1>12 DEF ReleaseXferReq, DeleteHandle, LoadedInv, Loaded, NoMD, XferTypeOK
<1>13. CASE UNCHANGED xferVars
  BY <1>9, <1>13 DEF xferVars
<1> QED
  BY <1>1, <1>2, <1>3, <1>4, <1>5, <1>6, <1>7, <1>8, <1>10, <1>11, <1>12, <1>13 DEF XferNext

(* postXferReq never starts a transfer on metadata that was unloaded,      *)
(* whatever was invalidated, reloaded or prepared before.                  *)
THEOREM PostsLoadedTheorem == XferSpec => PostsLoadedMetadata
<1>1. XferInit => LoadedInv
  BY DEF XferInit, LoadedInv, NoMD
<1>2. XferSpec => [](XferTypeOK /\ LoadedInv)
  BY <1>1, TypeCorrect, TypeStep, LoadedStep, PTL DEF XferSpec
<1>3. XferTypeOK /\ LoadedInv /\ [XferNext]_xferVars
        => [\A h \in Handles : Starts(h) =>
                /\ sections[peer[h]] = gen[h]
                /\ secs[peer[h]][eng[h]] # None]_xferVars
  <2> SUFFICES ASSUME XferTypeOK, LoadedInv, XferNext, NEW h \in Handles, Starts(h)
               PROVE  sections[peer[h]] = gen[h] /\ secs[peer[h]][eng[h]] # None
    BY DEF PostsLoadedMetadata
  <2>1. PICK k \in Handles, arg \in {"keep", "none", "msg"} : PostXferReq(k, arg)
    <3>1. ASSUME UNCHANGED runs PROVE FALSE
      BY <3>1 DEF Starts, XferTypeOK
    <3>2. ASSUME NEW k \in Handles, ReleaseXferReq(k) PROVE FALSE
      BY <3>2 DEF ReleaseXferReq, FreeBackend, backend, Starts, XferTypeOK
    <3>3. ASSUME NEW k \in Handles, EngineEnd(k) PROVE FALSE
      BY <3>3 DEF EngineEnd, Starts, XferTypeOK
    <3> QED
      BY <3>1, <3>2, <3>3 DEF XferNext, LoadRemoteMD, LoadConnFails, LoadSectionsFails,
         InvalidateRemoteMD, PrepXferDlist, ReleasedDlistH, CreateXferReq, MakeXferReq,
         NewRequest, PostNoNotif, PostRefused, GetXferStatus, backend
  <2>2. k = h
    BY <2>1 DEF PostXferReq, Starts, XferTypeOK
  <2> QED
    BY <2>1, <2>2 DEF PostXferReq, Current, LoadedInv, Loaded
<1> QED
  BY <1>2, <1>3, PTL DEF XferSpec, PostsLoadedMetadata

-----------------------------------------------------------------------------
(* Why a release is final.  With engines that report a transfer's end only *)
(* once it has ended, the handle's status is NIXL_IN_PROG for as long as   *)
(* anything runs, so both the repost and the release see it.               *)
RunInv ==
    \A h \in Handles :
        /\ h \in live <=> h \in held
        /\ runs[h] \in {0, 1}
        /\ runs[h] # 0 => h \in live /\ status[h] = "IN_PROG"
        /\ status[h] = "SUCCESS" => outcome[h] = "SUCCESS"

LEMMA RunStep ==
    ASSUME EarlyErrors = {}, XferTypeOK, RunInv, [XferNext]_xferVars
    PROVE  RunInv'
<1> USE DEF XferTypeOK, RunInv, cache, request, backend
<1>1. ASSUME UNCHANGED <<live, status, held, runs, outcome>> PROVE RunInv'
  BY <1>1
<1>2. ASSUME NEW r \in Remotes, NEW m \in Blobs,
             LoadRemoteMD(r, m) \/ LoadConnFails(r, m) \/ LoadSectionsFails(r, m)
      PROVE  RunInv'
  BY <1>1, <1>2 DEF LoadRemoteMD, LoadConnFails, LoadSectionsFails
<1>3. ASSUME NEW d \in Dlists, NEW r \in Remotes, PrepXferDlist(d, r) PROVE RunInv'
  BY <1>1, <1>3 DEF PrepXferDlist
<1>4. ASSUME NEW h \in Handles, NEW r, NEW g, NEW b, NEW n, NewRequest(h, r, g, b, n)
      PROVE  RunInv'
  BY <1>4 DEF NewRequest
<1>5. ASSUME NEW h \in Handles, NEW r \in Remotes, NEW n, CreateXferReq(h, r, n) PROVE RunInv'
  BY <1>4, <1>5 DEF CreateXferReq
<1>6. ASSUME NEW h \in Handles, NEW d \in Dlists, NEW n, MakeXferReq(h, d, n) PROVE RunInv'
  BY <1>4, <1>6 DEF MakeXferReq
<1>7. ASSUME NEW h \in live, NEW s \in Polled(h)
      PROVE  /\ s = "IN_PROG" => status[h] = "IN_PROG"
             /\ s # "IN_PROG" => runs[h] = 0
             /\ s = "SUCCESS" => outcome[h] = "SUCCESS"
  <2>1. CASE status[h] # "IN_PROG"
    BY <1>7, <2>1 DEF Polled
  <2>2. CASE status[h] = "IN_PROG" /\ runs[h] = 0
    BY <1>7, <2>2 DEF Polled, Statuses
  <2>3. CASE status[h] = "IN_PROG" /\ runs[h] # 0
    <3>1. Polled(h) = {"IN_PROG"}
      BY <2>3 DEF Polled
    <3> QED
      BY <1>7, <2>3, <3>1
  <2> QED
    BY <2>1, <2>2, <2>3
<1>8. ASSUME NEW h \in live, NEW s \in Polled(h), status' = [status EXCEPT ![h] = s],
             UNCHANGED <<live, held, runs, outcome>>
      PROVE  RunInv'
  BY <1>7, <1>8
<1>9. ASSUME NEW h \in Handles, NEW arg, PostNoNotif(h, arg) PROVE RunInv'
  BY <1>8, <1>9 DEF PostNoNotif
<1>10. ASSUME NEW h \in Handles, PostRefused(h) PROVE RunInv'
  BY <1>8, <1>10 DEF PostRefused
<1>11. ASSUME NEW h \in Handles, GetXferStatus(h) PROVE RunInv'
  BY <1>8, <1>11 DEF GetXferStatus
<1>12. ASSUME NEW h \in Handles, NEW arg, PostXferReq(h, arg) PROVE RunInv'
  <2>1. h \in live /\ runs[h] = 0
    BY <1>7, <1>12 DEF PostXferReq, MayRepost
  <2> QED
    BY <1>12, <2>1 DEF PostXferReq
<1>13. ASSUME NEW h \in Handles, ReleaseXferReq(h) PROVE RunInv'
  <2>1. h \in live /\ DeleteHandle(h)
    BY <1>13 DEF ReleaseXferReq
  <2>2. runs[h] = 0 \/ eng[h] \in Cancels
    BY <1>7, <1>13 DEF ReleaseXferReq
  <2>3. FreeBackend(h)
    BY <1>13, <2>2 DEF ReleaseXferReq
  <2> QED
    BY <2>1, <2>3 DEF DeleteHandle, FreeBackend
<1>14. ASSUME NEW h \in Handles, EngineEnd(h) PROVE RunInv'
  BY <1>14 DEF EngineEnd
<1>15. CASE UNCHANGED xferVars
  BY <1>1, <1>15 DEF xferVars
<1>16. ASSUME NEW r \in Remotes, InvalidateRemoteMD(r) PROVE RunInv'
  BY <1>1, <1>16 DEF InvalidateRemoteMD
<1>17. ASSUME NEW d \in Dlists, ReleasedDlistH(d) PROVE RunInv'
  BY <1>1, <1>17 DEF ReleasedDlistH
<1> QED
  BY <1>2, <1>3, <1>5, <1>6, <1>9, <1>10, <1>11, <1>12, <1>13, <1>14, <1>15, <1>16, <1>17 DEF XferNext

(* With such engines, for any number of handles and any sequence of        *)
(* calls: the engine runs at most one transfer per request, runs nothing   *)
(* for a released handle, and SUCCESS is what it reported.                 *)
THEOREM RunTheorem ==
    ASSUME EarlyErrors = {}
    PROVE  XferSpec => []TransfersHonest
<1>1. XferInit => RunInv
  BY DEF XferInit, RunInv
<1>2. XferTypeOK /\ RunInv => TransfersHonest
  BY DEF XferTypeOK, RunInv, TransfersHonest, OneActiveTransfer, ReleasedMeansStopped, SuccessIsReal
<1>3. XferTypeOK /\ RunInv /\ [XferNext]_xferVars => RunInv'
  BY RunStep
<1> QED
  BY <1>1, <1>2, <1>3, TypeCorrect, PTL DEF XferSpec

-----------------------------------------------------------------------------
(* When every blob carries the connection info of the engines it carries   *)
(* sections of, no sequence of loads, failed loads and invalidations mixes *)
(* the metadata of one life of a peer with the connection info of another. *)
THEOREM SameLifeTheorem ==
    ASSUME \A m \in Blobs : m.secs \subseteq m.conns
    PROVE  XferSpec => []SameLife
<1>1. XferInit => SameLife
  BY DEF XferInit, SameLife, NoMD
<1>2. XferTypeOK /\ SameLife /\ [XferNext]_xferVars => SameLife'
  <2> SUFFICES ASSUME XferTypeOK, SameLife, [XferNext]_xferVars PROVE SameLife'
    OBVIOUS
  <2> USE DEF XferTypeOK, SameLife, cache
  <2>1. ASSUME UNCHANGED <<secs, conns>> PROVE SameLife'
    BY <2>1
  <2>2. ASSUME NEW r \in Remotes, NEW m \in Blobs, LoadRemoteMD(r, m) PROVE SameLife'
    <3>1. secs' = [secs EXCEPT ![r] = [b \in Engines |->
                        IF b \in m.secs THEN m.info ELSE secs[r][b]]]
      BY <2>2 DEF LoadRemoteMD
    <3>2. conns' = [conns EXCEPT ![r] = [b \in Engines |->
                        IF b \in m.conns THEN m.info ELSE conns[r][b]]]
      BY <2>2 DEF LoadRemoteMD, WithConns
    <3>3. \A b \in m.conns \cap Engines : conns[r][b] \in {None, m.info}
      BY <2>2 DEF LoadRemoteMD, Accepts
    <3>4. ASSUME NEW b \in Engines, secs'[r][b] # None PROVE secs'[r][b] = conns'[r][b]
      BY <3>1, <3>2, <3>3, <3>4
    <3>5. ASSUME NEW q \in Remotes, q # r PROVE secs'[q] = secs[q] /\ conns'[q] = conns[q]
      BY <3>1, <3>2, <3>5
    <3> QED
      BY <3>4, <3>5
  <2>3. ASSUME NEW r \in Remotes, NEW m \in Blobs, LoadConnFails(r, m) PROVE SameLife'
    <3>1. PICK C \in SUBSET (m.conns \cap Engines) :
            /\ \A b \in C : conns[r][b] \in {None, m.info}
            /\ conns' = [conns EXCEPT ![r] =
                            [b \in Engines |-> IF b \in C THEN m.info ELSE conns[r][b]]]
      BY <2>3 DEF LoadConnFails, WithConns, Accepts
    <3>2. secs' = secs
      BY <2>3 DEF LoadConnFails
    <3> QED
      BY <3>1, <3>2
  <2>4. ASSUME NEW r \in Remotes, Evict(r) PROVE SameLife'
    BY <2>4 DEF Evict, NoMD
  <2> QED
    BY <2>1, <2>2, <2>3, <2>4 DEF XferNext, xferVars, LoadSectionsFails, InvalidateRemoteMD,
       PrepXferDlist, ReleasedDlistH, CreateXferReq, MakeXferReq, NewRequest, PostNoNotif,
       PostXferReq, PostRefused, GetXferStatus, ReleaseXferReq, EngineEnd
<1> QED
  BY <1>1, <1>2, TypeCorrect, PTL DEF XferSpec

=============================================================================
