------------------------ MODULE MetadataWorkerProofs ------------------------
(***************************************************************************)
(* Proofs about MetadataWorker for every number of callers, tasks, starts  *)
(* and deaths.  The invariant that is inductive, Protocol, ties the three  *)
(* records of the worker's life together: state_, the thread's own         *)
(* position and the queue.                                                 *)
(***************************************************************************)
EXTENDS MetadataWorker, TLAPS

(* The thread exists exactly while state_ is not IDLE; a thread that drains *)
(* does so under STOPPING; one that left after the drain left an empty     *)
(* queue, and so it stays while nobody may add; a thread that is not about *)
(* to run something holds nothing; taskMutex_ is held by who runs.         *)
Protocol ==
    /\ OneJoiner
    /\ state = "IDLE" <=> wpc = "none"
    /\ wpc \in {"pop", "lock", "run"} /\ phase = "drain" => state = "STOPPING"
    /\ wpc = "exited" /\ deaths = 0 => state = "STOPPING" /\ tasks = <<>>
    /\ state = "IDLE" /\ deaths = 0 => tasks = <<>>
    /\ wpc \notin {"lock", "run"} => cur[Worker] = Nobody

USE WorkerAssumption DEF Threads

(* A caller past mutex_ on the inline path holds the task it submitted.    *)
InlineHolds == \A c \in Callers : pc[c] \in {"inline", "inlineRun"} => cur[c] \in Tasks

TypeInv == WorkerTypeOK /\ InlineHolds

(* Types, and what a caller on the inline path holds, are kept together.   *)
LEMMA TypeInvariant == WorkerSpec => []TypeInv
<1>1. WorkerInit => TypeInv
  BY DEF WorkerInit, TypeInv, WorkerTypeOK, InlineHolds
<1>2. TypeInv /\ [WorkerNext]_workerVars => TypeInv'
  <2> SUFFICES ASSUME TypeInv, [WorkerNext]_workerVars
               PROVE  TypeInv'
    OBVIOUS
  <2> USE DEF TypeInv, WorkerTypeOK, InlineHolds
  <2>1. ASSUME NEW c \in Callers, Start(c) \/ StopOwner(c) \/ StopWaiter(c) \/ Join(c)
                                  \/ WakeIdle(c)
        PROVE  TypeInv'
    BY <2>1 DEF Start, StopOwner, StopWaiter, Join, WakeIdle
  <2>2. ASSUME NEW c \in Callers, NEW t \in Tasks, SubmitQueued(c, t)
        PROVE  TypeInv'
    BY <2>2 DEF SubmitQueued, Push
  <2>3. ASSUME NEW c \in Callers, NEW t \in Tasks, SubmitInline(c, t)
        PROVE  TypeInv'
    BY <2>3 DEF SubmitInline
  <2>4. ASSUME NEW c \in Callers, InlineBegin(c)
        PROVE  TypeInv'
    BY <2>4 DEF InlineBegin
  <2>5. ASSUME NEW c \in Callers, InlineEnd(c)
        PROVE  TypeInv'
    BY <2>5 DEF InlineEnd
  <2>6. CASE LoopWake
    <3>1. phase' \in {"pass", "drain"}
      BY <2>6 DEF LoopWake
    <3>2. /\ wpc' = "pop"
          /\ UNCHANGED <<state, tasks, taskMutex, pc, cur, starts, deaths,
                         pushed, ran, fresh, doneInline>>
      BY <2>6 DEF LoopWake
    <3> QED
      BY <3>1, <3>2
  <2>7. CASE LoopDies
    BY <2>7 DEF LoopDies
  <2>8. CASE PopTask
    BY <2>8 DEF PopTask
  <2>9. CASE NothingQueued
    BY <2>9 DEF NothingQueued, AfterTasks
  <2>10. CASE WorkerBegin
    BY <2>10 DEF WorkerBegin
  <2>11. CASE PollEnd
    BY <2>11 DEF PollEnd
  <2>12. CASE TaskEnd
    BY <2>12 DEF TaskEnd
  <2>13. ASSUME NEW t \in Tasks, SubmitNested(t)
        PROVE  TypeInv'
    BY <2>13 DEF SubmitNested, Push
  <2>14. CASE UNCHANGED workerVars
    BY <2>14 DEF workerVars
  <2> QED
    BY <2>1, <2>2, <2>3, <2>4, <2>5, <2>6, <2>7, <2>8, <2>9, <2>10, <2>11, <2>12,
       <2>13, <2>14
    DEF WorkerNext, WorkerThread, Caller
<1> QED
  BY <1>1, <1>2, PTL DEF WorkerSpec

(* Type correctness of the worker (nixl_metadata_worker.h:106-120).        *)
THEOREM TypeCorrect == WorkerSpec => []WorkerTypeOK
  BY TypeInvariant, PTL DEF TypeInv

(* A caller on the inline path holds its task.                             *)
LEMMA InlineHoldsInvariant == WorkerSpec => []InlineHolds
  BY TypeInvariant, PTL DEF TypeInv

(* The life cycle of the thread, its queue and its owner, as one inductive *)
(* invariant.                                                              *)
LEMMA ProtocolInvariant == WorkerSpec => []Protocol
<1>1. WorkerInit => Protocol
  BY DEF WorkerInit, Protocol, OneJoiner
<1>2. WorkerTypeOK /\ WorkerTypeOK' /\ Protocol /\ [WorkerNext]_workerVars => Protocol'
  <2> SUFFICES ASSUME WorkerTypeOK, WorkerTypeOK', Protocol, [WorkerNext]_workerVars
               PROVE  Protocol'
    OBVIOUS
  <2> USE DEF WorkerTypeOK, Protocol, OneJoiner
  <2>1. ASSUME NEW c \in Callers, Start(c)
        PROVE  Protocol'
    BY <2>1 DEF Start
  <2>2. ASSUME NEW c \in Callers, StopOwner(c)
        PROVE  Protocol'
    BY <2>2 DEF StopOwner
  <2>3. ASSUME NEW c \in Callers, StopWaiter(c)
        PROVE  Protocol'
    BY <2>3 DEF StopWaiter
  <2>4. ASSUME NEW c \in Callers, Join(c)
        PROVE  Protocol'
    BY <2>4 DEF Join
  <2>5. ASSUME NEW c \in Callers, WakeIdle(c)
        PROVE  Protocol'
    BY <2>5 DEF WakeIdle
  <2>6. ASSUME NEW c \in Callers, NEW t \in Tasks, SubmitQueued(c, t)
        PROVE  Protocol'
    BY <2>6 DEF SubmitQueued, Push
  <2>7. ASSUME NEW c \in Callers, NEW t \in Tasks, SubmitInline(c, t)
        PROVE  Protocol'
    BY <2>7 DEF SubmitInline
  <2>8. ASSUME NEW c \in Callers, InlineBegin(c)
        PROVE  Protocol'
    BY <2>8 DEF InlineBegin
  <2>9. ASSUME NEW c \in Callers, InlineEnd(c)
        PROVE  Protocol'
    BY <2>9 DEF InlineEnd
  <2>10. CASE LoopWake
    BY <2>10 DEF LoopWake
  <2>11. CASE LoopDies
    BY <2>11 DEF LoopDies
  <2>12. CASE PopTask
    BY <2>12 DEF PopTask
  <2>13. CASE NothingQueued
    BY <2>13 DEF NothingQueued, AfterTasks
  <2>14. CASE WorkerBegin
    BY <2>14 DEF WorkerBegin
  <2>15. CASE PollEnd
    BY <2>15 DEF PollEnd
  <2>16. CASE TaskEnd
    BY <2>16 DEF TaskEnd
  <2>17. ASSUME NEW t \in Tasks, SubmitNested(t)
        PROVE  Protocol'
    BY <2>17 DEF SubmitNested, Push
  <2>18. CASE UNCHANGED workerVars
    BY <2>18 DEF workerVars
  <2> QED
    BY <2>1, <2>2, <2>3, <2>4, <2>5, <2>6, <2>7, <2>8, <2>9, <2>10, <2>11, <2>12,
       <2>13, <2>14, <2>15, <2>16, <2>17, <2>18
    DEF WorkerNext, WorkerThread, Caller
<1> QED
  BY <1>1, <1>2, TypeCorrect, PTL DEF WorkerSpec

(* Nothing is left to run once stop() has published IDLE                   *)
(* (nixl_metadata_worker.cpp:96), unless the thread died, and thread_ has  *)
(* one owner, only while the state is STOPPING (nixl_metadata_worker.h:85).*)
THEOREM StopProtocolTheorem == WorkerSpec => []StopProtocol
<1>1. Protocol => Drained
  BY DEF Protocol, Drained
<1>2. Protocol => OneJoiner
  BY DEF Protocol
<1>3. Protocol => StopProtocol
  BY <1>1, <1>2 DEF StopProtocol
<1> QED
  BY <1>3, ProtocolInvariant, PTL

(* Whoever comes out of a stop() that found a thread finds none            *)
(* (nixl_metadata_worker.cpp:82).                                          *)
THEOREM StopMeansGoneTheorem == WorkerSpec => StopMeansGone
<1>1. WorkerTypeOK /\ Protocol /\ [WorkerNext]_workerVars
        => [\A c \in Callers :
               pc[c] \in {"joining", "waitIdle"} /\ pc'[c] = "outside" => wpc' = "none"]_workerVars
  <2> SUFFICES ASSUME WorkerTypeOK, Protocol, WorkerNext,
                      NEW d \in Callers,
                      pc[d] \in {"joining", "waitIdle"}, pc'[d] = "outside"
               PROVE  wpc' = "none"
    OBVIOUS
  <2>1. CASE WorkerThread
    BY <2>1 DEF WorkerTypeOK, WorkerThread, LoopWake, LoopDies, PopTask, NothingQueued,
       WorkerBegin, PollEnd, TaskEnd, SubmitNested
  <2>2. ASSUME NEW c \in Callers, Caller(c)
        PROVE  wpc' = "none"
    BY <2>2 DEF WorkerTypeOK, Protocol, Caller, Start, StopOwner, StopWaiter, Join, WakeIdle,
       SubmitQueued, SubmitInline, InlineBegin, InlineEnd
  <2> QED
    BY <2>1, <2>2 DEF WorkerNext
<1> QED
  BY <1>1, TypeCorrect, ProtocolInvariant, PTL DEF WorkerSpec, StopMeansGone

-----------------------------------------------------------------------------
(* Three facts about concatenation, one for each way a task moves along    *)
(* ran \o Held \o tasks.                                                   *)
LEMMA AppendMoves ==
    ASSUME NEW S, NEW a \in Seq(S), NEW b \in Seq(S), NEW x \in S
    PROVE  a \o Append(b, x) = Append(a \o b, x)
  OBVIOUS

LEMMA HeadMoves ==
    ASSUME NEW S, NEW a \in Seq(S), NEW b \in Seq(S), b # <<>>
    PROVE  (a \o <<>>) \o b = (a \o <<Head(b)>>) \o Tail(b)
  OBVIOUS

LEMMA FinishMoves ==
    ASSUME NEW S, NEW a \in Seq(S), NEW b \in Seq(S), NEW x \in S
    PROVE  (Append(a, x) \o <<>>) \o b = (a \o <<x>>) \o b
  OBVIOUS

(* Exactly once and in submission order (nixl_metadata_worker.h:48), for   *)
(* any number of callers, tasks, restarts and deaths of the thread.        *)
THEOREM SubmissionOrderTheorem == WorkerSpec => []SubmissionOrder
<1>1. WorkerInit => SubmissionOrder
  BY DEF WorkerInit, SubmissionOrder, Held
<1>2. WorkerTypeOK /\ WorkerTypeOK' /\ Protocol /\ SubmissionOrder /\ [WorkerNext]_workerVars => SubmissionOrder'
  <2> SUFFICES ASSUME WorkerTypeOK, WorkerTypeOK', Protocol, SubmissionOrder, [WorkerNext]_workerVars
               PROVE  SubmissionOrder'
    OBVIOUS
  <2>1. Held \in Seq(Tasks)
    BY DEF Held
  <2>2. ASSUME UNCHANGED <<pushed, ran, tasks>>, Held' = Held
        PROVE  SubmissionOrder'
    BY <2>2 DEF SubmissionOrder
  <2>3. ASSUME NEW t \in Tasks, Push(t), ran' = ran, Held' = Held
        PROVE  SubmissionOrder'
    <3>1. ran \o Held \in Seq(Tasks)
      BY <2>1 DEF WorkerTypeOK
    <3> QED
      BY <3>1, <2>3, AppendMoves DEF WorkerTypeOK, SubmissionOrder, Push
  <2>4. ASSUME NEW c \in Callers, Caller(c)
        PROVE  SubmissionOrder'
    <3>1. Held' = Held
      BY <2>4 DEF WorkerTypeOK, Held, Caller, Start, StopOwner, StopWaiter, Join, WakeIdle,
         SubmitQueued, SubmitInline, InlineBegin, InlineEnd
    <3>2. ASSUME NEW t \in Tasks, SubmitQueued(c, t)
          PROVE  SubmissionOrder'
      BY <3>1, <3>2, <2>3 DEF SubmitQueued
    <3>3. ASSUME ~ \E t \in Tasks : SubmitQueued(c, t)
          PROVE  SubmissionOrder'
      BY <3>1, <3>3, <2>2, <2>4 DEF Caller, Start, StopOwner, StopWaiter, Join, WakeIdle,
         SubmitInline, InlineBegin, InlineEnd
    <3> QED
      BY <3>2, <3>3
  <2>5. CASE LoopWake \/ LoopDies \/ WorkerBegin
    BY <2>5, <2>2 DEF LoopWake, LoopDies, WorkerBegin, Held
  <2>6. CASE PollEnd
    BY <2>6, <2>2 DEF PollEnd, Held, WorkerTypeOK
  <2>7. CASE NothingQueued
    <3>1. Held = <<>>
      BY <2>7 DEF NothingQueued, Protocol, Held
    <3>2. Held' = <<>>
      BY <2>7 DEF NothingQueued, WorkerTypeOK, Held
    <3> QED
      BY <3>1, <3>2, <2>7, <2>2 DEF NothingQueued
  <2>8. CASE PopTask
    <3>1. Held = <<>>
      BY <2>8 DEF PopTask, Protocol, Held
    <3>2. Held' = <<Head(tasks)>>
      BY <2>8 DEF PopTask, WorkerTypeOK, Held
    <3> QED
      BY <3>1, <3>2, <2>8, HeadMoves DEF PopTask, WorkerTypeOK, SubmissionOrder
  <2>9. CASE TaskEnd
    <3>1. Held = <<cur[Worker]>>
      BY <2>9 DEF TaskEnd, Held
    <3>2. Held' = <<>>
      BY <2>9 DEF TaskEnd, WorkerTypeOK, Held
    <3>3. cur[Worker] \in Tasks /\ ran' = Append(ran, cur[Worker]) /\ UNCHANGED <<tasks, pushed>>
      BY <2>9 DEF TaskEnd
    <3>4. (ran' \o <<>>) \o tasks = (ran \o <<cur[Worker]>>) \o tasks
      BY <3>3, FinishMoves DEF WorkerTypeOK
    <3> QED
      BY <3>1, <3>2, <3>3, <3>4 DEF SubmissionOrder
  <2>10. ASSUME NEW t \in Tasks, SubmitNested(t)
         PROVE  SubmissionOrder'
    BY <2>10, <2>3 DEF SubmitNested, Held
  <2>11. CASE UNCHANGED workerVars
    BY <2>11, <2>2 DEF workerVars, Held
  <2> QED
    BY <2>4, <2>5, <2>6, <2>7, <2>8, <2>9, <2>10, <2>11 DEF WorkerNext, WorkerThread
<1> QED
  BY <1>1, <1>2, TypeCorrect, ProtocolInvariant, PTL DEF WorkerSpec
-----------------------------------------------------------------------------
(* The worker implements TaskRunner.  Mutex: taskMutex_ is held by exactly *)
(* the thread that runs something.  OnePlace: a task is in one place at a  *)
(* time: not submitted, queued once, taken by one thread, or done.         *)
Mutex == \A t \in Threads : InRun(t) <=> taskMutex = t

OnePlace ==
    /\ \A x \in Threads : cur[x] \in Tasks =>
          cur[x] \notin fresh \cup doneInline \cup SeqElems(ran) \cup SeqElems(tasks)
    /\ \A x, y \in Threads : cur[x] \in Tasks /\ cur[x] = cur[y] => x = y
    /\ fresh \cap (doneInline \cup SeqElems(ran) \cup SeqElems(tasks)) = {}
    /\ SeqElems(tasks) \cap (doneInline \cup SeqElems(ran)) = {}
    /\ \A i, j \in DOMAIN tasks : tasks[i] = tasks[j] => i = j

(* Appending adds one element.                                             *)
LEMMA ElemsAppend ==
    ASSUME NEW S, NEW s \in Seq(S), NEW x \in S
    PROVE  SeqElems(Append(s, x)) = SeqElems(s) \cup {x}
  BY DEF SeqElems

(* Appending a new element keeps the elements distinct.                    *)
LEMMA AppendInjective ==
    ASSUME NEW S, NEW s \in Seq(S), NEW x \in S, x \notin SeqElems(s),
           \A i, j \in DOMAIN s : s[i] = s[j] => i = j
    PROVE  \A i, j \in DOMAIN Append(s, x) : Append(s, x)[i] = Append(s, x)[j] => i = j
  BY DEF SeqElems

(* Taking the head of distinct elements removes just that one.             *)
LEMMA ElemsTail ==
    ASSUME NEW S, NEW s \in Seq(S), s # <<>>,
           \A i, j \in DOMAIN s : s[i] = s[j] => i = j
    PROVE  /\ Head(s) \in SeqElems(s)
           /\ SeqElems(Tail(s)) = SeqElems(s) \ {Head(s)}
           /\ \A i, j \in DOMAIN Tail(s) : Tail(s)[i] = Tail(s)[j] => i = j
<1>1. /\ Len(s) \in Nat /\ Len(s) >= 1 /\ DOMAIN s = 1..Len(s)
      /\ Head(s) = s[1]
      /\ DOMAIN Tail(s) = 1..Len(s) - 1
      /\ \A i \in 1..Len(s) - 1 : Tail(s)[i] = s[i + 1]
  OBVIOUS
<1>2. \A i, j \in DOMAIN Tail(s) : Tail(s)[i] = Tail(s)[j] => i = j
  <2> SUFFICES ASSUME NEW i \in DOMAIN Tail(s), NEW j \in DOMAIN Tail(s), Tail(s)[i] = Tail(s)[j]
               PROVE  i = j
    OBVIOUS
  <2>1. i + 1 \in DOMAIN s /\ j + 1 \in DOMAIN s /\ s[i + 1] = s[j + 1]
    BY <1>1
  <2> QED
    BY <2>1, <1>1
<1>3. SeqElems(Tail(s)) \subseteq SeqElems(s) \ {Head(s)}
  <2> SUFFICES ASSUME NEW i \in DOMAIN Tail(s)
               PROVE  Tail(s)[i] \in SeqElems(s) /\ Tail(s)[i] # Head(s)
    BY DEF SeqElems
  <2>1. i + 1 \in DOMAIN s /\ i + 1 # 1 /\ 1 \in DOMAIN s /\ Tail(s)[i] = s[i + 1]
    BY <1>1
  <2> QED
    BY <2>1, <1>1 DEF SeqElems
<1>4. SeqElems(s) \ {Head(s)} \subseteq SeqElems(Tail(s))
  <2> SUFFICES ASSUME NEW i \in DOMAIN s, s[i] # Head(s)
               PROVE  s[i] \in SeqElems(Tail(s))
    BY DEF SeqElems
  <2>1. i - 1 \in DOMAIN Tail(s) /\ Tail(s)[i - 1] = s[i]
    BY <1>1
  <2> QED
    BY <2>1 DEF SeqElems
<1>5. Head(s) \in SeqElems(s)
  BY <1>1 DEF SeqElems
<1> QED
  BY <1>2, <1>3, <1>4, <1>5

(* taskMutex_ is held by who runs (nixl_metadata_worker.cpp:143).          *)
LEMMA MutexInvariant == WorkerSpec => []Mutex
<1>1. WorkerInit => Mutex
  BY DEF WorkerInit, Mutex, InRun
<1>2. WorkerTypeOK /\ Protocol /\ Mutex /\ [WorkerNext]_workerVars => Mutex'
  <2> SUFFICES ASSUME WorkerTypeOK, Protocol, Mutex, [WorkerNext]_workerVars
               PROVE  Mutex'
    OBVIOUS
  <2> USE DEF WorkerTypeOK, Mutex, InRun
  <2>1. ASSUME NEW c \in Callers, Start(c) \/ StopOwner(c) \/ StopWaiter(c) \/ Join(c)
                                  \/ WakeIdle(c)
        PROVE  Mutex'
    <3>1. CASE Start(c)
      <4>1. wpc # "run"
        BY <3>1 DEF Start, Protocol
      <4> QED
        BY <3>1, <4>1 DEF Start
    <3>2. CASE StopOwner(c)
      BY <3>2 DEF StopOwner
    <3>3. CASE StopWaiter(c)
      BY <3>3 DEF StopWaiter
    <3>4. CASE Join(c)
      BY <3>4 DEF Join
    <3>5. CASE WakeIdle(c)
      BY <3>5 DEF WakeIdle
    <3> QED
      BY <2>1, <3>1, <3>2, <3>3, <3>4, <3>5
  <2>2. ASSUME NEW c \in Callers, NEW t \in Tasks, SubmitQueued(c, t) \/ SubmitInline(c, t)
        PROVE  Mutex'
    BY <2>2 DEF SubmitQueued, SubmitInline
  <2>3. ASSUME NEW c \in Callers, InlineBegin(c) \/ InlineEnd(c)
        PROVE  Mutex'
    BY <2>3 DEF InlineBegin, InlineEnd
  <2>4. CASE LoopWake \/ LoopDies \/ PopTask \/ NothingQueued
    BY <2>4 DEF LoopWake, LoopDies, PopTask, NothingQueued, AfterTasks
  <2>5. CASE WorkerBegin \/ PollEnd \/ TaskEnd
    BY <2>5 DEF WorkerBegin, PollEnd, TaskEnd
  <2>6. ASSUME NEW t \in Tasks, SubmitNested(t)
        PROVE  Mutex'
    BY <2>6 DEF SubmitNested
  <2>7. CASE UNCHANGED workerVars
    BY <2>7 DEF workerVars
  <2> QED
    BY <2>1, <2>2, <2>3, <2>4, <2>5, <2>6, <2>7 DEF WorkerNext, WorkerThread, Caller
<1> QED
  BY <1>1, <1>2, TypeCorrect, ProtocolInvariant, PTL DEF WorkerSpec

(* A task is in one place at a time.                                       *)
LEMMA OnePlaceInvariant == WorkerSpec => []OnePlace
<1>1. WorkerInit => OnePlace
  BY DEF WorkerInit, OnePlace, SeqElems
<1>2. WorkerTypeOK /\ WorkerTypeOK' /\ Protocol /\ OnePlace /\ [WorkerNext]_workerVars => OnePlace'
  <2> SUFFICES ASSUME WorkerTypeOK, WorkerTypeOK', Protocol, OnePlace, [WorkerNext]_workerVars
               PROVE  OnePlace'
    OBVIOUS
  <2>1. ASSUME UNCHANGED <<tasks, cur, ran, fresh, doneInline>>
        PROVE  OnePlace'
    BY <2>1 DEF OnePlace, SeqElems
  <2>2. ASSUME NEW t \in Tasks, t \in fresh, Push(t), UNCHANGED <<cur, ran, doneInline>>
        PROVE  OnePlace'
    <3>1. /\ SeqElems(tasks') = SeqElems(tasks) \cup {t}
          /\ \A i, j \in DOMAIN tasks' : tasks'[i] = tasks'[j] => i = j
      <4>1. tasks \in Seq(Tasks) /\ tasks' = Append(tasks, t)
        BY <2>2 DEF WorkerTypeOK, Push
      <4>2. t \notin SeqElems(tasks) /\ \A i, j \in DOMAIN tasks : tasks[i] = tasks[j] => i = j
        BY <2>2 DEF OnePlace
      <4>3. SeqElems(Append(tasks, t)) = SeqElems(tasks) \cup {t}
        BY <4>1, ElemsAppend
      <4>4. \A i, j \in DOMAIN Append(tasks, t) :
               Append(tasks, t)[i] = Append(tasks, t)[j] => i = j
        BY <4>1, <4>2, AppendInjective
      <4> QED
        BY <4>1, <4>3, <4>4
    <3>2. SeqElems(ran') = SeqElems(ran)
      BY <2>2 DEF SeqElems
    <3>3. UNCHANGED <<cur, doneInline>> /\ fresh' = fresh \ {t}
      BY <2>2 DEF Push
    <3>4. t \notin doneInline \cup SeqElems(ran) \cup SeqElems(tasks)
          /\ \A x \in Threads : cur[x] # t
      BY <2>2 DEF OnePlace
    <3> QED
      BY <3>1, <3>2, <3>3, <3>4 DEF OnePlace
  <2>3. ASSUME NEW c \in Callers, NEW t \in Tasks, SubmitInline(c, t)
        PROVE  OnePlace'
    <3>1. SeqElems(ran') = SeqElems(ran) /\ SeqElems(tasks') = SeqElems(tasks)
      BY <2>3 DEF SubmitInline, SeqElems
    <3> QED
      BY <2>3, <3>1 DEF SubmitInline, WorkerTypeOK, OnePlace
  <2>4. ASSUME NEW c \in Callers, InlineEnd(c)
        PROVE  OnePlace'
    <3>1. SeqElems(ran') = SeqElems(ran) /\ SeqElems(tasks') = SeqElems(tasks)
      BY <2>4 DEF InlineEnd, SeqElems
    <3> QED
      BY <2>4, <3>1 DEF InlineEnd, WorkerTypeOK, OnePlace
  <2>5. CASE PopTask
    <3>1. /\ Head(tasks) \in SeqElems(tasks)
          /\ SeqElems(tasks') = SeqElems(tasks) \ {Head(tasks)}
          /\ \A i, j \in DOMAIN tasks' : tasks'[i] = tasks'[j] => i = j
      BY <2>5, ElemsTail DEF PopTask, WorkerTypeOK, OnePlace
    <3>2. SeqElems(ran') = SeqElems(ran)
      BY <2>5 DEF PopTask, SeqElems
    <3> QED
      BY <2>5, <3>1, <3>2 DEF PopTask, WorkerTypeOK, OnePlace
  <2>6. CASE NothingQueued \/ PollEnd
    <3>1. SeqElems(ran') = SeqElems(ran) /\ SeqElems(tasks') = SeqElems(tasks)
      BY <2>6 DEF NothingQueued, PollEnd, SeqElems
    <3> QED
      BY <2>6, <3>1 DEF NothingQueued, PollEnd, WorkerTypeOK, OnePlace
  <2>7. CASE TaskEnd
    <3>1. SeqElems(ran') = SeqElems(ran) \cup {cur[Worker]}
      BY <2>7, ElemsAppend DEF TaskEnd, WorkerTypeOK
    <3>2. SeqElems(tasks') = SeqElems(tasks)
      BY <2>7 DEF TaskEnd, SeqElems
    <3>3. cur' \in {[cur EXCEPT ![Worker] = Nobody], [cur EXCEPT ![Worker] = Poll]}
      BY <2>7 DEF TaskEnd
    <3> QED
      BY <2>7, <3>1, <3>2, <3>3 DEF TaskEnd, WorkerTypeOK, OnePlace
  <2>8. ASSUME NEW t \in Tasks, SubmitNested(t)
        PROVE  OnePlace'
    BY <2>8, <2>2 DEF SubmitNested
  <2>9. ASSUME NEW c \in Callers, NEW t \in Tasks, SubmitQueued(c, t)
        PROVE  OnePlace'
    BY <2>9, <2>2 DEF SubmitQueued
  <2>10. ASSUME NEW c \in Callers, Start(c) \/ StopOwner(c) \/ StopWaiter(c) \/ Join(c)
                                   \/ WakeIdle(c) \/ InlineBegin(c)
        PROVE  OnePlace'
    BY <2>10, <2>1 DEF Start, StopOwner, StopWaiter, Join, WakeIdle, InlineBegin
  <2>11. CASE LoopWake \/ LoopDies \/ WorkerBegin \/ UNCHANGED workerVars
    BY <2>11, <2>1 DEF LoopWake, LoopDies, WorkerBegin, workerVars
  <2> QED
    BY <2>3, <2>4, <2>5, <2>6, <2>7, <2>8, <2>9, <2>10, <2>11
    DEF WorkerNext, WorkerThread, Caller
<1> QED
  BY <1>1, <1>2, TypeCorrect, ProtocolInvariant, PTL DEF WorkerSpec

(* Under Mutex the mapping of RunnerSpec is this one: the task that runs   *)
(* is the one of the thread that holds taskMutex_.                         *)
Now == IF taskMutex \in Threads /\ cur[taskMutex] \in Tasks THEN cur[taskMutex] ELSE Nobody

(* The mapping, while taskMutex_ is held by who runs.                      *)
LEMMA MappedRun ==
    ASSUME WorkerTypeOK, Mutex
    PROVE  RunnerRunning = Now /\ RunnerAccepted = Tasks \ (fresh \cup RunnerFinished \cup {Now})
<1>1. CASE taskMutex \in Threads /\ cur[taskMutex] \in Tasks
  <2>1. Running = {taskMutex}
    BY <1>1 DEF Running, Mutex
  <2>2. {cur[t] : t \in Running} = {Now}
    BY <2>1, <1>1 DEF Now
  <2>3. RunnerRunning = cur[taskMutex]
    BY <2>1 DEF RunnerRunning
  <2> QED
    BY <2>2, <2>3, <1>1 DEF RunnerAccepted, Now
<1>2. CASE ~(taskMutex \in Threads /\ cur[taskMutex] \in Tasks)
  <2>1. Running = {}
    BY <1>2 DEF Running, Mutex
  <2>2. {cur[t] : t \in Running} = {} /\ RunnerRunning = Nobody
    BY <2>1 DEF RunnerRunning
  <2> QED
    BY <2>2, <1>2 DEF RunnerAccepted, Now
<1> QED
  BY <1>1, <1>2

(* What a backend relies on (nixl_metadata_worker.h:34-51): every accepted *)
(* task runs at most once, and never at the same time as another.          *)
THEOREM RunnerTheorem == WorkerSpec => RunnerSpec
<1> DEFINE Inv == WorkerTypeOK /\ Mutex /\ OnePlace /\ InlineHolds
<1>1. WorkerInit => Runner!Init
  <2> SUFFICES ASSUME WorkerInit
               PROVE  Runner!Init
    OBVIOUS
  <2>1. Running = {} /\ RunnerFinished = {}
    BY DEF WorkerInit, Running, InRun, RunnerFinished, SeqElems
  <2>2. RunnerAccepted = {} /\ RunnerRunning = Nobody
    BY <2>1 DEF WorkerInit, RunnerAccepted, RunnerRunning
  <2> QED
    BY <2>1, <2>2 DEF Runner!Init
<1>2. Inv /\ Inv' /\ [WorkerNext]_workerVars => [Runner!Next]_Runner!vars
  <2> SUFFICES ASSUME Inv, Inv', [WorkerNext]_workerVars
               PROVE  [Runner!Next]_Runner!vars
    OBVIOUS
  <2>1. RunnerRunning = Now /\ RunnerAccepted = Tasks \ (fresh \cup RunnerFinished \cup {Now})
    BY MappedRun
  <2>2. RunnerRunning' = Now'
        /\ RunnerAccepted' = Tasks \ (fresh' \cup RunnerFinished' \cup {Now'})
    <3>1. CASE (taskMutex \in Threads /\ cur[taskMutex] \in Tasks)'
      <4>1. Running' = {taskMutex'}
        BY <3>1 DEF Running, Mutex
      <4>2. {cur'[t] : t \in Running'} = {Now'}
        BY <4>1, <3>1 DEF Now
      <4>3. RunnerRunning' = (cur[taskMutex])'
        BY <4>1 DEF RunnerRunning
      <4> QED
        BY <4>2, <4>3, <3>1 DEF RunnerAccepted, Now
    <3>2. CASE ~(taskMutex \in Threads /\ cur[taskMutex] \in Tasks)'
      <4>1. Running' = {}
        BY <3>2 DEF Running, Mutex
      <4>2. {cur'[t] : t \in Running'} = {} /\ RunnerRunning' = Nobody
        BY <4>1 DEF RunnerRunning
      <4> QED
        BY <4>2, <3>2 DEF RunnerAccepted, Now
    <3> QED
      BY <3>1, <3>2
  <2>3. ASSUME UNCHANGED <<fresh, RunnerFinished, Now>>
        PROVE  UNCHANGED Runner!vars
    BY <2>1, <2>2, <2>3 DEF Runner!vars
  <2>4. ASSUME NEW t \in fresh, fresh' = fresh \ {t}, UNCHANGED <<RunnerFinished, Now>>,
               t # Now, t \notin RunnerFinished
        PROVE  Runner!Accept(t)
    BY <2>1, <2>2, <2>4 DEF Runner!Accept, WorkerTypeOK
  <2>5. ASSUME UNCHANGED <<fresh, RunnerFinished>>, Now = Nobody,
               Now' \in Tasks \ (fresh \cup RunnerFinished)
        PROVE  Runner!Begin(Now')
    BY <2>1, <2>2, <2>5 DEF Runner!Begin, WorkerTypeOK
  <2>6. ASSUME fresh' = fresh, Now \in Tasks, Now' = Nobody,
               RunnerFinished' = RunnerFinished \cup {Now}
        PROVE  Runner!End
    BY <2>1, <2>2, <2>6 DEF Runner!End, WorkerTypeOK
  <2>7. ASSUME NEW t \in Tasks, t \in fresh, fresh' = fresh \ {t}, UNCHANGED <<ran, doneInline, Now>>
        PROVE  Runner!Accept(t)
    <3>1. RunnerFinished' = RunnerFinished
      BY <2>7 DEF RunnerFinished, SeqElems
    <3>2. t # Now /\ t \notin RunnerFinished
      BY <2>7 DEF OnePlace, Now, RunnerFinished
    <3> QED
      BY <2>4, <2>7, <3>1, <3>2
  <2>8. ASSUME NEW x \in Threads, taskMutex = Nobody, taskMutex' = x, cur[x] \in Tasks,
               UNCHANGED <<cur, ran, doneInline, fresh>>
        PROVE  Runner!Begin(Now')
    <3>1. RunnerFinished' = RunnerFinished
      BY <2>8 DEF RunnerFinished, SeqElems
    <3>2. Now = Nobody /\ Now' = cur[x]
      BY <2>8 DEF Now
    <3>3. cur[x] \notin fresh \cup RunnerFinished
      BY <2>8 DEF OnePlace, RunnerFinished
    <3> QED
      BY <2>5, <2>8, <3>1, <3>2, <3>3
  <2>9. ASSUME UNCHANGED <<ran, doneInline, fresh, Now>>
        PROVE  UNCHANGED Runner!vars
    <3>1. RunnerFinished' = RunnerFinished
      BY <2>9 DEF RunnerFinished, SeqElems
    <3> QED
      BY <2>3, <2>9, <3>1
  <2>10. ASSUME NEW c \in Callers, Caller(c)
         PROVE  [Runner!Next]_Runner!vars
    <3>1. CASE Start(c) \/ StopOwner(c) \/ StopWaiter(c) \/ Join(c) \/ WakeIdle(c)
      BY <3>1, <2>9 DEF Start, StopOwner, StopWaiter, Join, WakeIdle, Now
    <3>2. ASSUME NEW t \in Tasks, SubmitQueued(c, t)
          PROVE  Runner!Next
      BY <3>2, <2>7 DEF SubmitQueued, Push, Now, Runner!Next
    <3>3. ASSUME NEW t \in Tasks, SubmitInline(c, t)
          PROVE  Runner!Next
      <4>1. taskMutex # c
        BY <3>3 DEF SubmitInline, Mutex, InRun
      <4>2. Now' = Now
        BY <4>1, <3>3 DEF SubmitInline, Now, WorkerTypeOK
      <4> QED
        BY <4>2, <3>3, <2>7 DEF SubmitInline, Runner!Next
    <3>4. CASE InlineBegin(c)
      <4>1. cur[c] \in Tasks
        BY <3>4 DEF InlineBegin, InlineHolds
      <4>2. Runner!Begin(Now') /\ Now' \in Tasks
        BY <4>1, <3>4, <2>8 DEF InlineBegin, Now
      <4> QED
        BY <4>2 DEF Runner!Next
    <3>5. CASE InlineEnd(c)
      <4>1. taskMutex = c /\ cur[c] \in Tasks
        BY <3>5 DEF InlineEnd, Mutex, InRun, InlineHolds
      <4>2. Now = cur[c] /\ Now' = Nobody
        BY <4>1, <3>5 DEF InlineEnd, Now
      <4>3. RunnerFinished' = RunnerFinished \cup {Now}
        BY <4>2, <3>5 DEF InlineEnd, RunnerFinished, SeqElems
      <4> QED
        BY <4>1, <4>2, <4>3, <3>5, <2>6 DEF InlineEnd, Runner!Next
    <3> QED
      BY <2>10, <3>1, <3>2, <3>3, <3>4, <3>5 DEF Caller
  <2>11. CASE PopTask \/ NothingQueued
    <3>1. taskMutex # Worker
      BY <2>11 DEF PopTask, NothingQueued, Mutex, InRun
    <3>2. Now' = Now
      BY <3>1, <2>11 DEF PopTask, NothingQueued, Now, WorkerTypeOK
    <3> QED
      BY <3>2, <2>11, <2>9 DEF PopTask, NothingQueued
  <2>12. CASE WorkerBegin
    <3>1. CASE cur[Worker] \in Tasks
      <4>1. Runner!Begin(Now') /\ Now' \in Tasks
        BY <3>1, <2>12, <2>8 DEF WorkerBegin, Now
      <4> QED
        BY <4>1 DEF Runner!Next
    <3>2. CASE cur[Worker] \notin Tasks
      BY <3>2, <2>12, <2>9 DEF WorkerBegin, Now
    <3> QED
      BY <3>1, <3>2
  <2>13. CASE PollEnd
    <3>1. taskMutex = Worker
      BY <2>13 DEF PollEnd, Mutex, InRun
    <3>2. Now = Nobody /\ Now' = Nobody
      BY <3>1, <2>13 DEF PollEnd, Now
    <3> QED
      BY <3>2, <2>13, <2>9 DEF PollEnd
  <2>14. CASE TaskEnd
    <3>1. taskMutex = Worker /\ cur[Worker] \in Tasks
      BY <2>14 DEF TaskEnd, Mutex, InRun
    <3>2. Now = cur[Worker] /\ Now' = Nobody
      BY <3>1, <2>14 DEF TaskEnd, Now
    <3>3. SeqElems(ran') = SeqElems(ran) \cup {Now}
      BY <3>1, <3>2, <2>14, ElemsAppend DEF TaskEnd, WorkerTypeOK
    <3>4. RunnerFinished' = RunnerFinished \cup {Now}
      BY <3>3, <2>14 DEF TaskEnd, RunnerFinished
    <3> QED
      BY <3>1, <3>2, <3>4, <2>14, <2>6 DEF TaskEnd, Runner!Next
  <2>15. ASSUME NEW t \in Tasks, SubmitNested(t)
         PROVE  Runner!Next
    BY <2>15, <2>7 DEF SubmitNested, Push, Now, Runner!Next
  <2>16. CASE LoopWake \/ LoopDies \/ UNCHANGED workerVars
    BY <2>16, <2>9 DEF LoopWake, LoopDies, workerVars, Now
  <2> QED
    BY <2>10, <2>11, <2>12, <2>13, <2>14, <2>15, <2>16 DEF WorkerNext, WorkerThread
<1>3. WorkerSpec => []InlineHolds
  BY InlineHoldsInvariant
<1> QED
  BY <1>1, <1>2, <1>3, TypeCorrect, MutexInvariant, OnePlaceInvariant, PTL
  DEF WorkerSpec, RunnerSpec, Runner!Spec
=============================================================================
