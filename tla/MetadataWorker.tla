--------------------------- MODULE MetadataWorker ---------------------------
(***************************************************************************)
(* nixlMetadataWorker (src/core/nixl_metadata_worker.{h,cpp}): the thread  *)
(* a metadata backend composes to run its own I/O.  Callers start and stop *)
(* the thread and submit tasks from any thread; the worker drains a queue  *)
(* and polls.  Two mutexes protect it and never nest: mutex_ guards the    *)
(* queue and the state, and is held only for the length of one action      *)
(* below; taskMutex_ is held while a task or the poll runs, over several   *)
(* actions, so it is a variable (taskMutex, the thread that holds it).     *)
(*                                                                         *)
(* A task is an identity: it is submitted at most once, and its body does  *)
(* nothing but possibly submit further tasks to the same worker when it    *)
(* runs on the worker's thread (the one re-entrance submit() provides      *)
(* for).  The time budget of a pass is a choice made after every task.     *)
(***************************************************************************)
EXTENDS Naturals, Sequences

CONSTANTS
    Callers,    \* threads outside the worker
    Tasks,      \* the tasks that may be submitted, each once
    Worker,     \* the identity of the worker's thread (current_worker)
    Nobody,       \* no thread, no task
    Poll,       \* the unit of work that is the poll callback
    MaxStarts,  \* bound on the calls of start() that spawn a thread
    MaxDeaths   \* bound on the exceptions that escape loop()

ASSUME WorkerAssumption ==
    /\ Worker \notin Callers
    /\ Nobody \notin Callers \cup Tasks \cup {Worker, Poll}
    /\ Poll \notin Tasks
    /\ MaxStarts \in Nat
    /\ MaxDeaths \in Nat

VARIABLES
    state,      \* state_, under mutex_
    tasks,      \* tasks_, under mutex_
    taskMutex,  \* who holds taskMutex_
    pc,         \* what each caller is in the middle of
    wpc,        \* where the worker's thread is; "none" when there is none to join
    cur,        \* the task each thread has taken and not finished
    phase,      \* "drain" once the loop has seen STOPPING: the last runQueuedTasks
    starts, deaths,             \* bounded counters
    pushed, ran,                \* history: queued tasks, and those the worker finished
    fresh, doneInline           \* tasks not submitted yet; tasks their caller ran

workerVars == <<state, tasks, taskMutex, pc, wpc, cur, phase, starts, deaths,
          pushed, ran, fresh, doneInline>>

Threads == Callers \cup {Worker}

WorkerInit ==
    /\ state = "IDLE"
    /\ tasks = <<>>
    /\ taskMutex = Nobody
    /\ pc = [c \in Callers |-> "outside"]
    /\ wpc = "none"
    /\ cur = [t \in Threads |-> Nobody]
    /\ phase = "pass"
    /\ starts = 0
    /\ deaths = 0
    /\ pushed = <<>>
    /\ ran = <<>>
    /\ fresh = Tasks
    /\ doneInline = {}

-----------------------------------------------------------------------------
(* start(): a no-op unless IDLE; the spawn and RUNNING are one step under   *)
(* mutex_.                                                                 *)
Start(c) ==
    /\ pc[c] = "outside"
    /\ state = "IDLE"
    /\ starts < MaxStarts
    /\ starts' = starts + 1
    /\ state' = "RUNNING"
    /\ wpc' = "wait"
    /\ phase' = "pass"
    /\ UNCHANGED <<tasks, taskMutex, pc, cur, deaths, pushed, ran, fresh, doneInline>>

(* stop() of the caller that takes RUNNING -> STOPPING: it owns the join.  *)
StopOwner(c) ==
    /\ pc[c] = "outside"
    /\ state = "RUNNING"
    /\ state' = "STOPPING"
    /\ pc' = [pc EXCEPT ![c] = "joining"]
    /\ UNCHANGED <<tasks, taskMutex, wpc, cur, phase, starts, deaths,
                   pushed, ran, fresh, doneInline>>

(* stop() while another caller owns the join: wait on idleCv_.             *)
StopWaiter(c) ==
    /\ pc[c] = "outside"
    /\ state = "STOPPING"
    /\ pc' = [pc EXCEPT ![c] = "waitIdle"]
    /\ UNCHANGED <<state, tasks, taskMutex, wpc, cur, phase, starts, deaths,
                   pushed, ran, fresh, doneInline>>

(* thread_.join() returned: publish IDLE and wake the waiters.             *)
Join(c) ==
    /\ pc[c] = "joining"
    /\ wpc = "exited"
    /\ wpc' = "none"
    /\ state' = "IDLE"
    /\ pc' = [pc EXCEPT ![c] = "outside"]
    /\ UNCHANGED <<tasks, taskMutex, cur, phase, starts, deaths,
                   pushed, ran, fresh, doneInline>>

(* Variant: a second stop() returns although the join is not over.         *)
WakeEarly(c) ==
    /\ pc[c] = "waitIdle"
    /\ pc' = [pc EXCEPT ![c] = "outside"]
    /\ UNCHANGED <<state, tasks, taskMutex, wpc, cur, phase, starts, deaths,
                   pushed, ran, fresh, doneInline>>

(* The predicate of idleCv_ is evaluated by the waiter once it has mutex_  *)
(* again, so it must find IDLE then, not merely have been notified.        *)
WakeIdle(c) ==
    /\ pc[c] = "waitIdle"
    /\ state = "IDLE"
    /\ pc' = [pc EXCEPT ![c] = "outside"]
    /\ UNCHANGED <<state, tasks, taskMutex, wpc, cur, phase, starts, deaths,
                   pushed, ran, fresh, doneInline>>

Push(t) ==
    /\ fresh' = fresh \ {t}
    /\ tasks' = Append(tasks, t)
    /\ pushed' = Append(pushed, t)

(* Variant: the queue stays open while the thread is leaving.              *)
SubmitQueuedLate(c, t) ==
    /\ pc[c] = "outside"
    /\ t \in fresh
    /\ state # "IDLE"
    /\ Push(t)
    /\ UNCHANGED <<state, taskMutex, pc, wpc, cur, phase, starts, deaths,
                   ran, doneInline>>

(* submit() from outside while the thread is up.                           *)
SubmitQueued(c, t) ==
    /\ pc[c] = "outside"
    /\ t \in fresh
    /\ state = "RUNNING"
    /\ Push(t)
    /\ UNCHANGED <<state, taskMutex, pc, wpc, cur, phase, starts, deaths,
                   ran, doneInline>>

(* Variant: the task was moved into the queue's argument before the inline *)
(* path uses it.                                                           *)
SubmitInlineMoved(c, t) ==
    /\ pc[c] = "outside"
    /\ t \in fresh
    /\ state # "RUNNING"
    /\ fresh' = fresh \ {t}
    /\ pc' = [pc EXCEPT ![c] = "inline"]
    /\ UNCHANGED <<state, tasks, taskMutex, wpc, cur, phase, starts, deaths,
                   pushed, ran, doneInline>>

(* submit() from outside with no thread that will come back for the task:  *)
(* the caller leaves mutex_ and goes on to taskMutex_.                     *)
SubmitInline(c, t) ==
    /\ pc[c] = "outside"
    /\ t \in fresh
    /\ state # "RUNNING"
    /\ fresh' = fresh \ {t}
    /\ cur' = [cur EXCEPT ![c] = t]
    /\ pc' = [pc EXCEPT ![c] = "inline"]
    /\ UNCHANGED <<state, tasks, taskMutex, wpc, phase, starts, deaths,
                   pushed, ran, doneInline>>

(* submit() by a task that runs on the worker's thread.                    *)
SubmitNested(t) ==
    /\ wpc = "run"
    /\ cur[Worker] \in Tasks
    /\ t \in fresh
    /\ Push(t)
    /\ UNCHANGED <<state, taskMutex, pc, wpc, cur, phase, starts, deaths,
                   ran, doneInline>>

-----------------------------------------------------------------------------
(* Variant: the inline path runs the task without taskMutex_.              *)
InlineBeginUnlocked(c) ==
    /\ pc[c] = "inline"
    /\ pc' = [pc EXCEPT ![c] = "inlineRun"]
    /\ UNCHANGED <<state, tasks, taskMutex, wpc, cur, phase, starts, deaths,
                   pushed, ran, fresh, doneInline>>

(* runTask() on the caller's thread: lock, run, unlock.                    *)
InlineBegin(c) ==
    /\ pc[c] = "inline"
    /\ taskMutex = Nobody
    /\ taskMutex' = c
    /\ pc' = [pc EXCEPT ![c] = "inlineRun"]
    /\ UNCHANGED <<state, tasks, wpc, cur, phase, starts, deaths,
                   pushed, ran, fresh, doneInline>>

InlineEnd(c) ==
    /\ pc[c] = "inlineRun"
    /\ taskMutex' = Nobody
    /\ pc' = [pc EXCEPT ![c] = "outside"]
    /\ cur' = [cur EXCEPT ![c] = Nobody]
    /\ doneInline' = doneInline \cup {cur[c]}
    /\ UNCHANGED <<state, tasks, wpc, phase, starts, deaths, pushed, ran, fresh>>

-----------------------------------------------------------------------------
(* Variant: STOPPING ends the thread without the drain.                    *)
LoopWakeNoDrain ==
    /\ wpc = "wait"
    /\ wpc' = IF state = "STOPPING" THEN "exited" ELSE "pop"
    /\ UNCHANGED <<state, tasks, taskMutex, pc, cur, phase, starts, deaths,
                   pushed, ran, fresh, doneInline>>

(* loop(): the wait ends by a notification or by its timeout, so it can    *)
(* end at any time; STOPPING breaks out, and the drain follows.            *)
LoopWake ==
    /\ wpc = "wait"
    /\ wpc' = "pop"
    /\ phase' = IF state = "STOPPING" THEN "drain" ELSE "pass"
    /\ UNCHANGED <<state, tasks, taskMutex, pc, cur, starts, deaths,
                   pushed, ran, fresh, doneInline>>

(* An exception out of loop() ends the thread and leaves state_ as it was. *)
LoopDies ==
    /\ wpc = "wait"
    /\ deaths < MaxDeaths
    /\ deaths' = deaths + 1
    /\ wpc' = "exited"
    /\ UNCHANGED <<state, tasks, taskMutex, pc, cur, phase, starts,
                   pushed, ran, fresh, doneInline>>

(* Where runQueuedTasks returns to: the poll of this pass, or, after the   *)
(* final drain, the end of the thread.                                     *)
AfterTasks == IF phase = "drain" THEN "exited" ELSE "lock"

(* Variant: the newest task is taken first.                                *)
PopTaskLast ==
    /\ wpc = "pop"
    /\ tasks # <<>>
    /\ cur' = [cur EXCEPT ![Worker] = tasks[Len(tasks)]]
    /\ tasks' = SubSeq(tasks, 1, Len(tasks) - 1)
    /\ wpc' = "lock"
    /\ UNCHANGED <<state, taskMutex, pc, phase, starts, deaths,
                   pushed, ran, fresh, doneInline>>

(* runQueuedTasks(): pop under mutex_ ...                                  *)
PopTask ==
    /\ wpc = "pop"
    /\ tasks # <<>>
    /\ cur' = [cur EXCEPT ![Worker] = Head(tasks)]
    /\ tasks' = Tail(tasks)
    /\ wpc' = "lock"
    /\ UNCHANGED <<state, taskMutex, pc, phase, starts, deaths,
                   pushed, ran, fresh, doneInline>>

(* ... and return when there is nothing to pop.                            *)
NothingQueued ==
    /\ wpc = "pop"
    /\ tasks = <<>>
    /\ wpc' = AfterTasks
    /\ cur' = [cur EXCEPT ![Worker] = IF phase = "drain" THEN Nobody ELSE Poll]
    /\ UNCHANGED <<state, tasks, taskMutex, pc, phase, starts, deaths,
                   pushed, ran, fresh, doneInline>>

(* runTask() on the worker's thread, for a task and for the poll alike.    *)
WorkerBegin ==
    /\ wpc = "lock"
    /\ taskMutex = Nobody
    /\ taskMutex' = Worker
    /\ wpc' = "run"
    /\ UNCHANGED <<state, tasks, pc, cur, phase, starts, deaths,
                   pushed, ran, fresh, doneInline>>

(* The poll ends the pass.                                                 *)
PollEnd ==
    /\ wpc = "run"
    /\ cur[Worker] = Poll
    /\ taskMutex' = Nobody
    /\ cur' = [cur EXCEPT ![Worker] = Nobody]
    /\ wpc' = "wait"
    /\ UNCHANGED <<state, tasks, pc, phase, starts, deaths,
                   pushed, ran, fresh, doneInline>>

(* A task ended.  Within the budget the next is popped; past it the pass   *)
(* moves on to the poll and leaves the rest queued.  The drain has no      *)
(* budget.                                                                 *)
TaskEnd ==
    /\ wpc = "run"
    /\ cur[Worker] \in Tasks
    /\ taskMutex' = Nobody
    /\ ran' = Append(ran, cur[Worker])
    /\ \/ /\ wpc' = "pop"
          /\ cur' = [cur EXCEPT ![Worker] = Nobody]
       \/ /\ phase = "pass"
          /\ wpc' = "lock"
          /\ cur' = [cur EXCEPT ![Worker] = Poll]
    /\ UNCHANGED <<state, tasks, pc, phase, starts, deaths,
                   pushed, fresh, doneInline>>

-----------------------------------------------------------------------------
Caller(c) ==
    \/ Start(c) \/ StopOwner(c) \/ StopWaiter(c) \/ Join(c) \/ WakeIdle(c)
    \/ \E t \in Tasks : SubmitQueued(c, t) \/ SubmitInline(c, t)
    \/ InlineBegin(c) \/ InlineEnd(c)

WorkerThread ==
    \/ LoopWake \/ LoopDies \/ PopTask \/ NothingQueued
    \/ WorkerBegin \/ PollEnd \/ TaskEnd
    \/ \E t \in Tasks : SubmitNested(t)

WorkerNext == WorkerThread \/ \E c \in Callers : Caller(c)

WorkerSpec == WorkerInit /\ [][WorkerNext]_workerVars

(* Threads are scheduled, a task returns, and a joined or notified thread  *)
(* goes on.  taskMutex_ is free for delay_ between two polls, so a caller  *)
(* waiting for it is not starved by the polls: strong fairness for it.     *)
WorkerFairness ==
    /\ WF_workerVars(LoopWake \/ PopTask \/ NothingQueued \/ WorkerBegin \/ PollEnd \/ TaskEnd)
    /\ \A c \in Callers :
        /\ WF_workerVars(Join(c))
        /\ WF_workerVars(WakeIdle(c))
        /\ SF_workerVars(InlineBegin(c))
        /\ WF_workerVars(InlineEnd(c))

WorkerFairSpec == WorkerSpec /\ WorkerFairness

-----------------------------------------------------------------------------
WorkerTypeOK ==
    /\ state \in {"IDLE", "RUNNING", "STOPPING"}
    /\ tasks \in Seq(Tasks)
    /\ taskMutex \in Threads \cup {Nobody}
    /\ pc \in [Callers -> {"outside", "joining", "waitIdle", "inline", "inlineRun"}]
    /\ wpc \in {"none", "wait", "pop", "lock", "run", "exited"}
    /\ cur \in [Threads -> Tasks \cup {Nobody, Poll}]
    /\ phase \in {"pass", "drain"}
    /\ starts \in Nat
    /\ deaths \in Nat
    /\ pushed \in Seq(Tasks)
    /\ ran \in Seq(Tasks)
    /\ fresh \subseteq Tasks
    /\ doneInline \subseteq Tasks

(* The queued tasks the worker has taken but not finished, in order.       *)
Held == IF cur[Worker] \in Tasks THEN <<cur[Worker]>> ELSE <<>>

(* Exactly once and in submission order (nixl_metadata_worker.h:48): what  *)
(* was queued is what the worker finished, then what it holds, then what   *)
(* is still queued.  Nothing is lost, repeated or reordered by a pass      *)
(* that runs out of budget, by shutdown, by a restart or by a dead thread. *)
SubmissionOrder == pushed = ran \o Held \o tasks

(* "Nothing is left to run" (nixl_metadata_worker.cpp:96): once stop() has *)
(* published IDLE there is no thread and no queued task, although submit() *)
(* raced with the drain; only a thread that died leaves tasks behind.      *)
Drained == state = "IDLE" /\ deaths = 0 => wpc = "none" /\ tasks = <<>>

(* "Returning has to mean the thread is gone" (nixl_metadata_worker.cpp:82): *)
(* whichever way a caller comes out of a stop() that found a thread, there *)
(* is none at that moment.                                                 *)
StopMeansGone ==
    [][\A c \in Callers :
          pc[c] \in {"joining", "waitIdle"} /\ pc'[c] = "outside" => wpc' = "none"]_workerVars

(* Only one caller owns the join, exactly while the state is STOPPING      *)
(* (nixl_metadata_worker.h:85): thread_ is never joined twice.             *)
OneJoiner ==
    /\ state = "STOPPING" <=> \E c \in Callers : pc[c] = "joining"
    /\ \A c, d \in Callers : pc[c] = "joining" /\ pc[d] = "joining" => c = d

(* stop() is safe whoever races with it: nothing is left to run once the   *)
(* worker is idle (Drained), and one caller owns the join (OneJoiner).     *)
StopProtocol == Drained /\ OneJoiner

(* A task accepted while the thread is up is eventually finished, however  *)
(* often passes run out of budget and whenever the worker is stopped; a    *)
(* caller that runs its own task gets to run it and returns; and every     *)
(* call of stop() returns: "Idempotent and safe from several threads"      *)
(* (nixl_metadata_worker.h:70).                                            *)
WorkerAtRest ==
    /\ \A k \in DOMAIN pushed : \E n \in DOMAIN ran : ran[n] = pushed[k]
    /\ \A c \in Callers : pc[c] = "outside"

(* The worker implements the promise its backends rely on.  The poll is    *)
(* not a task.                                                             *)
InRun(t) == IF t = Worker THEN wpc = "run" ELSE pc[t] = "inlineRun"
Running == {t \in Threads : InRun(t) /\ cur[t] \in Tasks}
SeqElems(s) == {s[i] : i \in DOMAIN s}

RunnerFinished == doneInline \cup SeqElems(ran)
RunnerAccepted == Tasks \ (fresh \cup RunnerFinished \cup {cur[t] : t \in Running})
RunnerRunning == IF Running = {} THEN Nobody ELSE cur[CHOOSE t \in Running : TRUE]

Runner == INSTANCE TaskRunner WITH
    None <- Nobody, accepted <- RunnerAccepted, running <- RunnerRunning, finished <- RunnerFinished

RunnerSpec == Runner!Spec
=============================================================================
