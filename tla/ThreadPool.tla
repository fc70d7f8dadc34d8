----------------------------- MODULE ThreadPool -----------------------------
(***************************************************************************)
(* searchserver/ThreadPool.cpp: a work queue guarded by a mutex and one    *)
(* condition variable, worker threads that drain it, and the thread that   *)
(* owns the pool (it constructs it, dispatches to it and destroys it).     *)
(***************************************************************************)
EXTENDS Naturals, Sequences, FiniteSets

CONSTANTS
    Workers,    \* the threads the constructor is asked to start
    Tasks,      \* the tasks the owner may dispatch, each at most once
    Main,       \* the owning thread, as a holder of the mutex
    Free,       \* m_mtx is held by nobody
    NoTask      \* a worker's local t before it has taken a task

ASSUME PoolAssumption ==
    /\ Main \notin Workers /\ Free \notin Workers /\ Main # Free
    /\ NoTask \notin Tasks
    /\ IsFiniteSet(Workers) /\ Workers # {}

VARIABLES
    mtx,            \* m_mtx: the thread that holds it, or Free
    killthreads,    \* m_killthreads
    queue,          \* m_work_queue
    wpc,            \* where each worker is in ThreadLoop
    task,           \* each worker's local t
    mpc,            \* where the owner is in the pool's life
    sent,           \* the tasks dispatched so far
    done            \* the tasks whose function has returned

vars == <<mtx, killthreads, queue, wpc, task, mpc, sent, done>>

WorkerSteps ==
    {"unborn", "lock", "test", "block", "wait", "run", "exited"}
MainSteps == {"constructing", "unwinding", "ready", "dispatching",
              "destroying", "joining", "gone"}

-----------------------------------------------------------------------------
Init ==
    /\ mtx = Free
    /\ killthreads = FALSE
    /\ queue = <<>>
    /\ wpc = [w \in Workers |-> "unborn"]
    /\ task = [w \in Workers |-> NoTask]
    /\ mpc = "constructing"
    /\ sent = {}
    /\ done = {}

Waiting == {w \in Workers : wpc[w] = "wait"}

-----------------------------------------------------------------------------
(* Faulty variants of the steps below, one plausible slip each: the runs   *)
(* are shown to notice every one of them.                                  *)

Finish_ClearsFirst(w) ==    \* t is reset before the task is recorded
    /\ wpc[w] = "run"
    /\ done' = done \cup {NoTask}
    /\ task' = [task EXCEPT ![w] = NoTask]
    /\ wpc' = [wpc EXCEPT ![w] = "lock"]
    /\ UNCHANGED <<mtx, killthreads, queue, mpc, sent>>

Take_KeepsLock(w) ==        \* the task runs inside the critical section
    /\ wpc[w] = "test"
    /\ queue # <<>>
    /\ task' = [task EXCEPT ![w] = Head(queue)]
    /\ queue' = Tail(queue)
    /\ wpc' = [wpc EXCEPT ![w] = "run"]
    /\ UNCHANGED <<mtx, killthreads, mpc, sent, done>>

Take_NoPop(w) ==            \* pop_front is forgotten
    /\ wpc[w] = "test"
    /\ queue # <<>>
    /\ task' = [task EXCEPT ![w] = Head(queue)]
    /\ mtx' = Free
    /\ wpc' = [wpc EXCEPT ![w] = "run"]
    /\ UNCHANGED <<queue, killthreads, mpc, sent, done>>

Take_Back(w) ==             \* back / pop_back instead of front / pop_front
    /\ wpc[w] = "test"
    /\ queue # <<>>
    /\ task' = [task EXCEPT ![w] = queue[Len(queue)]]
    /\ queue' = SubSeq(queue, 1, Len(queue) - 1)
    /\ mtx' = Free
    /\ wpc' = [wpc EXCEPT ![w] = "run"]
    /\ UNCHANGED <<killthreads, mpc, sent, done>>

Exit_WithoutDraining(w) ==  \* a killed worker leaves the queue behind
    /\ wpc[w] = "test"
    /\ killthreads
    /\ mtx' = Free
    /\ wpc' = [wpc EXCEPT ![w] = "exited"]
    /\ UNCHANGED <<killthreads, queue, task, mpc, sent, done>>

DispatchLock_NoLock ==      \* the queue is changed without the mutex
    /\ mpc = "ready"
    /\ sent # Tasks
    /\ mpc' = "dispatching"
    /\ UNCHANGED <<mtx, killthreads, queue, wpc, task, sent, done>>

DestroyLock_NoLock ==       \* the flag is set without the mutex
    /\ mpc = "ready"
    /\ mpc' = "destroying"
    /\ UNCHANGED <<mtx, killthreads, queue, wpc, task, sent, done>>

NotifyOne_Forgotten == wpc' = wpc

NotifyAll_One ==            \* the destructor wakes a single worker
    IF Waiting = {}
    THEN wpc' = wpc
    ELSE \E w \in Waiting : wpc' = [wpc EXCEPT ![w] = "lock"]

Join_Detaches ==            \* std::thread detached on unwinding
    /\ mpc \in {"joining", "unwinding"}
    /\ mpc = "joining" => \A w \in Workers : wpc[w] \in {"unborn", "exited"}
    /\ mpc' = "gone"
    /\ UNCHANGED <<mtx, killthreads, queue, wpc, task, sent, done>>

-----------------------------------------------------------------------------
(* The constructor.  Every emplace_back starts one thread.                 *)
Spawn(w) ==
    /\ mpc = "constructing"
    /\ wpc[w] = "unborn"
    /\ wpc' = [wpc EXCEPT ![w] = "lock"]
    /\ UNCHANGED <<mtx, killthreads, queue, task, mpc, sent, done>>

(* The thread library may refuse a thread: emplace_back throws and the     *)
(* members are destroyed, m_thread_vec (whose jthreads join) first.  The   *)
(* body of ~ThreadPool does not run.                                       *)
SpawnFails ==
    /\ mpc = "constructing"
    /\ \E w \in Workers : wpc[w] = "unborn"
    /\ mpc' = "unwinding"
    /\ UNCHANGED <<mtx, killthreads, queue, wpc, task, sent, done>>

Constructed ==
    /\ mpc = "constructing"
    /\ \A w \in Workers : wpc[w] # "unborn"
    /\ mpc' = "ready"
    /\ UNCHANGED <<mtx, killthreads, queue, wpc, task, sent, done>>

-----------------------------------------------------------------------------
(* ThreadLoop.  In "test" and "block" the worker holds the mutex: it is    *)
(* about to evaluate the wait's predicate, or has found it false and is    *)
(* about to sleep.  "wait" is asleep, the mutex released.                  *)
Acquire(w) ==
    /\ wpc[w] = "lock"
    /\ mtx = Free
    /\ mtx' = w
    /\ wpc' = [wpc EXCEPT ![w] = "test"]
    /\ UNCHANGED <<killthreads, queue, task, mpc, sent, done>>

FindNothing(w) ==
    /\ wpc[w] = "test"
    /\ ~killthreads /\ queue = <<>>
    /\ wpc' = [wpc EXCEPT ![w] = "block"]
    /\ UNCHANGED <<mtx, killthreads, queue, task, mpc, sent, done>>

Wait(w) ==
    /\ wpc[w] = "block"
    /\ mtx' = Free
    /\ wpc' = [wpc EXCEPT ![w] = "wait"]
    /\ UNCHANGED <<killthreads, queue, task, mpc, sent, done>>

(* A condition variable may wake a waiter that nobody notified.            *)
SpuriousWake(w) ==
    /\ wpc[w] = "wait"
    /\ wpc' = [wpc EXCEPT ![w] = "lock"]
    /\ UNCHANGED <<mtx, killthreads, queue, task, mpc, sent, done>>

Exit(w) ==
    /\ wpc[w] = "test"
    /\ killthreads /\ queue = <<>>
    /\ mtx' = Free
    /\ wpc' = [wpc EXCEPT ![w] = "exited"]
    /\ UNCHANGED <<killthreads, queue, task, mpc, sent, done>>

Take(w) ==
    /\ wpc[w] = "test"
    /\ queue # <<>>
    /\ task' = [task EXCEPT ![w] = Head(queue)]
    /\ queue' = Tail(queue)
    /\ mtx' = Free
    /\ wpc' = [wpc EXCEPT ![w] = "run"]
    /\ UNCHANGED <<killthreads, mpc, sent, done>>

(* t.func(t.arg) returns; the next iteration starts with a fresh t.        *)
Finish(w) ==
    /\ wpc[w] = "run"
    /\ done' = done \cup {task[w]}
    /\ task' = [task EXCEPT ![w] = NoTask]
    /\ wpc' = [wpc EXCEPT ![w] = "lock"]
    /\ UNCHANGED <<mtx, killthreads, queue, mpc, sent>>

-----------------------------------------------------------------------------
(* Dispatch: lock, then push_back and notify_one before the unlock.        *)
DispatchLock ==
    /\ mpc = "ready"
    /\ sent # Tasks
    /\ mtx = Free
    /\ mtx' = Main
    /\ mpc' = "dispatching"
    /\ UNCHANGED <<killthreads, queue, wpc, task, sent, done>>

(* notify_one makes one waiter, any of them, compete for the mutex.        *)
NotifyOne ==
    IF Waiting = {}
    THEN wpc' = wpc
    ELSE \E w \in Waiting : wpc' = [wpc EXCEPT ![w] = "lock"]

NotifyAll ==
    wpc' = [w \in Workers |-> IF w \in Waiting THEN "lock" ELSE wpc[w]]

DispatchPush(t) ==
    /\ mpc = "dispatching"
    /\ t \notin sent
    /\ queue' = Append(queue, t)
    /\ sent' = sent \cup {t}
    /\ NotifyOne
    /\ mtx' = Free
    /\ mpc' = "ready"
    /\ UNCHANGED <<killthreads, task, done>>

(* ~ThreadPool: lock, then set the flag and notify_all before the unlock   *)
(* at the end of the body; the members are destroyed after the body.       *)
DestroyLock ==
    /\ mpc = "ready"
    /\ mtx = Free
    /\ mtx' = Main
    /\ mpc' = "destroying"
    /\ UNCHANGED <<killthreads, queue, wpc, task, sent, done>>

DestroyKill ==
    /\ mpc = "destroying"
    /\ killthreads' = TRUE
    /\ NotifyAll
    /\ mtx' = Free
    /\ mpc' = "joining"
    /\ UNCHANGED <<queue, task, sent, done>>

(* The jthreads of m_thread_vec have all been joined.                      *)
Join ==
    /\ mpc \in {"joining", "unwinding"}
    /\ \A w \in Workers : wpc[w] \in {"unborn", "exited"}
    /\ mpc' = "gone"
    /\ UNCHANGED <<mtx, killthreads, queue, wpc, task, sent, done>>

-----------------------------------------------------------------------------
WorkerStep(w) ==
    \/ Acquire(w) \/ FindNothing(w) \/ Wait(w) \/ SpuriousWake(w)
    \/ Exit(w) \/ Take(w) \/ Finish(w)

Next ==
    \/ SpawnFails \/ Constructed \/ DispatchLock \/ DestroyLock
    \/ DestroyKill \/ Join
    \/ \E w \in Workers : Spawn(w) \/ WorkerStep(w)
    \/ \E t \in Tasks : DispatchPush(t)

Spec == Init /\ [][Next]_vars

(* The scheduler runs every thread that can run, the mutex is granted to a *)
(* thread that keeps asking, and a task function returns.  Nothing forces  *)
(* the owner to dispatch, or to destroy the pool, or a waiter to wake.     *)
Fairness ==
    /\ \A w \in Workers :
        /\ SF_vars(Acquire(w))
        /\ WF_vars(FindNothing(w) \/ Wait(w) \/ Exit(w)
                   \/ Take(w) \/ Finish(w))
    /\ WF_vars(DestroyKill) /\ WF_vars(Join)
    /\ WF_vars(\E t \in Tasks : DispatchPush(t))

FairSpec == Spec /\ Fairness

-----------------------------------------------------------------------------
TypeOK ==
    /\ mtx \in Workers \cup {Main, Free}
    /\ killthreads \in BOOLEAN
    /\ queue \in Seq(Tasks)
    /\ wpc \in [Workers -> WorkerSteps]
    /\ task \in [Workers -> Tasks \cup {NoTask}]
    /\ \A w \in Workers : wpc[w] = "run" <=> task[w] # NoTask
    /\ mpc \in MainSteps
    /\ sent \subseteq Tasks
    /\ done \subseteq Tasks

Queued == {queue[i] : i \in 1 .. Len(queue)}
Running == {task[w] : w \in {v \in Workers : wpc[v] = "run"}}
Awake == {w \in Workers : wpc[w] \in {"lock", "test"}}

(* The critical sections of ThreadLoop, Dispatch and the destructor are    *)
(* exclusive, and a blocked or running worker never keeps the mutex.       *)
MutexDiscipline ==
    /\ \A w \in Workers : wpc[w] \in {"test", "block"} <=> mtx = w
    /\ mpc \in {"dispatching", "destroying"} <=> mtx = Main

(* "a free thread picks up each task and runs it" (ThreadPool.hpp:14): a   *)
(* dispatched task is in exactly one place (once in the queue, or with one *)
(* worker, or finished), so none is lost and none is run twice.            *)
EachTaskOnce ==
    /\ sent = Queued \cup Running \cup done
    /\ Queued \cap Running = {}
    /\ (Queued \cup Running) \cap done = {}
    /\ \A i, j \in 1 .. Len(queue) : queue[i] = queue[j] => i = j
    /\ \A v, w \in Workers :
        wpc[v] = "run" /\ wpc[w] = "run" /\ task[v] = task[w] => v = w

(* "joins all threads after draining remaining tasks" (ThreadPool.hpp:20): *)
(* when the destructor has returned nothing that was dispatched is undone. *)
Drained == mpc = "gone" => done = sent

(* No wake-up is lost: while a worker sleeps, there are at least as many   *)
(* workers on their way to the queue as there are tasks in it.  One        *)
(* notify_one per push is therefore enough to use every idle worker.       *)
NoLostWakeup == Waiting # {} => Cardinality(Awake) >= Len(queue)

(* No worker is asleep once the destructor has told them to stop: a sleeper *)
(* would never be notified again and the join would wait for ever.         *)
NobodySleepsThroughKill == killthreads => Waiting = {}

(* A constructor that fails after it has started a thread never gives up   *)
(* control: nobody sets m_killthreads, so the started jthreads are never   *)
(* joinable.  Only a constructor whose first thread fails can return.      *)
FailedConstructorReturnsOnlyIfNothingStarted ==
    [][mpc = "unwinding" /\ mpc' = "gone" =>
        \A w \in Workers : wpc[w] = "unborn"]_vars

(* Every dispatched task is eventually run, whether or not the owner ever  *)
(* destroys the pool.                                                      *)
EveryTaskRuns == \A t \in Tasks : t \in sent ~> t \in done

(* Once the destructor has been entered it returns.                        *)
DestructorReturns == mpc = "destroying" ~> mpc = "gone"
(* The pool implements TaskPool: the queue is its pending tasks, a worker  *)
(* in "run" holds an active one, and the owner's life is its phase.        *)
Phase ==
    CASE mpc \in {"constructing", "unwinding"} -> "building"
      [] mpc \in {"ready", "dispatching", "destroying"} -> "open"
      [] mpc = "joining" -> "closed"
      [] mpc = "gone" -> "gone"

Abstract == INSTANCE TaskPool
    WITH Capacity <- Cardinality(Workers),
         pending <- queue, active <- Running, finished <- done,
         phase <- Phase

(* Every behaviour of the pool is one of TaskPool: tasks start in the      *)
(* order of Dispatch, run once, and the destructor returns only when the   *)
(* queue is drained and no task function is still running.                 *)
ImplementsTaskPool == Abstract!Spec

(* With the scheduler's fairness the pool also keeps TaskPool's progress   *)
(* promises: a task starts as soon as fewer run than there are workers.    *)
ImplementsFairTaskPool == Abstract!FairSpec
=============================================================================
