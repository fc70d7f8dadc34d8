-------------------------- MODULE ThreadPoolProofs --------------------------
(***************************************************************************)
(* What ThreadPool's runs check on three workers and three tasks, proved   *)
(* for any finite, nonempty set of workers and any set of tasks.           *)
(***************************************************************************)
EXTENDS ThreadPool, FiniteSetTheorems, SequenceTheorems, TLAPS

Elements(q) == {q[i] : i \in 1 .. Len(q)}
Injective(q) == \A i, j \in 1 .. Len(q) : q[i] = q[j] => i = j

-----------------------------------------------------------------------------
(* push_back adds the task to the queue's elements, and keeps them         *)
(* distinct if it is not among them.                                       *)
LEMMA PushBack ==
    ASSUME NEW S, NEW q \in Seq(S), NEW t \in S
    PROVE  /\ Append(q, t) \in Seq(S)
           /\ Elements(Append(q, t)) = Elements(q) \cup {t}
           /\ Injective(q) /\ t \notin Elements(q) => Injective(Append(q, t))
<1> DEFINE p == Append(q, t)
<1>1. /\ p \in Seq(S) /\ Len(p) = Len(q) + 1 /\ Len(q) \in Nat
      /\ \A i \in 1 .. Len(q) : p[i] = q[i]
      /\ p[Len(q) + 1] = t
  BY AppendProperties, LenProperties
<1>2. 1 .. Len(p) = 1 .. Len(q) \cup {Len(q) + 1}
  BY <1>1
<1> HIDE DEF p
<1>3. Elements(p) = Elements(q) \cup {t}
  BY <1>1, <1>2 DEF Elements
<1>4. Injective(q) /\ t \notin Elements(q) => Injective(p)
  BY <1>1, <1>2 DEF Elements, Injective
<1> QED  BY <1>1, <1>3, <1>4 DEF p

(* front and pop_front split the elements into the first and the others.   *)
LEMMA PopFront ==
    ASSUME NEW S, NEW q \in Seq(S), q # <<>>
    PROVE  /\ Tail(q) \in Seq(S) /\ Head(q) \in S
           /\ Elements(q) = {Head(q)} \cup Elements(Tail(q))
           /\ Injective(q) => /\ Head(q) \notin Elements(Tail(q))
                              /\ Injective(Tail(q))
<1> DEFINE p == Tail(q)
<1>1. /\ p \in Seq(S) /\ Head(q) \in S /\ Head(q) = q[1]
      /\ Len(q) \in Nat /\ Len(q) > 0 /\ Len(p) = Len(q) - 1
      /\ \A i \in 1 .. Len(p) : p[i] = q[i + 1]
  BY HeadTailProperties, LenProperties, EmptySeq
<1> HIDE DEF p
<1>2. Elements(q) = {Head(q)} \cup Elements(p)
  <2>1. \A x \in Elements(q) : x = Head(q) \/ x \in Elements(p)
    <3> SUFFICES ASSUME NEW i \in 1 .. Len(q), i # 1
                 PROVE  q[i] \in Elements(p)
      BY <1>1 DEF Elements
    <3>1. i - 1 \in 1 .. Len(p) /\ p[i - 1] = q[i]
      BY <1>1
    <3> QED  BY <3>1 DEF Elements
  <2>2. \A x \in Elements(p) : x \in Elements(q)
    <3> SUFFICES ASSUME NEW i \in 1 .. Len(p) PROVE p[i] \in Elements(q)
      BY DEF Elements
    <3>1. i + 1 \in 1 .. Len(q) /\ p[i] = q[i + 1]
      BY <1>1
    <3> QED  BY <3>1 DEF Elements
  <2>3. Head(q) \in Elements(q)
    BY <1>1 DEF Elements
  <2> QED  BY <2>1, <2>2, <2>3
<1>3. ASSUME Injective(q) PROVE Head(q) \notin Elements(p) /\ Injective(p)
  <2>1. \A i \in 1 .. Len(p) : i + 1 \in 1 .. Len(q) /\ p[i] = q[i + 1]
    BY <1>1
  <2>2. \A i \in 1 .. Len(p) : p[i] # q[1]
    BY <1>1, <1>3, <2>1 DEF Injective
  <2>3. Injective(p)
    BY <1>1, <1>3, <2>1 DEF Injective
  <2> QED  BY <1>1, <2>2, <2>3 DEF Elements
<1> QED  BY <1>1, <1>2, <1>3 DEF p

-----------------------------------------------------------------------------
(* Every variable of the pool keeps its type.                              *)
THEOREM TypeCorrect == Spec => []TypeOK
<1>1. Init => TypeOK
  <2> SUFFICES ASSUME Init PROVE TypeOK
    OBVIOUS
  <2>1. queue \in Seq(Tasks)
    BY EmptySeq DEF Init
  <2>2. killthreads \in BOOLEAN
    BY DEF Init
  <2> QED  BY <2>1, <2>2 DEF Init, TypeOK, WorkerSteps, MainSteps
<1>2. TypeOK /\ [Next]_vars => TypeOK'
  <2> SUFFICES ASSUME TypeOK, [Next]_vars PROVE TypeOK'
    OBVIOUS
  <2> USE DEF TypeOK, WorkerSteps, MainSteps
  <2>1. CASE UNCHANGED vars
    BY <2>1 DEF vars
  <2>2. CASE SpawnFails \/ Constructed \/ DispatchLock \/ DestroyLock \/ Join
    BY <2>2 DEF SpawnFails, Constructed, DispatchLock, DestroyLock, Join
  <2>3. CASE DestroyKill
    BY <2>3 DEF DestroyKill, NotifyAll, Waiting
  <2>4. ASSUME NEW w \in Workers, Take(w) PROVE TypeOK'
    <3>1. Tail(queue) \in Seq(Tasks) /\ Head(queue) \in Tasks
      BY <2>4, PopFront DEF Take
    <3>2. Head(queue) # NoTask
      BY <3>1, PoolAssumption
    <3> QED  BY <2>4, <3>1, <3>2 DEF Take
  <2>5. ASSUME NEW w \in Workers, Finish(w) PROVE TypeOK'
    BY <2>5 DEF Finish
  <2>6. ASSUME NEW w \in Workers,
               Spawn(w) \/ Acquire(w) \/ FindNothing(w) \/ Wait(w)
                   \/ SpuriousWake(w) \/ Exit(w)
        PROVE  TypeOK'
    BY <2>6 DEF Spawn, Acquire, FindNothing, Wait, SpuriousWake, Exit
  <2>7. ASSUME NEW t \in Tasks, DispatchPush(t) PROVE TypeOK'
    <3>1. queue' \in Seq(Tasks)
      BY <2>7, PushBack DEF DispatchPush
    <3>2. /\ wpc' \in [Workers -> WorkerSteps]
          /\ \A w \in Workers : wpc'[w] = "run" <=> wpc[w] = "run"
      BY <2>7 DEF DispatchPush, NotifyOne, Waiting
    <3> QED  BY <2>7, <3>1, <3>2 DEF DispatchPush
  <2> QED
    BY <2>1, <2>2, <2>3, <2>4, <2>5, <2>6, <2>7 DEF Next, WorkerStep
<1> QED  BY <1>1, <1>2, PTL DEF Spec

-----------------------------------------------------------------------------
(* At most one thread is in a critical section of the pool, and a blocked  *)
(* or running worker does not hold the mutex.                              *)
THEOREM MutexHeldByOne == Spec => []MutexDiscipline
<1>1. Init => MutexDiscipline
  BY PoolAssumption DEF Init, MutexDiscipline
<1>2. TypeOK /\ MutexDiscipline /\ [Next]_vars => MutexDiscipline'
  <2> SUFFICES ASSUME TypeOK, MutexDiscipline, [Next]_vars
               PROVE  MutexDiscipline'
    OBVIOUS
  <2> USE PoolAssumption DEF TypeOK, MutexDiscipline
  <2>1. CASE UNCHANGED vars
    BY <2>1 DEF vars
  <2>2. CASE SpawnFails \/ Constructed \/ DispatchLock \/ DestroyLock \/ Join
    BY <2>2 DEF SpawnFails, Constructed, DispatchLock, DestroyLock, Join
  <2>3. CASE DestroyKill
    BY <2>3 DEF DestroyKill, NotifyAll, Waiting
  <2>4. ASSUME NEW w \in Workers, Spawn(w) \/ WorkerStep(w)
        PROVE  MutexDiscipline'
    BY <2>4 DEF Spawn, WorkerStep, Acquire, FindNothing, Wait, SpuriousWake,
                Exit, Take, Finish
  <2>5. ASSUME NEW t \in Tasks, DispatchPush(t) PROVE MutexDiscipline'
    BY <2>5 DEF DispatchPush, NotifyOne, Waiting
  <2> QED  BY <2>1, <2>2, <2>3, <2>4, <2>5 DEF Next
<1> QED  BY <1>1, <1>2, TypeCorrect, PTL DEF Spec

-----------------------------------------------------------------------------
(* How far a worker can be, given how far the owner is.  A worker that has *)
(* found the queue empty is right until it sleeps (nobody else can have    *)
(* the mutex), and one that has exited has left an empty queue behind,     *)
(* which stays empty since the owner no longer dispatches.                 *)
Lifecycle ==
    /\ mpc \in {"constructing", "unwinding"} => sent = {}
    /\ killthreads => mpc \in {"joining", "gone"}
    /\ mpc = "joining" => killthreads
    /\ \A w \in Workers :
        /\ wpc[w] = "unborn" => mpc \in {"constructing", "unwinding", "gone"}
        /\ wpc[w] = "block" => ~killthreads /\ queue = <<>>
        /\ wpc[w] = "exited" => killthreads /\ queue = <<>>
        /\ mpc = "gone" => wpc[w] = "exited" \/ sent = {}

(* Every step of the workers and of the owner keeps it.                    *)
LEMMA LifecycleInductive ==
    TypeOK /\ MutexDiscipline /\ Lifecycle /\ [Next]_vars => Lifecycle'
<1> SUFFICES ASSUME TypeOK, MutexDiscipline, Lifecycle, [Next]_vars
             PROVE  Lifecycle'
  OBVIOUS
<1> USE PoolAssumption DEF TypeOK, MutexDiscipline, Lifecycle
<1>1. CASE UNCHANGED vars
  BY <1>1 DEF vars
<1>2. CASE SpawnFails \/ Constructed \/ DispatchLock \/ DestroyLock
  BY <1>2 DEF SpawnFails, Constructed, DispatchLock, DestroyLock
<1>3. CASE DestroyKill
  BY <1>3 DEF DestroyKill, NotifyAll, Waiting
<1>4. CASE Join
  BY <1>4 DEF Join
<1>5. ASSUME NEW w \in Workers, Take(w) PROVE Lifecycle'
  <2>1. \A v \in Workers : wpc[v] # "block" /\ wpc[v] # "exited"
    BY <1>5 DEF Take
  <2> QED  BY <1>5, <2>1 DEF Take
<1>6. ASSUME NEW w \in Workers, Spawn(w) \/ Acquire(w) \/ FindNothing(w)
                 \/ Wait(w) \/ SpuriousWake(w) \/ Exit(w) \/ Finish(w)
      PROVE  Lifecycle'
  BY <1>6 DEF Spawn, Acquire, FindNothing, Wait, SpuriousWake, Exit, Finish
<1>7. ASSUME NEW t \in Tasks, DispatchPush(t) PROVE Lifecycle'
  <2>1. mpc = "dispatching" /\ mpc' = "ready" /\ killthreads' = killthreads
    BY <1>7 DEF DispatchPush
  <2>2. ~killthreads
    BY <2>1
  <2>3. \A v \in Workers : wpc[v] \notin {"block", "exited", "unborn"}
    BY <2>1, <2>2
  <2>4. \A v \in Workers : wpc'[v] \notin {"block", "exited", "unborn"}
    BY <1>7, <2>3 DEF DispatchPush, NotifyOne, Waiting
  <2> QED  BY <2>1, <2>2, <2>4
<1> QED  BY <1>1, <1>2, <1>3, <1>4, <1>5, <1>6, <1>7 DEF Next, WorkerStep

(* The owner's life, the kill flag and the workers' steps fit together.    *)
THEOREM LifecycleHolds == Spec => []Lifecycle
<1>1. Init => Lifecycle
  BY DEF Init, Lifecycle
<1> QED
  BY <1>1, LifecycleInductive, TypeCorrect, MutexHeldByOne, PTL DEF Spec

-----------------------------------------------------------------------------
(* A dispatched task is queued once, or with one worker, or finished.      *)
THEOREM NoTaskLostOrRunTwice == Spec => []EachTaskOnce
<1> USE DEF EachTaskOnce
<1>1. Init => EachTaskOnce
  BY DEF Init, Queued, Running
<1>2. TypeOK /\ EachTaskOnce /\ [Next]_vars => EachTaskOnce'
  <2> SUFFICES ASSUME TypeOK, EachTaskOnce, [Next]_vars PROVE EachTaskOnce'
    OBVIOUS
  <2> USE DEF TypeOK
  <2>0. ASSUME UNCHANGED <<queue, task, sent, done>>,
               \A w \in Workers : wpc'[w] = "run" <=> wpc[w] = "run"
        PROVE  EachTaskOnce'
    <3>1. Running' = Running /\ Queued' = Queued
      BY <2>0 DEF Running, Queued
    <3> QED  BY <2>0, <3>1
  <2>1. CASE UNCHANGED vars
    BY <2>0, <2>1 DEF vars
  <2>2. CASE SpawnFails \/ Constructed \/ DispatchLock \/ DestroyLock \/ Join
    BY <2>0, <2>2 DEF SpawnFails, Constructed, DispatchLock, DestroyLock, Join
  <2>3. CASE DestroyKill
    BY <2>0, <2>3 DEF DestroyKill, NotifyAll, Waiting
  <2>4. ASSUME NEW w \in Workers, Spawn(w) \/ Acquire(w) \/ FindNothing(w)
                   \/ Wait(w) \/ SpuriousWake(w) \/ Exit(w)
        PROVE  EachTaskOnce'
    BY <2>0, <2>4 DEF Spawn, Acquire, FindNothing, Wait, SpuriousWake, Exit
  <2>5. ASSUME NEW w \in Workers, Take(w) PROVE EachTaskOnce'
    <3> DEFINE t == Head(queue)
    <3>0. Queued = Elements(queue) /\ Queued' = Elements(queue')
      BY DEF Queued, Elements
    <3>a. queue' = Tail(queue) /\ queue # <<>> /\ Injective(queue)
      BY <2>5 DEF Take, Injective
    <3>b. /\ Queued = {t} \cup Queued'
          /\ t \notin Queued' /\ t \in Tasks /\ Injective(queue')
      BY <3>0, <3>a, PopFront
    <3>1. /\ Queued = {t} \cup Queued'
          /\ t \notin Queued' /\ t \in Tasks
          /\ \A i, j \in 1 .. Len(queue') : queue'[i] = queue'[j] => i = j
      BY <3>b DEF Injective
    <3>2. Running' = Running \cup {t}
      BY <2>5 DEF Take, Running
    <3>3. \A v \in Workers : wpc[v] = "run" => task[v] # t
      BY <3>1 DEF Running
    <3> HIDE DEF t
    <3>4. \A u, v \in Workers :
            wpc'[u] = "run" /\ wpc'[v] = "run" /\ task'[u] = task'[v] => u = v
      BY <2>5, <3>3 DEF Take, t
    <3>5. sent' = sent /\ done' = done
      BY <2>5 DEF Take
    <3>6. t \notin Running /\ t \notin done
      BY <3>1
    <3> QED  BY <3>1, <3>2, <3>4, <3>5, <3>6
  <2>6. ASSUME NEW w \in Workers, Finish(w) PROVE EachTaskOnce'
    <3>1. /\ Queued' = Queued /\ sent' = sent /\ queue' = queue
          /\ done' = done \cup {task[w]}
      BY <2>6 DEF Finish, Queued
    <3>2. Running = Running' \cup {task[w]} /\ task[w] \notin Running'
      BY <2>6 DEF Finish, Running
    <3>3. \A u, v \in Workers :
            wpc'[u] = "run" /\ wpc'[v] = "run" /\ task'[u] = task'[v] => u = v
      BY <2>6 DEF Finish
    <3> QED  BY <3>1, <3>2, <3>3
  <2>7. ASSUME NEW t \in Tasks, DispatchPush(t) PROVE EachTaskOnce'
    <3>1. \A w \in Workers : wpc'[w] = "run" <=> wpc[w] = "run"
      BY <2>7 DEF DispatchPush, NotifyOne, Waiting
    <3>2. Running' = Running /\ t \notin sent /\ sent' = sent \cup {t}
          /\ done' = done /\ task' = task
      BY <2>7, <3>1 DEF DispatchPush, Running
    <3>a. Queued = Elements(queue) /\ Queued' = Elements(queue')
      BY DEF Queued, Elements
    <3>b. /\ queue' = Append(queue, t) /\ Injective(queue)
          /\ t \notin Elements(queue)
      BY <2>7, <3>2, <3>a DEF DispatchPush, Injective
    <3>c. Queued' = Queued \cup {t} /\ Injective(queue')
      BY <3>a, <3>b, PushBack
    <3>3. /\ Queued' = Queued \cup {t}
          /\ \A i, j \in 1 .. Len(queue') : queue'[i] = queue'[j] => i = j
      BY <3>c DEF Injective
    <3> QED  BY <3>1, <3>2, <3>3
  <2> QED
    BY <2>1, <2>2, <2>3, <2>4, <2>5, <2>6, <2>7 DEF Next, WorkerStep
<1> QED  BY <1>1, <1>2, TypeCorrect, PTL DEF Spec

(* When the destructor has returned, every dispatched task has run.        *)
THEOREM DestructorDrains == Spec => []Drained
<1>1. TypeOK /\ Lifecycle /\ EachTaskOnce => Drained
  <2> SUFFICES ASSUME TypeOK, Lifecycle, EachTaskOnce, mpc = "gone"
               PROVE  done = sent
    BY DEF Drained
  <2>1. CASE sent = {}
    BY <2>1 DEF EachTaskOnce
  <2>2. CASE sent # {}
    <3>1. \A w \in Workers : wpc[w] = "exited" /\ queue = <<>>
      BY <2>2 DEF Lifecycle
    <3>2. Running = {}
      BY <3>1 DEF Running
    <3>3. Queued = {}
      BY <3>1, PoolAssumption DEF Queued
    <3> QED  BY <3>2, <3>3 DEF EachTaskOnce
  <2> QED  BY <2>1, <2>2
<1> QED
  BY <1>1, TypeCorrect, LifecycleHolds, NoTaskLostOrRunTwice, PTL

(* A constructor that fails lets go of its caller only if none of its      *)
(* threads had started: one that had would have to exit, which takes the   *)
(* flag that only the destructor sets.                                     *)
THEOREM FailedConstructorHangs == Spec => FailedConstructorReturnsOnlyIfNothingStarted
<1> DEFINE Unstarted ==
        mpc = "unwinding" /\ mpc' = "gone" => \A w \in Workers : wpc[w] = "unborn"
<1>1. Lifecycle /\ [Next]_vars => Unstarted
  <2> SUFFICES ASSUME Lifecycle, [Next]_vars, mpc = "unwinding", mpc' = "gone",
                      NEW w \in Workers
               PROVE  wpc[w] = "unborn"
    OBVIOUS
  <2>1. Join
    BY DEF Next, vars, SpawnFails, Constructed, DispatchLock, DestroyLock,
        DestroyKill, Spawn, WorkerStep, Acquire, FindNothing, Wait, SpuriousWake,
        Exit, Take, Finish, DispatchPush
  <2>2. wpc[w] # "exited"
    BY DEF Lifecycle
  <2> QED  BY <2>1, <2>2 DEF Join
<1> QED
  BY <1>1, LifecycleHolds, PTL DEF Spec, FailedConstructorReturnsOnlyIfNothingStarted

(* After notify_all of the destructor no worker is asleep, or goes to      *)
(* sleep.                                                                  *)
THEOREM NoSleeperMissesKill == Spec => []NobodySleepsThroughKill
<1> USE DEF NobodySleepsThroughKill, Waiting
<1>1. Init => NobodySleepsThroughKill
  BY DEF Init
<1>2. TypeOK /\ Lifecycle /\ NobodySleepsThroughKill /\ [Next]_vars
        => NobodySleepsThroughKill'
  <2> SUFFICES ASSUME TypeOK, Lifecycle, NobodySleepsThroughKill, [Next]_vars
               PROVE  NobodySleepsThroughKill'
    OBVIOUS
  <2> USE DEF TypeOK
  <2>1. CASE UNCHANGED vars
    BY <2>1 DEF vars
  <2>2. CASE SpawnFails \/ Constructed \/ DispatchLock \/ DestroyLock \/ Join
    BY <2>2 DEF SpawnFails, Constructed, DispatchLock, DestroyLock, Join
  <2>3. CASE DestroyKill
    BY <2>3 DEF DestroyKill, NotifyAll
  <2>4. ASSUME NEW w \in Workers, Spawn(w) \/ WorkerStep(w)
        PROVE  NobodySleepsThroughKill'
    BY <2>4 DEF Lifecycle, Spawn, WorkerStep, Acquire, FindNothing, Wait,
                SpuriousWake, Exit, Take, Finish
  <2>5. ASSUME NEW t \in Tasks, DispatchPush(t)
        PROVE  NobodySleepsThroughKill'
    BY <2>5 DEF DispatchPush, NotifyOne
  <2> QED  BY <2>1, <2>2, <2>3, <2>4, <2>5 DEF Next
<1> QED  BY <1>1, <1>2, TypeCorrect, LifecycleHolds, PTL DEF Spec

-----------------------------------------------------------------------------
LEMMA AwakeFinite ==
    ASSUME TypeOK
    PROVE  /\ IsFiniteSet(Awake) /\ Cardinality(Awake) \in Nat
           /\ Len(queue) \in Nat
<1>1. Awake \subseteq Workers
  BY DEF Awake
<1>2. IsFiniteSet(Awake)
  BY <1>1, PoolAssumption, FS_Subset
<1> QED  BY <1>2, FS_CardinalityType, LenProperties DEF TypeOK

(* While a worker sleeps, as many workers as there are queued tasks are on *)
(* their way to the queue: notify_one for each push wakes enough of them.  *)
THEOREM NoWakeupIsLost == Spec => []NoLostWakeup
<1>1. Init => NoLostWakeup
  BY DEF Init, NoLostWakeup, Waiting
<1>2. TypeOK /\ TypeOK' /\ Lifecycle /\ NoLostWakeup /\ [Next]_vars
        => NoLostWakeup'
  <2> SUFFICES ASSUME TypeOK, TypeOK', Lifecycle, NoLostWakeup, [Next]_vars,
                      Waiting' # {}
               PROVE  Cardinality(Awake') >= Len(queue')
    BY DEF NoLostWakeup
  <2> USE DEF NoLostWakeup
  <2>0. /\ IsFiniteSet(Awake) /\ Cardinality(Awake) \in Nat
        /\ Len(queue) \in Nat
        /\ Cardinality(Awake') \in Nat /\ IsFiniteSet(Awake')
    <3>1. Awake' \subseteq Workers
      BY DEF Awake
    <3> QED  BY <3>1, AwakeFinite, PoolAssumption, FS_Subset, FS_CardinalityType
  <2>1. ASSUME Awake' = Awake, Waiting' \subseteq Waiting, queue' = queue
        PROVE  Cardinality(Awake') >= Len(queue')
    BY <2>1
  <2>2. ASSUME NEW w, w \notin Awake, Awake' = Awake \cup {w},
               Waiting # {}, Len(queue') <= Len(queue) + 1, Len(queue') \in Nat
        PROVE  Cardinality(Awake') >= Len(queue')
    <3>1. Cardinality(Awake') = Cardinality(Awake) + 1
      BY <2>0, <2>2, FS_AddElement
    <3> QED  BY <2>0, <2>2, <3>1
  <2>3. CASE UNCHANGED vars
    BY <2>1, <2>3 DEF vars, Awake, Waiting
  <2>4. CASE SpawnFails \/ Constructed \/ DispatchLock \/ DestroyLock \/ Join
    BY <2>1, <2>4 DEF SpawnFails, Constructed, DispatchLock, DestroyLock, Join,
                      Awake, Waiting
  <2>5. CASE DestroyKill
    BY <2>5 DEF DestroyKill, NotifyAll, Waiting, TypeOK
  <2>6. ASSUME NEW w \in Workers, Spawn(w) \/ SpuriousWake(w) \/ Finish(w)
        PROVE  Cardinality(Awake') >= Len(queue')
    <3>1. w \notin Awake /\ Awake' = Awake \cup {w} /\ queue' = queue
      BY <2>6 DEF Spawn, SpuriousWake, Finish, Awake, TypeOK
    <3>2. Waiting' \subseteq Waiting
      BY <2>6 DEF Spawn, SpuriousWake, Finish, Waiting, TypeOK
    <3>3. Waiting # {}
      BY <3>2
    <3>4. Len(queue') <= Len(queue) + 1 /\ Len(queue') \in Nat
      BY <2>0, <3>1
    <3> QED  BY <2>2, <3>1, <3>3, <3>4
  <2>7. ASSUME NEW w \in Workers, Acquire(w)
        PROVE  Cardinality(Awake') >= Len(queue')
    BY <2>1, <2>7 DEF Acquire, Awake, Waiting, TypeOK
  <2>8. ASSUME NEW w \in Workers, FindNothing(w) \/ Wait(w) \/ Exit(w)
        PROVE  Cardinality(Awake') >= Len(queue')
    <3>1. queue' = <<>>
      BY <2>8 DEF FindNothing, Wait, Exit, Lifecycle
    <3>2. Len(queue') = 0
      BY <3>1
    <3> QED  BY <2>0, <3>2
  <2>9. ASSUME NEW w \in Workers, Take(w)
        PROVE  Cardinality(Awake') >= Len(queue')
    <3>1. w \in Awake /\ Awake' = Awake \ {w} /\ Waiting' = Waiting
      BY <2>9 DEF Take, Awake, Waiting, TypeOK
    <3>2. Len(queue') = Len(queue) - 1
      BY <2>9, HeadTailProperties, LenProperties DEF Take, TypeOK
    <3>3. Cardinality(Awake') = Cardinality(Awake) - 1
      BY <2>0, <3>1, FS_RemoveElement
    <3> QED  BY <2>0, <3>1, <3>2, <3>3
  <2>10. ASSUME NEW t \in Tasks, DispatchPush(t)
         PROVE  Cardinality(Awake') >= Len(queue')
    <3>1. Waiting # {}
      BY <2>10 DEF DispatchPush, NotifyOne, Waiting
    <3>2. PICK w \in Waiting : wpc' = [wpc EXCEPT ![w] = "lock"]
      BY <2>10, <3>1 DEF DispatchPush, NotifyOne
    <3>3. w \notin Awake /\ Awake' = Awake \cup {w}
      BY <3>2 DEF Awake, Waiting, TypeOK
    <3>4. Len(queue') = Len(queue) + 1
      BY <2>10, AppendProperties DEF DispatchPush, TypeOK
    <3>5. Len(queue') <= Len(queue) + 1 /\ Len(queue') \in Nat
      BY <2>0, <3>4
    <3> QED  BY <2>2, <3>1, <3>3, <3>5
  <2> QED
    BY <2>3, <2>4, <2>5, <2>6, <2>7, <2>8, <2>9, <2>10 DEF Next, WorkerStep
<1> QED  BY <1>1, <1>2, TypeCorrect, LifecycleHolds, PTL DEF Spec

-----------------------------------------------------------------------------
(* While one worker is not running a task, fewer tasks run than there are  *)
(* workers.                                                                *)
LEMMA RunningBelowCapacity ==
    ASSUME TypeOK, NEW w \in Workers, wpc[w] # "run"
    PROVE  Cardinality(Running) < Cardinality(Workers)
<1> DEFINE R == {v \in Workers : wpc[v] = "run"}
           f == [v \in R |-> task[v]]
<1>1. /\ IsFiniteSet(Workers \ {w})
      /\ Cardinality(Workers \ {w}) = Cardinality(Workers) - 1
      /\ Cardinality(Workers) \in Nat
  BY PoolAssumption, FS_RemoveElement, FS_CardinalityType
<1>2. R \in SUBSET (Workers \ {w})
  OBVIOUS
<1>3. IsFiniteSet(R) /\ Cardinality(R) <= Cardinality(Workers \ {w})
  BY <1>1, <1>2, FS_Subset
<1>4. f \in Surjection(R, Running)
  BY DEF Surjection, Running
<1>5. IsFiniteSet(Running) /\ Cardinality(Running) <= Cardinality(R)
  BY <1>3, <1>4, FS_Surjection
<1>6. Cardinality(Running) \in Nat /\ Cardinality(R) \in Nat
  BY <1>3, <1>5, FS_CardinalityType
<1> HIDE DEF R
<1> QED  BY <1>1, <1>3, <1>5, <1>6

(* Every step of the pool is a step of TaskPool or leaves it alone: tasks  *)
(* start in the order of their dispatch, on at most as many threads as the *)
(* pool has, run once, and the pool lets go of its owner when all of them  *)
(* have run.                                                               *)
THEOREM PoolImplementsTaskPool == Spec => ImplementsTaskPool
<1>1. Init => Abstract!Init
  BY DEF Init, Abstract!Init, Running, Phase
<1>2. TypeOK /\ Lifecycle /\ EachTaskOnce /\ [Next]_vars
        => [Abstract!Next]_(Abstract!vars)
  <2> SUFFICES ASSUME TypeOK, Lifecycle, EachTaskOnce, [Next]_vars,
                      ~UNCHANGED Abstract!vars
               PROVE  Abstract!Next
    OBVIOUS
  <2>0. ASSUME \A w \in Workers : wpc'[w] = "run" <=> wpc[w] = "run",
               task' = task
        PROVE  Running' = Running
    BY <2>0 DEF Running
  <2>1. CASE UNCHANGED vars
    BY <2>1 DEF vars, Abstract!vars, Running, Phase
  <2>2. CASE SpawnFails \/ DispatchLock \/ DestroyLock
    BY <2>2 DEF SpawnFails, DispatchLock, DestroyLock, Abstract!vars, Running,
                Phase
  <2>3. CASE Constructed
    BY <2>3 DEF Constructed, Abstract!Next, Abstract!Open, Running, Phase
  <2>4. CASE DestroyKill
    <3>1. Running' = Running
      BY <2>0, <2>4 DEF DestroyKill, NotifyAll, Waiting, TypeOK
    <3> QED  BY <2>4, <3>1 DEF DestroyKill, Abstract!Next, Abstract!Close, Phase
  <2>5. CASE Join
    <3>1. Running' = Running /\ Running = {}
      BY <2>5 DEF Join, Running
    <3>2. CASE mpc = "unwinding"
      BY <2>5, <3>1, <3>2 DEF Join, Abstract!Next, Abstract!Abandon, Phase
    <3>3. CASE mpc = "joining"
      <4>1. queue = <<>>
        BY <2>5, <3>3, PoolAssumption DEF Join, Lifecycle
      <4> QED
        BY <2>5, <3>1, <3>3, <4>1 DEF Join, Abstract!Next, Abstract!Return, Phase
    <3> QED  BY <2>5, <3>2, <3>3 DEF Join
  <2>6. ASSUME NEW w \in Workers,
               Spawn(w) \/ Acquire(w) \/ FindNothing(w) \/ Wait(w)
                   \/ SpuriousWake(w) \/ Exit(w)
        PROVE  FALSE
    <3>1. Running' = Running
      BY <2>0, <2>6 DEF Spawn, Acquire, FindNothing, Wait, SpuriousWake, Exit,
                        TypeOK
    <3> QED
      BY <2>6, <3>1 DEF Spawn, Acquire, FindNothing, Wait, SpuriousWake, Exit,
                        Abstract!vars, Phase
  <2>7. ASSUME NEW w \in Workers, Take(w) PROVE Abstract!Next
    <3>1. Cardinality(Running) < Cardinality(Workers)
      BY <2>7, RunningBelowCapacity DEF Take
    <3>2. Running' = Running \cup {Head(queue)}
      BY <2>7 DEF Take, Running, TypeOK
    <3>3. queue # <<>> /\ queue' = Tail(queue) /\ done' = done /\ Phase' = Phase
      BY <2>7 DEF Take, Phase
    <3>4. Abstract!Start
      BY <3>1, <3>2, <3>3, Zenon
         DEF Abstract!Start, Cardinality, Abstract!Cardinality,
             IsFiniteSet, Abstract!IsFiniteSet
    <3> QED  BY <3>4 DEF Abstract!Next
  <2>8. ASSUME NEW w \in Workers, Finish(w) PROVE Abstract!Next
    <3>1. task[w] \in Tasks /\ task[w] \in Running
      BY <2>8, PoolAssumption DEF Finish, TypeOK, Running
    <3>a. \A v \in Workers :
            /\ wpc'[v] = "run" <=> wpc[v] = "run" /\ v # w
            /\ v # w => task'[v] = task[v]
      BY <2>8 DEF Finish, TypeOK
    <3>b. \A v \in Workers : wpc[v] = "run" /\ v # w => task[v] # task[w]
      BY <2>8 DEF Finish, EachTaskOnce
    <3>2. Running' = Running \ {task[w]}
      BY <3>a, <3>b DEF Running
    <3>3. /\ done' = done \cup {task[w]} /\ queue' = queue
          /\ Phase' = Phase
      BY <2>8 DEF Finish, Phase
    <3>4. Abstract!Complete(task[w])
      BY <3>1, <3>2, <3>3 DEF Abstract!Complete
    <3> QED  BY <3>1, <3>4 DEF Abstract!Next
  <2>9. ASSUME NEW t \in Tasks, DispatchPush(t) PROVE Abstract!Next
    <3>1. \A w \in Workers : wpc'[w] = "run" <=> wpc[w] = "run"
      BY <2>9 DEF DispatchPush, NotifyOne, Waiting, TypeOK
    <3>2. Running' = Running
      BY <2>0, <2>9, <3>1 DEF DispatchPush
    <3>3. Abstract!Submit(t)
      BY <2>9, <3>2 DEF DispatchPush, Abstract!Submit, Phase
    <3> QED  BY <3>3 DEF Abstract!Next
  <2> QED
    BY <2>1, <2>2, <2>3, <2>4, <2>5, <2>6, <2>7, <2>8, <2>9
       DEF Next, WorkerStep
<1> QED
  BY <1>1, <1>2, TypeCorrect, LifecycleHolds, NoTaskLostOrRunTwice, PTL
     DEF Spec, ImplementsTaskPool, Abstract!Spec
=============================================================================
