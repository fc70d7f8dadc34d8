SPECIFICATION FairSpec
CONSTANTS
    Workers = {w1, w2, w3}
    Tasks = {t1, t2, t3}
    Main = Main
    Free = Free
    NoTask = NoTask
\* The owner's thread ends when the pool is gone.
CHECK_DEADLOCK FALSE
INVARIANTS
    TypeOK
    MutexDiscipline
    EachTaskOnce
    Drained
    NoLostWakeup
    NobodySleepsThroughKill
PROPERTIES
    ImplementsFairTaskPool
    EveryTaskRuns
    DestructorReturns
    FailedConstructorReturnsOnlyIfNothingStarted
