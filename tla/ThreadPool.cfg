\* More tasks than workers, so that tasks queue up and workers compete.  No
\* symmetry: it is not sound for liveness.
SPECIFICATION FairSpec
CONSTANTS
    Workers = {w1, w2}
    Tasks = {t1, t2, t3, t4}
    NoTask = NoTask
    NoWorker = NoWorker
INVARIANTS TypeOK NoLostWakeup StopReachesAll ExactlyOnce DestructorDrains
PROPERTIES ImplementsTaskPool EveryTaskRuns DestructorReturns
\* The pool stops for good once it is destroyed.
CHECK_DEADLOCK FALSE
