----------------------------- MODULE ThreadPool -----------------------------
(***************************************************************************)
(* src/utils/ThreadPool.cpp: worker threads, a task queue, one mutex       *)
(* (queueMutex_), one condition variable (condition_) and the flag stop_.  *)
(*                                                                         *)
(* A critical section that nothing can interrupt is one step.  The only    *)
(* one that gives the mutex up in the middle is condition_.wait: a worker  *)
(* whose predicate is false still holds the mutex ("sleep") until the wait *)
(* releases it and blocks the thread in one step ("blocked").  Both        *)
(* notifications happen outside the mutex and are steps of their own.      *)
(***************************************************************************)
EXTENDS Naturals, Sequences, FiniteSets

CONSTANTS Workers,   \* the threads the constructor starts
          Tasks,     \* the closures passed to enqueue, each by a call of its own
          NoTask,    \* no task is being run
          NoWorker   \* the mutex is free

\* With no thread at all the destructor would drop what is queued; Server asks for 4.
ASSUME WorkersAssumption == IsFiniteSet(Workers) /\ Workers # {} /\ NoWorker \notin Workers
ASSUME TasksAssumption   == IsFiniteSet(Tasks) /\ NoTask \notin Tasks

VARIABLES queueMutex_, \* the worker that holds the mutex across two steps
          tasks_,      \* std::queue of the tasks not taken yet
          stop_,       \* set once by the destructor
          pc,          \* where each worker is in its loop
          task,        \* the worker's local variable task
          call,        \* where each call of enqueue is
          dtor,        \* where the destructor is
          finished     \* the tasks whose call returned (history)

vars == <<queueMutex_, tasks_, stop_, pc, task, call, dtor, finished>>

At(place)   == {w \in Workers : pc[w] = place}
CallsAt(at) == {t \in Tasks : call[t] = at}
Goto(w, place) == pc' = [pc EXCEPT ![w] = place]

Init == /\ queueMutex_ = NoWorker
        /\ tasks_ = <<>>
        /\ stop_ = FALSE
        /\ pc = [w \in Workers |-> "acquire"]
        /\ task = [w \in Workers |-> NoTask]
        /\ call = [t \in Tasks |-> "idle"]
        /\ dtor = "idle"
        /\ finished = {}
-----------------------------------------------------------------------------
(* The worker loop.  "acquire" is both the first lock of an iteration and  *)
(* the one a woken thread takes inside condition_.wait; either way the     *)
(* predicate stop_ || !tasks_.empty() is what is tested next.              *)

Locks(w) == pc[w] = "acquire" /\ queueMutex_ = NoWorker

\* A predicate that is false sends the worker to sleep, mutex still held.
Wait(w) == /\ Locks(w)
           /\ ~stop_ /\ tasks_ = <<>>
           /\ queueMutex_' = w
           /\ Goto(w, "sleep")
           /\ UNCHANGED <<tasks_, stop_, task, call, dtor, finished>>

\* The wait gives the mutex back and blocks the thread, atomically.
Block(w) == /\ pc[w] = "sleep"
            /\ queueMutex_' = NoWorker
            /\ Goto(w, "blocked")
            /\ UNCHANGED <<tasks_, stop_, task, call, dtor, finished>>

\* MUTANT: the predicate is not tested again after a wake-up.
WakeupRuns(w) == /\ pc[w] = "blocked"
                 /\ Goto(w, "run")
                 /\ UNCHANGED <<queueMutex_, tasks_, stop_, task, call, dtor, finished>>

\* A condition variable may wake a thread that nobody notified.
SpuriousWakeup(w) == /\ pc[w] = "blocked"
                     /\ Goto(w, "acquire")
                     /\ UNCHANGED <<queueMutex_, tasks_, stop_, task, call, dtor, finished>>

\* MUTANT: the worker returns on stop_ whatever is still queued.
ReturnAtStop(w) == /\ Locks(w)
                   /\ stop_
                   /\ Goto(w, "exited")
                   /\ UNCHANGED <<queueMutex_, tasks_, stop_, task, call, dtor, finished>>

Return(w) == /\ Locks(w)
             /\ stop_ /\ tasks_ = <<>>
             /\ Goto(w, "exited")
             /\ UNCHANGED <<queueMutex_, tasks_, stop_, task, call, dtor, finished>>

\* MUTANT: the front of the queue is copied and never popped.
TakeWithoutPop(w) == /\ Locks(w)
                     /\ tasks_ # <<>>
                     /\ task' = [task EXCEPT ![w] = Head(tasks_)]
                     /\ Goto(w, "run")
                     /\ UNCHANGED <<queueMutex_, tasks_, stop_, call, dtor, finished>>

\* MUTANT: the newest task is taken instead of the oldest.
TakeNewest(w) == /\ Locks(w)
                 /\ tasks_ # <<>>
                 /\ task' = [task EXCEPT ![w] = tasks_[Len(tasks_)]]
                 /\ tasks_' = SubSeq(tasks_, 1, Len(tasks_) - 1)
                 /\ Goto(w, "run")
                 /\ UNCHANGED <<queueMutex_, stop_, call, dtor, finished>>

Take(w) == /\ Locks(w)
           /\ tasks_ # <<>>
           /\ task' = [task EXCEPT ![w] = Head(tasks_)]
           /\ tasks_' = Tail(tasks_)
           /\ Goto(w, "run")
           /\ UNCHANGED <<queueMutex_, stop_, call, dtor, finished>>

\* The task returns and the loop starts over.
RunTask(w) == /\ pc[w] = "run"
              /\ finished' = finished \cup {task[w]}
              /\ task' = [task EXCEPT ![w] = NoTask]
              /\ Goto(w, "acquire")
              /\ UNCHANGED <<queueMutex_, tasks_, stop_, call, dtor>>
-----------------------------------------------------------------------------
(* enqueue: push under the mutex unless the pool is stopping, then         *)
(* notify_one outside it.                                                  *)

Enqueue(t) == /\ call[t] = "idle"
              /\ dtor # "destroyed"
              /\ queueMutex_ = NoWorker
              /\ IF stop_
                 THEN /\ call' = [call EXCEPT ![t] = "refused"]
                      /\ UNCHANGED tasks_
                 ELSE /\ call' = [call EXCEPT ![t] = "notify"]
                      /\ tasks_' = Append(tasks_, t)
              /\ UNCHANGED <<queueMutex_, stop_, pc, task, dtor, finished>>

\* MUTANT: enqueue forgets to notify.
NotifyNobody(t) == /\ call[t] = "notify"
                   /\ call' = [call EXCEPT ![t] = "returned"]
                   /\ UNCHANGED <<queueMutex_, tasks_, stop_, pc, task, dtor, finished>>

NotifyOne(t) == /\ call[t] = "notify"
                /\ call' = [call EXCEPT ![t] = "returned"]
                /\ IF At("blocked") = {}
                   THEN UNCHANGED pc
                   ELSE \E w \in At("blocked") : Goto(w, "acquire")
                /\ UNCHANGED <<queueMutex_, tasks_, stop_, task, dtor, finished>>
-----------------------------------------------------------------------------
(* ~ThreadPool: raise stop_ under the mutex, wake everyone, join.          *)

\* MUTANT: stop_ is written without taking queueMutex_.
StopUnlocked == /\ dtor = "idle"
                /\ stop_' = TRUE
                /\ dtor' = "notify"
                /\ UNCHANGED <<queueMutex_, tasks_, pc, task, call, finished>>

RequestStop == /\ dtor = "idle"
               /\ queueMutex_ = NoWorker
               /\ stop_' = TRUE
               /\ dtor' = "notify"
               /\ UNCHANGED <<queueMutex_, tasks_, pc, task, call, finished>>

NotifyAll == /\ dtor = "notify"
             /\ dtor' = "join"
             /\ pc' = [w \in Workers |-> IF pc[w] = "blocked" THEN "acquire" ELSE pc[w]]
             /\ UNCHANGED <<queueMutex_, tasks_, stop_, task, call, finished>>

\* MUTANT: the pool goes away without joining its threads.
DetachWorkers == /\ dtor = "join"
                 /\ CallsAt("notify") = {}
                 /\ dtor' = "destroyed"
                 /\ UNCHANGED <<queueMutex_, tasks_, stop_, pc, task, call, finished>>

\* Every join has returned; the owner lets no call of enqueue outlive the pool.
JoinAll == /\ dtor = "join"
           /\ At("exited") = Workers
           /\ CallsAt("notify") = {}
           /\ dtor' = "destroyed"
           /\ UNCHANGED <<queueMutex_, tasks_, stop_, pc, task, call, finished>>
-----------------------------------------------------------------------------
Worker(w) == \/ Wait(w) \/ Block(w) \/ SpuriousWakeup(w)
             \/ Return(w) \/ Take(w) \/ RunTask(w)

Next == \/ \E w \in Workers : Worker(w)
        \/ \E t \in Tasks : Enqueue(t) \/ NotifyOne(t)
        \/ RequestStop \/ NotifyAll \/ JoinAll

Spec == Init /\ [][Next]_vars

(* Every thread that can run eventually does, and every task returns.  No  *)
(* fairness for spurious wake-ups, for new calls of enqueue or for the     *)
(* start of the destructor: they need never happen.                        *)
Fairness == /\ \A w \in Workers : /\ WF_vars(Wait(w) \/ Return(w) \/ Take(w))
                                  /\ WF_vars(Block(w))
                                  /\ WF_vars(RunTask(w))
            /\ \A t \in Tasks : WF_vars(NotifyOne(t))
            /\ WF_vars(NotifyAll)
            /\ WF_vars(JoinAll)

FairSpec == Spec /\ Fairness
-----------------------------------------------------------------------------
Queued  == {tasks_[i] : i \in DOMAIN tasks_}
Running == {task[w] : w \in At("run")}
Accepted == CallsAt("notify") \cup CallsAt("returned")

TypeOK == /\ queueMutex_ \in Workers \cup {NoWorker}
          /\ tasks_ \in Seq(Tasks)
          /\ stop_ \in BOOLEAN
          /\ pc \in [Workers -> {"acquire", "sleep", "blocked", "run", "exited"}]
          /\ task \in [Workers -> Tasks \cup {NoTask}]
          /\ call \in [Tasks -> {"idle", "notify", "returned", "refused"}]
          /\ dtor \in {"idle", "notify", "join", "destroyed"}
          /\ finished \in SUBSET Tasks

(* Who holds the mutex across a step, and what it has seen: nothing can    *)
(* change a worker's false predicate before the wait blocks it.            *)
MutexInv == \A w \in At("sleep") : queueMutex_ = w /\ ~stop_ /\ tasks_ = <<>>

(* stop_ belongs to the destructor; a worker leaves only an empty, closed  *)
(* queue, and a local task exists only while it runs.                      *)
StopInv == /\ stop_ <=> dtor # "idle"
           /\ \A w \in At("exited") : stop_ /\ tasks_ = <<>>
           /\ dtor = "destroyed" => At("exited") = Workers
TaskInv == \A w \in Workers : task[w] # NoTask <=> pc[w] = "run"

(* No wake-up is lost: while some worker is blocked, every queued task is  *)
(* matched by a worker on its way to the queue or by an enqueue that still *)
(* has to notify.  Pushing and notifying are two steps and the notified    *)
(* worker may lose its task to another, so this is not a matter of course. *)
NoLostWakeup ==
    At("blocked") # {} =>
        Len(tasks_) <= Cardinality(At("acquire")) + Cardinality(CallsAt("notify"))

(* Once the destructor has called notify_all, no worker is blocked or      *)
(* about to block: nobody slept through stop_, so every join can return.   *)
StopReachesAll == dtor \in {"join", "destroyed"} => At("blocked") \cup At("sleep") = {}

(* Every accepted task is in exactly one place, once: queued, being run by *)
(* one worker, or finished.  A task is neither dropped nor run twice.      *)
ExactlyOnce ==
    /\ Accepted = Queued \cup Running \cup finished
    /\ Queued \cap Running = {} /\ Queued \cap finished = {} /\ Running \cap finished = {}
    /\ \A i, j \in DOMAIN tasks_ : tasks_[i] = tasks_[j] => i = j
    /\ \A v, w \in At("run") : task[v] = task[w] => v = w

(* The destructor drains: when it returns, every task ever accepted has    *)
(* run to its end, those still queued when stop_ was set included.         *)
DestructorDrains == dtor = "destroyed" => finished = Accepted

(* The inductive invariant behind the theorems of ThreadPoolProofs.        *)
IInv == /\ TypeOK /\ MutexInv /\ StopInv /\ TaskInv
        /\ NoLostWakeup /\ StopReachesAll /\ ExactlyOnce

(* The mutex, the condition variable and the loop add up to a FIFO pool.   *)
Pool == INSTANCE TaskPool WITH queue <- tasks_, slot <- task, submitted <- Accepted,
                               closed <- stop_, gone <- (dtor = "destroyed")
ImplementsTaskPool == Pool!Spec

(* Every accepted task eventually runs to its end, provided tasks return.  *)
EveryTaskRuns == \A t \in Tasks : (t \in Accepted) ~> (t \in finished)

(* A destructor that has started eventually returns.                       *)
DestructorReturns == stop_ ~> (dtor = "destroyed")
=============================================================================
