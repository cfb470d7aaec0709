-------------------------- MODULE ThreadPoolProofs --------------------------
(* The safety of ThreadPool for any number of workers and tasks. *)
EXTENDS ThreadPool, FiniteSetTheorems, SequenceTheorems, TLAPS

(* Popping a queue without repetitions removes exactly its front.          *)
LEMMA TailOfDistinct ==
  ASSUME NEW S, NEW q \in Seq(S), q # <<>>,
         \A i, j \in DOMAIN q : q[i] = q[j] => i = j
  PROVE  /\ Head(q) \in S
         /\ Tail(q) \in Seq(S)
         /\ Len(Tail(q)) = Len(q) - 1
         /\ {Tail(q)[i] : i \in DOMAIN Tail(q)} = {q[i] : i \in DOMAIN q} \ {Head(q)}
         /\ Head(q) \in {q[i] : i \in DOMAIN q}
         /\ \A i, j \in DOMAIN Tail(q) : Tail(q)[i] = Tail(q)[j] => i = j
<1>1. /\ Len(q) \in Nat /\ Len(q) >= 1 /\ DOMAIN q = 1..Len(q)
      /\ Head(q) = q[1] /\ Head(q) \in S
      /\ Tail(q) \in Seq(S) /\ Len(Tail(q)) = Len(q) - 1
      /\ DOMAIN Tail(q) = 1 .. Len(q) - 1
      /\ \A i \in 1 .. Len(q) - 1 : Tail(q)[i] = q[i + 1]
  OBVIOUS
<1>2. ASSUME NEW x \in {q[i] : i \in DOMAIN q} \ {Head(q)}
      PROVE  x \in {Tail(q)[i] : i \in DOMAIN Tail(q)}
  <2>1. PICK i \in 1..Len(q) : x = q[i]  BY <1>1
  <2>2. i - 1 \in 1 .. Len(q) - 1  BY <1>1, <2>1
  <2>3. x = Tail(q)[i - 1]  BY <1>1, <2>1, <2>2
  <2> QED  BY <1>1, <2>2, <2>3
<1>3. ASSUME NEW i \in DOMAIN Tail(q)
      PROVE  Tail(q)[i] \in {q[k] : k \in DOMAIN q} \ {Head(q)}
  <2>1. i + 1 \in 1..Len(q) /\ i + 1 # 1  BY <1>1
  <2> QED  BY <1>1, <2>1
<1>4. \A i, j \in DOMAIN Tail(q) : Tail(q)[i] = Tail(q)[j] => i = j
  BY <1>1
<1> QED  BY <1>1, <1>2, <1>3, <1>4

(* Pushing a fresh element adds exactly it and repeats nothing.            *)
LEMMA AppendFresh ==
  ASSUME NEW S, NEW q \in Seq(S), NEW x \in S
  PROVE  /\ Append(q, x) \in Seq(S)
         /\ Len(Append(q, x)) = Len(q) + 1
         /\ {Append(q, x)[i] : i \in DOMAIN Append(q, x)} = {q[i] : i \in DOMAIN q} \cup {x}
         /\ (\A i, j \in DOMAIN q : q[i] = q[j] => i = j) /\ x \notin {q[i] : i \in DOMAIN q}
            => \A i, j \in DOMAIN Append(q, x) : Append(q, x)[i] = Append(q, x)[j] => i = j
<1>1. /\ Len(q) \in Nat /\ DOMAIN q = 1..Len(q)
      /\ Append(q, x) \in Seq(S) /\ Len(Append(q, x)) = Len(q) + 1
      /\ DOMAIN Append(q, x) = 1 .. Len(q) + 1
      /\ \A i \in 1 .. Len(q) : Append(q, x)[i] = q[i]
      /\ Append(q, x)[Len(q) + 1] = x
  OBVIOUS
<1>2. \A i \in 1 .. Len(q) + 1 : i \in 1 .. Len(q) \/ i = Len(q) + 1
  BY <1>1
<1>3. 1 .. Len(q) \subseteq 1 .. Len(q) + 1 /\ Len(q) + 1 \in 1 .. Len(q) + 1
  BY <1>1
<1> QED  BY <1>1, <1>2, <1>3

(* A closed pool stays closed: stop_ is only ever set.                     *)
LEMMA StopIsBoolean == stop_ \in BOOLEAN /\ [Next]_vars => stop_' \in BOOLEAN
  BY DEF Next, vars, Worker, Wait, Block, SpuriousWakeup, Return, Take, RunTask,
         Enqueue, NotifyOne, RequestStop, NotifyAll, JoinAll

(* TypeOK without the Boolean: the provers take the two kinds apart.       *)
Typed == /\ queueMutex_ \in Workers \cup {NoWorker}
         /\ tasks_ \in Seq(Tasks)
         /\ pc \in [Workers -> {"acquire", "sleep", "blocked", "run", "exited"}]
         /\ task \in [Workers -> Tasks \cup {NoTask}]
         /\ call \in [Tasks -> {"idle", "notify", "returned", "refused"}]
         /\ dtor \in {"idle", "notify", "join", "destroyed"}
         /\ finished \in SUBSET Tasks

LEMMA TypedIsTypeOK == TypeOK <=> Typed /\ stop_ \in BOOLEAN
  BY DEF TypeOK, Typed

(* Types are preserved together with the fact that a running worker has a  *)
(* task: what RunTask adds to finished is a task.                          *)
LEMMA TypeStep ==
  ASSUME Typed, TaskInv, [Next]_vars PROVE Typed' /\ TaskInv'
<1> USE DEF Typed, TaskInv
<1>1. ASSUME NEW w \in Workers, Worker(w) PROVE Typed' /\ TaskInv'
  <2>1. CASE Wait(w)  BY <2>1 DEF Wait, Locks, Goto
  <2>2. CASE Block(w)  BY <2>2 DEF Block, Goto
  <2>3. CASE SpuriousWakeup(w)  BY <2>3 DEF SpuriousWakeup, Goto
  <2>4. CASE Return(w)  BY <2>4 DEF Return, Locks, Goto
  <2>5. CASE Take(w)
    <3>1. Head(tasks_) \in Tasks /\ Tail(tasks_) \in Seq(Tasks)
      BY <2>5 DEF Take
    <3> QED  BY <2>5, <3>1, TasksAssumption DEF Take, Goto
  <2>6. CASE RunTask(w)
    <3>1. task[w] \in Tasks  BY <2>6 DEF RunTask
    <3> QED  BY <2>6, <3>1 DEF RunTask, Goto
  <2> QED  BY <1>1, <2>1, <2>2, <2>3, <2>4, <2>5, <2>6 DEF Worker
<1>2. ASSUME NEW t \in Tasks, Enqueue(t) PROVE Typed' /\ TaskInv'
  <2>1. CASE stop_
    BY <1>2, <2>1 DEF Enqueue
  <2>2. CASE ~stop_
    <3>1. Append(tasks_, t) \in Seq(Tasks)  BY AppendFresh
    <3>2. tasks_' = Append(tasks_, t) /\ call' = [call EXCEPT ![t] = "notify"]
      BY <1>2, <2>2 DEF Enqueue
    <3> QED  BY <1>2, <3>1, <3>2 DEF Enqueue
  <2> QED  BY <2>1, <2>2
<1>3. ASSUME NEW t \in Tasks, NotifyOne(t) PROVE Typed' /\ TaskInv'
  BY <1>3 DEF NotifyOne, At, Goto
<1>4. CASE RequestStop  BY <1>4 DEF RequestStop
<1>5. CASE NotifyAll  BY <1>5 DEF NotifyAll
<1>6. CASE JoinAll  BY <1>6 DEF JoinAll
<1>7. CASE UNCHANGED vars  BY <1>7 DEF vars
<1> QED  BY <1>1, <1>2, <1>3, <1>4, <1>5, <1>6, <1>7 DEF Next

LEMMA TypeInit == Init => Typed /\ TaskInv /\ stop_ \in BOOLEAN
<1>1. Init => Typed  BY DEF Init, Typed
<1>2. Init => TaskInv  BY DEF Init, TaskInv
<1>3. Init => stop_ \in BOOLEAN  BY DEF Init
<1> QED  BY <1>1, <1>2, <1>3

(* The variables keep their types, whatever the number of workers.         *)
THEOREM TypeCorrect == Spec => []TypeOK
<1> DEFINE TI == Typed /\ TaskInv /\ stop_ \in BOOLEAN
<1>1. Init => TI  BY TypeInit
<1>2. TI /\ [Next]_vars => TI'  BY TypeStep, StopIsBoolean
<1>3. TI => TypeOK  BY TypedIsTypeOK
<1> QED  BY <1>1, <1>2, <1>3, PTL DEF Spec
-----------------------------------------------------------------------------
(* Who holds the mutex: no step can change what a worker about to block    *)
(* has seen.                                                               *)
LEMMA MutexStep ==
  ASSUME Typed, MutexInv, [Next]_vars PROVE MutexInv'
<1> USE DEF Typed, MutexInv, At
<1>1. ASSUME NEW w \in Workers, Worker(w) PROVE MutexInv'
  <2>1. CASE Wait(w)  BY <2>1, WorkersAssumption DEF Wait, Locks, Goto
  <2>2. CASE Block(w)  BY <2>2 DEF Block, Goto
  <2>3. CASE SpuriousWakeup(w)  BY <2>3 DEF SpuriousWakeup, Goto
  <2>4. CASE Return(w)  BY <2>4 DEF Return, Locks, Goto
  <2>5. CASE Take(w)  BY <2>5 DEF Take, Locks, Goto
  <2>6. CASE RunTask(w)  BY <2>6 DEF RunTask, Goto
  <2> QED  BY <1>1, <2>1, <2>2, <2>3, <2>4, <2>5, <2>6 DEF Worker
<1>2. ASSUME NEW t \in Tasks, Enqueue(t) PROVE MutexInv'
  BY <1>2, WorkersAssumption DEF Enqueue
<1>3. ASSUME NEW t \in Tasks, NotifyOne(t) PROVE MutexInv'
  BY <1>3 DEF NotifyOne, Goto
<1>4. CASE RequestStop  BY <1>4, WorkersAssumption DEF RequestStop
<1>5. CASE NotifyAll  BY <1>5 DEF NotifyAll
<1>6. CASE JoinAll  BY <1>6 DEF JoinAll
<1>7. CASE UNCHANGED vars  BY <1>7 DEF vars
<1> QED  BY <1>1, <1>2, <1>3, <1>4, <1>5, <1>6, <1>7 DEF Next

(* What a closed pool looks like.                                          *)
LEMMA StopStep ==
  ASSUME Typed, StopInv, MutexInv, [Next]_vars PROVE StopInv'
<1> USE DEF Typed, StopInv, At
<1>1. ASSUME NEW w \in Workers, Worker(w) PROVE StopInv'
  <2>1. CASE Wait(w)  BY <2>1 DEF Wait, Locks, Goto
  <2>2. CASE Block(w)  BY <2>2 DEF Block, Goto
  <2>3. CASE SpuriousWakeup(w)  BY <2>3 DEF SpuriousWakeup, Goto
  <2>4. CASE Return(w)  BY <2>4 DEF Return, Locks, Goto
  <2>5. CASE Take(w)  BY <2>5 DEF Take, Locks, Goto
  <2>6. CASE RunTask(w)  BY <2>6 DEF RunTask, Goto
  <2> QED  BY <1>1, <2>1, <2>2, <2>3, <2>4, <2>5, <2>6 DEF Worker
<1>2. ASSUME NEW t \in Tasks, Enqueue(t) PROVE StopInv'
  BY <1>2 DEF Enqueue
<1>3. ASSUME NEW t \in Tasks, NotifyOne(t) PROVE StopInv'
  BY <1>3 DEF NotifyOne, Goto
<1>4. CASE RequestStop  BY <1>4 DEF RequestStop
<1>5. CASE NotifyAll  BY <1>5 DEF NotifyAll
<1>6. CASE JoinAll  BY <1>6 DEF JoinAll
<1>7. CASE UNCHANGED vars  BY <1>7 DEF vars
<1> QED  BY <1>1, <1>2, <1>3, <1>4, <1>5, <1>6, <1>7 DEF Next

(* Nobody goes back to sleep in a closed pool.                             *)
LEMMA StopReachesStep ==
  ASSUME Typed, StopInv, MutexInv, StopReachesAll, [Next]_vars PROVE StopReachesAll'
<1> USE DEF Typed, StopInv, MutexInv, StopReachesAll, At
<1>1. ASSUME NEW w \in Workers, Worker(w) PROVE StopReachesAll'
  <2>1. CASE Wait(w)  BY <2>1 DEF Wait, Goto
  <2>2. CASE Block(w)  BY <2>2 DEF Block, Goto
  <2>3. CASE SpuriousWakeup(w)  BY <2>3 DEF SpuriousWakeup, Goto
  <2>4. CASE Return(w)  BY <2>4 DEF Return, Goto
  <2>5. CASE Take(w)  BY <2>5 DEF Take, Goto
  <2>6. CASE RunTask(w)  BY <2>6 DEF RunTask, Goto
  <2> QED  BY <1>1, <2>1, <2>2, <2>3, <2>4, <2>5, <2>6 DEF Worker
<1>2. ASSUME NEW t \in Tasks, Enqueue(t) PROVE StopReachesAll'
  BY <1>2 DEF Enqueue
<1>3. ASSUME NEW t \in Tasks, NotifyOne(t) PROVE StopReachesAll'
  BY <1>3 DEF NotifyOne, Goto
<1>4. CASE RequestStop  BY <1>4 DEF RequestStop
<1>5. CASE NotifyAll  BY <1>5 DEF NotifyAll
<1>6. CASE JoinAll  BY <1>6 DEF JoinAll
<1>7. CASE UNCHANGED vars  BY <1>7 DEF vars
<1> QED  BY <1>1, <1>2, <1>3, <1>4, <1>5, <1>6, <1>7 DEF Next
-----------------------------------------------------------------------------
LEMMA SetsAreFinite ==
  ASSUME NEW f, NEW x
  PROVE  /\ IsFiniteSet({w \in Workers : f[w] = x}) /\ Cardinality({w \in Workers : f[w] = x}) \in Nat
         /\ IsFiniteSet({t \in Tasks : f[t] = x}) /\ Cardinality({t \in Tasks : f[t] = x}) \in Nat
<1>1. IsFiniteSet({w \in Workers : f[w] = x})  BY FS_Subset, WorkersAssumption
<1>2. IsFiniteSet({t \in Tasks : f[t] = x})  BY FS_Subset, TasksAssumption
<1> QED  BY <1>1, <1>2, FS_CardinalityType

(* Pushing owes one notification, notifying turns it into one worker on    *)
(* its way, and only a worker on its way pops.                             *)
LEMMA NoLostWakeupStep ==
  ASSUME Typed, MutexInv, NoLostWakeup, [Next]_vars PROVE NoLostWakeup'
<1> DEFINE a == Cardinality(At("acquire"))
           n == Cardinality(CallsAt("notify"))
<1>0. /\ a \in Nat /\ n \in Nat /\ Len(tasks_) \in Nat /\ a' \in Nat /\ n' \in Nat
      /\ IsFiniteSet(At("acquire")) /\ IsFiniteSet(CallsAt("notify"))
  <2>1. Len(tasks_) \in Nat  BY DEF Typed
  <2> QED  BY <2>1, SetsAreFinite DEF At, CallsAt
<1>1. At("blocked") # {} => Len(tasks_) <= a + n
  BY DEF NoLostWakeup
<1> SUFFICES ASSUME At("blocked")' # {} PROVE Len(tasks_') <= a' + n'
  BY DEF NoLostWakeup
<1>2. ASSUME NEW w \in Workers, Worker(w) PROVE Len(tasks_') <= a' + n'
  <2>1. CASE UNCHANGED tasks_ /\ tasks_ = <<>>
    BY <2>1, <1>0
  <2>2. CASE Wait(w) \/ Return(w)
    BY <2>1, <2>2 DEF Wait, Return
  <2>3. CASE Block(w)
    BY <2>1, <2>3 DEF Block, MutexInv, At
  <2>4. ASSUME pc[w] \in {"blocked", "run"}, Goto(w, "acquire"),
               UNCHANGED tasks_, UNCHANGED call, At("blocked") # {}
        PROVE  Len(tasks_') <= a' + n'
    <3>1. At("acquire")' = At("acquire") \cup {w} /\ w \notin At("acquire")
      BY <2>4 DEF Typed, Goto, At
    <3>2. a' = a + 1  BY <3>1, <1>0, FS_AddElement
    <3>3. n' = n  BY <2>4 DEF CallsAt
    <3> QED  BY <3>2, <3>3, <2>4, <1>0, <1>1
  <2>5. CASE SpuriousWakeup(w)
    BY <2>4, <2>5 DEF SpuriousWakeup, At
  <2>6. CASE RunTask(w)
    <3>1. At("blocked") # {}  BY <2>6 DEF RunTask, Goto, At, Typed
    <3> QED  BY <2>4, <2>6, <3>1 DEF RunTask
  <2>7. CASE Take(w)
    <3>1. At("blocked") # {}  BY <2>7 DEF Take, Locks, Goto, At, Typed
    <3>2. At("acquire")' = At("acquire") \ {w} /\ w \in At("acquire")
      BY <2>7 DEF Take, Locks, Goto, At, Typed
    <3>3. a' = a - 1  BY <3>2, <1>0, FS_RemoveElement
    <3>4. n' = n  BY <2>7 DEF Take, CallsAt
    <3>5. Len(tasks_') = Len(tasks_) - 1  BY <2>7 DEF Take, Typed
    <3> QED  BY <3>1, <3>3, <3>4, <3>5, <1>0, <1>1
  <2> QED  BY <1>2, <2>2, <2>3, <2>5, <2>6, <2>7 DEF Worker
<1>3. ASSUME NEW t \in Tasks, Enqueue(t) PROVE Len(tasks_') <= a' + n'
  <2>1. At("blocked") # {} /\ a' = a  BY <1>3 DEF Enqueue, At
  <2>2. CASE stop_
    <3>1. n' = n  BY <1>3, <2>2 DEF Enqueue, CallsAt, Typed
    <3> QED  BY <1>3, <2>1, <2>2, <3>1, <1>0, <1>1 DEF Enqueue
  <2>3. CASE ~stop_
    <3>1. CallsAt("notify")' = CallsAt("notify") \cup {t} /\ t \notin CallsAt("notify")
      BY <1>3, <2>3 DEF Enqueue, CallsAt, Typed
    <3>2. n' = n + 1  BY <3>1, <1>0, FS_AddElement
    <3>3. Len(tasks_') = Len(tasks_) + 1  BY <1>3, <2>3 DEF Enqueue, Typed
    <3> QED  BY <2>1, <3>2, <3>3, <1>0, <1>1
  <2> QED  BY <2>2, <2>3
<1>4. ASSUME NEW t \in Tasks, NotifyOne(t) PROVE Len(tasks_') <= a' + n'
  <2>1. At("blocked") # {}  BY <1>4 DEF NotifyOne, At
  <2>2. PICK w \in At("blocked") : Goto(w, "acquire")  BY <1>4, <2>1 DEF NotifyOne
  <2>3. At("acquire")' = At("acquire") \cup {w} /\ w \notin At("acquire")
    BY <2>2 DEF Typed, Goto, At
  <2>4. a' = a + 1  BY <2>3, <1>0, FS_AddElement
  <2>5. CallsAt("notify")' = CallsAt("notify") \ {t} /\ t \in CallsAt("notify")
    BY <1>4 DEF NotifyOne, CallsAt, Typed
  <2>6. n' = n - 1  BY <2>5, <1>0, FS_RemoveElement
  <2> QED  BY <1>4, <2>1, <2>4, <2>6, <1>0, <1>1 DEF NotifyOne
<1>5. ASSUME UNCHANGED <<tasks_, pc, call>> PROVE Len(tasks_') <= a' + n'
  <2>1. At("blocked") # {} /\ a' = a /\ n' = n  BY <1>5 DEF At, CallsAt
  <2> QED  BY <1>5, <2>1, <1>0, <1>1
<1>6. CASE RequestStop \/ JoinAll \/ UNCHANGED vars
  BY <1>5, <1>6 DEF RequestStop, JoinAll, vars
<1>7. CASE NotifyAll
  BY <1>7 DEF NotifyAll, At
<1> QED  BY <1>2, <1>3, <1>4, <1>6, <1>7 DEF Next
-----------------------------------------------------------------------------
(* Every accepted task in one place.  Only Enqueue, Take and RunTask move  *)
(* a task.                                                                 *)
LEMMA ExactlyOnceStep ==
  ASSUME Typed, TaskInv, ExactlyOnce, [Next]_vars PROVE ExactlyOnce'
<1>1. ASSUME UNCHANGED <<tasks_, task, finished>>, Accepted' = Accepted, At("run")' = At("run")
      PROVE  ExactlyOnce'
  <2>1. Queued' = Queued /\ Running' = Running  BY <1>1 DEF Queued, Running
  <2> QED  BY <1>1, <2>1 DEF ExactlyOnce
<1>2. ASSUME NEW w \in Workers, Worker(w) PROVE ExactlyOnce'
  <2>1. Accepted' = Accepted
    BY <1>2 DEF Worker, Wait, Block, SpuriousWakeup, Return, Take, RunTask, Accepted, CallsAt
  <2>2. CASE Wait(w) \/ Block(w) \/ SpuriousWakeup(w) \/ Return(w)
    <3>1. At("run")' = At("run")
      BY <2>2 DEF Wait, Block, SpuriousWakeup, Return, Locks, Goto, At, Typed
    <3> QED  BY <1>1, <2>1, <2>2, <3>1 DEF Wait, Block, SpuriousWakeup, Return
  <2>3. CASE Take(w)
    <3> DEFINE h == Head(tasks_)
    <3>1. /\ h \in Tasks /\ h \in Queued
          /\ Queued' = Queued \ {h}
          /\ \A i, j \in DOMAIN tasks_' : tasks_'[i] = tasks_'[j] => i = j
      <4>1. tasks_ \in Seq(Tasks) /\ tasks_ # <<>> /\ tasks_' = Tail(tasks_)
        BY <2>3 DEF Take, Typed
      <4>2. \A i, j \in DOMAIN tasks_ : tasks_[i] = tasks_[j] => i = j
        BY DEF ExactlyOnce
      <4>3. /\ h \in Tasks /\ h \in Queued
            /\ {Tail(tasks_)[i] : i \in DOMAIN Tail(tasks_)} = Queued \ {h}
            /\ \A i, j \in DOMAIN Tail(tasks_) : Tail(tasks_)[i] = Tail(tasks_)[j] => i = j
        <5> HIDE DEF h
        <5> QED  BY <4>1, <4>2, TailOfDistinct, Zenon DEF Queued, h
      <4>4. Queued' = {Tail(tasks_)[i] : i \in DOMAIN Tail(tasks_)}
        BY <4>1, Zenon DEF Queued
      <4> QED  BY <4>1, <4>3, <4>4, Zenon
    <3>2. /\ At("run")' = At("run") \cup {w} /\ w \notin At("run")
          /\ task'[w] = h /\ \A v \in At("run") : task'[v] = task[v]
      BY <2>3 DEF Take, Locks, Goto, At, Typed
    <3>3. Running' = Running \cup {h}  BY <3>2 DEF Running
    <3>4. h \notin Running /\ h \notin finished  BY <3>1 DEF ExactlyOnce
    <3>5. \A v \in At("run") : task[v] # h  BY <3>4 DEF Running
    <3>6. \A u, v \in At("run")' : task'[u] = task'[v] => u = v
      BY <3>2, <3>5 DEF ExactlyOnce
    <3>7. finished' = finished  BY <2>3 DEF Take
    <3> QED  BY <2>1, <3>1, <3>3, <3>4, <3>6, <3>7 DEF ExactlyOnce
  <2>4. CASE RunTask(w)
    <3>1. /\ At("run")' = At("run") \ {w} /\ w \in At("run")
          /\ finished' = finished \cup {task[w]} /\ tasks_' = tasks_
          /\ \A v \in At("run") \ {w} : task'[v] = task[v]
      BY <2>4 DEF RunTask, Goto, At, Typed
    <3>2. Running' = Running \ {task[w]}
      BY <3>1 DEF Running, ExactlyOnce
    <3>3. task[w] \in Running  BY <3>1 DEF Running
    <3>4. Queued' = Queued  BY <3>1 DEF Queued
    <3>5. \A u, v \in At("run")' : task'[u] = task'[v] => u = v
      BY <3>1 DEF ExactlyOnce
    <3> QED  BY <2>1, <3>1, <3>2, <3>3, <3>4, <3>5 DEF ExactlyOnce
  <2> QED  BY <1>2, <2>2, <2>3, <2>4 DEF Worker
<1>3. ASSUME NEW t \in Tasks, Enqueue(t) PROVE ExactlyOnce'
  <2>1. CASE stop_
    <3>1. Accepted' = Accepted  BY <1>3, <2>1 DEF Enqueue, Accepted, CallsAt, Typed
    <3> QED  BY <1>1, <1>3, <2>1, <3>1 DEF Enqueue, At
  <2>2. CASE ~stop_
    <3>1. Accepted' = Accepted \cup {t} /\ t \notin Accepted
      BY <1>3, <2>2 DEF Enqueue, Accepted, CallsAt, Typed
    <3>2. t \notin Queued /\ t \notin Running /\ t \notin finished
      BY <3>1 DEF ExactlyOnce
    <3>3. tasks_' = Append(tasks_, t)  BY <1>3, <2>2 DEF Enqueue
    <3>4. /\ Queued' = Queued \cup {t}
          /\ \A i, j \in DOMAIN tasks_' : tasks_'[i] = tasks_'[j] => i = j
      BY <3>2, <3>3, AppendFresh DEF Queued, ExactlyOnce, Typed
    <3>5. Running' = Running /\ finished' = finished /\ At("run")' = At("run") /\ task' = task
      BY <1>3 DEF Enqueue, Running, At
    <3> QED  BY <3>1, <3>2, <3>4, <3>5 DEF ExactlyOnce
  <2> QED  BY <2>1, <2>2
<1>4. ASSUME NEW t \in Tasks, NotifyOne(t) PROVE ExactlyOnce'
  <2>1. Accepted' = Accepted  BY <1>4 DEF NotifyOne, Accepted, CallsAt, Typed
  <2>2. At("run")' = At("run")  BY <1>4 DEF NotifyOne, Goto, At, Typed
  <2> QED  BY <1>1, <1>4, <2>1, <2>2 DEF NotifyOne
<1>5. CASE RequestStop \/ NotifyAll \/ JoinAll \/ UNCHANGED vars
  <2>1. Accepted' = Accepted
    BY <1>5 DEF RequestStop, NotifyAll, JoinAll, vars, Accepted, CallsAt
  <2>2. At("run")' = At("run")
    BY <1>5 DEF RequestStop, NotifyAll, JoinAll, vars, At, Typed
  <2> QED  BY <1>1, <1>5, <2>1, <2>2 DEF RequestStop, NotifyAll, JoinAll, vars
<1> QED  BY <1>2, <1>3, <1>4, <1>5 DEF Next
-----------------------------------------------------------------------------
(* IInv is inductive: the parts were each shown to survive every step.     *)
LEMMA InitIInv == Init => IInv
<1> SUFFICES ASSUME Init PROVE IInv
  OBVIOUS
<1>1. TypeOK /\ TaskInv  BY TypeInit, TypedIsTypeOK
<1>2. MutexInv /\ StopReachesAll /\ NoLostWakeup
  BY DEF Init, MutexInv, StopReachesAll, NoLostWakeup, At
<1>3. StopInv
  <2>1. ~stop_ /\ dtor = "idle" /\ At("exited") = {}  BY DEF Init, At
  <2> QED  BY <2>1 DEF StopInv
<1>4. ExactlyOnce
  <2>1. tasks_ = <<>> /\ finished = {} /\ At("run") = {} /\ Accepted = {}
    BY DEF Init, At, Accepted, CallsAt
  <2> QED  BY <2>1 DEF ExactlyOnce, Queued, Running
<1> QED  BY <1>1, <1>2, <1>3, <1>4 DEF IInv

LEMMA NextIInv == IInv /\ [Next]_vars => IInv'
<1> SUFFICES ASSUME IInv, [Next]_vars PROVE IInv'
  OBVIOUS
<1>1. Typed /\ stop_ \in BOOLEAN /\ TaskInv /\ MutexInv /\ StopInv
      /\ NoLostWakeup /\ StopReachesAll /\ ExactlyOnce
  BY TypedIsTypeOK DEF IInv
<1>2. TypeOK'
  <2>1. Typed' /\ stop_' \in BOOLEAN  BY <1>1, TypeStep, StopIsBoolean
  <2> QED  BY <2>1 DEF Typed, TypeOK
<1>3. TaskInv'  BY <1>1, TypeStep
<1>4. MutexInv' /\ StopInv' /\ StopReachesAll'  BY <1>1, MutexStep, StopStep, StopReachesStep
<1>5. NoLostWakeup' /\ ExactlyOnce'  BY <1>1, NoLostWakeupStep, ExactlyOnceStep
<1> QED  BY <1>2, <1>3, <1>4, <1>5 DEF IInv

THEOREM Invariance == Spec => []IInv
  BY InitIInv, NextIInv, PTL DEF Spec

(* The pair "push under the mutex, notify outside it" loses no wake-up.    *)
THEOREM WakeupsKept == Spec => []NoLostWakeup
<1>1. IInv => NoLostWakeup  BY DEF IInv
<1> QED  BY <1>1, Invariance, PTL

(* Once the destructor is at its joins, every worker can come back.        *)
THEOREM NobodySleepsThroughStop == Spec => []StopReachesAll
<1>1. IInv => StopReachesAll  BY DEF IInv
<1> QED  BY <1>1, Invariance, PTL

(* No accepted task is dropped or run twice.                               *)
THEOREM TasksConserved == Spec => []ExactlyOnce
<1>1. IInv => ExactlyOnce  BY DEF IInv
<1> QED  BY <1>1, Invariance, PTL

(* What is left when all workers have exited: nothing.                     *)
LEMMA AllExited ==
  ASSUME IInv, At("exited") = Workers
  PROVE  stop_ /\ tasks_ = <<>> /\ finished = Accepted /\ \A w \in Workers : task[w] = NoTask
<1>1. tasks_ = <<>> /\ stop_
  BY WorkersAssumption DEF IInv, StopInv
<1>2. At("run") = {}  BY DEF At
<1>3. Queued = {} /\ Running = {}  BY <1>1, <1>2 DEF Queued, Running
<1>4. finished = Accepted  BY <1>3 DEF IInv, ExactlyOnce
<1>5. \A w \in Workers : task[w] = NoTask  BY <1>2 DEF IInv, TaskInv, At
<1> QED  BY <1>1, <1>4, <1>5

(* The destructor drains the queue before it returns.                      *)
THEOREM PoolDrains == Spec => []DestructorDrains
<1>1. IInv => DestructorDrains
  <2> SUFFICES ASSUME IInv, dtor = "destroyed" PROVE finished = Accepted
    BY DEF DestructorDrains
  <2>1. At("exited") = Workers  BY DEF IInv, StopInv
  <2> QED  BY <2>1, AllExited
<1> QED  BY <1>1, Invariance, PTL
-----------------------------------------------------------------------------
(* Refinement: Take, RunTask, Enqueue, RequestStop and JoinAll are the     *)
(* steps of TaskPool; the locking, the waiting and the waking are stutter. *)
LEMMA PoolInit == Init => Pool!Init
  BY DEF Init, Pool!Init, Accepted, CallsAt

LEMMA PoolStep ==
  ASSUME IInv, [Next]_vars PROVE [Pool!Next]_(Pool!vars)
<1>0. Typed /\ TaskInv /\ StopInv /\ ExactlyOnce  BY TypedIsTypeOK DEF IInv
<1>1. ASSUME UNCHANGED <<tasks_, task, finished, stop_>>, Accepted' = Accepted,
             (dtor = "destroyed")' = (dtor = "destroyed")
      PROVE  [Pool!Next]_(Pool!vars)
  BY <1>1 DEF Pool!vars
<1>2. ASSUME NEW w \in Workers, Worker(w) PROVE [Pool!Next]_(Pool!vars)
  <2>1. Accepted' = Accepted
    BY <1>2 DEF Worker, Wait, Block, SpuriousWakeup, Return, Take, RunTask, Accepted, CallsAt
  <2>2. CASE Wait(w) \/ Block(w) \/ SpuriousWakeup(w) \/ Return(w)
    BY <1>1, <2>1, <2>2 DEF Wait, Block, SpuriousWakeup, Return
  <2>3. CASE Take(w)
    <3>1. task[w] = NoTask  BY <1>0, <2>3 DEF Take, Locks, TaskInv
    <3>2. Pool!Begin(w)  BY <2>1, <2>3, <3>1 DEF Take, Pool!Begin
    <3> QED  BY <3>2 DEF Pool!Next
  <2>4. CASE RunTask(w)
    <3>1. task[w] # NoTask  BY <1>0, <2>4 DEF RunTask, TaskInv
    <3>2. Pool!Finish(w)  BY <2>1, <2>4, <3>1 DEF RunTask, Pool!Finish
    <3> QED  BY <3>2 DEF Pool!Next
  <2> QED  BY <1>2, <2>2, <2>3, <2>4 DEF Worker
<1>3. ASSUME NEW t \in Tasks, Enqueue(t) PROVE [Pool!Next]_(Pool!vars)
  <2>1. CASE stop_
    <3>1. Accepted' = Accepted  BY <1>0, <1>3, <2>1 DEF Enqueue, Accepted, CallsAt, Typed
    <3> QED  BY <1>1, <1>3, <2>1, <3>1 DEF Enqueue
  <2>2. CASE ~stop_
    <3>1. Accepted' = Accepted \cup {t} /\ t \notin Accepted
      BY <1>0, <1>3, <2>2 DEF Enqueue, Accepted, CallsAt, Typed
    <3>2. Pool!Submit(t)  BY <1>3, <2>2, <3>1 DEF Enqueue, Pool!Submit
    <3> QED  BY <3>2 DEF Pool!Next
  <2> QED  BY <2>1, <2>2
<1>4. ASSUME NEW t \in Tasks, NotifyOne(t) PROVE [Pool!Next]_(Pool!vars)
  <2>1. Accepted' = Accepted  BY <1>0, <1>4 DEF NotifyOne, Accepted, CallsAt, Typed
  <2> QED  BY <1>1, <1>4, <2>1 DEF NotifyOne
<1>5. CASE RequestStop
  <2>1. ~stop_ /\ Accepted' = Accepted
    BY <1>0, <1>5 DEF RequestStop, StopInv, Accepted, CallsAt
  <2>2. Pool!Close  BY <1>5, <2>1 DEF RequestStop, Pool!Close
  <2> QED  BY <2>2 DEF Pool!Next
<1>6. CASE NotifyAll
  <2>1. Accepted' = Accepted  BY <1>6 DEF NotifyAll, Accepted, CallsAt
  <2> QED  BY <1>1, <1>6, <2>1 DEF NotifyAll
<1>7. CASE JoinAll
  <2>1. Accepted' = Accepted  BY <1>7 DEF JoinAll, Accepted, CallsAt
  <2>2. stop_ /\ tasks_ = <<>> /\ finished = Accepted /\ \A w \in Workers : task[w] = NoTask
    BY <1>7, AllExited DEF JoinAll
  <2>3. Pool!TearDown  BY <1>7, <2>1, <2>2 DEF JoinAll, Pool!TearDown
  <2> QED  BY <2>3 DEF Pool!Next
<1>8. CASE UNCHANGED vars
  <2>1. Accepted' = Accepted  BY <1>8 DEF vars, Accepted, CallsAt
  <2> QED  BY <1>1, <1>8, <2>1 DEF vars
<1> QED  BY <1>2, <1>3, <1>4, <1>5, <1>6, <1>7, <1>8 DEF Next

(* The mutex, the condition variable and the loop implement a FIFO pool.   *)
THEOREM Refinement == Spec => ImplementsTaskPool
<1>1. IInv /\ [Next]_vars => [Pool!Next]_(Pool!vars)  BY PoolStep
<1> QED  BY <1>1, PoolInit, Invariance, PTL DEF Spec, Pool!Spec, ImplementsTaskPool
=============================================================================
