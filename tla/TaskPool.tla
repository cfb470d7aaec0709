------------------------------ MODULE TaskPool ------------------------------
(***************************************************************************)
(* What a ThreadPool promises its owner, without the mutex, the condition  *)
(* variable and the worker loop: a FIFO of submitted tasks, one slot per   *)
(* worker, and a teardown that happens only once everything accepted has   *)
(* run to its end.  ThreadPool implements this module; Server uses it.     *)
(***************************************************************************)
EXTENDS Sequences

CONSTANTS Workers,   \* the slots, one per thread of the pool
          Tasks,     \* the tasks that may be submitted
          NoTask     \* content of an idle slot, no member of Tasks

VARIABLES queue,     \* accepted tasks that no worker has taken yet
          slot,      \* slot[w]: the task worker w runs, or NoTask
          submitted, \* the tasks accepted so far
          finished,  \* the tasks that have run to their end
          closed,    \* the pool refuses new tasks
          gone       \* the destructor has returned

vars == <<queue, slot, submitted, finished, closed, gone>>

Init == /\ queue = <<>>
        /\ slot = [w \in Workers |-> NoTask]
        /\ submitted = {}
        /\ finished = {}
        /\ closed = FALSE
        /\ gone = FALSE

Submit(t) == /\ ~closed
             /\ t \notin submitted
             /\ submitted' = submitted \cup {t}
             /\ queue' = Append(queue, t)
             /\ UNCHANGED <<slot, finished, closed, gone>>

Begin(w) == /\ queue # <<>>
            /\ slot[w] = NoTask
            /\ slot' = [slot EXCEPT ![w] = Head(queue)]
            /\ queue' = Tail(queue)
            /\ UNCHANGED <<submitted, finished, closed, gone>>

Finish(w) == /\ slot[w] # NoTask
             /\ finished' = finished \cup {slot[w]}
             /\ slot' = [slot EXCEPT ![w] = NoTask]
             /\ UNCHANGED <<queue, submitted, closed, gone>>

Close == /\ ~closed
         /\ closed' = TRUE
         /\ UNCHANGED <<queue, slot, submitted, finished, gone>>

TearDown == /\ closed
            /\ ~gone
            /\ submitted = finished
            /\ queue = <<>>
            /\ \A w \in Workers : slot[w] = NoTask
            /\ gone' = TRUE
            /\ UNCHANGED <<queue, slot, submitted, finished, closed>>

Next == \/ \E t \in Tasks : Submit(t)
        \/ \E w \in Workers : Begin(w) \/ Finish(w)
        \/ Close
        \/ TearDown

Spec == Init /\ [][Next]_vars
=============================================================================
