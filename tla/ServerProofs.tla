---------------------------- MODULE ServerProofs ----------------------------
(* The safety of Server for any clients, workers and bounds: who owns a    *)
(* connection, where a request is, what is left when start() returns, what *)
(* stop() is final about, and that the pool is used as TaskPool allows.    *)
EXTENDS Server, FiniteSetTheorems, TLAPS

Typed == /\ queue \in Seq(Clients) /\ backlog \in Seq(Clients)
         /\ slot \in [Workers -> Clients \cup {NoClient}]
         /\ sock \in [Clients -> {"none", "queued", "accepted", "closed", "reset"}]

(* The accept loop's local and the pool's state follow its place.          *)
LoopInv == /\ closed => main \in {"join", "returned", "destroyed"}
           /\ main # "enqueue" => clientSocket = NoClient
           /\ main = "enqueue" => clientSocket \in Clients

(* The half of ConnectionsConserved that a return from start() rests on.   *)
Owned == \A c \in Clients : sock[c] = "accepted" =>
            c = clientSocket \/ c \in Waiting(queue) \/ \E w \in Workers : slot[w] = c

(* Nothing is accepted before the loop starts nor after the pool is gone.  *)
Quiet == /\ \A c \in Clients : sock[c] # "accepted"
         /\ queue = <<>> /\ \A w \in Workers : slot[w] = NoClient
QuietInv == main \in Setup \cup {"returned", "destroyed"} => Quiet

IInv == Typed /\ LoopInv /\ Owned /\ QuietInv

LEMMA WaitingFacts ==
  ASSUME NEW S, NEW q \in Seq(S)
  PROVE  /\ q # <<>> => /\ Head(q) \in S /\ Tail(q) \in Seq(S)
                        /\ Waiting(q) = {Head(q)} \cup Waiting(Tail(q))
         /\ \A x \in S : /\ Append(q, x) \in Seq(S)
                         /\ Waiting(Append(q, x)) = Waiting(q) \cup {x}
<1>1. ASSUME q # <<>>
      PROVE  /\ Head(q) \in S /\ Tail(q) \in Seq(S)
             /\ Waiting(q) = {Head(q)} \cup Waiting(Tail(q))
  <2>1. /\ Len(q) \in Nat /\ Len(q) >= 1 /\ DOMAIN q = 1..Len(q)
        /\ Head(q) = q[1] /\ Head(q) \in S
        /\ Tail(q) \in Seq(S) /\ DOMAIN Tail(q) = 1 .. Len(q) - 1
        /\ \A i \in 1 .. Len(q) - 1 : Tail(q)[i] = q[i + 1]
    BY <1>1
  <2>2. ASSUME NEW i \in 1..Len(q), i # 1 PROVE q[i] \in Waiting(Tail(q))
    <3>1. i - 1 \in 1 .. Len(q) - 1 /\ q[i] = Tail(q)[i - 1]  BY <2>1, <2>2
    <3> QED  BY <2>1, <3>1 DEF Waiting
  <2>3. ASSUME NEW i \in 1 .. Len(q) - 1 PROVE Tail(q)[i] \in Waiting(q)
    <3>1. i + 1 \in 1..Len(q)  BY <2>1
    <3> QED  BY <2>1, <3>1 DEF Waiting
  <2>4. q[1] \in Waiting(q)  BY <2>1 DEF Waiting
  <2> QED  BY <2>1, <2>2, <2>3, <2>4 DEF Waiting
<1>2. ASSUME NEW x \in S
      PROVE  Append(q, x) \in Seq(S) /\ Waiting(Append(q, x)) = Waiting(q) \cup {x}
  <2>1. /\ Len(q) \in Nat /\ DOMAIN q = 1..Len(q)
        /\ Append(q, x) \in Seq(S) /\ DOMAIN Append(q, x) = 1 .. Len(q) + 1
        /\ \A i \in 1..Len(q) : i \in 1 .. Len(q) + 1 /\ Append(q, x)[i] = q[i]
        /\ Len(q) + 1 \in 1 .. Len(q) + 1 /\ Append(q, x)[Len(q) + 1] = x
    OBVIOUS
  <2>2. \A i \in 1 .. Len(q) + 1 : i \in 1..Len(q) \/ i = Len(q) + 1  BY <2>1
  <2> QED  BY <2>1, <2>2 DEF Waiting
<1> QED  BY <1>1, <1>2

(* A queue without repetitions stays one.                                  *)
Distinct(q) == \A i, j \in DOMAIN q : q[i] = q[j] => i = j

LEMMA DistinctFacts ==
  ASSUME NEW S, NEW q \in Seq(S), Distinct(q)
  PROVE  /\ q # <<>> => Distinct(Tail(q)) /\ Head(q) \notin Waiting(Tail(q))
         /\ \A x \in S : x \notin Waiting(q) => Distinct(Append(q, x))
<1>1. ASSUME q # <<>> PROVE Distinct(Tail(q)) /\ Head(q) \notin Waiting(Tail(q))
  <2>1. /\ Len(q) \in Nat /\ Len(q) >= 1 /\ DOMAIN q = 1..Len(q) /\ Head(q) = q[1]
        /\ DOMAIN Tail(q) = 1 .. Len(q) - 1
        /\ \A i \in 1 .. Len(q) - 1 : Tail(q)[i] = q[i + 1]
    BY <1>1
  <2>2. \A i \in 1 .. Len(q) - 1 : i + 1 \in 1..Len(q) /\ i + 1 # 1  BY <2>1
  <2>3. Distinct(Tail(q))  BY <2>1, <2>2 DEF Distinct
  <2>4. Head(q) \notin Waiting(Tail(q))  BY <2>1, <2>2 DEF Distinct, Waiting
  <2> QED  BY <2>3, <2>4
<1>2. ASSUME NEW x \in S, x \notin Waiting(q) PROVE Distinct(Append(q, x))
  <2>1. /\ Len(q) \in Nat /\ DOMAIN q = 1..Len(q)
        /\ DOMAIN Append(q, x) = 1 .. Len(q) + 1
        /\ \A i \in 1..Len(q) : Append(q, x)[i] = q[i]
        /\ Append(q, x)[Len(q) + 1] = x
    OBVIOUS
  <2>2. \A i \in 1 .. Len(q) + 1 : i \in 1..Len(q) \/ i = Len(q) + 1  BY <2>1
  <2>3. \A i \in 1..Len(q) : q[i] # x  BY <1>2, <2>1 DEF Waiting
  <2> QED  BY <2>1, <2>2, <2>3 DEF Distinct
<1> QED  BY <1>1, <1>2

LEMMA NothingWaits == Waiting(<<>>) = {}
  BY DEF Waiting

LEMMA InitIInv == Init => IInv
<1> SUFFICES ASSUME Init PROVE IInv
  OBVIOUS
<1>1. /\ queue = <<>> /\ backlog = <<>> /\ slot = [w \in Workers |-> NoClient]
      /\ sock = [c \in Clients |-> "none"]
      /\ main = "socket" /\ clientSocket = NoClient /\ closed = FALSE
  BY DEF Init, Pool!Init
<1>2. Typed  BY <1>1 DEF Typed
<1>3. LoopInv  BY <1>1 DEF LoopInv
<1>4. Quiet  BY <1>1 DEF Quiet
<1> QED  BY <1>2, <1>3, <1>4 DEF IInv, Owned, Quiet, QuietInv
-----------------------------------------------------------------------------
(* Resetting connections accepts none.                                     *)
LEMMA ResetTyped ==
  ASSUME Typed, NEW q, ResetAll(q)
  PROVE  /\ sock' \in [Clients -> {"none", "queued", "accepted", "closed", "reset"}]
         /\ \A c \in Clients : sock'[c] = "accepted" => sock[c] = "accepted"
  BY DEF Typed, ResetAll

(* A step that moves no connection keeps what is said of them.             *)
LEMMA FrameStep ==
  ASSUME IInv, UNCHANGED <<queue, slot, closed, clientSocket>>,
         backlog' \in Seq(Clients),
         sock' \in [Clients -> {"none", "queued", "accepted", "closed", "reset"}],
         \A c \in Clients : sock'[c] = "accepted" => sock[c] = "accepted",
         \/ main' = main
         \/ main' \in {"returned", "destroyed"}
              /\ main \in Setup \cup {"returned", "destroyed"}
         \/ main \in Setup /\ main' \in Setup \cup {"test"}
         \/ main \in {"test", "call", "blocked"} /\ main' \in {"test", "call", "blocked", "destroyPool"}
  PROVE  IInv'
<1>1. Typed'  BY DEF IInv, Typed
<1>2. LoopInv'  BY DEF IInv, LoopInv, Setup
<1>3. Owned'  BY DEF IInv, Owned
<1>4. QuietInv'  BY DEF IInv, QuietInv, Quiet, Setup
<1> QED  BY <1>1, <1>2, <1>3, <1>4 DEF IInv

LEMMA SocketClosed ==
  ASSUME CloseSocket PROVE (backlog' = <<>> /\ ResetAll(backlog)) \/ UNCHANGED <<backlog, sock>>
  BY DEF CloseSocket, CloseListener

LEMMA ListenerStep ==
  ASSUME Typed, CloseSocket \/ UNCHANGED <<listener, backlog, sock>>
  PROVE  /\ backlog' \in Seq(Clients)
         /\ sock' \in [Clients -> {"none", "queued", "accepted", "closed", "reset"}]
         /\ \A c \in Clients : sock'[c] = "accepted" => sock[c] = "accepted"
<1>1. CASE UNCHANGED <<backlog, sock>>  BY <1>1 DEF Typed
<1>2. CASE backlog' = <<>> /\ ResetAll(backlog)  BY <1>2, ResetTyped
<1> QED  BY <1>1, <1>2, SocketClosed

LEMMA MainStep ==
  ASSUME IInv, Main PROVE IInv'
<1>0. Typed /\ LoopInv /\ Owned /\ QuietInv  BY DEF IInv
<1>1. CASE CreateSocket \/ BindAndListen \/ BindFails \/ InitCleanup \/ InitClear \/ SetRunning
             \/ TestRunning \/ CallAccept
  <2>1. UNCHANGED <<queue, slot, closed, clientSocket, backlog, sock>>
    BY <1>1 DEF CreateSocket, BindAndListen, BindFails, InitCleanup, InitClear,
                SetRunning, TestRunning, CallAccept, poolVars, kernelVars
  <2>2. \/ main' = "returned" /\ main \in Setup
        \/ main \in Setup /\ main' \in Setup \cup {"test"}
        \/ main \in {"test", "call"} /\ main' \in {"test", "call", "blocked", "destroyPool"}
    BY <1>1 DEF CreateSocket, BindAndListen, BindFails, InitCleanup, InitClear,
                SetRunning, TestRunning, CallAccept, Setup
  <2> QED  BY <1>0, <2>1, <2>2, FrameStep DEF Typed
<1>2. CASE Accept
  <2> DEFINE c == Head(backlog)
  <2>1. /\ main = "blocked" /\ main' = "enqueue" /\ clientSocket' = c
        /\ UNCHANGED <<queue, slot, closed>> /\ backlog # <<>>
        /\ backlog' \in {Tail(backlog), <<>>}
        /\ \/ sock' = [sock EXCEPT ![c] = "accepted"]
           \/ sock' = [d \in Clients |-> IF d \in Waiting(Tail(backlog)) THEN "reset"
                                         ELSE [sock EXCEPT ![c] = "accepted"][d]]
    BY <1>2 DEF Accept, poolVars
  <2>2. c \in Clients /\ backlog' \in Seq(Clients)
    <3>1. backlog \in Seq(Clients) /\ backlog # <<>>  BY <1>0, <2>1 DEF Typed
    <3>2. c \in Clients /\ Tail(backlog) \in Seq(Clients)  BY <3>1, WaitingFacts
    <3>3. backlog' = Tail(backlog) \/ backlog' = <<>>  BY <2>1
    <3>4. << >> \in Seq(Clients)  OBVIOUS
    <3> HIDE DEF c
    <3> QED  BY <3>2, <3>3, <3>4, Zenon
  <2>3. /\ sock' \in [Clients -> {"none", "queued", "accepted", "closed", "reset"}]
        /\ \A d \in Clients : sock'[d] = "accepted" => sock[d] = "accepted" \/ d = c
    BY <1>0, <2>1, <2>2 DEF Typed
  <2>4. Typed'  BY <1>0, <2>1, <2>2, <2>3 DEF Typed
  <2>5. LoopInv'
    <3>1. ~closed  BY <1>0, <2>1 DEF LoopInv
    <3> QED  BY <2>1, <2>2, <3>1 DEF LoopInv
  <2>6. clientSocket = NoClient  BY <1>0, <2>1 DEF LoopInv
  <2>7. Owned'
    <3>1. clientSocket' = c /\ UNCHANGED <<queue, slot>>  BY <2>1
    <3>2. \A d \in Clients : d # clientSocket  BY <2>6, ServerAssumption
    <3> HIDE DEF c
    <3> QED  BY <1>0, <2>3, <3>1, <3>2 DEF Owned
  <2>8. QuietInv'  BY <2>1 DEF QuietInv, Setup
  <2> QED  BY <2>4, <2>5, <2>7, <2>8 DEF IInv
<1>3. CASE AcceptFails
  <2>1. /\ main = "blocked" /\ main' = "test" /\ UNCHANGED <<queue, slot, closed, clientSocket>>
        /\ (backlog' = <<>> /\ ResetAll(backlog)) \/ UNCHANGED <<backlog, sock>>
    BY <1>3 DEF AcceptFails, poolVars
  <2>2. CASE UNCHANGED <<backlog, sock>>
    BY <1>0, <2>1, <2>2, FrameStep DEF Typed
  <2>3. CASE backlog' = <<>> /\ ResetAll(backlog)
    BY <1>0, <2>1, <2>3, FrameStep, ResetTyped
  <2> QED  BY <2>1, <2>2, <2>3
<1>4. CASE Enqueue
  <2>1. main = "enqueue" /\ main' = "test" /\ clientSocket' = NoClient /\ UNCHANGED <<backlog, sock>>
    BY <1>4 DEF Enqueue, kernelVars
  <2>2. ~closed  BY <1>0, <2>1 DEF LoopInv
  <2>3. Pool!Submit(clientSocket)  BY <1>4, <2>2 DEF Enqueue
  <2>4. queue' = Append(queue, clientSocket) /\ UNCHANGED <<slot, closed>>
    BY <2>3 DEF Pool!Submit
  <2>5. clientSocket \in Clients  BY <1>0, <2>1 DEF LoopInv
  <2>6. /\ queue' \in Seq(Clients)
        /\ Waiting(queue) \cup {clientSocket} \subseteq Waiting(queue')
    BY <1>0, <2>4, <2>5, WaitingFacts DEF Typed
  <2>7. Typed'  BY <1>0, <2>1, <2>4, <2>6 DEF Typed
  <2>8. LoopInv'  BY <2>1, <2>2, <2>4 DEF LoopInv
  <2>9. Owned'  BY <1>0, <2>1, <2>4, <2>6 DEF Owned
  <2>10. QuietInv'  BY <2>1 DEF QuietInv, Setup
  <2> QED  BY <2>7, <2>8, <2>9, <2>10 DEF IInv
<1>5. CASE ClosePool
  <2>1. /\ main = "destroyPool" /\ main' = "join"
        /\ UNCHANGED <<queue, slot, clientSocket, backlog, sock>>
    BY <1>5 DEF ClosePool, Pool!Close, kernelVars
  <2> QED  BY <1>0, <2>1 DEF IInv, Typed, LoopInv, Owned, QuietInv, Setup
<1>6. CASE JoinPool
  <2>1. /\ main = "join" /\ main' = "returned" /\ queue = <<>>
        /\ \A w \in Workers : slot[w] = NoClient
        /\ UNCHANGED <<queue, slot, clientSocket, closed, backlog, sock>>
    BY <1>6 DEF JoinPool, Pool!TearDown, kernelVars
  <2>2. clientSocket = NoClient  BY <1>0, <2>1 DEF LoopInv
  <2>3. \A c \in Clients : sock[c] # "accepted"
    BY <1>0, <2>1, <2>2, NothingWaits, ServerAssumption DEF Owned
  <2> QED  BY <1>0, <2>1, <2>3 DEF IInv, Typed, LoopInv, Owned, QuietInv, Quiet
<1>7. CASE Destroy
  <2>1. /\ main = "returned" /\ main' = "destroyed" /\ UNCHANGED <<queue, slot, closed, clientSocket>>
        /\ CloseSocket
    BY <1>7 DEF Destroy, poolVars
  <2> QED  BY <1>0, <2>1, ListenerStep, FrameStep
<1>8. CASE InitClose
  <2>1. /\ main = "close" /\ main' = "clear" /\ CloseSocket
        /\ UNCHANGED <<queue, slot, closed, clientSocket>>
    BY <1>8 DEF InitClose, poolVars
  <2>2. main \in Setup /\ main' \in Setup  BY <2>1 DEF Setup
  <2> QED  BY <1>0, <2>1, <2>2, ListenerStep, FrameStep
<1> QED  BY <1>1, <1>2, <1>3, <1>4, <1>5, <1>6, <1>7, <1>8 DEF Main

LEMMA StopperStep ==
  ASSUME IInv, Stopper PROVE IInv'
<1>0. Typed  BY DEF IInv
<1>1. UNCHANGED <<queue, slot, closed, clientSocket, main>>
  BY DEF Stopper, Stop, CleanupTest, CleanupClose, CleanupClear, poolVars
<1>2. CloseSocket \/ UNCHANGED <<listener, backlog, sock>>
  BY DEF Stopper, Stop, CleanupTest, CleanupClose, CleanupClear, kernelVars
<1> QED  BY <1>0, <1>1, <1>2, ListenerStep, FrameStep

(* A worker takes a connection from the head of the queue.                 *)
LEMMA BeginStep ==
  ASSUME IInv, NEW w \in Workers, BeginHandler(w) PROVE IInv'
<1>0. Typed /\ LoopInv /\ Owned /\ QuietInv  BY DEF IInv
<1>1. /\ queue # <<>> /\ slot[w] = NoClient
      /\ slot' = [slot EXCEPT ![w] = Head(queue)] /\ queue' = Tail(queue)
      /\ UNCHANGED <<closed, main, clientSocket, backlog, sock>>
  BY DEF BeginHandler, Pool!Begin, threadVars, kernelVars
<1>2. /\ Head(queue) \in Clients /\ queue' \in Seq(Clients)
      /\ Waiting(queue) = {Head(queue)} \cup Waiting(queue')
  BY <1>0, <1>1, WaitingFacts DEF Typed
<1>3. Typed'  BY <1>0, <1>1, <1>2 DEF Typed
<1>4. LoopInv'  BY <1>0, <1>1 DEF LoopInv
<1>5. /\ slot'[w] = Head(queue)
      /\ \A v \in Workers : v # w => slot'[v] = slot[v]
  BY <1>0, <1>1 DEF Typed
<1>6. Owned'
  <2> SUFFICES ASSUME NEW c \in Clients, sock[c] = "accepted"
               PROVE  \/ c = clientSocket \/ c \in Waiting(queue')
                      \/ \E v \in Workers : slot'[v] = c
    BY <1>1 DEF Owned
  <2>1. \/ c = clientSocket \/ c \in Waiting(queue) \/ \E v \in Workers : slot[v] = c
    BY <1>0 DEF Owned
  <2>2. \A v \in Workers : slot[v] = c => v # w  BY <1>1, ServerAssumption
  <2> QED  BY <1>2, <1>5, <2>1, <2>2
<1>7. QuietInv'  BY <1>0, <1>1 DEF QuietInv, Quiet
<1> QED  BY <1>3, <1>4, <1>6, <1>7 DEF IInv

(* A handler ends with its connection closed; its other steps leave both.  *)
LEMMA HandlerStep ==
  ASSUME IInv, NEW w \in Workers, NEW c \in Clients, Handler(w, c) PROVE IInv'
<1>0. Typed /\ LoopInv /\ Owned /\ QuietInv  BY DEF IInv
<1>1. CASE ReadMessage(w, c) \/ ProcessCommand(w, c) \/ ProcessThrows(w, c) \/ SendMessage(w, c)
  <2>1. UNCHANGED <<queue, slot, closed, main, clientSocket, backlog, sock>>
    BY <1>1 DEF ReadMessage, ProcessCommand, ProcessThrows, SendMessage,
                threadVars, poolVars, kernelVars
  <2> QED  BY <1>0, <2>1, FrameStep DEF Typed
<1>2. CASE ReadNothing(w, c) \/ SendFails(w, c)
  <2>1. /\ slot[w] = c /\ slot' = [slot EXCEPT ![w] = NoClient]
        /\ sock' = [sock EXCEPT ![c] = "closed"]
        /\ UNCHANGED <<queue, closed, main, clientSocket, backlog>>
    BY <1>2 DEF ReadNothing, SendFails, Handles, CloseClient, Pool!Finish, threadVars
  <2>2. Typed'  BY <1>0, <2>1 DEF Typed
  <2>3. LoopInv'  BY <1>0, <2>1 DEF LoopInv
  <2>4. /\ slot'[w] = NoClient /\ \A v \in Workers : v # w => slot'[v] = slot[v]
        /\ sock'[c] = "closed" /\ \A d \in Clients : d # c => sock'[d] = sock[d]
    BY <1>0, <2>1 DEF Typed
  <2>5. Owned'
    <3> SUFFICES ASSUME NEW d \in Clients, sock'[d] = "accepted"
                 PROVE  \/ d = clientSocket \/ d \in Waiting(queue)
                        \/ \E v \in Workers : slot'[v] = d
      BY <2>1 DEF Owned
    <3>1. d # c /\ sock[d] = "accepted"  BY <2>4
    <3>2. \/ d = clientSocket \/ d \in Waiting(queue) \/ \E v \in Workers : slot[v] = d
      BY <1>0, <3>1 DEF Owned
    <3>3. \A v \in Workers : slot[v] = d => v # w  BY <2>1, <3>1
    <3> QED  BY <2>4, <3>2, <3>3
  <2>6. QuietInv'
    <3>1. ~Quiet  BY <2>1, ServerAssumption DEF Quiet
    <3> QED  BY <1>0, <2>1, <3>1 DEF QuietInv
  <2> QED  BY <2>2, <2>3, <2>5, <2>6 DEF IInv
<1> QED  BY <1>1, <1>2 DEF Handler

LEMMA ClientStep ==
  ASSUME IInv, NEW c \in Clients, Client(c) PROVE IInv'
<1>0. Typed  BY DEF IInv
<1>1. UNCHANGED <<queue, slot, closed, main, clientSocket>>
  BY DEF Client, Connect, SendCommand, ReceiveResponse, Leave, threadVars, poolVars
<1>2. CASE Connect(c)
  <2>1. backlog' = Append(backlog, c) /\ sock' = [sock EXCEPT ![c] = "queued"]
    BY <1>2 DEF Connect
  <2>2. backlog' \in Seq(Clients)  BY <1>0, <2>1, WaitingFacts DEF Typed
  <2>3. /\ sock' \in [Clients -> {"none", "queued", "accepted", "closed", "reset"}]
        /\ \A d \in Clients : sock'[d] = "accepted" => sock[d] = "accepted"
    BY <1>0, <2>1 DEF Typed
  <2> QED  BY <1>1, <2>2, <2>3, FrameStep
<1>3. CASE SendCommand(c) \/ ReceiveResponse(c) \/ Leave(c)
  <2>1. UNCHANGED <<backlog, sock>>
    BY <1>3 DEF SendCommand, ReceiveResponse, Leave, kernelVars
  <2> QED  BY <1>0, <1>1, <2>1, FrameStep DEF Typed
<1> QED  BY <1>2, <1>3 DEF Client

LEMMA NextIInv == IInv /\ [Next]_vars => IInv'
<1> SUFFICES ASSUME IInv, [Next]_vars PROVE IInv'
  OBVIOUS
<1>1. CASE Next  BY <1>1, MainStep, StopperStep, BeginStep, HandlerStep, ClientStep DEF Next
<1>2. CASE UNCHANGED vars
  <2>1. UNCHANGED <<queue, slot, closed, main, clientSocket, backlog, sock>>
    BY <1>2 DEF vars, threadVars, poolVars, kernelVars
  <2> QED  BY <2>1, FrameStep DEF IInv, Typed
<1> QED  BY <1>1, <1>2

(* Once start() has returned, no connection is open and no handler, queued *)
(* or running, is left to use the server through its raw pointer: the      *)
(* destruction of the pool at the end of acceptClients waited for them.    *)
THEOREM HandlersEndFirst == Spec => []NoHandlerOutlivesStart
<1>1. IInv => NoHandlerOutlivesStart
  BY DEF IInv, QuietInv, Quiet, NoHandlerOutlivesStart
<1> QED  BY <1>1, InitIInv, NextIInv, PTL DEF Spec
-----------------------------------------------------------------------------
(* The socket is created once, before stop() can have closed anything, and *)
(* between a close and the clear after it nothing can open it again.       *)
SocketInv == /\ main = "socket" => serverSocket_ = "invalid" /\ listener = "none"
             /\ stopper \in {"close", "clear"} => main # "socket"
             /\ stopper = "clear" \/ main = "clear" => listener \notin {"open", "listening"}
             /\ ListenerOwned

LEMMA CloseShuts ==
  ASSUME ListenerOwned, CloseSocket PROVE listener' \notin {"open", "listening"}
  BY DEF ListenerOwned, CloseSocket, CloseListener

LEMMA SocketStep == SocketInv /\ [Next]_vars => SocketInv'
<1> SUFFICES ASSUME SocketInv, [Next]_vars PROVE SocketInv'
  OBVIOUS
<1> USE DEF SocketInv, ListenerOwned
<1>1. CASE Main
  <2>1. CASE CreateSocket  BY <2>1 DEF CreateSocket
  <2>2. CASE BindAndListen \/ BindFails \/ InitCleanup \/ InitClear
    BY <2>2 DEF BindAndListen, BindFails, InitCleanup, InitClear, kernelVars
  <2>3. CASE SetRunning \/ TestRunning \/ CallAccept \/ Enqueue \/ ClosePool \/ JoinPool
    BY <2>3 DEF SetRunning, TestRunning, CallAccept, Enqueue, ClosePool, JoinPool, kernelVars
  <2>4. CASE Accept \/ AcceptFails  BY <2>4 DEF Accept, AcceptFails
  <2>5. CASE Destroy \/ InitClose
    <3>1. listener' \notin {"open", "listening"}  BY <2>5, CloseShuts DEF Destroy, InitClose
    <3>2. main' \in {"destroyed", "clear"}  BY <2>5 DEF Destroy, InitClose
    <3> QED  BY <3>1, <3>2
  <2> QED  BY <1>1, <2>1, <2>2, <2>3, <2>4, <2>5 DEF Main
<1>2. CASE Stopper
  <2>1. CASE Stop \/ CleanupTest  BY <2>1 DEF Stop, CleanupTest, kernelVars
  <2>2. CASE CleanupClose
    <3>1. listener' \notin {"open", "listening"}  BY <2>2, CloseShuts DEF CleanupClose
    <3> QED  BY <2>2, <3>1 DEF CleanupClose
  <2>3. CASE CleanupClear  BY <2>3 DEF CleanupClear, kernelVars
  <2> QED  BY <1>2, <2>1, <2>2, <2>3 DEF Stopper
<1>3. ASSUME NEW w \in Workers, BeginHandler(w) PROVE SocketInv'
  BY <1>3 DEF BeginHandler, threadVars, kernelVars
<1>4. ASSUME NEW w \in Workers, NEW c \in Clients, Handler(w, c) PROVE SocketInv'
  BY <1>4 DEF Handler, ReadMessage, ReadNothing, ProcessCommand, ProcessThrows,
              SendMessage, SendFails, threadVars, kernelVars
<1>5. ASSUME NEW c \in Clients, Client(c) PROVE SocketInv'
  BY <1>5 DEF Client, Connect, SendCommand, ReceiveResponse, Leave, threadVars, kernelVars
<1>6. CASE UNCHANGED vars  BY <1>6 DEF vars, threadVars, kernelVars
<1> QED  BY <1>1, <1>2, <1>3, <1>4, <1>5, <1>6 DEF Next

(* However stop() and the thread inside start() race on serverSocket_, an  *)
(* open listening socket stays within reach of cleanupSocket.              *)
THEOREM ListenerStaysOwned == Spec => []ListenerOwned
<1>1. Init => SocketInv  BY DEF Init, SocketInv, ListenerOwned
<1>2. SocketInv => ListenerOwned  BY DEF SocketInv
<1> QED  BY <1>1, <1>2, SocketStep, PTL DEF Spec
-----------------------------------------------------------------------------
(* The rest of TypeOK, without the Booleans: the provers take the two      *)
(* kinds apart.                                                            *)
ThreadsTyped == /\ serverSocket_ \in {"invalid", "fd"} /\ main \in MainAt
                /\ stopper \in {"idle", "cleanup", "close", "clear", "done"}
                /\ listener \in {"none", "open", "listening", "closed", "reclosed"}
PeersTyped   == /\ hpc \in [Workers -> {"read", "process", "send"}]
                /\ client \in [Clients -> {"new", "idle", "awaiting", "left"}]
                /\ sent \in [Clients -> 0..MaxRequests]
                /\ wire \in [Clients -> {"none", "request", "response"}]
PoolTyped    == submitted \in SUBSET Clients /\ finished \in SUBSET Clients
Flags        == running_ \in BOOLEAN /\ closed \in BOOLEAN /\ gone \in BOOLEAN /\ alive \in BOOLEAN

LEMMA ThreadsStep == ASSUME ThreadsTyped, [Next]_vars PROVE ThreadsTyped'
<1> USE DEF ThreadsTyped, MainAt, Setup
<1>1. CASE Main
  <2>1. CASE CreateSocket \/ BindAndListen \/ BindFails \/ InitCleanup \/ InitClear
    BY <2>1 DEF CreateSocket, BindAndListen, BindFails, InitCleanup, InitClear, kernelVars
  <2>2. CASE SetRunning \/ TestRunning \/ CallAccept \/ Enqueue \/ ClosePool \/ JoinPool
    BY <2>2 DEF SetRunning, TestRunning, CallAccept, Enqueue, ClosePool, JoinPool, kernelVars
  <2>3. CASE Accept \/ AcceptFails  BY <2>3 DEF Accept, AcceptFails
  <2>4. CASE Destroy \/ InitClose
    BY <2>4 DEF Destroy, InitClose, CloseSocket, CloseListener
  <2> QED  BY <1>1, <2>1, <2>2, <2>3, <2>4 DEF Main
<1>2. CASE Stopper  BY <1>2 DEF Stopper, Stop, CleanupTest, CleanupClose, CleanupClear,
                                CloseSocket, CloseListener, kernelVars
<1>3. ASSUME NEW w \in Workers, BeginHandler(w) PROVE ThreadsTyped'
  BY <1>3 DEF BeginHandler, threadVars, kernelVars
<1>4. ASSUME NEW w \in Workers, NEW c \in Clients, Handler(w, c) PROVE ThreadsTyped'
  BY <1>4 DEF Handler, ReadMessage, ReadNothing, ProcessCommand, ProcessThrows,
              SendMessage, SendFails, threadVars, kernelVars
<1>5. ASSUME NEW c \in Clients, Client(c) PROVE ThreadsTyped'
  BY <1>5 DEF Client, Connect, SendCommand, ReceiveResponse, Leave, threadVars, kernelVars
<1>6. CASE UNCHANGED vars  BY <1>6 DEF vars, threadVars, kernelVars
<1> QED  BY <1>1, <1>2, <1>3, <1>4, <1>5, <1>6 DEF Next

LEMMA PeersStep == ASSUME PeersTyped, [Next]_vars PROVE PeersTyped'
<1> USE DEF PeersTyped
<1>1. CASE Main \/ Stopper \/ UNCHANGED vars
  <2>1. UNCHANGED <<hpc, client, sent, wire>>
    BY <1>1 DEF Main, CreateSocket, BindAndListen, BindFails, InitCleanup, InitClose, InitClear,
                SetRunning, TestRunning, CallAccept, Accept, AcceptFails, Enqueue, ClosePool,
                JoinPool, Destroy, Stopper, Stop, CleanupTest, CleanupClose, CleanupClear,
                clientVars, kernelVars, vars
  <2> QED  BY <2>1
<1>2. ASSUME NEW w \in Workers, BeginHandler(w) PROVE PeersTyped'
  BY <1>2 DEF BeginHandler, clientVars, kernelVars
<1>3. ASSUME NEW w \in Workers, NEW c \in Clients, Handler(w, c) PROVE PeersTyped'
  BY <1>3 DEF Handler, ReadMessage, ReadNothing, ProcessCommand, ProcessThrows,
              SendMessage, SendFails, CloseClient, clientVars, kernelVars
<1>4. ASSUME NEW c \in Clients, Client(c) PROVE PeersTyped'
  <2>1. CASE SendCommand(c)
    <3>1. sent[c] \in 0..MaxRequests /\ sent[c] < MaxRequests  BY <2>1 DEF SendCommand
    <3>2. sent[c] + 1 \in 0..MaxRequests  BY <3>1, ServerAssumption
    <3> QED  BY <2>1, <3>2 DEF SendCommand
  <2>2. CASE Connect(c) \/ ReceiveResponse(c) \/ Leave(c)
    BY <2>2 DEF Connect, ReceiveResponse, Leave, kernelVars
  <2> QED  BY <1>4, <2>1, <2>2 DEF Client
<1> QED  BY <1>1, <1>2, <1>3, <1>4 DEF Next

(* What the pool accepted and finished are connections, and a full backlog *)
(* takes no more.                                                          *)
LEMMA PoolStep ==
  ASSUME IInv, PoolTyped, Len(backlog) <= Backlog, [Next]_vars
  PROVE  PoolTyped' /\ Len(backlog') <= Backlog
<1> USE DEF PoolTyped
<1>0. backlog \in Seq(Clients) /\ Len(backlog) \in Nat /\ Len(<<>>) = 0 /\ Backlog \in Nat
  BY ServerAssumption DEF IInv, Typed
<1>1. CASE CreateSocket \/ BindAndListen \/ BindFails \/ InitCleanup \/ InitClear \/ SetRunning
             \/ TestRunning \/ CallAccept
            \/ ClosePool \/ JoinPool
  BY <1>1 DEF CreateSocket, BindAndListen, BindFails, InitCleanup, InitClose, InitClear,
              SetRunning, TestRunning, CallAccept, ClosePool, JoinPool, Pool!Close, Pool!TearDown,
              poolVars, kernelVars
<1>2. CASE Accept
  <2>1. backlog # <<>> /\ backlog' \in {Tail(backlog), <<>>} /\ UNCHANGED <<submitted, finished>>
    BY <1>2 DEF Accept, poolVars
  <2>2. Len(Tail(backlog)) = Len(backlog) - 1  BY <1>0, <2>1
  <2> QED  BY <1>0, <2>1, <2>2
<1>3. CASE AcceptFails \/ Destroy \/ InitClose \/ Stopper
  <2>1. backlog' \in {backlog, <<>>} /\ UNCHANGED <<submitted, finished>>
    BY <1>3 DEF AcceptFails, Destroy, InitClose, Stopper, Stop, CleanupTest, CleanupClose,
                CleanupClear, CloseSocket, CloseListener, poolVars, kernelVars
  <2> QED  BY <1>0, <2>1
<1>4. CASE Enqueue
  <2>1. clientSocket \in Clients  BY <1>4 DEF Enqueue, IInv, LoopInv
  <2> QED  BY <1>4, <2>1 DEF Enqueue, Pool!Submit, poolVars, kernelVars
<1>5. ASSUME NEW w \in Workers, BeginHandler(w) PROVE PoolTyped' /\ Len(backlog') <= Backlog
  BY <1>5 DEF BeginHandler, Pool!Begin, kernelVars
<1>6. ASSUME NEW w \in Workers, NEW c \in Clients, Handler(w, c)
      PROVE  PoolTyped' /\ Len(backlog') <= Backlog
  <2>1. CASE ReadMessage(w, c) \/ ProcessCommand(w, c) \/ ProcessThrows(w, c) \/ SendMessage(w, c)
    BY <2>1 DEF ReadMessage, ProcessCommand, ProcessThrows, SendMessage, poolVars, kernelVars
  <2>2. CASE ReadNothing(w, c) \/ SendFails(w, c)
    <3>1. submitted' = submitted /\ finished' = finished \cup {c} /\ backlog' = backlog
      BY <2>2 DEF ReadNothing, SendFails, Handles, CloseClient, Pool!Finish
    <3> QED  BY <3>1
  <2> QED  BY <1>6, <2>1, <2>2 DEF Handler
<1>7. ASSUME NEW c \in Clients, Client(c) PROVE PoolTyped' /\ Len(backlog') <= Backlog
  <2>1. CASE Connect(c)
    <3>1. /\ Len(backlog) < Backlog /\ backlog' = Append(backlog, c)
          /\ UNCHANGED <<submitted, finished>>
      BY <2>1 DEF Connect, poolVars
    <3>2. Len(Append(backlog, c)) = Len(backlog) + 1  BY <1>0
    <3> QED  BY <1>0, <3>1, <3>2
  <2>2. CASE SendCommand(c) \/ ReceiveResponse(c) \/ Leave(c)
    BY <2>2 DEF SendCommand, ReceiveResponse, Leave, poolVars, kernelVars
  <2> QED  BY <1>7, <2>1, <2>2 DEF Client
<1>8. CASE UNCHANGED vars  BY <1>8 DEF vars, poolVars, kernelVars
<1> QED  BY <1>1, <1>2, <1>3, <1>4, <1>5, <1>6, <1>7, <1>8 DEF Next, Main

LEMMA FlagsStep == ASSUME Flags, [Next]_vars PROVE Flags'
<1> USE DEF Flags
<1>1. CASE Main
  <2>1. /\ running_' = running_ \/ running_' = TRUE \/ running_' = FALSE
        /\ closed' = closed \/ closed' = TRUE
        /\ gone' = gone \/ gone' = TRUE
        /\ alive' = alive
    BY <1>1, Zenon DEF Main, CreateSocket, BindAndListen, BindFails, InitCleanup, InitClose,
                       InitClear, SetRunning, TestRunning, CallAccept, Accept, AcceptFails,
                       Enqueue, ClosePool, JoinPool, Destroy, Pool!Submit, Pool!Close,
                       Pool!TearDown, poolVars
  <2> QED  BY <2>1
<1>2. CASE Stopper
  BY <1>2 DEF Stopper, Stop, CleanupTest, CleanupClose, CleanupClear, poolVars
<1>3. ASSUME NEW w \in Workers, BeginHandler(w) PROVE Flags'
  BY <1>3 DEF BeginHandler, Pool!Begin, threadVars
<1>4. ASSUME NEW w \in Workers, NEW c \in Clients, Handler(w, c) PROVE Flags'
  BY <1>4 DEF Handler, ReadMessage, ReadNothing, ProcessCommand, ProcessThrows,
              SendMessage, SendFails, CloseClient, Pool!Finish, threadVars, poolVars
<1>5. ASSUME NEW c \in Clients, Client(c) PROVE Flags'
  BY <1>5 DEF Client, Connect, SendCommand, ReceiveResponse, Leave, threadVars, poolVars
<1>6. CASE UNCHANGED vars  BY <1>6 DEF vars, threadVars, poolVars
<1> QED  BY <1>1, <1>2, <1>3, <1>4, <1>5, <1>6 DEF Next

ServerTyped == IInv /\ ThreadsTyped /\ PeersTyped /\ PoolTyped /\ Len(backlog) <= Backlog

LEMMA InitServerTyped == Init => ServerTyped /\ Flags
<1> SUFFICES ASSUME Init PROVE ServerTyped /\ Flags
  OBVIOUS
<1>1. IInv  BY InitIInv
<1>2. ThreadsTyped  BY DEF Init, ThreadsTyped, MainAt, Setup
<1>3. PeersTyped  BY ServerAssumption DEF Init, PeersTyped
<1>4. PoolTyped  BY DEF Init, Pool!Init, PoolTyped
<1>5. Len(backlog) <= Backlog  BY ServerAssumption DEF Init
<1>6. Flags  BY DEF Init, Pool!Init, Flags
<1> QED  BY <1>1, <1>2, <1>3, <1>4, <1>5, <1>6 DEF ServerTyped

LEMMA AlwaysTyped == Spec => [](ServerTyped /\ Flags)
<1>1. ServerTyped /\ [Next]_vars => ServerTyped'
  BY NextIInv, ThreadsStep, PeersStep, PoolStep DEF ServerTyped
<1>2. Flags /\ [Next]_vars => Flags'  BY FlagsStep
<1> QED  BY <1>1, <1>2, InitServerTyped, PTL DEF Spec

(* The types of the whole state, for any clients, workers and bounds.      *)
THEOREM ServerTypes == Spec => []TypeOK
<1>1. ServerTyped /\ Flags => TypeOK
  <2> SUFFICES ASSUME ServerTyped, Flags PROVE TypeOK
    OBVIOUS
  <2>1. /\ ThreadsTyped /\ PeersTyped /\ PoolTyped /\ Len(backlog) <= Backlog /\ Typed
        /\ clientSocket \in Clients \cup {NoClient}
    BY DEF ServerTyped, IInv, LoopInv
  <2> QED  BY <2>1, Zenon DEF ThreadsTyped, PeersTyped, PoolTyped, Typed, Flags, TypeOK
<1> QED  BY <1>1, AlwaysTyped, PTL
-----------------------------------------------------------------------------
(* The places a connection can be in: it is in one of them at most, and    *)
(* exactly the accepted ones are in one.                                   *)
OneHome == /\ Distinct(queue)
           /\ \A v, w \in Workers : slot[v] = slot[w] /\ slot[v] # NoClient => v = w
           /\ \A w \in Workers : slot[w] \notin Waiting(queue)
           /\ \A w \in Workers : slot[w] = clientSocket => slot[w] = NoClient
           /\ clientSocket \notin Waiting(queue)
HomeAccepted == /\ clientSocket # NoClient => sock[clientSocket] = "accepted"
                /\ \A c \in Waiting(queue) : sock[c] = "accepted"
                /\ \A w \in Workers : slot[w] # NoClient => sock[slot[w]] = "accepted"
Queued == Distinct(backlog) /\ \A c \in Waiting(backlog) : sock[c] = "queued"
Fresh  == \A c \in Clients : client[c] = "new" => sock[c] = "none"

ConnInv == OneHome /\ HomeAccepted /\ Queued /\ Fresh

(* Where the one request of a client is.                                   *)
Working(w, c) == slot[w] = c /\ hpc[w] # "read"
IdleReads == \A w \in Workers : slot[w] = NoClient => hpc[w] = "read"
OneRequest(c) ==
    client[c] # "left" /\ sock[c] # "reset" =>
        /\ client[c] # "awaiting" => wire[c] = "none" /\ \A w \in Workers : ~Working(w, c)
        /\ client[c] = "awaiting" => (wire[c] = "none" <=> \E w \in Workers : Working(w, c))
RequestInv == IdleReads /\ \A c \in Clients : OneRequest(c)

LEMMA WaitingType == ASSUME NEW S, NEW q \in Seq(S) PROVE Waiting(q) \subseteq S
  BY DEF Waiting

(* Steps that leave the connections where they are, but may reset those    *)
(* that nobody accepted.                                                   *)
LEMMA SettledStep ==
  ASSUME IInv, ConnInv, UNCHANGED <<queue, slot, clientSocket>>,
         \A c \in Clients : client'[c] = "new" => client[c] = "new",
         (backlog' = <<>> /\ ResetAll(backlog)) \/ UNCHANGED <<backlog, sock>>
  PROVE  ConnInv'
<1>1. OneHome'  BY DEF ConnInv, OneHome
<1>2. CASE UNCHANGED <<backlog, sock>>
  <2>1. HomeAccepted' /\ Queued' /\ Fresh'  BY <1>2 DEF ConnInv, HomeAccepted, Queued, Fresh
  <2> QED  BY <1>1, <2>1 DEF ConnInv
<1>3. CASE backlog' = <<>> /\ ResetAll(backlog)
  <2>1. \A c \in Clients : sock'[c] = sock[c] \/ sock[c] = "queued"
    BY <1>3 DEF ResetAll, ConnInv, Queued
  <2>2. /\ clientSocket \in Clients \cup {NoClient} /\ Waiting(queue) \subseteq Clients
        /\ \A w \in Workers : slot[w] \in Clients \cup {NoClient}
    BY WaitingType DEF IInv, Typed, LoopInv
  <2>3. HomeAccepted'  BY <2>1, <2>2 DEF ConnInv, HomeAccepted
  <2>4. Queued'  BY <1>3, NothingWaits DEF Queued, Distinct
  <2>5. Fresh'  BY <2>1 DEF ConnInv, Fresh
  <2> QED  BY <1>1, <2>3, <2>4, <2>5 DEF ConnInv
<1> QED  BY <1>2, <1>3

LEMMA AcceptConn == ASSUME IInv, ConnInv, Accept PROVE ConnInv'
<1> DEFINE c == Head(backlog)
<1>1. /\ main = "blocked" /\ backlog # <<>> /\ clientSocket' = c
      /\ UNCHANGED <<queue, slot, client>>
      /\ \/ backlog' = Tail(backlog) /\ sock' = [sock EXCEPT ![c] = "accepted"]
         \/ /\ backlog' = <<>>
            /\ sock' = [d \in Clients |-> IF d \in Waiting(Tail(backlog)) THEN "reset"
                                          ELSE [sock EXCEPT ![c] = "accepted"][d]]
  BY DEF Accept, poolVars, clientVars
<1>2. backlog \in Seq(Clients) /\ Distinct(backlog)  BY DEF IInv, Typed, ConnInv, Queued
<1>3. /\ c \in Clients /\ Waiting(backlog) = {c} \cup Waiting(Tail(backlog))
      /\ Distinct(Tail(backlog)) /\ c \notin Waiting(Tail(backlog))
  BY <1>1, <1>2, WaitingFacts, DistinctFacts
<1>4. clientSocket = NoClient /\ NoClient \notin Clients
  BY <1>1, ServerAssumption DEF IInv, LoopInv
<1>5. sock[c] = "queued" /\ \A d \in Waiting(Tail(backlog)) : sock[d] = "queued"
  BY <1>3 DEF ConnInv, Queued
<1>6. /\ Waiting(queue) \subseteq Clients /\ \A w \in Workers : slot[w] \in Clients \cup {NoClient}
      /\ sock \in [Clients -> {"none", "queued", "accepted", "closed", "reset"}]
  BY WaitingType DEF IInv, Typed
<1> HIDE DEF c
<1>7. /\ sock'[c] = "accepted"
      /\ \A d \in Clients : sock[d] \in {"accepted", "none"} => sock'[d] = sock[d]
  BY <1>1, <1>3, <1>5, <1>6
<1>8. OneHome'
  <2>1. \A w \in Workers : slot[w] # c  BY <1>3, <1>4, <1>5 DEF ConnInv, HomeAccepted
  <2>2. c \notin Waiting(queue)  BY <1>5 DEF ConnInv, HomeAccepted
  <2> QED  BY <1>1, <2>1, <2>2 DEF ConnInv, OneHome
<1>9. HomeAccepted'  BY <1>1, <1>6, <1>7 DEF ConnInv, HomeAccepted
<1>10. Queued'
  <2>1. CASE backlog' = <<>>  BY <2>1, NothingWaits DEF Queued, Distinct
  <2>2. CASE backlog' = Tail(backlog) /\ sock' = [sock EXCEPT ![c] = "accepted"]
    BY <1>3, <1>5, <1>6, <2>2 DEF Queued
  <2> QED  BY <1>1, <2>1, <2>2
<1>11. Fresh'  BY <1>1, <1>7 DEF ConnInv, Fresh
<1> QED  BY <1>8, <1>9, <1>10, <1>11 DEF ConnInv

LEMMA EnqueueConn == ASSUME IInv, ConnInv, Enqueue PROVE ConnInv'
<1>1. /\ main = "enqueue" /\ clientSocket' = NoClient /\ UNCHANGED <<backlog, sock, client>>
      /\ ~closed
  BY DEF Enqueue, clientVars, kernelVars, IInv, LoopInv
<1>2. queue' = Append(queue, clientSocket) /\ UNCHANGED slot
  BY <1>1 DEF Enqueue, Pool!Submit
<1>3. clientSocket \in Clients /\ NoClient \notin Clients /\ queue \in Seq(Clients)
  BY <1>1, ServerAssumption DEF IInv, LoopInv, Typed
<1>4. /\ Waiting(queue') = Waiting(queue) \cup {clientSocket} /\ Distinct(queue')
      /\ Waiting(queue) \subseteq Clients
  BY <1>2, <1>3, WaitingFacts, WaitingType, DistinctFacts DEF ConnInv, OneHome
<1>5. OneHome'  BY <1>1, <1>2, <1>3, <1>4 DEF ConnInv, OneHome
<1>6. HomeAccepted'  BY <1>1, <1>2, <1>3, <1>4 DEF ConnInv, HomeAccepted
<1>7. Queued' /\ Fresh'  BY <1>1 DEF ConnInv, Queued, Fresh
<1> QED  BY <1>5, <1>6, <1>7 DEF ConnInv

LEMMA BeginConn == ASSUME IInv, ConnInv, NEW w \in Workers, BeginHandler(w) PROVE ConnInv'
<1> DEFINE c == Head(queue)
<1>1. /\ queue # <<>> /\ slot[w] = NoClient
      /\ slot' = [slot EXCEPT ![w] = c] /\ queue' = Tail(queue)
      /\ UNCHANGED <<clientSocket, backlog, sock, client>>
  BY DEF BeginHandler, Pool!Begin, threadVars, clientVars, kernelVars
<1>2. queue \in Seq(Clients) /\ slot \in [Workers -> Clients \cup {NoClient}] /\ Distinct(queue)
  BY DEF IInv, Typed, ConnInv, OneHome
<1>3. /\ c \in Clients /\ Waiting(queue) = {c} \cup Waiting(queue')
      /\ Distinct(queue') /\ c \notin Waiting(queue')
  BY <1>1, <1>2, WaitingFacts, DistinctFacts
<1> HIDE DEF c
<1>4. slot'[w] = c /\ \A v \in Workers : v # w => slot'[v] = slot[v]  BY <1>1, <1>2
<1>5. \A v \in Workers : slot[v] # c  BY <1>3 DEF ConnInv, OneHome
<1>6. c # clientSocket /\ c # NoClient  BY <1>3, ServerAssumption DEF ConnInv, OneHome
<1>7. OneHome'  BY <1>1, <1>3, <1>4, <1>5, <1>6 DEF ConnInv, OneHome
<1>8. HomeAccepted'  BY <1>1, <1>3, <1>4 DEF ConnInv, HomeAccepted
<1>9. Queued' /\ Fresh'  BY <1>1 DEF ConnInv, Queued, Fresh
<1> QED  BY <1>7, <1>8, <1>9 DEF ConnInv

LEMMA CloseConn ==
  ASSUME IInv, ConnInv, NEW w \in Workers, NEW c \in Clients, Handles(w, c), CloseClient(w, c),
         UNCHANGED <<clientSocket, client, backlog>>
  PROVE  ConnInv'
<1>1. /\ slot[w] = c /\ c # NoClient /\ slot' = [slot EXCEPT ![w] = NoClient] /\ queue' = queue
      /\ sock' = [sock EXCEPT ![c] = "closed"]
  BY DEF Handles, CloseClient, Pool!Finish
<1>2. /\ slot'[w] = NoClient /\ \A v \in Workers : v # w => slot'[v] = slot[v]
      /\ sock'[c] = "closed" /\ \A d \in Clients : d # c => sock'[d] = sock[d]
      /\ Waiting(queue) \subseteq Clients /\ clientSocket \in Clients \cup {NoClient}
      /\ Waiting(backlog) \subseteq Clients /\ NoClient \notin Clients
      /\ \A v \in Workers : slot[v] \in Clients \cup {NoClient}
  BY <1>1, WaitingType, ServerAssumption DEF IInv, Typed, LoopInv
<1>3. /\ c \notin Waiting(queue) /\ c # clientSocket
      /\ \A v \in Workers : slot[v] = c => v = w
  BY <1>1 DEF ConnInv, OneHome
<1>4. sock[c] = "accepted"  BY <1>1 DEF ConnInv, HomeAccepted
<1>5. OneHome'
  <2>1. \A v \in Workers : slot'[v] = NoClient \/ (slot'[v] = slot[v] /\ v # w)  BY <1>2
  <2>2. NoClient \notin Waiting(queue)  BY <1>2
  <2> QED  BY <1>1, <2>1, <2>2 DEF ConnInv, OneHome
<1>6. HomeAccepted'
  <2>1. clientSocket # NoClient => sock'[clientSocket] = "accepted"
    BY <1>2, <1>3 DEF ConnInv, HomeAccepted
  <2>2. \A d \in Waiting(queue) : sock'[d] = "accepted"
    BY <1>2, <1>3 DEF ConnInv, HomeAccepted
  <2>3. \A v \in Workers : slot'[v] # NoClient => sock'[slot'[v]] = "accepted"
    BY <1>2, <1>3 DEF ConnInv, HomeAccepted
  <2> QED  BY <1>1, <2>1, <2>2, <2>3 DEF HomeAccepted
<1>7. Queued'  BY <1>2, <1>4 DEF ConnInv, Queued
<1>8. Fresh'  BY <1>2, <1>4 DEF ConnInv, Fresh
<1> QED  BY <1>5, <1>6, <1>7, <1>8 DEF ConnInv

LEMMA ConnectConn ==
  ASSUME IInv, PeersTyped, ConnInv, NEW c \in Clients, Connect(c) PROVE ConnInv'
<1>1. /\ client[c] = "new" /\ client' = [client EXCEPT ![c] = "idle"]
      /\ backlog' = Append(backlog, c) /\ sock' = [sock EXCEPT ![c] = "queued"]
      /\ UNCHANGED <<queue, slot, clientSocket>>
  BY DEF Connect, threadVars, poolVars
<1>2. sock[c] = "none" /\ backlog \in Seq(Clients) /\ Distinct(backlog)
  BY <1>1 DEF ConnInv, Fresh, Queued, IInv, Typed
<1>3. c \notin Waiting(backlog)  BY <1>2 DEF ConnInv, Queued
<1>4. Distinct(backlog') /\ Waiting(backlog') = Waiting(backlog) \cup {c}
  BY <1>1, <1>2, <1>3, WaitingFacts, DistinctFacts
<1>5. /\ sock'[c] = "queued" /\ \A d \in Clients : d # c => sock'[d] = sock[d]
      /\ Waiting(queue) \subseteq Clients /\ clientSocket \in Clients \cup {NoClient}
      /\ Waiting(backlog) \subseteq Clients
      /\ \A v \in Workers : slot[v] \in Clients \cup {NoClient}
  BY <1>1, WaitingType DEF IInv, Typed, LoopInv
<1>6. OneHome'  BY <1>1 DEF ConnInv, OneHome
<1>7. HomeAccepted'  BY <1>1, <1>2, <1>5 DEF ConnInv, HomeAccepted
<1>8. Queued'  BY <1>3, <1>4, <1>5 DEF ConnInv, Queued
<1>9. Fresh'
  <2>1. client'[c] = "idle" /\ \A d \in Clients : d # c => client'[d] = client[d]
    BY <1>1 DEF PeersTyped
  <2> QED  BY <1>5, <2>1 DEF ConnInv, Fresh
<1> QED  BY <1>6, <1>7, <1>8, <1>9 DEF ConnInv

LEMMA ConnStep == ASSUME IInv, PeersTyped, ConnInv, [Next]_vars PROVE ConnInv'
<1>1. CASE CreateSocket \/ BindAndListen \/ BindFails \/ InitCleanup \/ InitClear \/ SetRunning
             \/ TestRunning \/ CallAccept
           \/ ClosePool \/ JoinPool \/ UNCHANGED vars
  <2>1. UNCHANGED <<queue, slot, clientSocket, client, backlog, sock>>
    BY <1>1 DEF CreateSocket, BindAndListen, BindFails, InitCleanup, InitClose, InitClear,
                SetRunning, TestRunning, CallAccept, ClosePool, JoinPool, Pool!Close,
                Pool!TearDown, vars, threadVars, poolVars, clientVars, kernelVars
  <2> QED  BY <2>1, SettledStep
<1>2. CASE AcceptFails \/ Destroy \/ InitClose \/ Stopper
  <2>1. /\ UNCHANGED <<queue, slot, clientSocket, client>>
        /\ (backlog' = <<>> /\ ResetAll(backlog)) \/ UNCHANGED <<backlog, sock>>
    BY <1>2 DEF AcceptFails, Destroy, InitClose, Stopper, Stop, CleanupTest, CleanupClose,
                CleanupClear, CloseSocket, CloseListener, poolVars, clientVars, kernelVars
  <2> QED  BY <2>1, SettledStep
<1>3. ASSUME NEW w \in Workers, NEW c \in Clients, Handler(w, c) PROVE ConnInv'
  <2>1. CASE ReadMessage(w, c) \/ ProcessCommand(w, c) \/ ProcessThrows(w, c) \/ SendMessage(w, c)
    <3>1. UNCHANGED <<queue, slot, clientSocket, client, backlog, sock>>
      BY <2>1 DEF ReadMessage, ProcessCommand, ProcessThrows, SendMessage,
                  threadVars, poolVars, clientVars, kernelVars
    <3> QED  BY <3>1, SettledStep
  <2>2. CASE ReadNothing(w, c) \/ SendFails(w, c)
    BY <2>2, CloseConn DEF ReadNothing, SendFails, threadVars, clientVars
  <2> QED  BY <1>3, <2>1, <2>2 DEF Handler
<1>4. ASSUME NEW c \in Clients, Client(c) PROVE ConnInv'
  <2>1. CASE SendCommand(c) \/ ReceiveResponse(c) \/ Leave(c)
    <3>1. /\ UNCHANGED <<queue, slot, clientSocket, backlog, sock>>
          /\ \A d \in Clients : client'[d] = "new" => client[d] = "new"
      BY <2>1 DEF SendCommand, ReceiveResponse, Leave, threadVars, poolVars, kernelVars, PeersTyped
    <3> QED  BY <3>1, SettledStep
  <2> QED  BY <1>4, <2>1, ConnectConn DEF Client
<1> QED  BY <1>1, <1>2, <1>3, <1>4, AcceptConn, EnqueueConn, BeginConn DEF Next, Main

LEMMA InitConn == Init => ConnInv
<1> SUFFICES ASSUME Init PROVE ConnInv
  OBVIOUS
<1>1. /\ queue = <<>> /\ backlog = <<>> /\ slot = [w \in Workers |-> NoClient]
      /\ clientSocket = NoClient /\ sock = [c \in Clients |-> "none"]
  BY DEF Init, Pool!Init
<1>2. OneHome  BY <1>1, NothingWaits DEF OneHome, Distinct
<1>3. HomeAccepted  BY <1>1, NothingWaits DEF HomeAccepted
<1>4. Queued  BY <1>1, NothingWaits DEF Queued, Distinct
<1>5. Fresh  BY <1>1 DEF Fresh
<1> QED  BY <1>2, <1>3, <1>4, <1>5 DEF ConnInv

LEMMA AlwaysConn == Spec => [](ServerTyped /\ ConnInv)
<1>1. Init => ServerTyped /\ ConnInv  BY InitServerTyped, InitConn
<1>2. ServerTyped /\ ConnInv /\ [Next]_vars => ConnInv'  BY ConnStep DEF ServerTyped
<1> QED  BY <1>1, <1>2, AlwaysTyped, PTL DEF Spec

(* A set that has at most one member, counted.                             *)
LEMMA CountsOne ==
  ASSUME NEW S, \A x, y \in S : x = y
  PROVE  Cardinality(S) = IF S = {} THEN 0 ELSE 1
<1>1. CASE S = {}  BY <1>1, FS_EmptySet
<1>2. ASSUME NEW x \in S PROVE Cardinality(S) = 1 /\ S # {}
  <2>1. S = {x}  BY <1>2
  <2> QED  BY <2>1, FS_Singleton
<1> QED  BY <1>1, <1>2

(* Every accepted connection has one owner and nobody owns another one: it *)
(* is the accept loop's local, a queued task or with one handler.          *)
THEOREM ConnectionsKept == Spec => []ConnectionsConserved
<1>1. ServerTyped /\ ConnInv => ConnectionsConserved
  <2> SUFFICES ASSUME ServerTyped, ConnInv, NEW c \in Clients
               PROVE  Places(c) = IF sock[c] = "accepted" THEN 1 ELSE 0
    BY DEF ConnectionsConserved
  <2> DEFINE Q == {i \in DOMAIN queue : queue[i] = c}
             W == {w \in Workers : slot[w] = c}
  <2>1. Places(c) = Cardinality(Q) + Cardinality(W) + (IF clientSocket = c THEN 1 ELSE 0)
    BY DEF Places
  <2>2. c # NoClient  BY ServerAssumption
  <2>3. Cardinality(Q) = IF c \in Waiting(queue) THEN 1 ELSE 0
    <3>1. \A i, j \in Q : i = j  BY DEF ConnInv, OneHome, Distinct
    <3>2. Q = {} <=> c \notin Waiting(queue)  BY DEF Waiting
    <3> HIDE DEF Q
    <3> QED  BY <3>1, <3>2, CountsOne
  <2>4. Cardinality(W) = IF \E w \in Workers : slot[w] = c THEN 1 ELSE 0
    <3>1. \A v, w \in W : v = w  BY <2>2 DEF ConnInv, OneHome
    <3>2. W = {} <=> ~ \E w \in Workers : slot[w] = c  OBVIOUS
    <3> HIDE DEF W
    <3> QED  BY <3>1, <3>2, CountsOne
  <2> HIDE DEF Q, W
  <2>5. /\ ~(c \in Waiting(queue) /\ \E w \in Workers : slot[w] = c)
        /\ ~(c \in Waiting(queue) /\ clientSocket = c)
        /\ ~(clientSocket = c /\ \E w \in Workers : slot[w] = c)
    BY <2>2 DEF ConnInv, OneHome
  <2>6. sock[c] = "accepted" <=> \/ clientSocket = c \/ c \in Waiting(queue)
                                 \/ \E w \in Workers : slot[w] = c
    BY <2>2 DEF ConnInv, HomeAccepted, ServerTyped, IInv, Owned
  <2> QED  BY <2>1, <2>3, <2>4, <2>5, <2>6
<1> QED  BY <1>1, AlwaysConn, PTL
-----------------------------------------------------------------------------
(* A step that touches no request, handler or client.                      *)
LEMMA RequestsRest ==
  ASSUME RequestInv, UNCHANGED <<hpc, slot, client, wire>>,
         \A c \in Clients : sock[c] = "reset" => sock'[c] = "reset"
  PROVE  RequestInv'
<1>1. IdleReads'  BY DEF RequestInv, IdleReads
<1>2. ASSUME NEW c \in Clients PROVE OneRequest(c)'
  BY DEF RequestInv, OneRequest, Working
<1> QED  BY <1>1, <1>2 DEF RequestInv

LEMMA MainRequests ==
  ASSUME IInv, ConnInv, RequestInv, Main \/ Stopper PROVE RequestInv'
<1>1. UNCHANGED <<hpc, slot, client, wire>>
  BY DEF Main, CreateSocket, BindAndListen, BindFails, InitCleanup, InitClose, InitClear,
         SetRunning, TestRunning, CallAccept, Accept, AcceptFails, Enqueue, ClosePool, JoinPool,
         Destroy, Stopper, Stop, CleanupTest, CleanupClose, CleanupClear, Pool!Submit, Pool!Close,
         Pool!TearDown, poolVars, clientVars, kernelVars
<1>2. ASSUME NEW c \in Clients, sock[c] = "reset" PROVE sock'[c] = "reset"
  <2>1. CASE ResetAll(backlog) \/ UNCHANGED sock  BY <1>2, <2>1 DEF ResetAll
  <2>2. CASE Accept
    <3>1. Head(backlog) # c
      <4>1. backlog # <<>> /\ backlog \in Seq(Clients)  BY <2>2 DEF Accept, IInv, Typed
      <4>2. Head(backlog) \in Waiting(backlog)  BY <4>1, WaitingFacts
      <4> QED  BY <1>2, <4>2 DEF ConnInv, Queued
    <3> QED  BY <1>2, <2>2, <3>1 DEF Accept, IInv, Typed
  <2> QED
    BY <2>1, <2>2 DEF Main, CreateSocket, BindAndListen, BindFails, InitCleanup, InitClose,
                      InitClear, SetRunning, TestRunning, CallAccept, AcceptFails, Enqueue,
                      ClosePool, JoinPool, Destroy, Stopper, Stop, CleanupTest, CleanupClose,
                      CleanupClear, CloseSocket, CloseListener, kernelVars
<1> QED  BY <1>1, <1>2, RequestsRest

LEMMA BeginRequests ==
  ASSUME IInv, RequestInv, NEW w \in Workers, BeginHandler(w) PROVE RequestInv'
<1>1. /\ slot[w] = NoClient /\ slot' = [slot EXCEPT ![w] = Head(queue)]
      /\ UNCHANGED <<hpc, client, wire, sock>>
  BY DEF BeginHandler, Pool!Begin, clientVars, kernelVars
<1>2. hpc[w] = "read" /\ \A v \in Workers : v # w => slot'[v] = slot[v]
  BY <1>1 DEF RequestInv, IdleReads, IInv, Typed
<1>3. \A v \in Workers, c \in Clients : Working(v, c)' <=> Working(v, c)
  BY <1>1, <1>2 DEF Working
<1>4. IdleReads'  BY <1>1, <1>2 DEF RequestInv, IdleReads
<1>5. ASSUME NEW c \in Clients PROVE OneRequest(c)'
  BY <1>1, <1>3 DEF RequestInv, OneRequest
<1> QED  BY <1>4, <1>5 DEF RequestInv

(* A handler moves the request of its own connection only.                 *)
LEMMA HandlerRequests ==
  ASSUME IInv, PeersTyped, ConnInv, RequestInv,
         NEW w \in Workers, NEW c \in Clients, Handler(w, c)
  PROVE  RequestInv'
<1>1. /\ slot[w] = c /\ c # NoClient /\ sock[c] = "accepted" /\ client' = client
      /\ \A v \in Workers : slot[v] = c => v = w
  BY DEF Handler, ReadMessage, ReadNothing, ProcessCommand, ProcessThrows, SendMessage, SendFails,
         Handles, clientVars, ConnInv, OneHome, HomeAccepted
<1>2. CASE ReadMessage(w, c)
  <2>1. /\ wire[c] = "request" /\ wire' = [wire EXCEPT ![c] = "none"]
        /\ hpc' = [hpc EXCEPT ![w] = "process"] /\ UNCHANGED <<slot, sock>>
    BY <1>2 DEF ReadMessage, poolVars
  <2>2. IdleReads'  BY <1>1, <2>1 DEF RequestInv, IdleReads, PeersTyped
  <2>3. OneRequest(c)'
    <3>1. wire'[c] = "none" /\ Working(w, c)'  BY <1>1, <2>1 DEF Working, PeersTyped
    <3>2. client[c] # "left" => client[c] = "awaiting"
      BY <1>1, <2>1 DEF RequestInv, OneRequest
    <3> QED  BY <1>1, <2>1, <3>1, <3>2 DEF OneRequest
  <2>4. ASSUME NEW d \in Clients, d # c PROVE OneRequest(d)'
    <3>1. wire'[d] = wire[d] /\ \A v \in Workers : Working(v, d)' <=> Working(v, d)
      BY <1>1, <2>1, <2>4 DEF Working, PeersTyped
    <3> QED  BY <1>1, <2>1, <3>1 DEF RequestInv, OneRequest
  <2> QED  BY <2>2, <2>3, <2>4 DEF RequestInv
<1>3. CASE ProcessCommand(w, c)
  <2>1. /\ hpc[w] = "process" /\ hpc' = [hpc EXCEPT ![w] = "send"]
        /\ UNCHANGED <<slot, sock, wire>>
    BY <1>3 DEF ProcessCommand, poolVars, kernelVars
  <2>2. \A v \in Workers, d \in Clients : Working(v, d)' <=> Working(v, d)
    BY <2>1 DEF Working, PeersTyped
  <2>3. IdleReads'  BY <1>1, <2>1 DEF RequestInv, IdleReads, PeersTyped
  <2>4. ASSUME NEW d \in Clients PROVE OneRequest(d)'
    BY <1>1, <2>1, <2>2 DEF RequestInv, OneRequest
  <2> QED  BY <2>3, <2>4 DEF RequestInv
<1>4. CASE ProcessThrows(w, c)
  <2>1. UNCHANGED <<hpc, slot, wire, sock>>  BY <1>4 DEF ProcessThrows, poolVars, kernelVars
  <2> QED  BY <1>1, <2>1, RequestsRest
<1>5. CASE SendMessage(w, c)
  <2>1. /\ hpc[w] = "send" /\ hpc' = [hpc EXCEPT ![w] = "read"] /\ UNCHANGED <<slot, sock>>
        /\ wire' = IF client[c] = "left" THEN wire ELSE [wire EXCEPT ![c] = "response"]
    BY <1>5 DEF SendMessage, poolVars
  <2>2. IdleReads'  BY <1>1, <2>1 DEF RequestInv, IdleReads, PeersTyped
  <2>3. OneRequest(c)'
    <3>1. Working(w, c) /\ \A v \in Workers : ~Working(v, c)'
      BY <1>1, <2>1 DEF Working, PeersTyped
    <3>2. client[c] # "left" => client[c] = "awaiting"
      BY <1>1, <3>1 DEF RequestInv, OneRequest
    <3>3. client[c] # "left" => wire'[c] = "response"  BY <2>1 DEF PeersTyped
    <3> QED  BY <1>1, <3>1, <3>2, <3>3 DEF OneRequest
  <2>4. ASSUME NEW d \in Clients, d # c PROVE OneRequest(d)'
    <3>1. wire'[d] = wire[d] /\ \A v \in Workers : Working(v, d)' <=> Working(v, d)
      BY <1>1, <2>1, <2>4 DEF Working, PeersTyped
    <3> QED  BY <1>1, <2>1, <3>1 DEF RequestInv, OneRequest
  <2> QED  BY <2>2, <2>3, <2>4 DEF RequestInv
<1>6. CASE ReadNothing(w, c) \/ SendFails(w, c)
  <2>1. /\ client[c] = "left" /\ slot' = [slot EXCEPT ![w] = NoClient]
        /\ hpc' = [hpc EXCEPT ![w] = "read"] /\ sock' = [sock EXCEPT ![c] = "closed"]
        /\ wire' = wire
    BY <1>6 DEF ReadNothing, SendFails, CloseClient, Pool!Finish
  <2>2. IdleReads'  BY <2>1 DEF RequestInv, IdleReads, PeersTyped, IInv, Typed
  <2>3. OneRequest(c)'  BY <1>1, <2>1 DEF OneRequest
  <2>4. ASSUME NEW d \in Clients, d # c PROVE OneRequest(d)'
    <3>1. sock'[d] = sock[d]  BY <2>1, <2>4 DEF IInv, Typed
    <3>2. ASSUME NEW v \in Workers PROVE Working(v, d)' <=> Working(v, d)
      <4>1. CASE v = w
        BY <1>1, <2>1, <2>4, <4>1, ServerAssumption DEF Working, PeersTyped, IInv, Typed
      <4>2. CASE v # w  BY <2>1, <4>2 DEF Working, PeersTyped, IInv, Typed
      <4> QED  BY <4>1, <4>2
    <3> QED  BY <1>1, <2>1, <3>1, <3>2 DEF RequestInv, OneRequest
  <2> QED  BY <2>2, <2>3, <2>4 DEF RequestInv
<1> QED  BY <1>2, <1>3, <1>4, <1>5, <1>6 DEF Handler

LEMMA ClientRequests ==
  ASSUME IInv, PeersTyped, ConnInv, RequestInv, NEW c \in Clients, Client(c) PROVE RequestInv'
<1>1. UNCHANGED <<hpc, slot>>
  BY DEF Client, Connect, SendCommand, ReceiveResponse, Leave, threadVars, poolVars
<1>2. IdleReads'  BY <1>1 DEF RequestInv, IdleReads
<1>3. \A v \in Workers, d \in Clients : Working(v, d)' <=> Working(v, d)  BY <1>1 DEF Working
<1>4. ASSUME NEW d \in Clients, d # c PROVE OneRequest(d)'
  <2>1. client'[d] = client[d] /\ sock'[d] = sock[d] /\ wire'[d] = wire[d]
    BY <1>4 DEF Client, Connect, SendCommand, ReceiveResponse, Leave, kernelVars,
                PeersTyped, IInv, Typed
  <2> QED  BY <1>3, <2>1 DEF RequestInv, OneRequest
<1>5. OneRequest(c)'
  <2>1. CASE Connect(c)
    <3>1. client[c] = "new" /\ client'[c] = "idle" /\ wire' = wire
      BY <2>1 DEF Connect, PeersTyped
    <3>2. sock[c] = "none"  BY <3>1 DEF ConnInv, Fresh
    <3> QED  BY <1>3, <3>1, <3>2 DEF RequestInv, OneRequest
  <2>2. CASE SendCommand(c)
    <3>1. /\ client[c] = "idle" /\ client'[c] = "awaiting" /\ wire'[c] = "request"
          /\ sock[c] \in {"queued", "accepted"} /\ sock' = sock
      BY <2>2 DEF SendCommand, PeersTyped
    <3> QED  BY <1>3, <3>1 DEF RequestInv, OneRequest
  <2>3. CASE ReceiveResponse(c)
    <3>1. /\ client[c] = "awaiting" /\ client'[c] = "idle" /\ wire[c] = "response"
          /\ wire'[c] = "none" /\ sock' = sock
      BY <2>3 DEF ReceiveResponse, PeersTyped
    <3> QED  BY <1>3, <3>1 DEF RequestInv, OneRequest
  <2>4. CASE Leave(c)
    <3>1. client'[c] = "left"  BY <2>4 DEF Leave, PeersTyped
    <3> QED  BY <3>1 DEF OneRequest
  <2> QED  BY <2>1, <2>2, <2>3, <2>4 DEF Client
<1> QED  BY <1>2, <1>4, <1>5 DEF RequestInv

LEMMA AlwaysRequests == Spec => [](ServerTyped /\ ConnInv /\ RequestInv)
<1>1. Init => RequestInv
  BY ServerAssumption DEF Init, Pool!Init, RequestInv, IdleReads, OneRequest, Working
<1>2. ServerTyped /\ ConnInv /\ RequestInv /\ [Next]_vars => RequestInv'
  <2> SUFFICES ASSUME ServerTyped, ConnInv, RequestInv, [Next]_vars PROVE RequestInv'
    OBVIOUS
  <2>1. IInv /\ PeersTyped  BY DEF ServerTyped
  <2>2. CASE UNCHANGED vars
    <3>1. UNCHANGED <<hpc, slot, client, wire, sock>>
      BY <2>2 DEF vars, poolVars, clientVars, kernelVars
    <3> QED  BY <3>1, RequestsRest
  <2> QED
    BY <2>1, <2>2, MainRequests, BeginRequests, HandlerRequests, ClientRequests DEF Next
<1> QED  BY <1>1, <1>2, AlwaysConn, PTL DEF Spec

(* Requests and answers alternate on every connection: a client that waits *)
(* has its request or its answer in exactly one place, and none is left    *)
(* over at its prompt, for any number of clients and workers.              *)
THEOREM RequestsAlternate == Spec => []RequestsConserved
<1>1. ServerTyped /\ ConnInv /\ RequestInv => RequestsConserved
  <2> SUFFICES ASSUME ConnInv, RequestInv, NEW c \in Clients,
                      client[c] # "left", sock[c] # "reset"
               PROVE  Pending(c) = IF client[c] = "awaiting" THEN 1 ELSE 0
    BY DEF RequestsConserved
  <2> DEFINE W == {w \in Workers : slot[w] = c /\ hpc[w] # "read"}
  <2>1. Cardinality(W) = IF \E w \in Workers : Working(w, c) THEN 1 ELSE 0
    <3>1. \A v, w \in W : v = w  BY ServerAssumption DEF ConnInv, OneHome
    <3>2. W = {} <=> ~ \E w \in Workers : Working(w, c)  BY DEF Working
    <3> HIDE DEF W
    <3> QED  BY <3>1, <3>2, CountsOne
  <2>2. Pending(c) = (IF wire[c] # "none" THEN 1 ELSE 0) + Cardinality(W)  BY DEF Pending
  <2> HIDE DEF W
  <2>3. IF client[c] = "awaiting" THEN wire[c] = "none" <=> \E w \in Workers : Working(w, c)
        ELSE wire[c] = "none" /\ ~ \E w \in Workers : Working(w, c)
    BY DEF RequestInv, OneRequest
  <2> QED  BY <2>1, <2>2, <2>3
<1> QED  BY <1>1, AlwaysRequests, PTL
-----------------------------------------------------------------------------
(* stop() once the accepting thread has left initSocket and set running_:  *)
(* what the theorems on stop() assume.  The run server_stop_race shows     *)
(* that StopSticks fails without it.                                       *)
LateStop == StopFrom \cap Setup = {}

(* A stop() that has begun finds start() past its setting up, and once it  *)
(* has closed the socket nobody listens.                                   *)
LateInv == /\ stopper # "idle" => main \notin Setup
           /\ stopper \in {"clear", "done"} => listener # "listening"

LEMMA LateStep == ASSUME LateStop, SocketInv, LateInv, [Next]_vars PROVE LateInv'
<1> USE DEF LateInv, Setup
<1>1. CASE Main
  <2>1. CASE CreateSocket \/ BindAndListen \/ BindFails \/ InitCleanup \/ InitClose \/ InitClear
    BY <2>1 DEF CreateSocket, BindAndListen, BindFails, InitCleanup, InitClose, InitClear
  <2>2. CASE SetRunning \/ TestRunning \/ CallAccept \/ Enqueue \/ ClosePool \/ JoinPool
    BY <2>2 DEF SetRunning, TestRunning, CallAccept, Enqueue, ClosePool, JoinPool, kernelVars
  <2>3. CASE Accept \/ AcceptFails  BY <2>3 DEF Accept, AcceptFails
  <2>4. CASE Destroy  BY <2>4, CloseShuts DEF Destroy, SocketInv
  <2> QED  BY <1>1, <2>1, <2>2, <2>3, <2>4 DEF Main
<1>2. CASE Stopper
  <2>1. CASE Stop  BY <2>1 DEF Stop, LateStop, kernelVars
  <2>2. CASE CleanupClose
    BY <2>2, CloseShuts DEF CleanupClose, SocketInv
  <2>3. CASE CleanupClear  BY <2>3 DEF CleanupClear, kernelVars
  <2>4. CASE CleanupTest  BY <2>4 DEF CleanupTest, kernelVars, SocketInv, ListenerOwned
  <2> QED  BY <1>2, <2>1, <2>2, <2>3, <2>4 DEF Stopper
<1>3. ASSUME NEW w \in Workers, BeginHandler(w) PROVE LateInv'
  BY <1>3 DEF BeginHandler, threadVars, kernelVars
<1>4. ASSUME NEW w \in Workers, NEW c \in Clients, Handler(w, c) PROVE LateInv'
  BY <1>4 DEF Handler, ReadMessage, ReadNothing, ProcessCommand, ProcessThrows,
              SendMessage, SendFails, threadVars, kernelVars
<1>5. ASSUME NEW c \in Clients, Client(c) PROVE LateInv'
  BY <1>5 DEF Client, Connect, SendCommand, ReceiveResponse, Leave, threadVars, kernelVars
<1>6. CASE UNCHANGED vars  BY <1>6 DEF vars, threadVars, kernelVars
<1> QED  BY <1>1, <1>2, <1>3, <1>4, <1>5, <1>6 DEF Next

LEMMA AlwaysLate == ASSUME LateStop PROVE Spec => [](SocketInv /\ LateInv)
<1>1. Init => SocketInv /\ LateInv  BY DEF Init, SocketInv, ListenerOwned, LateInv
<1>2. SocketInv /\ LateInv /\ [Next]_vars => LateInv'  BY LateStep
<1> QED  BY <1>1, <1>2, SocketStep, PTL DEF Spec

(* A stop() that comes after initSocket and running_ = true is final.      *)
THEOREM StopIsFinal == ASSUME LateStop PROVE Spec => StopSticks
<1>1. LateInv /\ [Next]_vars => [stopper # "idle" => (running_' => running_)]_vars
  <2> SUFFICES ASSUME LateInv, Next, stopper # "idle" PROVE running_' => running_
    BY DEF vars
  <2>1. CASE Main
    <3>1. CASE SetRunning  BY <3>1 DEF SetRunning, LateInv, Setup
    <3>2. CASE Destroy  BY <3>2 DEF Destroy
    <3> QED
      BY <2>1, <3>1, <3>2 DEF Main, CreateSocket, BindAndListen, BindFails, InitCleanup,
                              InitClose, InitClear, TestRunning, CallAccept, Accept, AcceptFails,
                              Enqueue, ClosePool, JoinPool
  <2>2. CASE Stopper  BY <2>2 DEF Stopper, Stop, CleanupTest, CleanupClose, CleanupClear
  <2>3. ASSUME ~Main, ~Stopper PROVE running_' = running_
    BY <2>3 DEF Next, BeginHandler, Handler, ReadMessage, ReadNothing, ProcessCommand,
                ProcessThrows, SendMessage, SendFails, Client, Connect, SendCommand,
                ReceiveResponse, Leave, threadVars
  <2> QED  BY <2>1, <2>2, <2>3
<1> QED  BY <1>1, AlwaysLate, PTL DEF Spec, StopSticks

(* serverSocket_ holds the number of a closed descriptor only between the  *)
(* close and the clear of whichever thread closed it.                      *)
OnceInv == /\ SocketClosedOnce /\ serverSocket_ \in {"invalid", "fd"}
           /\ serverSocket_ = "fd" /\ listener = "closed" => stopper = "clear" \/ main = "clear"

LEMMA CloseOnce ==
  ASSUME OnceInv, stopper # "clear", main # "clear", CloseSocket PROVE listener' # "reclosed"
  BY DEF OnceInv, SocketClosedOnce, CloseSocket, CloseListener

LEMMA OnceStep ==
  ASSUME LateStop, SocketInv, LateInv, OnceInv, [Next]_vars PROVE OnceInv'
<1> USE DEF OnceInv, SocketClosedOnce
<1>1. CASE Main
  <2>1. CASE CreateSocket \/ BindAndListen \/ BindFails \/ InitCleanup \/ InitClear
    BY <2>1 DEF CreateSocket, BindAndListen, BindFails, InitCleanup, InitClear, kernelVars
  <2>2. CASE SetRunning \/ TestRunning \/ CallAccept \/ Enqueue \/ ClosePool \/ JoinPool
    BY <2>2 DEF SetRunning, TestRunning, CallAccept, Enqueue, ClosePool, JoinPool, kernelVars
  <2>3. CASE Accept \/ AcceptFails  BY <2>3 DEF Accept, AcceptFails
  <2>4. CASE Destroy  BY <2>4, CloseOnce DEF Destroy
  <2>5. CASE InitClose
    <3>1. stopper = "idle"  BY <2>5 DEF InitClose, LateInv, Setup
    <3> QED  BY <2>5, <3>1, CloseOnce DEF InitClose
  <2> QED  BY <1>1, <2>1, <2>2, <2>3, <2>4, <2>5 DEF Main
<1>2. CASE Stopper
  <2>1. CASE Stop \/ CleanupTest  BY <2>1 DEF Stop, CleanupTest, kernelVars
  <2>2. CASE CleanupClose
    <3>1. main # "clear"  BY <2>2 DEF CleanupClose, LateInv, Setup
    <3> QED  BY <2>2, <3>1, CloseOnce DEF CleanupClose
  <2>3. CASE CleanupClear  BY <2>3 DEF CleanupClear, kernelVars
  <2> QED  BY <1>2, <2>1, <2>2, <2>3 DEF Stopper
<1>3. ASSUME NEW w \in Workers, BeginHandler(w) PROVE OnceInv'
  BY <1>3 DEF BeginHandler, threadVars, kernelVars
<1>4. ASSUME NEW w \in Workers, NEW c \in Clients, Handler(w, c) PROVE OnceInv'
  BY <1>4 DEF Handler, ReadMessage, ReadNothing, ProcessCommand, ProcessThrows,
              SendMessage, SendFails, threadVars, kernelVars
<1>5. ASSUME NEW c \in Clients, Client(c) PROVE OnceInv'
  BY <1>5 DEF Client, Connect, SendCommand, ReceiveResponse, Leave, threadVars, kernelVars
<1>6. CASE UNCHANGED vars  BY <1>6 DEF vars, threadVars, kernelVars
<1> QED  BY <1>1, <1>2, <1>3, <1>4, <1>5, <1>6 DEF Next

(* With such a stop(), the listening socket is closed once, whoever of     *)
(* stop(), initSocket and ~Server comes first.                             *)
THEOREM SocketClosesOnce == ASSUME LateStop PROVE Spec => []SocketClosedOnce
<1>1. Init => OnceInv  BY DEF Init, OnceInv, SocketClosedOnce
<1>2. SocketInv /\ LateInv /\ OnceInv /\ [Next]_vars => OnceInv'  BY OnceStep
<1>3. OnceInv => SocketClosedOnce  BY DEF OnceInv
<1> QED  BY <1>1, <1>2, <1>3, AlwaysLate, PTL DEF Spec

(* Where a close wakes the thread blocked in accept, no connection is      *)
(* accepted once such a stop() has returned.                               *)
THEOREM StopAcceptsNoMore ==
  ASSUME LateStop, CloseWakesAccept = TRUE PROVE Spec => NoAcceptAfterStop
<1>1. LateInv /\ [Next]_vars
        => [stopper = "done" => clientSocket' \in {clientSocket, NoClient}]_vars
  <2> SUFFICES ASSUME LateInv, Next, stopper = "done"
               PROVE  clientSocket' \in {clientSocket, NoClient}
    BY DEF vars
  <2>1. ~Accept  BY DEF Accept, Listening, LateInv
  <2>2. CASE Main
    BY <2>1, <2>2 DEF Main, CreateSocket, BindAndListen, BindFails, InitCleanup, InitClose,
                      InitClear, SetRunning, TestRunning, CallAccept, AcceptFails, Enqueue,
                      ClosePool, JoinPool, Destroy
  <2>3. CASE Stopper  BY <2>3 DEF Stopper, Stop, CleanupTest, CleanupClose, CleanupClear
  <2>4. ASSUME ~Main, ~Stopper PROVE clientSocket' = clientSocket
    BY <2>4 DEF Next, BeginHandler, Handler, ReadMessage, ReadNothing, ProcessCommand,
                ProcessThrows, SendMessage, SendFails, Client, Connect, SendCommand,
                ReceiveResponse, Leave, threadVars
  <2> QED  BY <2>2, <2>3, <2>4
<1> QED  BY <1>1, AlwaysLate, PTL DEF Spec, NoAcceptAfterStop
-----------------------------------------------------------------------------
(* The server uses its pool as TaskPool promises: each step is one step of *)
(* the pool or leaves it alone.                                            *)
LEMMA UsesPool == ASSUME IInv, [Next]_vars PROVE [Pool!Next]_(Pool!vars)
<1>1. ASSUME UNCHANGED poolVars PROVE [Pool!Next]_(Pool!vars)
  BY <1>1 DEF poolVars, Pool!vars
<1>2. CASE Main
  <2>1. CASE CreateSocket \/ BindAndListen \/ BindFails \/ InitCleanup \/ InitClear \/ SetRunning
               \/ TestRunning \/ CallAccept
              \/ InitClose \/ Accept \/ AcceptFails \/ Destroy
    <3>1. UNCHANGED poolVars
      BY <2>1 DEF CreateSocket, BindAndListen, BindFails, InitCleanup, InitClose, InitClear,
                  SetRunning, TestRunning, CallAccept, Accept, AcceptFails, Destroy
    <3> QED  BY <1>1, <3>1
  <2>2. CASE Enqueue
    <3>1. clientSocket \in Clients  BY <2>2 DEF Enqueue, IInv, LoopInv
    <3>2. UNCHANGED poolVars \/ Pool!Submit(clientSocket)  BY <2>2 DEF Enqueue
    <3> QED  BY <1>1, <3>1, <3>2 DEF Pool!Next
  <2>3. CASE ClosePool  BY <2>3 DEF ClosePool, Pool!Next
  <2>4. CASE JoinPool  BY <2>4 DEF JoinPool, Pool!Next
  <2> QED  BY <1>2, <2>1, <2>2, <2>3, <2>4 DEF Main
<1>3. CASE Stopper  BY <1>1, <1>3 DEF Stopper, Stop, CleanupTest, CleanupClose, CleanupClear
<1>4. ASSUME NEW w \in Workers, BeginHandler(w) PROVE [Pool!Next]_(Pool!vars)
  BY <1>4 DEF BeginHandler, Pool!Next
<1>5. ASSUME NEW w \in Workers, NEW c \in Clients, Handler(w, c) PROVE [Pool!Next]_(Pool!vars)
  <2>1. UNCHANGED poolVars \/ Pool!Finish(w)
    BY <1>5 DEF Handler, ReadMessage, ReadNothing, ProcessCommand, ProcessThrows,
                SendMessage, SendFails, CloseClient
  <2> QED  BY <1>1, <2>1 DEF Pool!Next
<1>6. ASSUME NEW c \in Clients, Client(c) PROVE [Pool!Next]_(Pool!vars)
  BY <1>1, <1>6 DEF Client, Connect, SendCommand, ReceiveResponse, Leave
<1>7. CASE UNCHANGED vars  BY <1>1, <1>7 DEF vars
<1> QED  BY <1>2, <1>3, <1>4, <1>5, <1>6, <1>7 DEF Next

(* With ThreadPoolProofs!Refinement: what Server assumes of its pool is    *)
(* what the pool with its mutex and condition variable does.               *)
THEOREM ServerUsesTaskPool == Spec => Pool!Spec
<1>1. Init => IInv /\ Pool!Init  BY InitIInv DEF Init
<1>2. IInv /\ [Next]_vars => [Pool!Next]_(Pool!vars)  BY UsesPool
<1> QED  BY <1>1, <1>2, NextIInv, PTL DEF Spec, Pool!Spec
=============================================================================
