------------------------------- MODULE Server -------------------------------
(***************************************************************************)
(* src/server/Server.cpp and ClientHandler.cpp: the thread that called     *)
(* start() and runs the accept loop, a second thread that calls stop(),    *)
(* the workers of the pool, each running ClientHandler::handle for one     *)
(* connection at a time, and the clients.  The pool is used through what   *)
(* it promises, TaskPool; a connection is the task that handles it.        *)
(*                                                                         *)
(* running_ is atomic.  serverSocket_ is not: the two threads race on it,  *)
(* and a read sees the value before or after the write it races with.      *)
(* The kernel's side (listener, backlog, sock, wire) is external.          *)
(***************************************************************************)
EXTENDS Naturals, Sequences, FiniteSets

CONSTANTS Clients,         \* one connection each
          Workers,         \* the threads of the pool
          NoClient,        \* no connection
          Backlog,         \* length of the listen queue, MAX_CLIENTS
          CloseWakesAccept,\* closing a socket wakes a thread blocked in accept
          StopFrom,        \* where the accepting thread may be when stop() is called
          MayThrow,        \* processCommand may let an exception escape
          MaxRequests      \* bound: the requests one client sends

ASSUME ServerAssumption ==
    /\ IsFiniteSet(Clients) /\ IsFiniteSet(Workers) /\ Workers # {}
    /\ NoClient \notin Clients
    /\ Backlog \in Nat \ {0} /\ MaxRequests \in Nat
    /\ CloseWakesAccept \in BOOLEAN /\ MayThrow \in BOOLEAN

VARIABLES running_, serverSocket_, main, clientSocket, stopper, \* the two threads
          hpc,                                                  \* the handlers
          queue, slot, submitted, finished, closed, gone,       \* the pool
          client, sent,                                         \* the clients
          listener, backlog, sock, wire,                        \* the kernel
          alive                                                 \* the process

threadVars == <<running_, serverSocket_, main, clientSocket, stopper>>
poolVars   == <<queue, slot, submitted, finished, closed, gone>>
clientVars == <<client, sent>>
kernelVars == <<listener, backlog, sock, wire>>
vars == <<threadVars, hpc, poolVars, clientVars, kernelVars, alive>>

Pool == INSTANCE TaskPool WITH Tasks <- Clients, NoTask <- NoClient

\* Where start() is before running_ = true, and in all.
Setup  == {"socket", "bind", "cleanup", "close", "clear", "arm"}
MainAt == Setup \cup {"test", "call", "blocked", "enqueue", "destroyPool", "join",
                     "returned", "destroyed"}

Init == /\ running_ = FALSE
        /\ serverSocket_ = "invalid"
        /\ main = "socket"
        /\ clientSocket = NoClient
        /\ stopper = "idle"
        /\ hpc = [w \in Workers |-> "read"]
        /\ Pool!Init
        /\ client = [c \in Clients |-> "new"]
        /\ sent = [c \in Clients |-> 0]
        /\ listener = "none"
        /\ backlog = <<>>
        /\ sock = [c \in Clients |-> "none"]
        /\ wire = [c \in Clients |-> "none"]
        /\ alive = TRUE
-----------------------------------------------------------------------------
(* External: the listening socket.  A thread blocked in accept may keep a  *)
(* closed listener alive (Linux); the connections nobody accepted are      *)
(* reset when it dies.                                                     *)

Waiting(q) == {q[i] : i \in DOMAIN q}

Listening == \/ listener = "listening"
             \/ listener = "closed" /\ main = "blocked" /\ ~CloseWakesAccept

ResetAll(q) == sock' = [c \in Clients |-> IF c \in Waiting(q) THEN "reset" ELSE sock[c]]

CloseListener == /\ listener' = "closed"
                 /\ IF main = "blocked" /\ ~CloseWakesAccept
                    THEN UNCHANGED <<backlog, sock>>
                    ELSE backlog' = <<>> /\ ResetAll(backlog)

\* close(serverSocket_): of -1 it does nothing; of a descriptor closed before it
\* hits whatever has that number now, which "reclosed" records.
CloseSocket ==
    CASE serverSocket_ = "invalid" -> UNCHANGED <<listener, backlog, sock>>
      [] serverSocket_ = "fd" /\ listener \notin {"closed", "reclosed"} -> CloseListener
      [] OTHER -> listener' = "reclosed" /\ UNCHANGED <<backlog, sock>>
-----------------------------------------------------------------------------
(* start(): initSocket, running_ = true, acceptClients.  cleanupSocket is  *)
(* three steps, in this thread as in stop()'s: its test, its close and its *)
(* assignment can fall on both sides of any of the other's.                *)

\* socket() and the assignment of its result: until then nobody has the
\* descriptor, and the other thread reads the old value.
CreateSocket == /\ main = "socket"
                /\ \/ /\ serverSocket_' = "fd"
                      /\ listener' = "open"
                      /\ main' = "bind"
                   \/ /\ main' = "returned"
                      /\ UNCHANGED <<serverSocket_, listener>>
                /\ UNCHANGED <<running_, clientSocket, stopper, hpc, poolVars, clientVars,
                               backlog, sock, wire, alive>>

BindAndListen == /\ main = "bind"
                 /\ serverSocket_ = "fd" /\ listener = "open"
                 /\ listener' = "listening"
                 /\ main' = "arm"
                 /\ UNCHANGED <<running_, serverSocket_, clientSocket, stopper, hpc, poolVars,
                                clientVars, backlog, sock, wire, alive>>

\* The port is taken, or stop() closed the socket.
BindFails == /\ main = "bind"
             /\ main' = "cleanup"
             /\ UNCHANGED <<running_, serverSocket_, clientSocket, stopper, hpc, poolVars,
                            clientVars, kernelVars, alive>>

\* MUTANT: the member is cleared before the close that reads it.
InitCleanupClears == /\ main = "cleanup"
                     /\ main' = IF serverSocket_ # "invalid" THEN "close" ELSE "returned"
                     /\ serverSocket_' = "invalid"
                     /\ UNCHANGED <<running_, clientSocket, stopper, hpc, poolVars,
                                    clientVars, kernelVars, alive>>

InitCleanup == /\ main = "cleanup"
               /\ main' = IF serverSocket_ # "invalid" THEN "close" ELSE "returned"
               /\ UNCHANGED <<running_, serverSocket_, clientSocket, stopper, hpc, poolVars,
                              clientVars, kernelVars, alive>>

InitClose == /\ main = "close"
             /\ CloseSocket
             /\ main' = "clear"
             /\ UNCHANGED <<running_, serverSocket_, clientSocket, stopper, hpc, poolVars,
                            clientVars, wire, alive>>

InitClear == /\ main = "clear"
             /\ serverSocket_' = "invalid"
             /\ main' = "returned"
             /\ UNCHANGED <<running_, clientSocket, stopper, hpc, poolVars, clientVars,
                            kernelVars, alive>>

SetRunning == /\ main = "arm"
              /\ running_' = TRUE
              /\ main' = "test"
              /\ UNCHANGED <<serverSocket_, clientSocket, stopper, hpc, poolVars, clientVars,
                             kernelVars, alive>>

TestRunning == /\ main = "test"
               /\ main' = IF running_ THEN "call" ELSE "destroyPool"
               /\ UNCHANGED <<running_, serverSocket_, clientSocket, stopper, hpc, poolVars,
                              clientVars, kernelVars, alive>>

\* accept on an invalid or closed descriptor fails at once; the loop continues.
CallAccept == /\ main = "call"
              /\ main' = IF serverSocket_ = "fd" /\ listener = "listening"
                         THEN "blocked" ELSE "test"
              /\ UNCHANGED <<running_, serverSocket_, clientSocket, stopper, hpc, poolVars,
                             clientVars, kernelVars, alive>>

\* The last accept on a closed listener lets it die with its backlog.
Accept == /\ main = "blocked"
          /\ Listening /\ backlog # <<>>
          /\ clientSocket' = Head(backlog)
          /\ main' = "enqueue"
          /\ LET accepted == [sock EXCEPT ![Head(backlog)] = "accepted"]
             IN IF listener = "listening"
                THEN /\ backlog' = Tail(backlog)
                     /\ sock' = accepted
                ELSE /\ backlog' = <<>>
                     /\ sock' = [c \in Clients |->
                                   IF c \in Waiting(Tail(backlog)) THEN "reset" ELSE accepted[c]]
          /\ UNCHANGED <<running_, serverSocket_, stopper, hpc, poolVars, clientVars,
                         listener, wire, alive>>

\* MUTANT: the failed socket is handed to the pool (no continue).
AcceptFailsEnqueues == /\ main = "blocked"
                       /\ main' = "enqueue"
                       /\ UNCHANGED <<running_, serverSocket_, clientSocket, stopper, hpc,
                                      poolVars, clientVars, kernelVars, alive>>

\* MUTANT: a retry after an error turns running_ on again.
AcceptFailsRearms == /\ main = "blocked"
                     /\ main' = "test"
                     /\ running_' = TRUE
                     /\ IF listener = "closed"
                        THEN backlog' = <<>> /\ ResetAll(backlog)
                        ELSE UNCHANGED <<backlog, sock>>
                     /\ UNCHANGED <<serverSocket_, clientSocket, stopper, hpc, poolVars,
                                    clientVars, listener, wire, alive>>

\* An accept that fails: a woken one, or the kernel is short of something.
AcceptFails == /\ main = "blocked"
               /\ main' = "test"
               /\ IF listener = "closed"
                  THEN backlog' = <<>> /\ ResetAll(backlog)
                  ELSE UNCHANGED <<backlog, sock>>
               /\ UNCHANGED <<running_, serverSocket_, clientSocket, stopper, hpc, poolVars,
                              clientVars, listener, wire, alive>>

\* A pool that is closed would drop the task, and the socket with it.
Enqueue == /\ main = "enqueue"
           /\ IF closed THEN UNCHANGED poolVars ELSE Pool!Submit(clientSocket)
           /\ clientSocket' = NoClient
           /\ main' = "test"
           /\ UNCHANGED <<running_, serverSocket_, stopper, hpc, clientVars, kernelVars, alive>>

\* ~ThreadPool at the end of acceptClients: refuse, drain, join.
ClosePool == /\ main = "destroyPool"
             /\ Pool!Close
             /\ main' = "join"
             /\ UNCHANGED <<running_, serverSocket_, clientSocket, stopper, hpc, clientVars,
                            kernelVars, alive>>

\* MUTANT: the threads of the pool are detached, not joined.
DetachPool == /\ main = "join"
              /\ main' = "returned"
              /\ UNCHANGED <<running_, serverSocket_, clientSocket, stopper, hpc, poolVars,
                             clientVars, kernelVars, alive>>

JoinPool == /\ main = "join"
            /\ Pool!TearDown
            /\ main' = "returned"
            /\ UNCHANGED <<running_, serverSocket_, clientSocket, stopper, hpc, clientVars,
                           kernelVars, alive>>

\* ~Server, once start() has returned and nobody is inside stop().
Destroy == /\ main = "returned"
           /\ stopper \in {"idle", "done"}
           /\ main' = "destroyed"
           /\ running_' = FALSE
           /\ CloseSocket
           /\ serverSocket_' = "invalid"
           /\ UNCHANGED <<clientSocket, stopper, hpc, poolVars, clientVars, wire, alive>>
-----------------------------------------------------------------------------
(* stop(), called once by another thread while the server exists.          *)

\* MUTANT: stop() closes the socket and leaves running_ as it is.
StopKeepsRunning == /\ stopper = "idle"
                    /\ main \in StopFrom
                    /\ stopper' = "cleanup"
                    /\ UNCHANGED <<running_, serverSocket_, main, clientSocket, hpc, poolVars,
                                   clientVars, kernelVars, alive>>

Stop == /\ stopper = "idle"
        /\ main \in StopFrom
        /\ running_' = FALSE
        /\ stopper' = "cleanup"
        /\ UNCHANGED <<serverSocket_, main, clientSocket, hpc, poolVars, clientVars,
                       kernelVars, alive>>

\* MUTANT: stop() only lowers the flag and leaves the socket to start().
CleanupSkipped == /\ stopper = "cleanup"
                  /\ stopper' = "done"
                  /\ UNCHANGED <<running_, serverSocket_, main, clientSocket, hpc, poolVars,
                                 clientVars, kernelVars, alive>>

CleanupTest == /\ stopper = "cleanup"
               /\ stopper' = IF serverSocket_ # "invalid" THEN "close" ELSE "done"
               /\ UNCHANGED <<running_, serverSocket_, main, clientSocket, hpc, poolVars,
                              clientVars, kernelVars, alive>>

CleanupClose == /\ stopper = "close"
                /\ CloseSocket
                /\ stopper' = "clear"
                /\ UNCHANGED <<running_, serverSocket_, main, clientSocket, hpc, poolVars,
                               clientVars, wire, alive>>

\* MUTANT: the member keeps the number of the closed descriptor.
CleanupKeeps == /\ stopper = "clear"
                /\ stopper' = "done"
                /\ UNCHANGED <<running_, serverSocket_, main, clientSocket, hpc, poolVars,
                               clientVars, kernelVars, alive>>

CleanupClear == /\ stopper = "clear"
                /\ serverSocket_' = "invalid"
                /\ stopper' = "done"
                /\ UNCHANGED <<running_, main, clientSocket, hpc, poolVars, clientVars,
                               kernelVars, alive>>
-----------------------------------------------------------------------------
(* ClientHandler::handle in worker w; closing the socket is the destructor *)
(* of the handler, the end of the pool's task.                             *)

Handles(w, c) == slot[w] = c /\ c # NoClient

BeginHandler(w) == /\ Pool!Begin(w)
                   /\ UNCHANGED <<threadVars, hpc, clientVars, kernelVars, alive>>

ReadMessage(w, c) == /\ Handles(w, c) /\ hpc[w] = "read"
                     /\ wire[c] = "request"
                     /\ wire' = [wire EXCEPT ![c] = "none"]
                     /\ hpc' = [hpc EXCEPT ![w] = "process"]
                     /\ UNCHANGED <<threadVars, poolVars, clientVars, listener, backlog, sock, alive>>

\* MUTANT: the handler's destructor does not close its socket.
CloseClientLeaks(w, c) == /\ Pool!Finish(w)
                          /\ hpc' = [hpc EXCEPT ![w] = "read"]
                          /\ UNCHANGED sock

CloseClient(w, c) == /\ Pool!Finish(w)
                     /\ sock' = [sock EXCEPT ![c] = "closed"]
                     /\ hpc' = [hpc EXCEPT ![w] = "read"]

\* recv returns 0 or an error once the client is gone and nothing is left to read.
ReadNothing(w, c) == /\ Handles(w, c) /\ hpc[w] = "read"
                     /\ client[c] = "left" /\ wire[c] # "request"
                     /\ CloseClient(w, c)
                     /\ UNCHANGED <<threadVars, clientVars, listener, backlog, wire, alive>>

ProcessCommand(w, c) == /\ Handles(w, c) /\ hpc[w] = "process"
                        /\ hpc' = [hpc EXCEPT ![w] = "send"]
                        /\ UNCHANGED <<threadVars, poolVars, clientVars, kernelVars, alive>>

\* Nothing between processCommand and the thread catches: std::terminate.
ProcessThrows(w, c) == /\ Handles(w, c) /\ hpc[w] = "process"
                       /\ MayThrow
                       /\ alive' = FALSE
                       /\ UNCHANGED <<threadVars, hpc, poolVars, clientVars, kernelVars>>

\* MUTANT: a request without an answer sends none.
SendSkipped(w, c) == /\ Handles(w, c) /\ hpc[w] = "send"
                     /\ hpc' = [hpc EXCEPT ![w] = "read"]
                     /\ UNCHANGED <<threadVars, poolVars, clientVars, kernelVars, alive>>

\* To a client that is gone a send may still succeed.
SendMessage(w, c) == /\ Handles(w, c) /\ hpc[w] = "send"
                     /\ wire' = IF client[c] = "left" THEN wire
                                ELSE [wire EXCEPT ![c] = "response"]
                     /\ hpc' = [hpc EXCEPT ![w] = "read"]
                     /\ UNCHANGED <<threadVars, poolVars, clientVars, listener, backlog, sock, alive>>

SendFails(w, c) == /\ Handles(w, c) /\ hpc[w] = "send"
                   /\ client[c] = "left"
                   /\ CloseClient(w, c)
                   /\ UNCHANGED <<threadVars, clientVars, listener, backlog, wire, alive>>
-----------------------------------------------------------------------------
(* External: the clients, as src/client/Client.cpp behaves: one request at *)
(* a time, the next only after the answer to the last.                     *)

Connect(c) == /\ client[c] = "new"
              /\ Listening /\ Len(backlog) < Backlog
              /\ client' = [client EXCEPT ![c] = "idle"]
              /\ backlog' = Append(backlog, c)
              /\ sock' = [sock EXCEPT ![c] = "queued"]
              /\ UNCHANGED <<threadVars, hpc, poolVars, sent, listener, wire, alive>>

SendCommand(c) == /\ client[c] = "idle" /\ sock[c] \in {"queued", "accepted"}
                  /\ sent[c] < MaxRequests
                  /\ sent' = [sent EXCEPT ![c] = @ + 1]
                  /\ client' = [client EXCEPT ![c] = "awaiting"]
                  /\ wire' = [wire EXCEPT ![c] = "request"]
                  /\ UNCHANGED <<threadVars, hpc, poolVars, listener, backlog, sock, alive>>

ReceiveResponse(c) == /\ client[c] = "awaiting" /\ wire[c] = "response"
                      /\ wire' = [wire EXCEPT ![c] = "none"]
                      /\ client' = [client EXCEPT ![c] = "idle"]
                      /\ UNCHANGED <<threadVars, hpc, poolVars, sent, listener, backlog, sock, alive>>

\* quit, interrupted, or told by send or recv that the connection is gone.
Leave(c) == /\ client[c] \in {"idle", "awaiting"}
            /\ client' = [client EXCEPT ![c] = "left"]
            /\ UNCHANGED <<threadVars, hpc, poolVars, sent, kernelVars, alive>>
-----------------------------------------------------------------------------
Main == \/ CreateSocket \/ BindAndListen \/ BindFails
        \/ InitCleanup \/ InitClose \/ InitClear \/ SetRunning
        \/ TestRunning \/ CallAccept \/ Accept \/ AcceptFails \/ Enqueue
        \/ ClosePool \/ JoinPool \/ Destroy
Stopper == Stop \/ CleanupTest \/ CleanupClose \/ CleanupClear
Handler(w, c) == \/ ReadMessage(w, c) \/ ReadNothing(w, c)
                 \/ ProcessCommand(w, c) \/ ProcessThrows(w, c)
                 \/ SendMessage(w, c) \/ SendFails(w, c)
Client(c) == \/ Connect(c) \/ SendCommand(c) \/ ReceiveResponse(c)
             \/ Leave(c)

Next == /\ alive
        /\ \/ Main
           \/ Stopper
           \/ \E w \in Workers : BeginHandler(w)
           \/ \E w \in Workers, c \in Clients : Handler(w, c)
           \/ \E c \in Clients : Client(c)

Spec == Init /\ [][Next]_vars

(* The threads, the pool and the kernel make progress.  A shortage that    *)
(* makes accept fail does not last for ever (SF).  No fairness for clients *)
(* that connect, send or leave, for stop(), nor for bind or socket to      *)
(* succeed rather than fail.                                               *)
AcceptWoken == CloseWakesAccept /\ listener = "closed" /\ AcceptFails

Fairness ==
    /\ WF_vars(alive /\ CreateSocket) /\ WF_vars(alive /\ (BindAndListen \/ BindFails))
    /\ WF_vars(alive /\ InitCleanup) /\ WF_vars(alive /\ InitClose) /\ WF_vars(alive /\ InitClear)
    /\ WF_vars(alive /\ SetRunning) /\ WF_vars(alive /\ TestRunning) /\ WF_vars(alive /\ CallAccept)
    /\ SF_vars(alive /\ Accept) /\ WF_vars(alive /\ AcceptWoken)
    /\ WF_vars(alive /\ Enqueue) /\ WF_vars(alive /\ ClosePool) /\ WF_vars(alive /\ JoinPool)
    /\ WF_vars(alive /\ CleanupTest) /\ WF_vars(alive /\ CleanupClose)
    /\ WF_vars(alive /\ CleanupClear)
    /\ \A w \in Workers :
         /\ WF_vars(alive /\ BeginHandler(w))
         /\ WF_vars(alive /\ \E c \in Clients : Handler(w, c))
    /\ \A c \in Clients : WF_vars(alive /\ ReceiveResponse(c))

FairSpec == Spec /\ Fairness

(* Clients that come to their prompt leave in the end, and so do those     *)
(* whose connection the server's host has reset.                           *)
ClientsLeave == \A c \in Clients :
                  WF_vars(alive /\ (client[c] = "idle" \/ sock[c] = "reset") /\ Leave(c))

LeavingSpec == FairSpec /\ ClientsLeave
-----------------------------------------------------------------------------
TypeOK == /\ running_ \in BOOLEAN
          /\ serverSocket_ \in {"invalid", "fd"}
          /\ main \in MainAt
          /\ clientSocket \in Clients \cup {NoClient}
          /\ stopper \in {"idle", "cleanup", "close", "clear", "done"}
          /\ hpc \in [Workers -> {"read", "process", "send"}]
          /\ queue \in Seq(Clients)
          /\ slot \in [Workers -> Clients \cup {NoClient}]
          /\ submitted \in SUBSET Clients /\ finished \in SUBSET Clients
          /\ closed \in BOOLEAN /\ gone \in BOOLEAN
          /\ client \in [Clients -> {"new", "idle", "awaiting", "left"}]
          /\ sent \in [Clients -> 0..MaxRequests]
          /\ listener \in {"none", "open", "listening", "closed", "reclosed"}
          /\ backlog \in Seq(Clients) /\ Len(backlog) <= Backlog
          /\ sock \in [Clients -> {"none", "queued", "accepted", "closed", "reset"}]
          /\ wire \in [Clients -> {"none", "request", "response"}]
          /\ alive \in BOOLEAN

(* No accepted socket is leaked or closed by two owners: it is in exactly  *)
(* one of the accept loop's local, the pool's queue, one handler.          *)
Places(c) == Cardinality({i \in DOMAIN queue : queue[i] = c})
             + Cardinality({w \in Workers : slot[w] = c})
             + (IF clientSocket = c THEN 1 ELSE 0)
ConnectionsConserved == \A c \in Clients : Places(c) = IF sock[c] = "accepted" THEN 1 ELSE 0

(* Requests and answers alternate: a client that waits has its request or  *)
(* the answer in exactly one place, on the wire or with one handler, and a *)
(* client at its prompt has none pending that it could take for the next.  *)
Pending(c) == (IF wire[c] # "none" THEN 1 ELSE 0)
              + Cardinality({w \in Workers : slot[w] = c /\ hpc[w] # "read"})
RequestsConserved ==
    \A c \in Clients : client[c] # "left" /\ sock[c] # "reset" =>
        Pending(c) = IF client[c] = "awaiting" THEN 1 ELSE 0

(* A handler uses the server through a raw pointer.  Once start() has      *)
(* returned none is left, so destroying the server is safe.                *)
NoHandlerOutlivesStart ==
    main \in {"returned", "destroyed"} =>
        /\ \A c \in Clients : sock[c] # "accepted"
        /\ queue = <<>> /\ \A w \in Workers : slot[w] = NoClient

(* An open listening socket can still be closed by somebody: its           *)
(* descriptor is in serverSocket_ however stop() and a failing bind race.  *)
ListenerOwned == listener \in {"open", "listening"} => serverSocket_ = "fd"

(* stop(), initSocket and ~Server close the listening socket's descriptor  *)
(* once between them, so none closes one that has become something else.   *)
(* (So it is once the server runs; a stop() beside a failing initSocket    *)
(* can find the descriptor before the other has cleared it.)               *)
SocketClosedOnce == listener # "reclosed"

(* stop() is final: once it has begun, no step turns running_ on again.    *)
StopSticks == [][stopper # "idle" => (running_' => running_)]_vars

(* Once stop() has returned, the accept loop takes no further connection.  *)
NoAcceptAfterStop == [][stopper = "done" => clientSocket' \in {clientSocket, NoClient}]_vars

(* stop() makes start() return.                                            *)
StopReturns == stopper # "idle" ~> main \in {"returned", "destroyed"}

(* A client that waits is answered or gets to know that it will not be.    *)
RequestsAnswered == \A c \in Clients : client[c] = "awaiting" ~> client[c] # "awaiting"
=============================================================================
