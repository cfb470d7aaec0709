--------------------------- MODULE ClientSession ---------------------------
(***************************************************************************)
(* One connection byte by byte, as far as it matters: src/client/Client.cpp*)
(* and main_client.cpp at one end, src/server/ClientHandler.cpp at the     *)
(* other, between them two streams that keep their order and nothing else. *)
(* A message is so many units marked with the command it belongs to; send  *)
(* and recv move any number of units they like, at least one.  (Server has *)
(* all clients and moves whole messages.)                                  *)
(***************************************************************************)
EXTENDS Integers, Sequences

CONSTANTS RequestSize, AnswerSize, \* units of a message
          Buffer,                  \* units one recv takes at most, BUFFER_SIZE - 1
          MaxCommands              \* bound: the commands sent

ASSUME SessionAssumption == /\ RequestSize \in Nat \ {0} /\ AnswerSize \in Nat \ {0}
                            /\ Buffer \in Nat \ {0} /\ MaxCommands \in Nat

VARIABLES at,          \* where the client program is
          connected_, closes,    \* and how often it closed its descriptor
          input,       \* the line getline left: "none", or a "command"
          stdin,       \* "open" or "ended"
          sent,        \* the commands sent, the number of the last
          answered,    \* the command whose answer sendCommand took last
          up, down,    \* the units on their way to the server, to the client
          handler, piece, left,  \* the handler, the command of what it read, units to send
          whole        \* every send and recv moved one whole message (history)

prompt  == <<input, stdin>>
socket  == <<connected_, closes>>
serving == <<handler, piece, left>>
vars    == <<at, socket, prompt, sent, answered, up, down, serving, whole>>

Init == /\ at = "start"
        /\ connected_ = FALSE /\ closes = 0
        /\ input = "none" /\ stdin = "open"
        /\ sent = 0 /\ answered = 0
        /\ up = <<>> /\ down = <<>>
        /\ handler = "read" /\ piece = 0 /\ left = 0
        /\ whole = TRUE

Units(n, k) == [i \in 1..n |-> k]
Sizes(stream) == {n \in 1..Buffer : n <= Len(stream)}
Rest(stream, n) == SubSeq(stream, n + 1, Len(stream))
IsMessage(stream, n, size) == n = size /\ stream[n] = stream[1]
-----------------------------------------------------------------------------
(* The client.                                                             *)

Connect == /\ at = "start"
           /\ at' = "prompt"
           /\ connected_' = TRUE
           /\ UNCHANGED <<closes, prompt, sent, answered, up, down, serving, whole>>

\* main returns 1; the descriptor of socket() stays open.
ConnectFails == /\ at = "start"
                /\ at' = "destroy"
                /\ UNCHANGED <<socket, prompt, sent, answered, up, down, serving, whole>>

\* A line is read: help and empty lines only come back to the prompt.
ReadCommand == /\ at = "prompt" /\ stdin = "open" /\ sent < MaxCommands
               /\ at' = "send"
               /\ input' = "command"
               /\ stdin' \in {"open", "ended"}     \* ended: a last line without a newline
               /\ UNCHANGED <<socket, sent, answered, up, down, serving, whole>>

EndOfInput == /\ at = "prompt" /\ stdin = "open"
              /\ stdin' = "ended"
              /\ input' = "none"
              /\ UNCHANGED <<at, socket, sent, answered, up, down, serving, whole>>

\* getline on an ended stream leaves input as it was: the last line is sent again.
RepeatLast == /\ at = "prompt" /\ stdin = "ended" /\ input = "command" /\ sent < MaxCommands
              /\ at' = "send"
              /\ UNCHANGED <<socket, prompt, sent, answered, up, down, serving, whole>>

Quit == /\ at = "prompt" /\ stdin = "open"
        /\ at' = "disconnect"
        /\ UNCHANGED <<socket, prompt, sent, answered, up, down, serving, whole>>

\* One call of send; what it does not take is never sent.
Send == /\ at = "send"
        /\ \E n \in 1..RequestSize :
             /\ up' = up \o Units(n, sent + 1)
             /\ whole' = (whole /\ n = RequestSize)
        /\ sent' = sent + 1
        /\ at' = "recv"
        /\ UNCHANGED <<socket, prompt, answered, down, serving>>

\* One call of recv; what it does not take is there for the next.
Recv == /\ at = "recv"
        /\ \E n \in Sizes(down) :
             /\ down' = Rest(down, n)
             /\ whole' = (whole /\ IsMessage(down, n, AnswerSize))
        /\ answered' = Head(down)
        /\ at' = "prompt"
        /\ UNCHANGED <<socket, prompt, sent, up, serving>>

\* send or recv finds the connection gone: "Lost connection to server.", and
\* interactiveMode returns.  The descriptor is still open, but connected_ no
\* longer says so.
CallFails == /\ at \in {"send", "recv"} /\ handler = "closed"
             /\ connected_' = FALSE
             /\ at' = "disconnect"
             /\ UNCHANGED <<closes, prompt, sent, answered, up, down, serving, whole>>

\* MUTANT: connected_ stays set.
DisconnectAgain == /\ closes' = IF connected_ THEN closes + 1 ELSE closes
                   /\ UNCHANGED connected_

disconnect == /\ closes' = IF connected_ THEN closes + 1 ELSE closes
              /\ connected_' = FALSE

\* At the end of main, and again in ~Client.
Disconnect == /\ at \in {"disconnect", "destroy"}
              /\ disconnect
              /\ at' = IF at = "disconnect" THEN "destroy" ELSE "ended"
              /\ UNCHANGED <<prompt, sent, answered, up, down, serving, whole>>
-----------------------------------------------------------------------------
(* The handler.                                                            *)

\* One call of recv, taken for one request.
ReadMessage == /\ handler = "read"
               /\ \E n \in Sizes(up) :
                    /\ up' = Rest(up, n)
                    /\ whole' = (whole /\ IsMessage(up, n, RequestSize))
               /\ piece' = Head(up)
               /\ handler' = "process"
               /\ UNCHANGED <<at, socket, prompt, sent, answered, down, left>>

\* MUTANT: a request that does not parse gets no answer.
SkipMalformed == /\ handler = "process"
                 /\ \/ handler' = "send" /\ left' = AnswerSize
                    \/ ~whole /\ handler' = "read" /\ UNCHANGED left
                 /\ UNCHANGED <<at, socket, prompt, sent, answered, up, down, piece, whole>>

\* MUTANT: an interim answer goes out before the real one.
AnswerTwice == /\ handler = "process"
               /\ handler' = "send"
               /\ left' = 2 * AnswerSize
               /\ UNCHANGED <<at, socket, prompt, sent, answered, up, down, piece, whole>>

\* Whatever the piece says, processCommand answers it.
ProcessCommand == /\ handler = "process"
                  /\ handler' = "send"
                  /\ left' = AnswerSize
                  /\ UNCHANGED <<at, socket, prompt, sent, answered, up, down, piece, whole>>

\* MUTANT: each request has a task of its own, whose answer may overtake others.
AnswerOvertakes == /\ handler = "send"
                   /\ \E n \in 1..left :
                        /\ down' \in {down \o Units(n, piece), Units(n, piece) \o down}
                        /\ left' = left - n
                   /\ handler' = IF left' = 0 THEN "read" ELSE "send"
                   /\ UNCHANGED <<at, socket, prompt, sent, answered, up, piece, whole>>

\* One call of send in the loop of sendMessage.
SendMessage == /\ handler = "send"
               /\ \E n \in 1..left :
                    /\ down' = down \o Units(n, piece)
                    /\ left' = left - n
               /\ handler' = IF left' = 0 THEN "read" ELSE "send"
               /\ UNCHANGED <<at, socket, prompt, sent, answered, up, piece, whole>>

\* The client is gone.
HandlerEnds == /\ closes > 0
               /\ \/ handler = "read" /\ up = <<>>
                  \/ handler = "send"
               /\ handler' = "closed"
               /\ UNCHANGED <<at, socket, prompt, sent, answered, up, down, piece, left, whole>>

\* The server process ends, or the connection is reset.
ServerGone == /\ handler # "closed"
              /\ handler' = "closed"
              /\ UNCHANGED <<at, socket, prompt, sent, answered, up, down, piece, left, whole>>
-----------------------------------------------------------------------------
Client == \/ Connect \/ ConnectFails \/ ReadCommand \/ EndOfInput \/ RepeatLast \/ Quit
          \/ Send \/ Recv \/ CallFails \/ Disconnect
Handler == ReadMessage \/ ProcessCommand \/ SendMessage \/ HandlerEnds

Next == Client \/ Handler \/ ServerGone

Spec == Init /\ [][Next]_vars

(* Calls on the two sockets go on when they can; nobody has to type, and   *)
(* no connection has to fail.                                              *)
FairSpec == /\ Spec
            /\ WF_vars(Send) /\ WF_vars(Recv \/ CallFails) /\ WF_vars(Disconnect)
            /\ WF_vars(Handler)
-----------------------------------------------------------------------------
TypeOK == /\ at \in {"start", "prompt", "send", "recv", "disconnect", "destroy", "ended"}
          /\ connected_ \in BOOLEAN /\ closes \in 0..1
          /\ input \in {"none", "command"} /\ stdin \in {"open", "ended"}
          /\ sent \in 0..MaxCommands /\ answered \in 0..sent
          /\ up \in Seq(1..sent) /\ down \in Seq(1..sent)
          /\ handler \in {"read", "process", "send", "closed"}
          /\ piece \in 0..sent /\ left \in 0..AnswerSize
          /\ whole \in BOOLEAN

(* However the messages are cut, client and handler never both wait for    *)
(* the other: while the client is in recv, something is on its way.        *)
AnswerComing == at = "recv" /\ handler # "closed" =>
                    up # <<>> \/ down # <<>> \/ handler # "read"

(* As long as every call moves one whole message, sendCommand returns the  *)
(* answer to its own command.  (Once one was cut it need not ever again.)  *)
AnswersPaired == whole /\ at = "prompt" => answered = sent

(* However the messages are cut, the answers never go back: no command     *)
(* prints an answer to an earlier command than the one before it printed.  *)
AnswersInOrder == [][answered' >= answered]_vars

(* sendCommand returns: with an answer, or because the connection is gone. *)
CommandReturns == at = "recv" ~> at # "recv"
=============================================================================
