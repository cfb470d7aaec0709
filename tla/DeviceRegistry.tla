--------------------------- MODULE DeviceRegistry ---------------------------
(***************************************************************************)
(* What Server::processCommand promises to the threads that call it at the *)
(* same time: each request takes effect, and is answered, in one step      *)
(* somewhere between its call and its return, as if it ran alone.          *)
(***************************************************************************)
EXTENDS Devices

CONSTANTS Threads,   \* the threads that call processCommand
          Requests   \* [verb, words]: PING and ARP, or GET and a path's segments

VARIABLES devices,   \* the devices by key
          stage,     \* of each thread: "idle", "called" or "answered"
          request,   \* what each thread asked last
          reply      \* what processCommand is about to return to it

vars == <<devices, stage, request, reply>>

None == [verb |-> "none", words |-> <<>>]

Init == /\ devices = NewDevices
        /\ stage = [t \in Threads |-> "idle"]
        /\ request = [t \in Threads |-> None]
        /\ reply = [t \in Threads |-> NoReply]

Call(t) == /\ stage[t] = "idle"
           /\ \E r \in Requests : request' = [request EXCEPT ![t] = r]
           /\ stage' = [stage EXCEPT ![t] = "called"]
           /\ UNCHANGED <<devices, reply>>

Answer(t, code, body) == /\ reply' = [reply EXCEPT ![t] = Reply(code, body)]
                         /\ stage' = [stage EXCEPT ![t] = "answered"]
                         /\ UNCHANGED request

\* PING and ARP read what no command writes; their answers are plain text.
Tool(t) == /\ request[t].verb \in {"PING", "ARP"}
           /\ IF request[t].words = <<>>
              THEN Answer(t, 500, <<"usage">>)
              ELSE Answer(t, 0, <<request[t].verb, request[t].words[1]>>)
           /\ UNCHANGED devices

Device(t) == /\ request[t].verb = "GET" /\ request[t].words # <<>>
             /\ LET key == request[t].words[1]
                IN /\ key \in DeviceResources
                   /\ LET res == DeviceCommand(key, devices[key], request[t].words)
                      IN /\ devices' = [devices EXCEPT ![key] = res.device]
                         /\ Answer(t, res.reply.code, res.reply.body)

List(t) == /\ request[t].verb = "GET" /\ request[t].words # <<>>
           /\ request[t].words[1] = "devices"
           /\ Answer(t, 200, <<"list", Listing(devices)>>)
           /\ UNCHANGED devices

NotFound(t) == /\ request[t].verb = "GET"
               /\ IF request[t].words = <<>> THEN TRUE
                  ELSE request[t].words[1] \notin DeviceResources \cup {"devices"}
               /\ Answer(t, 404, <<"notfound">>)
               /\ UNCHANGED devices

Execute(t) == /\ stage[t] = "called"
              /\ Tool(t) \/ Device(t) \/ List(t) \/ NotFound(t)

Return(t) == /\ stage[t] = "answered"
             /\ stage' = [stage EXCEPT ![t] = "idle"]
             /\ reply' = [reply EXCEPT ![t] = NoReply]
             /\ request' = [request EXCEPT ![t] = None]
             /\ UNCHANGED devices

Next == \E t \in Threads : Call(t) \/ Execute(t) \/ Return(t)

Spec == Init /\ [][Next]_vars
=============================================================================
