------------------------------ MODULE Commands ------------------------------
(***************************************************************************)
(* Server::processCommand step by step: dispatch on the request, one lock  *)
(* (devicesMutex_) around the registry, one device method at a time inside *)
(* it, the device list read device by device.  Each device method is one   *)
(* step (see Devices): deviceMutex_ is only ever taken inside it.          *)
(***************************************************************************)
EXTENDS Devices

CONSTANTS Threads,    \* the workers of the pool that run handlers
          Requests,   \* [verb, words]: PING and ARP, or GET and a path's segments
          Malformed,  \* the addresses std::stoi rejects
          Free        \* the mutex is free

ASSUME CommandsAssumption == Free \notin Threads

\* std::stoi makes integers, and no integer is NaN.
ASSUME NumbersAssumption == /\ \A word \in DOMAIN Stoi : Stoi[word] \in Int
                            /\ NaN \notin Int

VARIABLES devicesMutex_,  \* the thread that holds it
          devices_,       \* the devices by key
          pc,             \* where each thread is in processCommand
          request,        \* its rawRequest
          lines,          \* the lines of the device list written so far
          reply,          \* what it is about to return
          alive           \* the process

vars == <<devicesMutex_, devices_, pc, request, lines, reply, alive>>

None == [verb |-> "none", words |-> <<>>]

Init == /\ devicesMutex_ = Free
        /\ devices_ = NewDevices
        /\ pc = [t \in Threads |-> "idle"]
        /\ request = [t \in Threads |-> None]
        /\ lines = [t \in Threads |-> <<>>]
        /\ reply = [t \in Threads |-> NoReply]
        /\ alive = TRUE

Goto(t, place) == pc' = [pc EXCEPT ![t] = place]
Answer(t, r)   == reply' = [reply EXCEPT ![t] = r]

Receive(t) == /\ pc[t] = "idle"
              /\ \E r \in Requests : request' = [request EXCEPT ![t] = r]
              /\ Goto(t, "dispatch")
              /\ UNCHANGED <<devicesMutex_, devices_, lines, reply, alive>>
-----------------------------------------------------------------------------
(* The text commands come before the HTTP-like ones.                       *)

Usage(t) == /\ pc[t] = "dispatch"
            /\ request[t].verb \in {"PING", "ARP"} /\ request[t].words = <<>>
            /\ Answer(t, Reply(500, <<"usage">>))
            /\ Goto(t, "return")
            /\ UNCHANGED <<devicesMutex_, devices_, request, lines, alive>>

\* handlePingCommand, handleArpCommand: neither touches the devices.
PingOrArp(t) == /\ pc[t] = "dispatch"
                /\ request[t].verb \in {"PING", "ARP"} /\ request[t].words # <<>>
                /\ request[t].words[1] \notin Malformed
                /\ Answer(t, Reply(0, <<request[t].verb, request[t].words[1]>>))
                /\ Goto(t, "return")
                /\ UNCHANGED <<devicesMutex_, devices_, request, lines, alive>>

\* lookupRoute and findSubnet let what std::stoi throws escape: std::terminate.
Terminate(t) == /\ pc[t] = "dispatch"
                /\ request[t].verb \in {"PING", "ARP"} /\ request[t].words # <<>>
                /\ request[t].words[1] \in Malformed
                /\ alive' = FALSE
                /\ UNCHANGED <<devicesMutex_, devices_, pc, request, lines, reply>>

Resource(t) == IF request[t].words = <<>> THEN "none" ELSE request[t].words[1]

\* MUTANT: looking a resource up in the map inserts it.
UnknownInserts(t) == /\ pc[t] = "dispatch"
                     /\ request[t].verb = "GET"
                     /\ Resource(t) \notin DeviceResources \cup {"devices"}
                     /\ devices_' = [k \in DOMAIN devices_ \cup {Resource(t)} |->
                                       IF k \in DOMAIN devices_ THEN devices_[k] ELSE NewLight]
                     /\ Answer(t, Reply(404, <<"notfound">>))
                     /\ Goto(t, "return")
                     /\ UNCHANGED <<devicesMutex_, request, lines, alive>>

Unknown(t) == /\ pc[t] = "dispatch"
              /\ request[t].verb = "GET"
              /\ Resource(t) \notin DeviceResources \cup {"devices"}
              /\ Answer(t, Reply(404, <<"notfound">>))
              /\ Goto(t, "return")
              /\ UNCHANGED <<devicesMutex_, devices_, request, lines, alive>>

\* MUTANT: the handlers of the devices run without the registry's mutex.
LockListOnly(t) == /\ pc[t] = "dispatch"
                   /\ request[t].verb = "GET"
                   /\ \/ /\ Resource(t) \in DeviceResources
                         /\ Goto(t, "device")
                         /\ UNCHANGED devicesMutex_
                      \/ /\ Resource(t) = "devices"
                         /\ devicesMutex_ = Free
                         /\ devicesMutex_' = t
                         /\ Goto(t, "list")
                   /\ UNCHANGED <<devices_, request, lines, reply, alive>>

\* The std::lock_guard at the top of every handler of devices.
Lock(t) == /\ pc[t] = "dispatch"
           /\ request[t].verb = "GET"
           /\ devicesMutex_ = Free
           /\ devicesMutex_' = t
           /\ \/ Resource(t) \in DeviceResources /\ Goto(t, "device")
              \/ Resource(t) = "devices" /\ Goto(t, "list")
           /\ UNCHANGED <<devices_, request, lines, reply, alive>>
-----------------------------------------------------------------------------
(* Under the mutex.                                                        *)

\* MUTANT: a rejected value returns early and keeps the mutex.
HandleLeaks(t) == /\ pc[t] = "device"
                  /\ LET key == Resource(t)
                         res == DeviceCommand(key, devices_[key], request[t].words)
                     IN /\ devices_' = [devices_ EXCEPT ![key] = res.device]
                        /\ Answer(t, res.reply)
                        /\ Goto(t, IF res.reply.code = 500 THEN "return" ELSE "unlock")
                  /\ UNCHANGED <<devicesMutex_, request, lines, alive>>

Handle(t) == /\ pc[t] = "device"
             /\ LET key == Resource(t)
                    res == DeviceCommand(key, devices_[key], request[t].words)
                IN /\ devices_' = [devices_ EXCEPT ![key] = res.device]
                   /\ Answer(t, res.reply)
             /\ Goto(t, "unlock")
             /\ UNCHANGED <<devicesMutex_, request, lines, alive>>

\* One iteration of handleDeviceListCommand: getStatus of the next device.
ListDevice(t) == /\ pc[t] = "list"
                 /\ Len(lines[t]) < Len(DeviceKeys)
                 /\ lines' = [lines EXCEPT
                      ![t] = Append(@, Listed(devices_[DeviceKeys[Len(@) + 1]]))]
                 /\ UNCHANGED <<devicesMutex_, devices_, pc, request, reply, alive>>

ListDone(t) == /\ pc[t] = "list"
               /\ Len(lines[t]) = Len(DeviceKeys)
               /\ Answer(t, Reply(200, <<"list", lines[t]>>))
               /\ lines' = [lines EXCEPT ![t] = <<>>]
               /\ Goto(t, "unlock")
               /\ UNCHANGED <<devicesMutex_, devices_, request, alive>>

Unlock(t) == /\ pc[t] = "unlock"
             /\ devicesMutex_' = Free
             /\ Goto(t, "return")
             /\ UNCHANGED <<devices_, request, lines, reply, alive>>

Return(t) == /\ pc[t] = "return"
             /\ reply' = [reply EXCEPT ![t] = NoReply]
             /\ request' = [request EXCEPT ![t] = None]
             /\ Goto(t, "idle")
             /\ UNCHANGED <<devicesMutex_, devices_, lines, alive>>
-----------------------------------------------------------------------------
Step(t) == \/ Receive(t) \/ Usage(t) \/ PingOrArp(t) \/ Terminate(t) \/ Unknown(t)
           \/ Lock(t) \/ Handle(t) \/ ListDevice(t) \/ ListDone(t) \/ Unlock(t) \/ Return(t)

Next == alive /\ \E t \in Threads : Step(t)

Spec == Init /\ [][Next]_vars

(* Threads run, and one that keeps asking for the mutex gets it in the end *)
(* (SF); nobody has to send another request.                               *)
Proceed(t) == \/ Usage(t) \/ PingOrArp(t) \/ Terminate(t) \/ Unknown(t)
              \/ Handle(t) \/ ListDevice(t) \/ ListDone(t) \/ Unlock(t) \/ Return(t)
Fairness == \A t \in Threads : WF_vars(alive /\ Proceed(t)) /\ SF_vars(alive /\ Lock(t))

FairSpec == Spec /\ Fairness
-----------------------------------------------------------------------------
TypeOK == /\ devicesMutex_ \in Threads \cup {Free}
          /\ DOMAIN devices_ = {DeviceKeys[i] : i \in DOMAIN DeviceKeys}
          /\ pc \in [Threads -> {"idle", "dispatch", "device", "list", "unlock", "return"}]
          /\ request \in [Threads -> Requests \cup {None}]
          /\ \A t \in Threads : Len(lines[t]) <= Len(DeviceKeys)
          /\ DOMAIN reply = Threads
          /\ alive \in BOOLEAN

(* A device list is a picture of one moment: the lines already written     *)
(* still hold while the rest is being read, whatever other threads ask.    *)
ListIsSnapshot == \A t \in Threads : \A i \in DOMAIN lines[t] :
                    lines[t][i] = Listed(devices_[DeviceKeys[i]])

(* A camera that is armed is powered, after any sequence of commands.      *)
ArmedIsOn == devices_["security"].armed => devices_["security"].power

(* The values the commands store stay within what the devices document:    *)
(* brightness 0 to 100, target temperature 10 to 35.                       *)
BrightnessInRange  == devices_["light"].brightness \in 0..100
TemperatureInRange == devices_["thermostat"].target \in 10..35

(* Every command is answered: no request makes processCommand throw.       *)
CommandAnswered == alive

(* Commands that run at the same time look as if they ran one by one.      *)
Stage(t) == CASE pc[t] = "idle" -> "idle"
              [] pc[t] \in {"dispatch", "device", "list"} -> "called"
              [] pc[t] \in {"unlock", "return"} -> "answered"
Registry == INSTANCE DeviceRegistry WITH devices <- devices_,
                                         stage <- [t \in Threads |-> Stage(t)]
ImplementsRegistry == Registry!Spec

(* A command that was received is answered: no thread waits for the mutex  *)
(* for ever, whichever way the holder left its handler.  Only the end of   *)
(* the process excuses.                                                    *)
EveryCommandReturns == \A t \in Threads : pc[t] = "dispatch" ~> pc[t] = "idle" \/ ~alive
=============================================================================
