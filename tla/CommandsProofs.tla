--------------------------- MODULE CommandsProofs ---------------------------
(* Commands on the devices are atomic, for any threads and any requests. *)
EXTENDS Commands, TLAPS

Keys  == {DeviceKeys[i] : i \in DOMAIN DeviceKeys}
Shown == {Listed(devices_[k]) : k \in Keys}

(* The registry's mutex covers a handler from its lock to its unlock.      *)
MutexInv == \A t \in Threads : pc[t] \in {"device", "list", "unlock"} => devicesMutex_ = t

(* Only a thread inside the list handler has lines.                        *)
LinesInv == \A t \in Threads : /\ lines[t] \in Seq(Shown)
                               /\ Len(lines[t]) <= Len(DeviceKeys)
                               /\ pc[t] # "list" => lines[t] = <<>>

Shape == /\ pc \in [Threads -> {"idle", "dispatch", "device", "list", "unlock", "return"}]
         /\ DOMAIN lines = Threads /\ DOMAIN request = Threads

(* A thread is in the handler its request asks for.                        *)
RequestInv == \A t \in Threads :
    /\ pc[t] = "device" => request[t].verb = "GET" /\ Resource(t) \in DeviceResources
    /\ pc[t] = "list"   => request[t].verb = "GET" /\ Resource(t) = "devices"

IInv == Shape /\ MutexInv /\ RequestInv /\ LinesInv /\ ListIsSnapshot

LEMMA FourKeys == DOMAIN DeviceKeys = 1..4 /\ Len(DeviceKeys) = 4
  BY DEF DeviceKeys

LEMMA NoLines ==
  ASSUME NEW S PROVE <<>> \in Seq(S) /\ Len(<<>>) <= Len(DeviceKeys)
<1>1. <<>> \in Seq(S) /\ Len(<<>>) = 0  OBVIOUS
<1> QED  BY <1>1, FourKeys

LEMMA InitIInv == Init => IInv
<1> SUFFICES ASSUME Init PROVE IInv
  OBVIOUS
<1>1. \A t \in Threads : lines[t] = <<>> /\ pc[t] = "idle"  BY DEF Init
<1>2. Shape  BY DEF Init, Shape
<1>3. MutexInv /\ RequestInv  BY <1>1 DEF MutexInv, RequestInv
<1>4. LinesInv  BY <1>1, NoLines, Zenon DEF LinesInv
<1>5. ListIsSnapshot  BY <1>1 DEF ListIsSnapshot
<1> QED  BY <1>2, <1>3, <1>4, <1>5 DEF IInv

LEMMA ShapeStep ==
  ASSUME Shape, NEW t \in Threads, Step(t) PROVE Shape'
  BY DEF Shape, Step, Receive, Usage, PingOrArp, Terminate, Unknown, Lock, Handle,
         ListDevice, ListDone, Unlock, Return, Goto

LEMMA MutexStep ==
  ASSUME Shape, MutexInv, NEW t \in Threads, Step(t) PROVE MutexInv'
<1> USE DEF Shape, MutexInv
<1>1. CASE Receive(t) \/ Usage(t) \/ PingOrArp(t) \/ Unknown(t) \/ Return(t)
  BY <1>1 DEF Receive, Usage, PingOrArp, Unknown, Return, Goto
<1>2. CASE Terminate(t)  BY <1>2 DEF Terminate
<1>3. CASE Lock(t)  BY <1>3, CommandsAssumption DEF Lock, Goto
<1>4. CASE Handle(t) \/ ListDevice(t) \/ ListDone(t)
  BY <1>4 DEF Handle, ListDevice, ListDone, Goto
<1>5. CASE Unlock(t)  BY <1>5 DEF Unlock, Goto
<1> QED  BY <1>1, <1>2, <1>3, <1>4, <1>5 DEF Step

LEMMA RequestStep ==
  ASSUME Shape, RequestInv, NEW t \in Threads, Step(t) PROVE RequestInv'
<1> USE DEF Shape, RequestInv, Resource
<1>1. CASE Receive(t)  BY <1>1 DEF Receive, Goto
<1>2. CASE Lock(t)  BY <1>2 DEF Lock, Goto
<1>3. CASE Usage(t) \/ PingOrArp(t) \/ Terminate(t) \/ Unknown(t)
  BY <1>3 DEF Usage, PingOrArp, Terminate, Unknown, Goto
<1>4. CASE Handle(t) \/ ListDevice(t) \/ ListDone(t) \/ Unlock(t)
  BY <1>4 DEF Handle, ListDevice, ListDone, Unlock, Goto
<1>5. CASE Return(t)  BY <1>5 DEF Return, Goto
<1> QED  BY <1>1, <1>2, <1>3, <1>4, <1>5 DEF Step

(* While a list is being written nobody else is in a handler, so nothing   *)
(* that was written goes stale.                                            *)
LEMMA LinesStep ==
  ASSUME IInv, NEW t \in Threads, Step(t) PROVE LinesInv' /\ ListIsSnapshot'
<1>0. Shape /\ MutexInv /\ LinesInv /\ ListIsSnapshot  BY DEF IInv
<1>1. CASE Receive(t) \/ Usage(t) \/ PingOrArp(t) \/ Unknown(t) \/ Return(t)
           \/ Terminate(t) \/ Lock(t) \/ Unlock(t)
  <2>1. UNCHANGED <<devices_, lines>>
    BY <1>1 DEF Receive, Usage, PingOrArp, Unknown, Return, Terminate, Lock, Unlock
  <2>2. \A u \in Threads : pc'[u] # "list" => pc[u] # "list"
    BY <1>0, <1>1 DEF Receive, Usage, PingOrArp, Unknown, Return, Terminate, Lock, Unlock,
                      Goto, Shape
  <2>3. Shown' = Shown  BY <2>1 DEF Shown
  <2>4. LinesInv'  BY <1>0, <2>1, <2>2, <2>3 DEF LinesInv
  <2>5. ListIsSnapshot'  BY <1>0, <2>1 DEF ListIsSnapshot
  <2> QED  BY <2>4, <2>5
<1>2. CASE Handle(t)
  <2>1. pc[t] = "device" /\ lines' = lines /\ pc' = [pc EXCEPT ![t] = "unlock"]
    BY <1>2 DEF Handle, Goto
  <2>2. \A u \in Threads : pc[u] # "list"
    <3> SUFFICES ASSUME NEW u \in Threads, pc[u] = "list" PROVE FALSE
      OBVIOUS
    <3>1. devicesMutex_ = t /\ devicesMutex_ = u  BY <1>0, <2>1 DEF MutexInv
    <3> QED  BY <2>1, <3>1
  <2>3. \A u \in Threads : lines'[u] = <<>>  BY <1>0, <2>1, <2>2 DEF LinesInv
  <2>4. LinesInv'  BY <2>3, NoLines, Zenon DEF LinesInv
  <2>5. ListIsSnapshot'  BY <2>3 DEF ListIsSnapshot
  <2> QED  BY <2>4, <2>5
<1>3. CASE ListDevice(t)
  <2> DEFINE k == Len(lines[t]) + 1
             line == Listed(devices_[DeviceKeys[k]])
  <2>1. /\ pc[t] = "list" /\ Len(lines[t]) < Len(DeviceKeys)
        /\ lines' = [lines EXCEPT ![t] = Append(lines[t], line)]
        /\ pc' = pc /\ devices_' = devices_
    BY <1>3 DEF ListDevice
  <2>2. lines[t] \in Seq(Shown) /\ Len(lines[t]) \in Nat  BY <1>0 DEF LinesInv
  <2>3. k \in DOMAIN DeviceKeys  BY <2>1, <2>2, FourKeys
  <2>4. line \in Shown  BY <2>3 DEF Shown, Keys
  <2> HIDE DEF line
  <2>5. /\ Append(lines[t], line) \in Seq(Shown)
        /\ Len(Append(lines[t], line)) = k /\ k <= Len(DeviceKeys)
        /\ DOMAIN Append(lines[t], line) = 1..k
        /\ \A i \in 1 .. Len(lines[t]) : Append(lines[t], line)[i] = lines[t][i]
        /\ Append(lines[t], line)[k] = line
    BY <2>2, <2>3, <2>4, FourKeys
  <2>6. /\ lines'[t] = Append(lines[t], line)
        /\ \A u \in Threads \ {t} : lines'[u] = lines[u]
    BY <1>0, <2>1 DEF Shape
  <2>7. Shown' = Shown  BY <2>1 DEF Shown
  <2>8. LinesInv'
    <3> SUFFICES ASSUME NEW u \in Threads
                 PROVE  /\ lines'[u] \in Seq(Shown) /\ Len(lines'[u]) <= Len(DeviceKeys)
                        /\ pc'[u] # "list" => lines'[u] = <<>>
      BY <2>7 DEF LinesInv
    <3>1. CASE u = t  BY <3>1, <2>1, <2>5, <2>6
    <3>2. CASE u # t  BY <3>2, <1>0, <2>1, <2>6 DEF LinesInv
    <3> QED  BY <3>1, <3>2
  <2>9. ListIsSnapshot'
    <3> SUFFICES ASSUME NEW u \in Threads, NEW i \in DOMAIN lines'[u]
                 PROVE  lines'[u][i] = Listed(devices_[DeviceKeys[i]])
      BY <2>1 DEF ListIsSnapshot
    <3>1. CASE u # t  BY <3>1, <1>0, <2>6 DEF ListIsSnapshot
    <3>2. CASE u = t /\ i # k
      <4>1. i \in 1 .. Len(lines[t])  BY <3>2, <2>2, <2>5, <2>6
      <4>2. i \in DOMAIN lines[t]  BY <4>1, <2>2
      <4> QED  BY <3>2, <4>1, <4>2, <1>0, <2>5, <2>6 DEF ListIsSnapshot
    <3>3. CASE u = t /\ i = k
      BY <3>3, <2>5, <2>6 DEF line
    <3> QED  BY <3>1, <3>2, <3>3
  <2> QED  BY <2>8, <2>9
<1>4. CASE ListDone(t)
  <2>1. /\ lines' = [lines EXCEPT ![t] = <<>>] /\ devices_' = devices_
        /\ pc' = [pc EXCEPT ![t] = "unlock"]
    BY <1>4 DEF ListDone, Goto
  <2>2. lines'[t] = <<>> /\ \A u \in Threads \ {t} : lines'[u] = lines[u] /\ pc'[u] = pc[u]
    BY <1>0, <2>1 DEF Shape
  <2>3. Shown' = Shown  BY <2>1 DEF Shown
  <2>4. LinesInv'
    <3> SUFFICES ASSUME NEW u \in Threads
                 PROVE  /\ lines'[u] \in Seq(Shown) /\ Len(lines'[u]) <= Len(DeviceKeys)
                        /\ pc'[u] # "list" => lines'[u] = <<>>
      BY <2>3 DEF LinesInv
    <3>1. CASE u = t  BY <3>1, <2>2, NoLines
    <3>2. CASE u # t  BY <3>2, <1>0, <2>2 DEF LinesInv
    <3> QED  BY <3>1, <3>2
  <2>5. ListIsSnapshot'
    <3> SUFFICES ASSUME NEW u \in Threads, NEW i \in DOMAIN lines'[u]
                 PROVE  lines'[u][i] = Listed(devices_[DeviceKeys[i]])
      BY <2>1 DEF ListIsSnapshot
    <3>1. u # t  BY <2>2
    <3> QED  BY <3>1, <1>0, <2>2 DEF ListIsSnapshot
  <2> QED  BY <2>4, <2>5
<1> QED  BY <1>1, <1>2, <1>3, <1>4 DEF Step

LEMMA NextIInv == IInv /\ [Next]_vars => IInv'
<1> SUFFICES ASSUME IInv, [Next]_vars PROVE IInv'
  OBVIOUS
<1>1. ASSUME NEW t \in Threads, Step(t) PROVE IInv'
  <2>1. Shape' /\ MutexInv' /\ RequestInv'
    BY <1>1, ShapeStep, MutexStep, RequestStep DEF IInv
  <2> QED  BY <1>1, <2>1, LinesStep DEF IInv
<1>2. CASE UNCHANGED vars
  BY <1>2 DEF vars, IInv, Shape, MutexInv, RequestInv, Resource, LinesInv, ListIsSnapshot, Shown
<1> QED  BY <1>1, <1>2 DEF Next

THEOREM Invariance == Spec => []IInv
  BY InitIInv, NextIInv, PTL DEF Spec

(* A device list never mixes two moments.                                  *)
THEOREM ListsAreSnapshots == Spec => []ListIsSnapshot
<1>1. IInv => ListIsSnapshot  BY DEF IInv
<1> QED  BY <1>1, Invariance, PTL
-----------------------------------------------------------------------------
(* Refinement.  A command on a device takes effect at Handle, a list at    *)
(* ListDone: by then its lines are those of the registry as it is.         *)
LEMMA SameCommands ==
  /\ Registry!NewDevices = NewDevices
  /\ Registry!NoReply = NoReply /\ Registry!None = None
  /\ Registry!DeviceResources = DeviceResources
  /\ \A code, body : Registry!Reply(code, body) = Reply(code, body)
  /\ \A key, d, words : Registry!DeviceCommand(key, d, words) = DeviceCommand(key, d, words)
  /\ \A devs : Registry!Listing(devs) = Listing(devs)
<1> USE DEF Registry!Reply, Reply
<1>1. Registry!NewDevices = NewDevices
  BY DEF Registry!NewDevices, NewDevices, Registry!NewLight, NewLight,
         Registry!NewThermostat, NewThermostat, Registry!NewCamera, NewCamera
<1>2. Registry!NoReply = NoReply /\ Registry!None = None /\ Registry!DeviceResources = DeviceResources
  BY DEF Registry!NoReply, NoReply, Registry!None, None, Registry!DeviceResources, DeviceResources
<1>3. \A key, d, words : Registry!DeviceCommand(key, d, words) = DeviceCommand(key, d, words)
  BY DEF Registry!DeviceCommand, DeviceCommand, Registry!LightCommand, LightCommand,
         Registry!ThermostatCommand, ThermostatCommand, Registry!SecurityCommand, SecurityCommand,
         Registry!Result, Result, Registry!TurnOn, TurnOn, Registry!TurnOff, TurnOff,
         Registry!SetBrightness, SetBrightness, Registry!ClampLevel, ClampLevel,
         Registry!SetTargetTemperature, SetTargetTemperature, Registry!ClampTemp, ClampTemp,
         Registry!Less, Less, Registry!Arm, Arm, Registry!Disarm, Disarm
<1>4. \A devs : Registry!Listing(devs) = Listing(devs)
  BY DEF Registry!Listing, Listing, Registry!DeviceKeys, DeviceKeys, Registry!Listed, Listed
<1> QED  BY <1>1, <1>2, <1>3, <1>4

LEMMA RegistryInit == Init => Registry!Init
  BY SameCommands DEF Init, Registry!Init, Stage

LEMMA RepliesAreReplies ==
  ASSUME NEW key \in DeviceResources, NEW d, NEW words
  PROVE  LET r == DeviceCommand(key, d, words).reply IN r = Reply(r.code, r.body)
<1>1. LET r == LightCommand(d, words).reply IN r = Reply(r.code, r.body)
  BY DEF LightCommand, Result, Reply
<1>2. LET r == ThermostatCommand(d, words).reply IN r = Reply(r.code, r.body)
  BY DEF ThermostatCommand, Result, Reply
<1>3. LET r == SecurityCommand(d, words).reply IN r = Reply(r.code, r.body)
  BY DEF SecurityCommand, Result, Reply
<1> QED  BY <1>1, <1>2, <1>3, Zenon DEF DeviceCommand, DeviceResources

Stages == [u \in Threads |-> Stage(u)]

LEMMA StageStep ==
  ASSUME Shape, NEW t \in Threads, NEW place, Goto(t, place), pc'[t] = place
  PROVE  /\ place = "idle" => Stages' = [Stages EXCEPT ![t] = "idle"]
         /\ place \in {"dispatch", "device", "list"} => Stages' = [Stages EXCEPT ![t] = "called"]
         /\ place \in {"unlock", "return"} => Stages' = [Stages EXCEPT ![t] = "answered"]
  BY DEF Shape, Goto, Stages, Stage

LEMMA WholeList ==
  ASSUME IInv, NEW t \in Threads, Len(lines[t]) = Len(DeviceKeys)
  PROVE  lines[t] = Listing(devices_)
<1>1. lines[t] \in Seq(Shown)  BY DEF IInv, LinesInv
<1>2. lines[t] = [i \in 1..4 |-> lines[t][i]]  BY <1>1, FourKeys
<1>3. \A i \in 1..4 : lines[t][i] = Listed(devices_[DeviceKeys[i]])
  BY <1>1, FourKeys DEF IInv, ListIsSnapshot
<1> QED  BY <1>2, <1>3, FourKeys DEF Listing

LEMMA RegistryStep ==
  ASSUME IInv, NEW t \in Threads, Step(t) PROVE [Registry!Next]_(Registry!vars)
<1>0. Shape  BY DEF IInv
<1>2. ASSUME UNCHANGED <<devices_, request, reply>>, Stages' = Stages
      PROVE  [Registry!Next]_(Registry!vars)
  BY <1>2 DEF Registry!vars, Stages
<1>3. CASE Receive(t)
  <2>1. Stages' = [Stages EXCEPT ![t] = "called"]  BY <1>0, <1>3, StageStep DEF Receive, Goto, Shape
  <2>2. Stages[t] = "idle"  BY <1>3 DEF Receive, Stages, Stage
  <2>3. Registry!Call(t)  BY <1>3, <2>1, <2>2 DEF Receive, Registry!Call, Stages
  <2> QED  BY <2>3 DEF Registry!Next
<1>4. ASSUME Registry!Execute(t) PROVE [Registry!Next]_(Registry!vars)
  BY <1>4 DEF Registry!Next
<1>5. CASE Usage(t) \/ PingOrArp(t) \/ Unknown(t)
  <2>1. Stages' = [Stages EXCEPT ![t] = "answered"]
    BY <1>0, <1>5, StageStep DEF Usage, PingOrArp, Unknown, Goto, Shape
  <2>2. Stages[t] = "called"  BY <1>5 DEF Usage, PingOrArp, Unknown, Stages, Stage
  <2>3. CASE Usage(t) \/ PingOrArp(t)
    <3>1. Registry!Tool(t)
      BY <2>1, <2>3, SameCommands DEF Usage, PingOrArp, Answer, Registry!Tool, Registry!Answer, Stages
    <3> QED  BY <1>4, <2>2, <3>1 DEF Registry!Execute, Stages
  <2>4. CASE Unknown(t)
    <3>1. Registry!NotFound(t)
      BY <2>1, <2>4, SameCommands DEF Unknown, Answer, Resource, Registry!NotFound,
                                      Registry!Answer, Stages
    <3> QED  BY <1>4, <2>2, <3>1 DEF Registry!Execute, Stages
  <2> QED  BY <1>5, <2>3, <2>4
<1>6. CASE Terminate(t)
  BY <1>2, <1>6 DEF Terminate, Stages, Stage
<1>7. CASE Lock(t)
  BY <1>0, <1>2, <1>7 DEF Lock, Goto, Stages, Stage, Shape
<1>8. CASE Handle(t)
  <2> DEFINE key == Resource(t)
             res == DeviceCommand(key, devices_[key], request[t].words)
  <2>1. /\ pc[t] = "device" /\ devices_' = [devices_ EXCEPT ![key] = res.device]
        /\ reply' = [reply EXCEPT ![t] = res.reply] /\ request' = request
        /\ Goto(t, "unlock")
    BY <1>8 DEF Handle, Answer
  <2>2. Stages' = [Stages EXCEPT ![t] = "answered"] /\ Stages[t] = "called"
    BY <1>0, <2>1, StageStep DEF Goto, Shape, Stages, Stage
  <2>3. /\ request[t].verb = "GET" /\ key \in DeviceResources
        /\ request[t].words # <<>> /\ key = request[t].words[1]
    BY <2>1 DEF IInv, RequestInv, Resource, DeviceResources
  <2>4. res.reply = Reply(res.reply.code, res.reply.body)
    BY <2>3, RepliesAreReplies, Zenon
  <2>5. Registry!Device(t)
    <3>1. /\ Registry!DeviceCommand(key, devices_[key], request[t].words) = res
          /\ Registry!Reply(res.reply.code, res.reply.body) = res.reply
          /\ key \in Registry!DeviceResources
      BY <2>3, <2>4, SameCommands, Zenon
    <3> HIDE DEF key, res
    <3> QED  BY <2>1, <2>2, <2>3, <3>1, Zenon DEF Registry!Device, Registry!Answer, Stages
  <2> QED  BY <1>4, <2>2, <2>5 DEF Registry!Execute, Stages
<1>9. CASE ListDevice(t)
  BY <1>2, <1>9 DEF ListDevice, Stages, Stage
<1>10. CASE ListDone(t)
  <2>1. /\ pc[t] = "list" /\ Len(lines[t]) = Len(DeviceKeys) /\ devices_' = devices_
        /\ reply' = [reply EXCEPT ![t] = Reply(200, <<"list", lines[t]>>)] /\ request' = request
        /\ Goto(t, "unlock")
    BY <1>10 DEF ListDone, Answer
  <2>2. Stages' = [Stages EXCEPT ![t] = "answered"] /\ Stages[t] = "called"
    BY <1>0, <2>1, StageStep DEF Goto, Shape, Stages, Stage
  <2>3. /\ request[t].verb = "GET" /\ request[t].words # <<>>
        /\ request[t].words[1] = "devices"
    BY <2>1 DEF IInv, RequestInv, Resource
  <2>4. lines[t] = Listing(devices_)  BY <2>1, WholeList
  <2>5. Registry!Reply(200, <<"list", Registry!Listing(devices_)>>)
          = Reply(200, <<"list", lines[t]>>)
    BY <2>4, SameCommands, Zenon
  <2>6. Registry!List(t)
    BY <2>1, <2>2, <2>3, <2>5, Zenon DEF Registry!List, Registry!Answer, Stages
  <2> QED  BY <1>4, <2>2, <2>6 DEF Registry!Execute, Stages
<1>11. CASE Unlock(t)
  BY <1>0, <1>2, <1>11 DEF Unlock, Goto, Stages, Stage, Shape
<1>12. CASE Return(t)
  <2>1. Stages' = [Stages EXCEPT ![t] = "idle"]  BY <1>0, <1>12, StageStep DEF Return, Goto, Shape
  <2>2. Stages[t] = "answered"  BY <1>12 DEF Return, Stages, Stage
  <2>3. Registry!Return(t)  BY <1>12, <2>1, <2>2, SameCommands DEF Return, Answer, Registry!Return, Stages
  <2> QED  BY <2>3 DEF Registry!Next
<1> QED  BY <1>3, <1>5, <1>6, <1>7, <1>8, <1>9, <1>10, <1>11, <1>12 DEF Step

(* Commands that run at the same time take effect one by one.              *)
THEOREM CommandsAreAtomic == Spec => ImplementsRegistry
<1>1. IInv /\ [Next]_vars => [Registry!Next]_(Registry!vars)
  <2> SUFFICES ASSUME IInv, [Next]_vars PROVE [Registry!Next]_(Registry!vars)
    OBVIOUS
  <2>1. CASE UNCHANGED vars  BY <2>1 DEF vars, Registry!vars, Stage
  <2> QED  BY <2>1, RegistryStep DEF Next
<1> QED  BY <1>1, RegistryInit, Invariance, PTL DEF Spec, ImplementsRegistry, Registry!Spec
-----------------------------------------------------------------------------
(* What each device can become, whatever it is asked.                      *)
Lights      == [type : {"Light"}, power : BOOLEAN, brightness : 0..100, color : {"white"}]
Thermostats == [type : {"Thermostat"}, power : BOOLEAN, target : 10..35, mode : {"AUTO"}]
Cameras     == {c \in [type : {"SecurityCamera"}, power : BOOLEAN, armed : BOOLEAN,
                       motion : BOOLEAN, alert : BOOLEAN] : c.armed => c.power}

(* std::stod made a number of every word it accepted.                      *)
NumbersOnly == \A word \in DOMAIN Stod : Stod[word] \in Int

LEMMA Clamped ==
  /\ \A level \in Int : ClampLevel(level) \in 0..100
  /\ \A temp \in Int : ClampTemp(temp) \in 10..35
  BY NumbersAssumption DEF ClampLevel, ClampTemp, Less

LEMMA LightStaysLight ==
  ASSUME NEW d \in Lights, NEW words PROVE LightCommand(d, words).device \in Lights
<1>1. TurnOn(d) \in Lights /\ TurnOff(d) \in Lights  BY DEF Lights, TurnOn, TurnOff
<1>2. ASSUME NEW level \in Int PROVE SetBrightness(d, level) \in Lights
  <2>1. ClampLevel(level) \in 0..100  BY Clamped
  <2> QED  BY <2>1 DEF Lights, SetBrightness
<1>3. \A word \in DOMAIN Stoi : SetBrightness(d, Stoi[word]) \in Lights
  BY <1>2, NumbersAssumption
<1> HIDE DEF Lights
<1> QED  BY <1>1, <1>3 DEF LightCommand, Result

LEMMA ThermostatStaysThermostat ==
  ASSUME NumbersOnly, NEW d \in Thermostats, NEW words
  PROVE  ThermostatCommand(d, words).device \in Thermostats
<1>1. ASSUME NEW temp \in Int PROVE SetTargetTemperature(d, temp) \in Thermostats
  <2>1. ClampTemp(temp) \in 10..35  BY Clamped
  <2> QED  BY <2>1 DEF Thermostats, SetTargetTemperature
<1>2. \A word \in DOMAIN Stod : SetTargetTemperature(d, Stod[word]) \in Thermostats
  BY <1>1 DEF NumbersOnly
<1> QED  BY <1>2 DEF ThermostatCommand, Result

LEMMA CameraStaysCamera ==
  ASSUME NEW d \in Cameras, NEW words PROVE SecurityCommand(d, words).device \in Cameras
<1>1. Arm(d) \in Cameras /\ Disarm(d) \in Cameras  BY DEF Cameras, Arm, Disarm
<1> QED  BY <1>1 DEF SecurityCommand, Result

DevicesInv == /\ DOMAIN devices_ = Keys
              /\ devices_["light"] \in Lights
              /\ devices_["security"] \in Cameras
              /\ NumbersOnly => devices_["thermostat"] \in Thermostats

LEMMA InitDevices == Init => DevicesInv
<1> SUFFICES ASSUME Init PROVE DevicesInv
  OBVIOUS
<1>1. Keys = {"light", "light2", "security", "thermostat"}
  BY FourKeys DEF Keys, DeviceKeys
<1>2. devices_ = [light |-> NewLight, light2 |-> NewLight,
                  security |-> NewCamera, thermostat |-> NewThermostat]
  BY DEF Init, NewDevices
<1>3. NewLight \in Lights /\ NewThermostat \in Thermostats /\ NewCamera \in Cameras
  BY DEF NewLight, Lights, NewThermostat, Thermostats, NewCamera, Cameras
<1> QED  BY <1>1, <1>2, <1>3 DEF DevicesInv

(* Only Handle changes a device, and only the one its request names.       *)
LEMMA DevicesStep ==
  ASSUME IInv, DevicesInv, NEW t \in Threads, Step(t) PROVE DevicesInv'
<1>1. CASE UNCHANGED devices_  BY <1>1 DEF DevicesInv
<1>2. CASE Handle(t)
  <2> DEFINE key == Resource(t)
             words == request[t].words
             new == DeviceCommand(key, devices_[key], words).device
  <2>1. pc[t] = "device" /\ devices_' = [devices_ EXCEPT ![key] = new]
    BY <1>2 DEF Handle
  <2>2. key \in DeviceResources  BY <2>1 DEF IInv, RequestInv
  <2>3. key \in Keys  BY <2>2, FourKeys DEF DeviceResources, Keys, DeviceKeys
  <2>4. key = "light" => new = LightCommand(devices_["light"], words).device
    BY DEF DeviceCommand
  <2>5. key = "thermostat" => new = ThermostatCommand(devices_["thermostat"], words).device
    BY DEF DeviceCommand
  <2>6. key = "security" => new = SecurityCommand(devices_["security"], words).device
    BY DEF DeviceCommand
  <2>7. key = "light" => new \in Lights
    BY <2>4, LightStaysLight DEF DevicesInv
  <2>8. key = "thermostat" /\ NumbersOnly => new \in Thermostats
    BY <2>5, ThermostatStaysThermostat DEF DevicesInv
  <2>9. key = "security" => new \in Cameras
    BY <2>6, CameraStaysCamera DEF DevicesInv
  <2> HIDE DEF key, new
  <2>10. /\ DOMAIN devices_' = Keys /\ devices_'[key] = new
         /\ \A k \in Keys \ {key} : devices_'[k] = devices_[k]
    BY <2>1, <2>3 DEF DevicesInv
  <2>11. {"light", "security", "thermostat"} \subseteq Keys
    BY FourKeys DEF Keys, DeviceKeys
  <2> QED  BY <2>7, <2>8, <2>9, <2>10, <2>11, Zenon DEF DevicesInv
<1> QED  BY <1>1, <1>2 DEF Step, Receive, Usage, PingOrArp, Terminate, Unknown, Lock,
                           ListDevice, ListDone, Unlock, Return

LEMMA DevicesInvariant == Spec => []DevicesInv
<1>1. IInv /\ DevicesInv /\ [Next]_vars => DevicesInv'
  <2>1. UNCHANGED vars => (DevicesInv => DevicesInv')  BY DEF vars, DevicesInv
  <2> QED  BY <2>1, DevicesStep DEF Next
<1> QED  BY <1>1, InitDevices, Invariance, PTL DEF Spec

(* After any sequence of commands of any threads an armed camera has power. *)
THEOREM ArmedCameraPowered == Spec => []ArmedIsOn
<1>1. DevicesInv => ArmedIsOn  BY DEF DevicesInv, Cameras, ArmedIsOn
<1> QED  BY <1>1, DevicesInvariant, PTL

(* The brightness stays within 0 and 100 whatever level is asked for.      *)
THEOREM BrightnessHeld == Spec => []BrightnessInRange
<1>1. DevicesInv => BrightnessInRange  BY DEF DevicesInv, Lights, BrightnessInRange
<1> QED  BY <1>1, DevicesInvariant, PTL

(* The target stays within 10 and 35 as long as std::stod makes numbers;   *)
(* NaN is what breaks it.                                                  *)
THEOREM TemperatureHeld == ASSUME NumbersOnly PROVE Spec => []TemperatureInRange
<1>1. DevicesInv => TemperatureInRange  BY DEF DevicesInv, Thermostats, TemperatureInRange
<1> QED  BY <1>1, DevicesInvariant, PTL
-----------------------------------------------------------------------------
(* The types of the state: no command adds a device or loses one.          *)
TypesInv == /\ devicesMutex_ \in Threads \cup {Free}
            /\ request \in [Threads -> Requests \cup {None}]
            /\ DOMAIN reply = Threads
            /\ alive \in BOOLEAN

LEMMA TypesStep ==
  ASSUME Shape, TypesInv, NEW t \in Threads, Step(t) PROVE TypesInv'
<1> USE DEF TypesInv
<1>1. CASE Receive(t)  BY <1>1 DEF Receive
<1>2. CASE Usage(t) \/ PingOrArp(t) \/ Unknown(t) \/ Handle(t) \/ ListDone(t)
  BY <1>2 DEF Usage, PingOrArp, Unknown, Handle, ListDone, Answer
<1>3. CASE Terminate(t) \/ ListDevice(t)  BY <1>3 DEF Terminate, ListDevice
<1>4. CASE Lock(t) \/ Unlock(t)  BY <1>4 DEF Lock, Unlock
<1>5. CASE Return(t)  BY <1>5 DEF Return
<1> QED  BY <1>1, <1>2, <1>3, <1>4, <1>5 DEF Step

THEOREM CommandTypes == Spec => []TypeOK
<1>1. Init => TypesInv  BY DEF Init, TypesInv
<1>2. IInv /\ TypesInv /\ [Next]_vars => TypesInv'
  <2>1. UNCHANGED vars => (TypesInv => TypesInv')  BY DEF vars, TypesInv
  <2> QED  BY <2>1, TypesStep DEF Next, IInv
<1>3. IInv /\ TypesInv /\ DevicesInv => TypeOK
  BY DEF IInv, Shape, LinesInv, TypesInv, DevicesInv, TypeOK, Keys
<1> QED  BY <1>1, <1>2, <1>3, Invariance, DevicesInvariant, PTL DEF Spec
=============================================================================
