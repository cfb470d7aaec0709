------------------------------ MODULE Devices ------------------------------
(***************************************************************************)
(* src/devices: what each method does to a device.  Every method holds     *)
(* deviceMutex_ from its first line to its last and calls nothing that     *)
(* could block, so each is one function from device to device.  Names,     *)
(* addresses and the subnet never change after construction: left out.     *)
(***************************************************************************)
EXTENDS Integers, Sequences

CONSTANT NaN   \* the double that is no number

\* Comparison of doubles; temperatures are whole degrees or NaN.
Less(x, y) == x # NaN /\ y # NaN /\ x < y

NewLight      == [type |-> "Light", power |-> FALSE, brightness |-> 100, color |-> "white"]
NewThermostat == [type |-> "Thermostat", power |-> FALSE, target |-> 22, mode |-> "AUTO"]
NewCamera     == [type |-> "SecurityCamera", power |-> FALSE,
                  armed |-> FALSE, motion |-> FALSE, alert |-> FALSE]

TurnOn(d)  == [d EXCEPT !.power = TRUE]
TurnOff(d) == [d EXCEPT !.power = FALSE]

\* MUTANT: only the upper bound is checked.
ClampBelow(level) == IF level > 100 THEN 100 ELSE level

ClampLevel(level) == IF level < 0 THEN 0 ELSE IF level > 100 THEN 100 ELSE level
SetBrightness(d, level) == [d EXCEPT !.brightness = ClampLevel(level)]

\* MUTANT: only the lower bound is checked.
ClampAbove(temp) == IF Less(temp, 10) THEN 10 ELSE temp

ClampTemp(temp) == IF Less(temp, 10) THEN 10 ELSE IF Less(35, temp) THEN 35 ELSE temp
SetTargetTemperature(d, temp) == [d EXCEPT !.target = ClampTemp(temp)]

\* MUTANT: arming leaves the power as it is.
ArmOnly(d) == [d EXCEPT !.armed = TRUE]

Arm(d)    == [d EXCEPT !.armed = TRUE, !.power = TRUE]
Disarm(d) == [d EXCEPT !.armed = FALSE, !.motion = FALSE]
-----------------------------------------------------------------------------
(* The commands of src/server/Server.cpp on one device.  A request names   *)
(* words: the segments of its path, or what follows PING or ARP.           *)

CONSTANTS Stoi,   \* the integer std::stoi makes of a word, for those it accepts
          Stod    \* the double std::stod makes of a word, for those it accepts

\* A body is a sequence: what the text is about, then its data.
Reply(code, body) == [code |-> code, body |-> body]
NoReply == Reply(0, <<>>)
Result(d, reply) == [device |-> d, reply |-> reply]

LightCommand(d, words) ==
    CASE Len(words) < 2 -> Result(d, Reply(404, <<"usage">>))
      [] words[2] = "status" -> Result(d, Reply(200, <<"status", d>>))
      [] words[2] = "on"     -> Result(TurnOn(d), Reply(200, <<"on">>))
      [] words[2] = "off"    -> Result(TurnOff(d), Reply(200, <<"off">>))
      [] words[2] = "brightness" /\ Len(words) >= 3 ->
           IF words[3] \in DOMAIN Stoi
           THEN Result(SetBrightness(d, Stoi[words[3]]),
                       Reply(200, <<"brightness", Stoi[words[3]]>>))
           ELSE Result(d, Reply(500, <<"invalid">>))
      [] OTHER -> Result(d, Reply(404, <<"unknown">>))

ThermostatCommand(d, words) ==
    CASE Len(words) < 2 -> Result(d, Reply(404, <<"usage">>))
      [] words[2] = "status" -> Result(d, Reply(200, <<"status", d>>))
      [] words[2] = "set" /\ Len(words) >= 3 ->
           IF words[3] \in DOMAIN Stod
           THEN Result(SetTargetTemperature(d, Stod[words[3]]),
                       Reply(200, <<"temperature", words[3]>>))
           ELSE Result(d, Reply(500, <<"invalid">>))
      [] OTHER -> Result(d, Reply(404, <<"unknown">>))

SecurityCommand(d, words) ==
    CASE Len(words) < 2 -> Result(d, Reply(404, <<"usage">>))
      [] words[2] = "status" -> Result(d, Reply(200, <<"status", d>>))
      [] words[2] = "arm"    -> Result(Arm(d), Reply(200, <<"armed">>))
      [] words[2] = "disarm" -> Result(Disarm(d), Reply(200, <<"disarmed">>))
      [] OTHER -> Result(d, Reply(404, <<"unknown">>))

\* The registry after initializeDevices, and the order std::map iterates it in.
DeviceKeys == <<"light", "light2", "security", "thermostat">>
NewDevices == [light |-> NewLight, light2 |-> NewLight,
               security |-> NewCamera, thermostat |-> NewThermostat]

\* The resources a path can name; light2 is not one of them.
DeviceResources == {"light", "thermostat", "security"}
DeviceCommand(key, d, words) ==
    CASE key = "light"      -> LightCommand(d, words)
      [] key = "thermostat" -> ThermostatCommand(d, words)
      [] key = "security"   -> SecurityCommand(d, words)

\* What handleDeviceListCommand writes of a device that can change.
Listed(d) == <<d.type, d.power>>
Listing(devices) == [i \in DOMAIN DeviceKeys |-> Listed(devices[DeviceKeys[i]])]
=============================================================================
