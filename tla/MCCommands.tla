----------------------------- MODULE MCCommands -----------------------------
(* Small instances of Commands for TLC. *)
EXTENDS Commands, HttpProtocol

\* A path as the client sends it, and the one line of a tool as the tests send it.
Sent(typed) == buildRequest(<<"GET">>, typed, <<>>)
Get(path)   == Received(Sent(<<<<"">> \o path>>))
Tool(v, w)  == Received(<<IF w = <<>> THEN <<<<v>>>> ELSE <<<<v>>, w>>>>)

\* A word below, within and above each range; "junk" is no number.
MCStoi == [low |-> -5, mid |-> 50, high |-> 150]
MCStod == [low |-> -5, mid |-> 22, high |-> 150]
StodWithNaN == [low |-> -5, mid |-> 25, nan |-> NaN]

\* Every branch of every handler of devices.
DeviceRequests ==
    {Get(<<resource>>) : resource \in {"light", "thermostat", "security", "devices"}}
    \cup {Get(<<resource, a>>) : resource \in {"light", "thermostat", "security"},
                                a \in {"status", "dance"}}
    \cup {Get(<<"light", a>>) : a \in {"on", "off", "brightness"}}
    \cup {Get(<<"light", "brightness", v>>) : v \in {"low", "mid", "high", "junk"}}
    \cup {Get(<<"thermostat", "set">>)}
    \cup {Get(<<"thermostat", "set", v>>) : v \in {"low", "mid", "high", "junk"}}
    \cup {Get(<<"security", a>>) : a \in {"arm", "disarm"}}

\* What is answered without the registry, or refused; an address that throws.
OtherRequests == {Get(<<>>), Get(<<"light2", "on">>), Tool("PING", <<>>),
                  Tool("PING", <<"ip">>), Tool("ARP", <<"bad">>)}
AllRequests == DeviceRequests \cup OtherRequests

\* The commands of a thermostat given something std::stod calls a number.
ThermostatRequests == {Get(<<"thermostat", "set", v>>) : v \in {"low", "mid", "nan"}}
ToolRequests == {Tool("PING", <<"ip">>), Tool("PING", <<"bad">>), Get(<<"devices">>)}
-----------------------------------------------------------------------------
\* parseRequest finds again what buildRequest was given.
Paths  == {<<"">>, <<"", "light", "on">>, <<"light", "", "on">>, <<"PING">>}
Bodies == {<<>>, <<<<<<"brightness">>>>>>, <<<<>>, <<<<"a">>, Colon, <<"b">>>>>>}
ASSUME RequestsRoundTrip ==
    \A method \in {<<"GET">>, <<"POST">>}, path \in Paths, body \in Bodies :
        LET req == parseRequest(buildRequest(method, <<path>>, body))
        IN /\ req.method = method /\ req.path = path /\ req.version = Version /\ req.body = body
           /\ req.headers[<<<<"Host">>>>] = <<<<"SmartHome">>>>
           /\ <<<<"Content-Length">>>> \in DOMAIN req.headers <=> body # <<>>

\* A request line may end early.
ASSUME ShortRequests ==
    /\ parseRequest(<<>>).method = NoWord /\ parseRequest(<<>>).version = Version
    /\ Received(<<>>) = Get(<<>>)
    /\ Received(<<<<<<"GET">>, <<"", "light">>>>>>) = Get(<<"light">>)

\* A tool is known by its first letters, and its argument is all that follows a blank,
\* if need be in a line further down.
ASSUME ToolsByPrefix ==
    /\ Tool("PINGX", <<"ip">>) = Request("PING", <<"ip">>)
    /\ Tool("PINGX", <<>>) = Request("PING", NoWord)
    /\ Received(<<<<<<"ARP">>, <<"ip">>, <<"more">>>>>>) = Request("ARP", <<"ip", "more">>)
    /\ Received(<<<<<<"ping">>>>, <<<<"Host">>, Colon, <<"ip">>>>>>) = Request("PING", <<"ip">>)

\* Of what the client's help offers, the paths reach their handlers; PING and ARP are
\* sent as the path of a GET, which names no resource.
Help == {<<"light", "status">>, <<"light", "on">>, <<"light", "off">>,
         <<"light", "brightness", "50">>, <<"thermostat", "status">>,
         <<"thermostat", "set", "22">>, <<"security", "status">>, <<"security", "arm">>,
         <<"security", "disarm">>, <<"devices", "list">>}
ASSUME HelpReachesHandlers ==
    /\ \A path \in Help : Get(path) = [verb |-> "GET", words |-> path]
                           /\ path[1] \in DeviceResources \cup {"devices"}
    /\ \A tool \in {"PING", "ARP"} :
         Received(Sent(<<<<tool>>, <<"ip">>>>)) = [verb |-> "GET", words |-> <<tool>>]
=============================================================================
