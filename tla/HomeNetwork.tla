---------------------------- MODULE HomeNetwork ----------------------------
(***************************************************************************)
(* The network objects of a Server: initializeNetwork, which fills the     *)
(* subnet manager and the routing table from one plan, and what the PING   *)
(* and ARP commands then say of an address.  Other callers use both        *)
(* classes meanwhile, as the tests do.                                     *)
(***************************************************************************)
EXTENDS SubnetManager, RoutingTable

CONSTANTS PlanOrder,     \* the names of the plan in the order it lists them
          HomeGateway,   \* [gateway, interface_] of setDefaultGateway
          HomeBase       \* the network and prefix length a ping can reach

\* The plan keeps its subnets apart and inside the network a ping can reach.
ASSUME HomeAssumption ==
    /\ PlanOrder \in Seq(Names) /\ Names = {PlanOrder[i] : i \in DOMAIN PlanOrder}
    /\ "Unknown" \notin Names
    /\ \A s \in Names : Configs[s].cidr \in 0..32
    /\ \A ip \in Queries : \A s, t \in Names :
         /\ isInSubnet(ip, Configs[s].networkAddress, Configs[s].cidr)
         /\ isInSubnet(ip, Configs[t].networkAddress, Configs[t].cidr)
         => s = t /\ isInSubnet(ip, HomeBase.network, HomeBase.cidr)

VARIABLE altered         \* somebody else changed the routes (history)

homeVars == <<vars, routingVars, altered>>

HomeInit == Init /\ RoutingInit /\ altered = FALSE

\* MUTANT: every route is added with the prefix length of the whole house.
WideRoute(s) == Route([destination |-> Configs[s].networkAddress, cidr |-> HomeBase.cidr,
                       gateway |-> Configs[s].gateway, interface_ |-> s, metric |-> 1])

PlanRoute(s) == Route([destination |-> Configs[s].networkAddress, cidr |-> Configs[s].cidr,
                       gateway |-> Configs[s].gateway, interface_ |-> s, metric |-> 1])

\* Run by one thread before there are others.  A second call adds every route again.
InitializeNetwork ==
    /\ InitializeSubnets
    /\ next = 0
    /\ Len(routes_) + Len(PlanOrder) <= MaxRoutes
    /\ routes_' = routes_ \o [i \in DOMAIN PlanOrder |-> PlanRoute(PlanOrder[i])]
    /\ removed' = removed \ {Prefix(PlanRoute(s)) : s \in Names}
    /\ defaultRoute_' = [defaultRoute_ EXCEPT !.gateway = HomeGateway.gateway,
                                              !.interface_ = HomeGateway.interface_]
    /\ UNCHANGED <<lookupVars, altered>>

HomeNext == \/ InitializeNetwork
            \/ next = 0 /\ UseSubnets /\ UNCHANGED <<routingVars, altered>>
            \/ LookupRoute /\ UNCHANGED <<vars, altered>>
            \/ ChangeRoutes /\ altered' = TRUE /\ UNCHANGED vars

HomeSpec == HomeInit /\ [][HomeNext]_homeVars
-----------------------------------------------------------------------------
\* ICMPHandler::ping: the packets answered, given the latency of each.
received(ip, latencies, timeoutMs) ==
    {i \in DOMAIN latencies : /\ isInSubnet(ip, HomeBase.network, HomeBase.cidr)
                              /\ latencies[i] < timeoutMs}

(* PING and ARP tell one story of an address, however often the network   *)
(* was initialised: the interface PING routes by is the subnet ARP names,  *)
(* and every packet to such an address is answered; an address in no       *)
(* subnet goes by the default route.                                       *)
PingAgreesWithArp ==
    LookupDone /\ subnets_ # {} /\ ~altered =>
        IF findSubnet(destIP) = "Unknown"
        THEN bestMatch.interface_ = HomeGateway.interface_
        ELSE /\ bestMatch.interface_ = findSubnet(destIP)
             /\ received(destIP, <<1, 50>>, 1000) = {1, 2}
=============================================================================
