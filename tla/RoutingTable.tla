---------------------------- MODULE RoutingTable ----------------------------
(***************************************************************************)
(* src/network/RoutingTable.cpp.  Every method is one critical section     *)
(* under tableMutex_; lookupRoute examines one route per step inside its   *)
(* own.  One lookup at most is inside, and whoever waits for the mutex has *)
(* no state yet, so any number of threads is covered.  The names leave     *)
(* room for the module that composes the table with others.                *)
(***************************************************************************)
EXTENDS NetworkConfig, Integers

CONSTANTS Candidates,  \* [destination, cidr, gateway, interface_, metric]: addRoute's arguments
          Gateways,    \* [gateway, interface_]: setDefaultGateway's arguments
          Queries,     \* the destinations asked for
          MaxRoutes    \* bound: the routes in the table

ASSUME RoutingAssumption == /\ \A r \in Candidates : r.cidr \in 0..32
                            /\ MaxRoutes \in Nat

VARIABLES routes_,        \* in the order they were added
          defaultRoute_,
          next,           \* the route a lookup examines next; 0: no lookup is inside
          destIP, bestMatch, longestPrefix,  \* lookupRoute's locals
          removed         \* [destination, cidr] removed and not added since (history)

lookupVars  == <<next, destIP, bestMatch, longestPrefix>>
routingVars == <<routes_, defaultRoute_, lookupVars, removed>>

NoIP    == <<0, 0, 0, 0>>
NoRoute == [destination |-> NoIP, cidr |-> 0, subnetMask |-> NoIP, gateway |-> NoIP,
            interface_ |-> "default", metric |-> 0]

RoutingInit == /\ routes_ = <<>>
               /\ defaultRoute_ = NoRoute
               /\ next = 0
               /\ destIP = NoIP /\ bestMatch = NoRoute /\ longestPrefix = -1
               /\ removed = {}

Route(r) == [destination |-> r.destination, cidr |-> r.cidr, subnetMask |-> cidrToMask(r.cidr),
             gateway |-> r.gateway, interface_ |-> r.interface_, metric |-> r.metric]
Prefix(r) == [destination |-> r.destination, cidr |-> r.cidr]

\* No check for a route to the same network: the table may hold several.
AddRoute(r) == /\ next = 0
               /\ Len(routes_) < MaxRoutes
               /\ routes_' = Append(routes_, Route(r))
               /\ removed' = removed \ {Prefix(r)}
               /\ UNCHANGED <<defaultRoute_, lookupVars>>

Others(p) == {i \in DOMAIN routes_ : Prefix(routes_[i]) # p}

\* MUTANT: erase without an end: one copy goes, the others stay.
EraseOne(p) == /\ next = 0
               /\ \E i \in DOMAIN routes_ \ Others(p) :
                    routes_' = SubSeq(routes_, 1, i - 1) \o SubSeq(routes_, i + 1, Len(routes_))
               /\ removed' = removed \cup {p}
               /\ UNCHANGED <<defaultRoute_, lookupVars>>

\* MUTANT: without the mutex.
EraseUnlocked(p) == /\ routes_' \in Kept(routes_, Others(p))
                    /\ removed' = removed \cup {p}
                    /\ UNCHANGED <<defaultRoute_, lookupVars>>

\* Every copy goes, the others keep their order.
RemoveRoute(p) == /\ next = 0
                  /\ routes_' \in Kept(routes_, Others(p))
                  /\ removed' = removed \cup {p}
                  /\ UNCHANGED <<defaultRoute_, lookupVars>>

SetDefaultGateway(g) == /\ next = 0
                        /\ defaultRoute_' = [defaultRoute_ EXCEPT !.gateway = g.gateway,
                                                                  !.interface_ = g.interface_]
                        /\ UNCHANGED <<routes_, lookupVars, removed>>
-----------------------------------------------------------------------------
(* lookupRoute.                                                            *)

BeginLookup(ip) == /\ next = 0
                   /\ next' = 1
                   /\ destIP' = ip
                   /\ bestMatch' = defaultRoute_
                   /\ longestPrefix' = -1
                   /\ UNCHANGED <<routes_, defaultRoute_, removed>>

Covers(route, ip) == isInSubnet(ip, route.destination, route.cidr)

\* MUTANT: of two equal prefixes the later wins.
LastWins == /\ next \in DOMAIN routes_
            /\ next' = next + 1
            /\ IF Covers(routes_[next], destIP) /\ routes_[next].cidr >= longestPrefix
               THEN bestMatch' = routes_[next] /\ longestPrefix' = routes_[next].cidr
               ELSE UNCHANGED <<bestMatch, longestPrefix>>
            /\ UNCHANGED <<routes_, defaultRoute_, destIP, removed>>

Examine == /\ next \in DOMAIN routes_
           /\ next' = next + 1
           /\ IF Covers(routes_[next], destIP) /\ routes_[next].cidr > longestPrefix
              THEN bestMatch' = routes_[next] /\ longestPrefix' = routes_[next].cidr
              ELSE UNCHANGED <<bestMatch, longestPrefix>>
           /\ UNCHANGED <<routes_, defaultRoute_, destIP, removed>>

LookupDone == next > Len(routes_)

EndLookup == /\ LookupDone
             /\ next' = 0
             /\ destIP' = NoIP /\ bestMatch' = NoRoute /\ longestPrefix' = -1
             /\ UNCHANGED <<routes_, defaultRoute_, removed>>

ChangeRoutes == \/ \E r \in Candidates : AddRoute(r) \/ RemoveRoute(Prefix(r))
                \/ \E g \in Gateways : SetDefaultGateway(g)
LookupRoute  == (\E ip \in Queries : BeginLookup(ip)) \/ Examine \/ EndLookup

RoutingNext == ChangeRoutes \/ LookupRoute

RoutingSpec == RoutingInit /\ [][RoutingNext]_routingVars
-----------------------------------------------------------------------------
(* What a lookup returns, whatever was added and removed before: of the    *)
(* routes that cover the address one with the longest prefix, of those     *)
(* the one added first, whatever its metric; the default if none does.     *)
LookupIsLongest ==
    LookupDone =>
        LET Covering == {i \in DOMAIN routes_ : Covers(routes_[i], destIP)}
        IN IF Covering = {} THEN bestMatch = defaultRoute_
           ELSE \E i \in Covering :
                  /\ bestMatch = routes_[i]
                  /\ \A j \in Covering \ {i} :
                       \/ routes_[j].cidr < routes_[i].cidr
                       \/ routes_[j].cidr = routes_[i].cidr /\ i < j

(* A removed route stays away however often it had been added: no lookup   *)
(* returns it before it is added again.                                    *)
RemovedStaysAway == LookupDone /\ bestMatch # defaultRoute_ => Prefix(bestMatch) \notin removed
=============================================================================
