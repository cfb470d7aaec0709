----------------------------- MODULE HomeProofs -----------------------------
(* PING and ARP agree, for every plan that keeps its subnets apart. *)
EXTENDS HomeNetwork, RoutingProofs, SubnetProofs

PlanKinds == Kinds \cup {PlanRoute(s) : s \in Names}

(* Unless others changed them, the routes are those of the plan, and once  *)
(* the network was initialised none is missing.                            *)
PlanInv == /\ \A i \in DOMAIN routes_ : \E s \in Names :
                routes_[i] = PlanRoute(s) /\ subnets_ = Names
           /\ subnets_ # {} => /\ defaultRoute_.interface_ = HomeGateway.interface_
                               /\ \A s \in Names : \E i \in DOMAIN routes_ :
                                    routes_[i] = PlanRoute(s)

HomeInv == /\ RoutesIn(PlanKinds) /\ LoopInv /\ RemovedInv
           /\ next > 0 => destIP \in Queries
           /\ subnets_ \in {{}, Names}
           /\ "interface_" \in DOMAIN defaultRoute_
           /\ altered = FALSE => PlanInv

LEMMA PlanKindsTyped == \A r \in PlanKinds : r.cidr \in Nat
<1>1. \A s \in Names : PlanRoute(s).cidr = Configs[s].cidr  BY DEF PlanRoute, Route
<1>2. \A s \in Names : Configs[s].cidr \in 0..32  BY HomeAssumption, Zenon
<1>3. \A s \in Names : PlanRoute(s).cidr \in Nat  BY <1>1, <1>2
<1> QED  BY <1>3, KindsTyped DEF PlanKinds

LEMMA PlanRouteCovers ==
  ASSUME NEW ip, NEW s
  PROVE  /\ PlanRoute(s).interface_ = s
         /\ Covers(PlanRoute(s), ip) <=>
              isInSubnet(ip, Configs[s].networkAddress, Configs[s].cidr)
  BY DEF PlanRoute, Route, Covers

LEMMA InitHome == HomeInit => HomeInv
<1> SUFFICES ASSUME HomeInit PROVE HomeInv
  OBVIOUS
<1>1. routes_ = <<>> /\ next = 0 /\ defaultRoute_ = NoRoute /\ subnets_ = {}
  BY DEF HomeInit, RoutingInit, Init
<1>2. <<>> \in Seq(PlanKinds) /\ Len(<<>>) = 0 /\ DOMAIN <<>> = {}  OBVIOUS
<1>3. "interface_" \in DOMAIN defaultRoute_  BY <1>1 DEF NoRoute
<1>4. RoutesIn(PlanKinds)  BY <1>1, <1>2, PlanKindsTyped DEF RoutesIn
<1> QED  BY <1>1, <1>2, <1>3, <1>4 DEF HomeInv, LoopInv, RemovedInv, PlanInv

LEMMA InitializeHome == ASSUME HomeInv, InitializeNetwork PROVE HomeInv'
<1> DEFINE added == [i \in DOMAIN PlanOrder |-> PlanRoute(PlanOrder[i])]
<1>1. /\ next' = 0 /\ routes_' = routes_ \o added /\ subnets_' = Names
      /\ altered' = altered
  BY DEF InitializeNetwork, InitializeSubnets, lookupVars
<1>2. PlanOrder \in Seq(Names) /\ Names = {PlanOrder[i] : i \in DOMAIN PlanOrder}
  BY HomeAssumption
<1>3. /\ added \in Seq(PlanKinds) /\ DOMAIN added = DOMAIN PlanOrder
      /\ \A i \in DOMAIN PlanOrder : added[i] = PlanRoute(PlanOrder[i])
  BY <1>2 DEF PlanKinds
<1>4. routes_ \in Seq(PlanKinds)  BY DEF HomeInv, RoutesIn
<1> HIDE DEF added
<1>5. /\ routes_' \in Seq(PlanKinds) /\ Len(routes_') \in Nat
      /\ \A i \in DOMAIN routes_' : \/ i \in DOMAIN routes_ /\ routes_'[i] = routes_[i]
                                    \/ \E j \in DOMAIN added : routes_'[i] = added[j]
      /\ \A j \in DOMAIN added : \E i \in DOMAIN routes_' : routes_'[i] = added[j]
  <2>1. /\ routes_ \o added \in Seq(PlanKinds)
        /\ Len(routes_ \o added) = Len(routes_) + Len(added)
        /\ Len(routes_) \in Nat /\ Len(added) \in Nat
        /\ DOMAIN routes_ = 1 .. Len(routes_) /\ DOMAIN added = 1 .. Len(added)
        /\ DOMAIN (routes_ \o added) = 1 .. Len(routes_) + Len(added)
    BY <1>3, <1>4
  <2>2. \A i \in 1 .. Len(routes_) + Len(added) :
          (routes_ \o added)[i] = IF i <= Len(routes_) THEN routes_[i]
                                  ELSE added[i - Len(routes_)]
    BY <1>3, <1>4
  <2>3. ASSUME NEW j \in DOMAIN added
        PROVE  \E i \in DOMAIN (routes_ \o added) : (routes_ \o added)[i] = added[j]
    <3>1. Len(routes_) + j \in 1 .. Len(routes_) + Len(added)  BY <2>1
    <3>2. (routes_ \o added)[Len(routes_) + j] = added[j]  BY <2>1, <2>2, <3>1
    <3> QED  BY <2>1, <3>1, <3>2
  <2>4. ASSUME NEW i \in DOMAIN (routes_ \o added)
        PROVE  \/ i \in DOMAIN routes_ /\ (routes_ \o added)[i] = routes_[i]
               \/ \E j \in DOMAIN added : (routes_ \o added)[i] = added[j]
    <3>1. CASE i <= Len(routes_)  BY <2>1, <2>2, <3>1
    <3>2. CASE ~(i <= Len(routes_))
      <4>1. i - Len(routes_) \in DOMAIN added  BY <2>1, <3>2
      <4> QED  BY <2>1, <2>2, <3>2, <4>1
    <3> QED  BY <3>1, <3>2
  <2> QED  BY <1>1, <2>1, <2>3, <2>4
<1>6. /\ defaultRoute_'.interface_ = HomeGateway.interface_
      /\ "interface_" \in DOMAIN defaultRoute_'
  <2>1. defaultRoute_' = [defaultRoute_ EXCEPT !.gateway = HomeGateway.gateway,
                                               !.interface_ = HomeGateway.interface_]
    BY DEF InitializeNetwork
  <2>2. "interface_" \in DOMAIN defaultRoute_  BY DEF HomeInv
  <2> QED  BY <2>1, <2>2
<1>7. altered' = FALSE => PlanInv'
  <2> SUFFICES ASSUME altered = FALSE PROVE PlanInv'
    BY <1>1
  <2>1. PlanInv  BY DEF HomeInv
  <2>2. ASSUME NEW i \in DOMAIN routes_'
        PROVE  \E s \in Names : routes_'[i] = PlanRoute(s)
    <3>1. CASE i \in DOMAIN routes_ /\ routes_'[i] = routes_[i]
      BY <3>1, <2>1 DEF PlanInv
    <3>2. ASSUME NEW j \in DOMAIN added, routes_'[i] = added[j]
          PROVE  \E s \in Names : routes_'[i] = PlanRoute(s)
      <4>1. PlanOrder[j] \in Names  BY <1>2, <1>3
      <4> QED  BY <1>3, <3>2, <4>1
    <3> QED  BY <1>5, <3>1, <3>2
  <2>3. ASSUME NEW s \in Names
        PROVE  \E i \in DOMAIN routes_' : routes_'[i] = PlanRoute(s)
    BY <1>2, <1>3, <1>5
  <2> QED  BY <1>1, <1>6, <2>2, <2>3 DEF PlanInv
<1>8. RoutesIn(PlanKinds)' /\ LoopInv'
  BY <1>1, <1>5, PlanKindsTyped DEF RoutesIn, LoopInv
<1>9. RemovedInv'
  <2>1. RemovedInv /\ removed' = removed \ {Prefix(PlanRoute(s)) : s \in Names}
    BY DEF HomeInv, InitializeNetwork
  <2> QED  BY <1>2, <1>3, <1>5, <2>1 DEF RemovedInv
<1> QED  BY <1>1, <1>6, <1>7, <1>8, <1>9 DEF HomeInv

LEMMA NextHome == HomeInv /\ [HomeNext]_homeVars => HomeInv'
<1> SUFFICES ASSUME HomeInv, [HomeNext]_homeVars PROVE HomeInv'
  OBVIOUS
<1>1. CASE next = 0 /\ UseSubnets /\ UNCHANGED <<routingVars, altered>>
  <2>1. \A s : AllocateIP(s) \/ Exhausted(s) \/ UnknownSubnet(s) => subnets_' = subnets_
    BY DEF AllocateIP, Exhausted, UnknownSubnet
  <2>2. \A s, ip : ReleaseIP(s, ip) => subnets_' = subnets_
    BY DEF ReleaseIP
  <2>3. subnets_' = subnets_  BY <1>1, <2>1, <2>2 DEF UseSubnets
  <2> QED  BY <1>1, <2>3 DEF routingVars, lookupVars, HomeInv, RoutesIn, LoopInv, NoneYet,
                             Best, Lesser, RemovedInv, PlanInv
<1>2. CASE LookupRoute /\ UNCHANGED <<vars, altered>>
  <2>1. LoopInv' /\ UNCHANGED <<routes_, defaultRoute_, removed>>
    BY <1>2, LookupLoop DEF HomeInv
  <2>2. next' > 0 => destIP' \in Queries
    <3>1. ASSUME NEW ip \in Queries, BeginLookup(ip) PROVE destIP' \in Queries
      BY <3>1 DEF BeginLookup
    <3>2. ASSUME Examine PROVE next > 0 /\ destIP' = destIP
      BY <3>2 DEF Examine, HomeInv, RoutesIn
    <3>3. ASSUME EndLookup PROVE next' = 0
      BY <3>3 DEF EndLookup
    <3> QED  BY <1>2, <3>1, <3>2, <3>3 DEF LookupRoute, HomeInv
  <2> QED  BY <1>2, <2>1, <2>2 DEF HomeInv, RoutesIn, RemovedInv, PlanInv, vars
<1>3. CASE ChangeRoutes /\ altered' = TRUE /\ UNCHANGED vars
  <2>1. RoutesIn(PlanKinds)' /\ LoopInv' /\ RemovedInv'
    BY <1>3, ChangeLoop DEF HomeInv, PlanKinds
  <2>2. \A r : AddRoute(r) \/ RemoveRoute(r) => next' = 0 /\ defaultRoute_' = defaultRoute_
    BY DEF AddRoute, RemoveRoute, lookupVars
  <2>3. ASSUME NEW g, SetDefaultGateway(g)
        PROVE  next' = 0 /\ "interface_" \in DOMAIN defaultRoute_'
    BY <2>3 DEF SetDefaultGateway, lookupVars, HomeInv
  <2>4. next' = 0 /\ "interface_" \in DOMAIN defaultRoute_'
    BY <1>3, <2>2, <2>3 DEF ChangeRoutes, HomeInv
  <2> QED  BY <1>3, <2>1, <2>4 DEF HomeInv, vars
<1>4. CASE UNCHANGED homeVars
  BY <1>4 DEF homeVars, vars, routingVars, lookupVars, HomeInv, RoutesIn, LoopInv, NoneYet,
              Best, Lesser, RemovedInv, PlanInv
<1> QED  BY <1>1, <1>2, <1>3, <1>4, InitializeHome DEF HomeNext

LEMMA AgreementHolds == HomeInv => PingAgreesWithArp
<1> SUFFICES ASSUME HomeInv, LookupDone, subnets_ # {}, ~altered PROVE
      IF findSubnet(destIP) = "Unknown" THEN bestMatch.interface_ = HomeGateway.interface_
      ELSE /\ bestMatch.interface_ = findSubnet(destIP)
           /\ received(destIP, <<1, 50>>, 1000) = {1, 2}
  BY DEF PingAgreesWithArp
<1>1. /\ DOMAIN routes_ = 1 .. next - 1 /\ PlanInv /\ subnets_ = Names /\ destIP \in Queries
      /\ NoneYet(next - 1) \/ \E i \in 1 .. next - 1 : Best(i, next - 1)
  BY DEF HomeInv, LoopInv, LookupDone, RoutesIn
<1>2. \A s \in Names : s \in Matches(destIP) <=> Covers(PlanRoute(s), destIP)
  BY <1>1, PlanRouteCovers DEF Matches
<1>3. CASE Matches(destIP) = {}
  <2>1. findSubnet(destIP) = "Unknown"  BY <1>3 DEF findSubnet
  <2>2. \A i \in DOMAIN routes_ : ~Covers(routes_[i], destIP)
    BY <1>1, <1>2, <1>3 DEF PlanInv
  <2>3. NoneYet(next - 1)  BY <1>1, <2>2 DEF Best
  <2>4. bestMatch = defaultRoute_  BY <2>3 DEF NoneYet
  <2> QED  BY <1>1, <2>1, <2>4 DEF PlanInv
<1>4. CASE Matches(destIP) # {}
  <2> DEFINE f == findSubnet(destIP)
  <2>1. f \in Matches(destIP)  BY <1>4 DEF findSubnet
  <2>2. f \in Names /\ Covers(PlanRoute(f), destIP)  BY <1>1, <1>2, <2>1 DEF Matches
  <2> HIDE DEF f
  <2>3. f # "Unknown"  BY <2>2, HomeAssumption
  <2>4. PICK i \in DOMAIN routes_ : routes_[i] = PlanRoute(f)  BY <1>1, <2>2 DEF PlanInv
  <2>5. PICK k \in 1 .. next - 1 : Best(k, next - 1)
    BY <1>1, <2>2, <2>4 DEF NoneYet
  <2>6. PICK t \in Names : bestMatch = PlanRoute(t) /\ Covers(PlanRoute(t), destIP)
    BY <1>1, <2>5 DEF PlanInv, Best
  <2>7. t = f /\ isInSubnet(destIP, HomeBase.network, HomeBase.cidr)
    BY <1>1, <2>2, <2>6, PlanRouteCovers, HomeAssumption
  <2>8. bestMatch.interface_ = f  BY <2>6, <2>7, PlanRouteCovers
  <2>9. received(destIP, <<1, 50>>, 1000) = {1, 2}
    <3>1. DOMAIN <<1, 50>> = {1, 2} /\ <<1, 50>>[1] = 1 /\ <<1, 50>>[2] = 50  OBVIOUS
    <3> QED  BY <2>7, <3>1 DEF received
  <2>10. findSubnet(destIP) = f  BY DEF f
  <2> QED  BY <2>3, <2>8, <2>9, <2>10
<1> QED  BY <1>3, <1>4

LEMMA HomeInductive == HomeSpec => []HomeInv
  BY InitHome, NextHome, PTL DEF HomeSpec

(* PING and ARP tell one story of every address, however often the network *)
(* was initialised and the subnets used.                                   *)
THEOREM PingAndArpAgree == HomeSpec => []PingAgreesWithArp
  BY HomeInductive, AgreementHolds, PTL

(* The table keeps its promises when the plan is added to it as well.      *)
THEOREM HomeLookups == HomeSpec => [](LookupIsLongest /\ RemovedStaysAway)
<1>1. HomeInv => LookupIsLongest /\ RemovedStaysAway  BY LoopEnd DEF HomeInv
<1> QED  BY <1>1, HomeInductive, PTL

(* The subnet manager inside the network is the one SubnetManager          *)
(* specifies: whatever is proved of its leases holds here.                 *)
THEOREM HomeLeases ==
  HomeSpec => [](TypeOK /\ LeasesUnique /\ LeasesUsable /\ UsedUpBeforeThrow)
<1>1. HomeInit => Init  BY DEF HomeInit
<1>2. [HomeNext]_homeVars => [Next]_vars
  BY DEF HomeNext, homeVars, InitializeNetwork, Next
<1>3. HomeSpec => Spec  BY <1>1, <1>2, PTL DEF HomeSpec, Spec
<1> QED  BY <1>3, SubnetTypes, LeasedOnce, LeasedAddressesUsable, BlockUsedUp, PTL
=============================================================================
