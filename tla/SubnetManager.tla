--------------------------- MODULE SubnetManager ---------------------------
(***************************************************************************)
(* src/network/SubnetManager.cpp: hands out the addresses of each subnet   *)
(* in order.  The class has no mutex: one thread changes it, before the    *)
(* workers that only call findSubnet exist.                                *)
(***************************************************************************)
EXTENDS NetworkConfig

CONSTANTS Configs,    \* what getSubnetConfigurations returns, by name
          Strangers,  \* names no configuration has
          MaxIssued   \* bound: the addresses issued per subnet

Names == DOMAIN Configs

\* The address allocateIP makes of a host number.
Address(s, host) == uint32ToIp(Plus(ipToUint32(Configs[s].networkAddress), host))
Hosts(s) == 1 .. Configs[s].maxHosts

Broadcast(s) == uint32ToIp(Plus(ipToUint32(Configs[s].networkAddress), 2^(32 - Configs[s].cidr) - 1))

\* The plan: a host count is that of the prefix, no two hosts share an address, each lies
\* in its subnet only, and from host 2 on none is an address with another meaning.
ASSUME PlanAssumption ==
    /\ \A s \in Names : /\ Configs[s].maxHosts \in Nat \ {0}
                         /\ 2^(32 - Configs[s].cidr) = Configs[s].maxHosts + 2
    /\ \A s, t \in Names : \A g \in Hosts(s), h \in Hosts(t) :
         Address(s, g) = Address(t, h) => s = t /\ g = h
    /\ \A s, t \in Names : \A h \in Hosts(s) :
         isInSubnet(Address(s, h), Configs[t].networkAddress, Configs[t].cidr) <=> s = t
    /\ \A s \in Names : \A h \in 2 .. Configs[s].maxHosts :
         Address(s, h) \notin {Configs[s].networkAddress, Configs[s].gateway, Broadcast(s)}
ASSUME NamesAssumption == Strangers \cap Names = {} /\ MaxIssued \in Nat

VARIABLES subnets_,       \* the subnets known by now
          allocatedIPs_,  \* by subnet, the addresses leased
          nextHost_,      \* by subnet, the host number allocateIP tries next
          issued,         \* by subnet, every address issued since initializeSubnets (history)
          thrown          \* the subnet the last call found exhausted, if it did (history)

vars == <<subnets_, allocatedIPs_, nextHost_, issued, thrown>>

Init == /\ subnets_ = {}
        /\ allocatedIPs_ = [s \in Names |-> <<>>]
        /\ nextHost_ = [s \in Names |-> 0]
        /\ issued = [s \in Names |-> <<>>]
        /\ thrown = {}

\* MUTANT: the first address handed out is the gateway's.
InitializeFromOne == /\ subnets_' = Names
                     /\ allocatedIPs_' = [s \in Names |-> <<>>]
                     /\ nextHost_' = [s \in Names |-> 1]
                     /\ issued' = [s \in Names |-> <<>>]
                     /\ thrown' = {}

\* Host 1 is the gateway.  A second call forgets every lease of the first.
InitializeSubnets == /\ subnets_' = Names
                     /\ allocatedIPs_' = [s \in Names |-> <<>>]
                     /\ nextHost_' = [s \in Names |-> 2]
                     /\ issued' = [s \in Names |-> <<>>]
                     /\ thrown' = {}

\* MUTANT: the bound is forgotten.
AllocateUnbounded(s) == /\ s \in subnets_
                        /\ Len(issued[s]) < MaxIssued
                        /\ LET ip == Address(s, nextHost_[s])
                           IN /\ allocatedIPs_' = [allocatedIPs_ EXCEPT ![s] = Append(@, ip)]
                              /\ issued' = [issued EXCEPT ![s] = Append(@, ip)]
                        /\ nextHost_' = [nextHost_ EXCEPT ![s] = @ + 1]
                        /\ thrown' = {}
                        /\ UNCHANGED subnets_

AllocateIP(s) == /\ s \in subnets_
                 /\ nextHost_[s] <= Configs[s].maxHosts
                 /\ Len(issued[s]) < MaxIssued
                 /\ LET ip == Address(s, nextHost_[s])
                    IN /\ allocatedIPs_' = [allocatedIPs_ EXCEPT ![s] = Append(@, ip)]
                       /\ issued' = [issued EXCEPT ![s] = Append(@, ip)]
                 /\ nextHost_' = [nextHost_ EXCEPT ![s] = @ + 1]
                 /\ thrown' = {}
                 /\ UNCHANGED subnets_

\* MUTANT: the last host of a subnet is never handed out.
ExhaustedEarly(s) == /\ s \in subnets_
                     /\ nextHost_[s] >= Configs[s].maxHosts
                     /\ thrown' = {s}
                     /\ UNCHANGED <<subnets_, allocatedIPs_, nextHost_, issued>>

Exhausted(s) == /\ s \in subnets_
                /\ nextHost_[s] > Configs[s].maxHosts
                /\ thrown' = {s}
                /\ UNCHANGED <<subnets_, allocatedIPs_, nextHost_, issued>>

UnknownSubnet(s) == /\ s \notin subnets_
                    /\ thrown' = {}
                    /\ UNCHANGED <<subnets_, allocatedIPs_, nextHost_, issued>>

\* Every copy of the address goes.
Remaining(s, ip) == {i \in DOMAIN allocatedIPs_[s] : allocatedIPs_[s][i] # ip}

\* MUTANT: a release makes room by stepping nextHost_ back.
ReleaseStepsBack(s, ip) ==
    /\ s \in subnets_
    /\ \E ips \in Kept(allocatedIPs_[s], Remaining(s, ip)) :
         /\ allocatedIPs_' = [allocatedIPs_ EXCEPT ![s] = ips]
         /\ nextHost_' = [nextHost_ EXCEPT ![s] = @ - (Len(allocatedIPs_[s]) - Len(ips))]
    /\ thrown' = {}
    /\ UNCHANGED <<subnets_, issued>>

\* The host number of a released address does not come back.
ReleaseIP(s, ip) == /\ s \in subnets_
                    /\ \E ips \in Kept(allocatedIPs_[s], Remaining(s, ip)) :
                         allocatedIPs_' = [allocatedIPs_ EXCEPT ![s] = ips]
                    /\ thrown' = {}
                    /\ UNCHANGED <<subnets_, nextHost_, issued>>

Elements(seq) == {seq[i] : i \in DOMAIN seq}

\* Callers release what some subnet leases, their own subnet's or not.
UseSubnets == \/ \E s \in Names : AllocateIP(s) \/ Exhausted(s)
              \/ \E s \in Names \cup Strangers : UnknownSubnet(s)
              \/ \E s, t \in Names : \E ip \in Elements(allocatedIPs_[t]) : ReleaseIP(s, ip)

Next == InitializeSubnets \/ UseSubnets

Spec == Init /\ [][Next]_vars
-----------------------------------------------------------------------------
\* findSubnet: the first match in the order of the map; the plan has one at most.
Matches(ip) == {s \in subnets_ : isInSubnet(ip, Configs[s].networkAddress, Configs[s].cidr)}
findSubnet(ip) == IF Matches(ip) = {} THEN "Unknown" ELSE CHOOSE s \in Matches(ip) : TRUE

TypeOK == /\ subnets_ \in {{}, Names}
          /\ nextHost_ \in [Names -> Nat]
          /\ \A s \in Names : nextHost_[s] <= Configs[s].maxHosts + 1
          /\ DOMAIN allocatedIPs_ = Names /\ DOMAIN issued = Names
          /\ thrown \subseteq Names

(* No address is leased twice, in one subnet or in two.                    *)
LeasesUnique ==
    \A s, t \in Names : \A i \in DOMAIN allocatedIPs_[s], j \in DOMAIN allocatedIPs_[t] :
        allocatedIPs_[s][i] = allocatedIPs_[t][j] => s = t /\ i = j

(* A leased address is one a device of that subnet can use: findSubnet     *)
(* maps it back, and it is neither the network's own address, nor the      *)
(* gateway's, nor the broadcast address.                                   *)
LeasesUsable ==
    \A s \in Names : \A ip \in Elements(allocatedIPs_[s]) :
        /\ findSubnet(ip) = s
        /\ ip \notin {Configs[s].networkAddress, Configs[s].gateway, Broadcast(s)}

(* allocateIP gives up only when every address of the block but the        *)
(* network's, the gateway's and the broadcast address has been issued.     *)
UsedUpBeforeThrow ==
    \A s \in Names : s \in thrown =>
        Len(issued[s]) = 2^(32 - Configs[s].cidr) - 3

(* What is released goes back to the pool: as long as fewer addresses are  *)
(* leased than the subnet has, one can be allocated.                       *)
ReleasedComesBack ==
    \A s \in Names : s \in thrown =>
        Len(allocatedIPs_[s]) = Configs[s].maxHosts - 1
=============================================================================
