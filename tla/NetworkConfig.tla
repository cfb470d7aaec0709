--------------------------- MODULE NetworkConfig ---------------------------
(***************************************************************************)
(* src/network/NetworkConfig.cpp.  An address is the sequence of octets    *)
(* its text names (each 0..255, at most four).  A uint32_t is the pair of  *)
(* its upper and lower 16 bits: TLC's integers end at 2^31 - 1.            *)
(***************************************************************************)
EXTENDS Naturals, Sequences, FiniteSets

Octet(ip, i) == IF i <= Len(ip) THEN ip[i] ELSE 0

ipToUint32(ip) == <<256 * Octet(ip, 1) + Octet(ip, 2), 256 * Octet(ip, 3) + Octet(ip, 4)>>

uint32ToIp(u) == <<u[1] \div 256, u[1] % 256, u[2] \div 256, u[2] % 256>>

\* Unsigned addition, modulo 2^32.
Plus(u, n) == <<(u[1] + (u[2] + n) \div 65536) % 65536, (u[2] + n) % 65536>>

\* u & mask, for the mask of cidr leading ones.
UpperBits(x, k) == x - (x % 2^(16 - k))
Masked(u, cidr) == IF cidr <= 16 THEN <<UpperBits(u[1], cidr), 0>>
                                 ELSE <<u[1], UpperBits(u[2], cidr - 16)>>

cidrToMask(cidr) == uint32ToIp(Masked(<<65535, 65535>>, cidr))

isInSubnet(ip, network, cidr) ==
    Masked(ipToUint32(ip), cidr) = Masked(ipToUint32(network), cidr)

SubnetInfo(network, mask, gateway, cidr, maxHosts) ==
    [networkAddress |-> network, subnetMask |-> mask, gateway |-> gateway,
     cidr |-> cidr, maxHosts |-> maxHosts]

\* The plan for 192.168.1.0/24, by name.
getSubnetConfigurations ==
    [Lighting   |-> SubnetInfo(<<192,168,1,0>>,   <<255,255,255,192>>, <<192,168,1,1>>,   26, 62),
     Thermostat |-> SubnetInfo(<<192,168,1,64>>,  <<255,255,255,224>>, <<192,168,1,65>>,  27, 30),
     Security   |-> SubnetInfo(<<192,168,1,96>>,  <<255,255,255,224>>, <<192,168,1,97>>,  27, 30),
     Management |-> SubnetInfo(<<192,168,1,128>>, <<255,255,255,240>>, <<192,168,1,129>>, 28, 14)]
-----------------------------------------------------------------------------
\* std::remove and erase on a vector: the elements at the positions to keep, in order.
Kept(seq, keep) ==
    LET m == Cardinality(keep)
    IN {[k \in 1..m |-> seq[f[k]]] :
          f \in {f \in [1..m -> keep] : \A j, k \in 1..m : j < k => f[j] < f[k]}}
=============================================================================
