---------------------------- MODULE SubnetProofs ----------------------------
(* What allocateIP guarantees for every plan that meets PlanAssumption. *)
EXTENDS SubnetManager, FiniteSetTheorems, TLAPS

Addresses == {Address(s, h) : s \in Names, h \in Nat}

(* The k-th address issued in a subnet is that of host k + 1, and nextHost_*)
(* is one past the last; before initializeSubnets nothing is issued.       *)
IssuedInv ==
    /\ subnets_ \in {{}, Names}
    /\ nextHost_ \in [Names -> Nat]
    /\ issued \in [Names -> Seq(Addresses)]
    /\ \A s \in Names :
         /\ nextHost_[s] <= Configs[s].maxHosts + 1
         /\ s \in subnets_ => nextHost_[s] = Len(issued[s]) + 2
         /\ s \notin subnets_ => issued[s] = <<>>
         /\ \A i \in 1 .. Len(issued[s]) : issued[s][i] = Address(s, i + 1)

LEMMA AppendAddress ==
  ASSUME NEW q \in Seq(Addresses), NEW x \in Addresses
  PROVE  /\ Append(q, x) \in Seq(Addresses)
         /\ Len(q) \in Nat /\ Len(Append(q, x)) = Len(q) + 1
         /\ \A i \in 1 .. Len(q) : Append(q, x)[i] = q[i]
         /\ Append(q, x)[Len(q) + 1] = x
  OBVIOUS

LEMMA InitIssued == Init => IssuedInv
  BY PlanAssumption DEF Init, IssuedInv

LEMMA AllocateIssued ==
  ASSUME IssuedInv, NEW s \in Names, AllocateIP(s) PROVE IssuedInv'
<1> DEFINE ip == Address(s, nextHost_[s])
<1> HIDE DEF ip
<1>1. /\ s \in subnets_ /\ nextHost_[s] <= Configs[s].maxHosts /\ subnets_' = subnets_
      /\ nextHost_' = [nextHost_ EXCEPT ![s] = nextHost_[s] + 1]
      /\ issued' = [issued EXCEPT ![s] = Append(issued[s], ip)]
  BY DEF AllocateIP, ip
<1>2. /\ nextHost_ \in [Names -> Nat] /\ issued \in [Names -> Seq(Addresses)]
      /\ Configs[s].maxHosts \in Nat
  BY PlanAssumption DEF IssuedInv
<1>3. ip \in Addresses  BY <1>2 DEF ip, Addresses
<1>4. issued[s] \in Seq(Addresses)  BY <1>2
<1>5. /\ issued'[s] = Append(issued[s], ip) /\ nextHost_'[s] = nextHost_[s] + 1
      /\ \A t \in Names \ {s} : issued'[t] = issued[t] /\ nextHost_'[t] = nextHost_[t]
  BY <1>1, <1>2
<1>6. /\ Append(issued[s], ip) \in Seq(Addresses)
      /\ Len(issued[s]) \in Nat /\ Len(Append(issued[s], ip)) = Len(issued[s]) + 1
      /\ \A i \in 1 .. Len(issued[s]) : Append(issued[s], ip)[i] = issued[s][i]
      /\ Append(issued[s], ip)[Len(issued[s]) + 1] = ip
  BY <1>3, <1>4, AppendAddress
<1>7. nextHost_' \in [Names -> Nat] /\ issued' \in [Names -> Seq(Addresses)]
  BY <1>1, <1>2, <1>6
<1>8. /\ nextHost_'[s] <= Configs[s].maxHosts + 1
      /\ nextHost_'[s] = Len(issued'[s]) + 2
      /\ nextHost_[s] = Len(issued[s]) + 2
  BY <1>1, <1>2, <1>5, <1>6 DEF IssuedInv
<1>9. ASSUME NEW i \in 1 .. Len(issued'[s]) PROVE issued'[s][i] = Address(s, i + 1)
  <2>1. CASE i = Len(issued[s]) + 1
    <3>1. nextHost_[s] = i + 1  BY <1>8, <1>6, <2>1
    <3>2. ip = Address(s, i + 1)  BY <3>1, Zenon DEF ip
    <3> QED  BY <1>5, <1>6, <2>1, <3>2
  <2>2. CASE i # Len(issued[s]) + 1
    <3>1. i \in 1 .. Len(issued[s])  BY <1>5, <1>6, <2>2
    <3>2. issued[s][i] = Address(s, i + 1)  BY <3>1, Zenon DEF IssuedInv
    <3> QED  BY <1>5, <1>6, <3>1, <3>2
  <2> QED  BY <2>1, <2>2
<1>10. ASSUME NEW t \in Names, t # s
       PROVE  /\ nextHost_'[t] <= Configs[t].maxHosts + 1
              /\ t \in subnets_' => nextHost_'[t] = Len(issued'[t]) + 2
              /\ t \notin subnets_' => issued'[t] = <<>>
              /\ \A i \in 1 .. Len(issued'[t]) : issued'[t][i] = Address(t, i + 1)
  <2>1. issued'[t] = issued[t] /\ nextHost_'[t] = nextHost_[t] /\ subnets_' = subnets_
    BY <1>1, <1>5, <1>10
  <2> QED  BY <2>1, Zenon DEF IssuedInv
<1>11. subnets_' \in {{}, Names}  BY <1>1 DEF IssuedInv
<1>12. ASSUME NEW t \in Names
       PROVE  /\ nextHost_'[t] <= Configs[t].maxHosts + 1
              /\ t \in subnets_' => nextHost_'[t] = Len(issued'[t]) + 2
              /\ t \notin subnets_' => issued'[t] = <<>>
              /\ \A i \in 1 .. Len(issued'[t]) : issued'[t][i] = Address(t, i + 1)
  <2>1. CASE t = s  BY <2>1, <1>1, <1>8, <1>9, Zenon
  <2> QED  BY <2>1, <1>10
<1> QED  BY <1>7, <1>11, <1>12, Zenon DEF IssuedInv

LEMMA NextIssued == IssuedInv /\ [Next]_vars => IssuedInv'
<1> SUFFICES ASSUME IssuedInv, [Next]_vars PROVE IssuedInv'
  OBVIOUS
<1>1. CASE InitializeSubnets
  <2>1. /\ subnets_' = Names /\ nextHost_' = [s \in Names |-> 2]
        /\ issued' = [s \in Names |-> <<>>]
    BY <1>1 DEF InitializeSubnets
  <2> QED  BY <2>1, PlanAssumption DEF IssuedInv
<1>2. CASE UNCHANGED <<subnets_, nextHost_, issued>>
  BY <1>2 DEF IssuedInv
<1>3. ASSUME NEW s, Exhausted(s) \/ UnknownSubnet(s) PROVE IssuedInv'
  BY <1>2, <1>3 DEF Exhausted, UnknownSubnet
<1>4. ASSUME NEW s, NEW ip, ReleaseIP(s, ip) PROVE IssuedInv'
  BY <1>2, <1>4 DEF ReleaseIP
<1>5. CASE UNCHANGED vars
  BY <1>2, <1>5 DEF vars
<1> QED  BY <1>1, <1>3, <1>4, <1>5, AllocateIssued DEF Next, UseSubnets

-----------------------------------------------------------------------------
(* The leases: addresses of hosts already passed, each once.               *)
LeasesOf(s) ==
    /\ s \notin subnets_ => allocatedIPs_[s] = <<>>
    /\ \A i \in 1 .. Len(allocatedIPs_[s]) :
         \E h \in 2 .. nextHost_[s] - 1 : allocatedIPs_[s][i] = Address(s, h)
    /\ \A i, j \in 1 .. Len(allocatedIPs_[s]) :
         allocatedIPs_[s][i] = allocatedIPs_[s][j] => i = j

LeaseInv == /\ IssuedInv
            /\ allocatedIPs_ \in [Names -> Seq(Addresses)]
            /\ \A s \in Names : LeasesOf(s)
            /\ thrown \subseteq Names
            /\ \A s \in thrown : s \in subnets_ /\ nextHost_[s] = Configs[s].maxHosts + 1

LEMMA KeptFacts ==
  ASSUME NEW S, NEW seq \in Seq(S), NEW keep \in SUBSET DOMAIN seq, NEW q \in Kept(seq, keep)
  PROVE  /\ q \in Seq(S)
         /\ \E f \in [1 .. Len(q) -> 1 .. Len(seq)] :
              /\ \A k \in 1 .. Len(q) : f[k] \in 1 .. Len(seq) /\ q[k] = seq[f[k]]
              /\ \A j, k \in 1 .. Len(q) : f[j] = f[k] => j = k
<1> DEFINE m == Cardinality(keep)
<1>1. Len(seq) \in Nat /\ DOMAIN seq = 1 .. Len(seq)  OBVIOUS
<1>2. m \in Nat
  <2>1. IsFiniteSet(1 .. Len(seq))  BY <1>1, FS_Interval
  <2>2. IsFiniteSet(keep)  BY <1>1, <2>1, FS_Subset
  <2> QED  BY <2>2, FS_CardinalityType
<1>3. PICK f \in [1..m -> keep] : /\ q = [k \in 1..m |-> seq[f[k]]]
                                  /\ \A j, k \in 1..m : j < k => f[j] < f[k]
  BY DEF Kept
<1> HIDE DEF m
<1>4. \A k \in 1..m : f[k] \in 1 .. Len(seq) /\ seq[f[k]] \in S
  <2>1. \A k \in 1..m : f[k] \in 1 .. Len(seq)  BY <1>1, <1>3
  <2>2. \A i \in 1 .. Len(seq) : seq[i] \in S  BY <1>1
  <2> QED  BY <2>1, <2>2
<1>5. q \in Seq(S) /\ Len(q) = m  BY <1>2, <1>3, <1>4
<1>6. /\ f \in [1 .. Len(q) -> 1 .. Len(seq)]
      /\ \A k \in 1 .. Len(q) : f[k] \in 1 .. Len(seq)
  BY <1>1, <1>3, <1>4, <1>5
<1>7. ASSUME NEW j \in 1 .. Len(q), NEW k \in 1 .. Len(q), f[j] = f[k] PROVE j = k
  <2>1. f[j] \in Nat /\ f[k] \in Nat  BY <1>1, <1>6
  <2>2. j \in 1..m /\ k \in 1..m  BY <1>5
  <2>3. ~(j < k) /\ ~(k < j)  BY <1>3, <1>7, <2>1, <2>2
  <2> QED  BY <1>2, <2>2, <2>3
<1>8. \A k \in 1 .. Len(q) : f[k] \in 1 .. Len(seq) /\ q[k] = seq[f[k]]  BY <1>6, <1>3, <1>5
<1> QED  BY <1>5, <1>6, <1>7, <1>8

LEMMA AllocateLeases ==
  ASSUME LeaseInv, NEW s \in Names, AllocateIP(s) PROVE LeaseInv'
<1> DEFINE ip == Address(s, nextHost_[s])
<1>1. IssuedInv'  BY AllocateIssued DEF LeaseInv
<1>2. /\ s \in subnets_ /\ subnets_' = subnets_ /\ thrown' = {}
      /\ nextHost_' = [nextHost_ EXCEPT ![s] = nextHost_[s] + 1]
      /\ allocatedIPs_' = [allocatedIPs_ EXCEPT ![s] = Append(allocatedIPs_[s], ip)]
      /\ nextHost_[s] <= Configs[s].maxHosts
  BY DEF AllocateIP
<1>3. /\ nextHost_ \in [Names -> Nat] /\ allocatedIPs_ \in [Names -> Seq(Addresses)]
      /\ nextHost_[s] \in Nat /\ Configs[s].maxHosts \in Nat
      /\ ip \in Addresses /\ LeasesOf(s)
  BY PlanAssumption DEF LeaseInv, IssuedInv, Addresses
<1>4. nextHost_[s] >= 2
  <2>1. nextHost_[s] = Len(issued[s]) + 2 /\ issued[s] \in Seq(Addresses)
    BY <1>2 DEF LeaseInv, IssuedInv
  <2>2. Len(issued[s]) \in Nat  BY <2>1
  <2> QED  BY <2>1, <2>2
<1>5. /\ Append(allocatedIPs_[s], ip) \in Seq(Addresses)
      /\ Len(allocatedIPs_[s]) \in Nat
      /\ Len(Append(allocatedIPs_[s], ip)) = Len(allocatedIPs_[s]) + 1
      /\ \A i \in 1 .. Len(allocatedIPs_[s]) : Append(allocatedIPs_[s], ip)[i] = allocatedIPs_[s][i]
      /\ Append(allocatedIPs_[s], ip)[Len(allocatedIPs_[s]) + 1] = ip
  BY <1>3, AppendAddress
<1> DEFINE new == Append(allocatedIPs_[s], ip)  old == allocatedIPs_[s]
<1>6. ASSUME NEW i \in 1 .. Len(old) PROVE old[i] # ip
  <2>1. PICK h \in 2 .. nextHost_[s] - 1 : old[i] = Address(s, h)
    BY <1>3 DEF LeasesOf
  <2>2. h \in Hosts(s) /\ nextHost_[s] \in Hosts(s) /\ h # nextHost_[s]
    BY <1>2, <1>3, <1>4 DEF Hosts
  <2>3. \A g, k \in Hosts(s) : Address(s, g) = Address(s, k) => g = k
    BY PlanAssumption, Zenon
  <2> QED  BY <2>1, <2>2, <2>3, Zenon DEF ip
<1>7. nextHost_'[s] = nextHost_[s] + 1 /\ allocatedIPs_'[s] = new
  BY <1>2, <1>3
<1>8. ip = Address(s, nextHost_[s])  OBVIOUS
<1> HIDE DEF ip, new
<1>9. /\ Len(new) = Len(old) + 1 /\ new[Len(old) + 1] = ip /\ Len(old) \in Nat
      /\ \A i \in 1 .. Len(old) : new[i] = old[i]
  BY <1>5 DEF new
<1>10. ASSUME NEW i \in 1 .. Len(new)
       PROVE  \E h \in 2 .. nextHost_'[s] - 1 : new[i] = Address(s, h)
  <2>1. CASE i = Len(old) + 1
    <3>1. nextHost_[s] \in 2 .. nextHost_'[s] - 1  BY <1>3, <1>4, <1>7
    <3>2. new[i] = Address(s, nextHost_[s])  BY <2>1, <1>8, <1>9
    <3> QED  BY <3>1, <3>2
  <2>2. CASE i # Len(old) + 1
    <3>1. i \in 1 .. Len(old)  BY <1>9, <2>2
    <3>2. PICK h \in 2 .. nextHost_[s] - 1 : old[i] = Address(s, h)
      BY <3>1, <1>3 DEF LeasesOf
    <3>3. h \in 2 .. nextHost_'[s] - 1  BY <1>3, <1>7
    <3> QED  BY <1>9, <3>1, <3>2, <3>3
  <2> QED  BY <2>1, <2>2
<1>11. ASSUME NEW i \in 1 .. Len(new), NEW j \in 1 .. Len(new), new[i] = new[j] PROVE i = j
  <2>1. \A k \in 1 .. Len(new) : k \in 1 .. Len(old) \/ k = Len(old) + 1  BY <1>9
  <2>2. \A k, l \in 1 .. Len(old) : old[k] = old[l] => k = l  BY <1>3 DEF LeasesOf
  <2> QED  BY <1>6, <1>9, <1>11, <2>1, <2>2
<1>12. ASSUME NEW t \in Names PROVE LeasesOf(t)'
  <2>1. CASE t = s
    <3>1. s \in subnets_'  BY <1>2
    <3>2. LeasesOf(s)'  BY <3>1, <1>7, <1>10, <1>11, Zenon DEF LeasesOf
    <3> QED  BY <2>1, <3>2
  <2>2. CASE t # s
    <3>1. nextHost_'[t] = nextHost_[t] /\ allocatedIPs_'[t] = allocatedIPs_[t]
      BY <1>2, <1>3, <2>2
    <3>2. LeasesOf(t)  BY DEF LeaseInv
    <3>3. t \in subnets_' <=> t \in subnets_  BY <1>2
    <3> QED  BY <3>1, <3>2, <3>3, Zenon DEF LeasesOf
  <2> QED  BY <2>1, <2>2
<1>13. allocatedIPs_' \in [Names -> Seq(Addresses)]  BY <1>2, <1>3, <1>5
<1> QED  BY <1>1, <1>2, <1>12, <1>13 DEF LeaseInv

LEMMA ReleaseLeases ==
  ASSUME LeaseInv, NEW s \in Names, NEW ip, ReleaseIP(s, ip) PROVE LeaseInv'
<1>1. PICK ips \in Kept(allocatedIPs_[s], Remaining(s, ip)) :
        allocatedIPs_' = [allocatedIPs_ EXCEPT ![s] = ips]
  BY DEF ReleaseIP
<1>2. /\ s \in subnets_ /\ subnets_' = subnets_ /\ nextHost_' = nextHost_ /\ issued' = issued
      /\ thrown' = {}
  BY DEF ReleaseIP
<1>3. IssuedInv'  BY <1>2 DEF LeaseInv, IssuedInv
<1> DEFINE old == allocatedIPs_[s]
<1>4. /\ allocatedIPs_ \in [Names -> Seq(Addresses)] /\ old \in Seq(Addresses)
      /\ LeasesOf(s) /\ Remaining(s, ip) \in SUBSET DOMAIN old
  BY DEF LeaseInv, Remaining
<1>5. ips \in Seq(Addresses)  BY <1>4, KeptFacts
<1>6. PICK f \in [1 .. Len(ips) -> 1 .. Len(old)] :
        /\ \A k \in 1 .. Len(ips) : f[k] \in 1 .. Len(old) /\ ips[k] = old[f[k]]
        /\ \A j, k \in 1 .. Len(ips) : f[j] = f[k] => j = k
  BY <1>4, KeptFacts
<1>7. allocatedIPs_'[s] = ips  BY <1>1, <1>4
<1>8. ASSUME NEW t \in Names PROVE LeasesOf(t)'
  <2>1. CASE t = s
    <3>1. ASSUME NEW i \in 1 .. Len(ips)
          PROVE  \E h \in 2 .. nextHost_[s] - 1 : ips[i] = Address(s, h)
      <4>1. f[i] \in 1 .. Len(old) /\ ips[i] = old[f[i]]  BY <1>6
      <4>2. PICK h \in 2 .. nextHost_[s] - 1 : old[f[i]] = Address(s, h)
        BY <1>4, <4>1, Zenon DEF LeasesOf
      <4> QED  BY <4>1, <4>2, Zenon
    <3>2. ASSUME NEW i \in 1 .. Len(ips), NEW j \in 1 .. Len(ips), ips[i] = ips[j]
          PROVE  i = j
      <4>1. f[i] \in 1 .. Len(old) /\ f[j] \in 1 .. Len(old) /\ old[f[i]] = old[f[j]]
        BY <1>6, <3>2
      <4>2. \A x, y \in 1 .. Len(old) : old[x] = old[y] => x = y  BY <1>4 DEF LeasesOf
      <4>3. f[i] = f[j]  BY <4>1, <4>2, Zenon
      <4> QED  BY <1>6, <4>3
    <3> QED  BY <2>1, <1>2, <1>7, <3>1, <3>2 DEF LeasesOf
  <2>2. CASE t # s
    <3>1. allocatedIPs_'[t] = allocatedIPs_[t]  BY <1>1, <1>4, <2>2
    <3>2. LeasesOf(t)  BY DEF LeaseInv
    <3>3. nextHost_'[t] = nextHost_[t] /\ (t \in subnets_' <=> t \in subnets_)
      BY <1>2
    <3> QED  BY <3>1, <3>2, <3>3, Zenon DEF LeasesOf
  <2> QED  BY <2>1, <2>2
<1>9. allocatedIPs_' \in [Names -> Seq(Addresses)]  BY <1>1, <1>4, <1>5
<1> QED  BY <1>2, <1>3, <1>8, <1>9 DEF LeaseInv

LEMMA NextLeases == LeaseInv /\ [Next]_vars => LeaseInv'
<1> SUFFICES ASSUME LeaseInv, [Next]_vars PROVE LeaseInv'
  OBVIOUS
<1>1. IssuedInv'  BY NextIssued DEF LeaseInv
<1>2. CASE InitializeSubnets
  <2>1. /\ allocatedIPs_' = [s \in Names |-> <<>>] /\ thrown' = {}
    BY <1>2 DEF InitializeSubnets
  <2>2. <<>> \in Seq(Addresses) /\ Len(<<>>) = 0  OBVIOUS
  <2> QED  BY <1>1, <2>1, <2>2 DEF LeaseInv, LeasesOf
<1>3. CASE UNCHANGED <<subnets_, nextHost_, allocatedIPs_>> /\ thrown' \in {{}, thrown}
  BY <1>1, <1>3 DEF LeaseInv, LeasesOf
<1>4. ASSUME NEW s \in Names, Exhausted(s) PROVE LeaseInv'
  <2>1. /\ s \in subnets_ /\ nextHost_[s] > Configs[s].maxHosts /\ thrown' = {s}
        /\ UNCHANGED <<subnets_, nextHost_, allocatedIPs_>>
    BY <1>4 DEF Exhausted
  <2>2. /\ nextHost_[s] \in Nat /\ Configs[s].maxHosts \in Nat
        /\ nextHost_[s] <= Configs[s].maxHosts + 1
    BY PlanAssumption DEF LeaseInv, IssuedInv
  <2>3. nextHost_[s] = Configs[s].maxHosts + 1  BY <2>1, <2>2
  <2> QED  BY <1>1, <2>1, <2>3 DEF LeaseInv, LeasesOf
<1>5. ASSUME NEW s, UnknownSubnet(s) PROVE LeaseInv'
  BY <1>3, <1>5 DEF UnknownSubnet
<1>6. CASE UNCHANGED vars
  BY <1>3, <1>6 DEF vars
<1> QED  BY <1>2, <1>4, <1>5, <1>6, AllocateLeases, ReleaseLeases DEF Next, UseSubnets

LEMMA LeasesInductive == Spec => []LeaseInv
<1>1. Init => LeaseInv
  <2> SUFFICES ASSUME Init PROVE LeaseInv
    OBVIOUS
  <2>1. allocatedIPs_ = [s \in Names |-> <<>>] /\ thrown = {}  BY DEF Init
  <2>2. <<>> \in Seq(Addresses) /\ Len(<<>>) = 0  OBVIOUS
  <2> QED  BY <2>1, <2>2, InitIssued DEF LeaseInv, LeasesOf
<1> QED  BY <1>1, NextLeases, PTL DEF Spec

\* Every lease is the address of a host above the gateway's.
LEMMA LeaseOfHost ==
  ASSUME LeaseInv, NEW s \in Names, NEW i \in DOMAIN allocatedIPs_[s]
  PROVE  /\ i \in 1 .. Len(allocatedIPs_[s]) /\ subnets_ = Names
         /\ \E h \in 2 .. Configs[s].maxHosts : allocatedIPs_[s][i] = Address(s, h)
<1>1. /\ allocatedIPs_[s] \in Seq(Addresses) /\ LeasesOf(s) /\ nextHost_[s] \in Nat
      /\ nextHost_[s] <= Configs[s].maxHosts + 1 /\ Configs[s].maxHosts \in Nat
      /\ subnets_ \in {{}, Names}
  BY PlanAssumption DEF LeaseInv, IssuedInv
<1>2. i \in 1 .. Len(allocatedIPs_[s])  BY <1>1
<1>3. allocatedIPs_[s] # <<>>  BY <1>1, <1>2
<1>4. PICK h \in 2 .. nextHost_[s] - 1 : allocatedIPs_[s][i] = Address(s, h)
  BY <1>1, <1>2 DEF LeasesOf
<1>5. h \in 2 .. Configs[s].maxHosts  BY <1>1
<1>6. s \in subnets_  BY <1>1, <1>3 DEF LeasesOf
<1> QED  BY <1>1, <1>2, <1>4, <1>5, <1>6

(* The state keeps its types; nextHost_ stops one past the last host.      *)
THEOREM SubnetTypes == Spec => []TypeOK
<1>1. LeaseInv => TypeOK  BY DEF LeaseInv, IssuedInv, TypeOK
<1> QED  BY <1>1, LeasesInductive, PTL

(* No address is leased twice, in one subnet or in two.                    *)
THEOREM LeasedOnce == Spec => []LeasesUnique
<1>1. LeaseInv => LeasesUnique
  <2> SUFFICES ASSUME LeaseInv, NEW s \in Names, NEW t \in Names,
                      NEW i \in DOMAIN allocatedIPs_[s], NEW j \in DOMAIN allocatedIPs_[t],
                      allocatedIPs_[s][i] = allocatedIPs_[t][j]
               PROVE  s = t /\ i = j
    BY DEF LeasesUnique
  <2>1. PICK g \in 2 .. Configs[s].maxHosts : allocatedIPs_[s][i] = Address(s, g)
    BY LeaseOfHost
  <2>2. PICK h \in 2 .. Configs[t].maxHosts : allocatedIPs_[t][j] = Address(t, h)
    BY LeaseOfHost
  <2>3. g \in Hosts(s) /\ h \in Hosts(t)  BY PlanAssumption DEF Hosts
  <2>4. \A x \in Hosts(s), y \in Hosts(t) : Address(s, x) = Address(t, y) => s = t /\ x = y
    BY PlanAssumption, Zenon
  <2>5. s = t  BY <2>1, <2>2, <2>3, <2>4, Zenon
  <2>6. i \in 1 .. Len(allocatedIPs_[s]) /\ j \in 1 .. Len(allocatedIPs_[t])
    BY LeaseOfHost
  <2>7. LeasesOf(s)  BY DEF LeaseInv
  <2> QED  BY <2>5, <2>6, <2>7 DEF LeasesOf
<1> QED  BY <1>1, LeasesInductive, PTL

(* A lease belongs to its subnet and to no network, gateway or broadcast.  *)
THEOREM LeasedAddressesUsable == Spec => []LeasesUsable
<1>1. LeaseInv => LeasesUsable
  <2> SUFFICES ASSUME LeaseInv, NEW s \in Names, NEW i \in DOMAIN allocatedIPs_[s]
               PROVE  /\ findSubnet(allocatedIPs_[s][i]) = s
                      /\ allocatedIPs_[s][i] \notin
                           {Configs[s].networkAddress, Configs[s].gateway, Broadcast(s)}
    BY DEF LeasesUsable, Elements
  <2>1. subnets_ = Names  BY LeaseOfHost
  <2>2. PICK h \in 2 .. Configs[s].maxHosts : allocatedIPs_[s][i] = Address(s, h)
    BY LeaseOfHost
  <2>3. h \in Hosts(s)  BY PlanAssumption DEF Hosts
  <2>4. \A t \in Names :
          isInSubnet(Address(s, h), Configs[t].networkAddress, Configs[t].cidr) <=> s = t
    BY <2>3, PlanAssumption, Zenon
  <2>5. Matches(Address(s, h)) = {s}  BY <2>1, <2>4 DEF Matches
  <2>6. findSubnet(Address(s, h)) = s  BY <2>5 DEF findSubnet
  <2>7. Address(s, h) \notin {Configs[s].networkAddress, Configs[s].gateway, Broadcast(s)}
    BY PlanAssumption, Zenon
  <2> QED  BY <2>2, <2>6, <2>7
<1> QED  BY <1>1, LeasesInductive, PTL

(* allocateIP gives up only when the whole block has been issued.          *)
THEOREM BlockUsedUp == Spec => []UsedUpBeforeThrow
<1>1. LeaseInv => UsedUpBeforeThrow
  <2> SUFFICES ASSUME LeaseInv, NEW s \in Names, s \in thrown
               PROVE  Len(issued[s]) = 2^(32 - Configs[s].cidr) - 3
    BY DEF UsedUpBeforeThrow
  <2>1. nextHost_[s] = Configs[s].maxHosts + 1 /\ nextHost_[s] = Len(issued[s]) + 2
    BY DEF LeaseInv, IssuedInv
  <2>2. issued[s] \in Seq(Addresses)  BY DEF LeaseInv, IssuedInv
  <2>3. Len(issued[s]) \in Nat  BY <2>2
  <2> DEFINE block == 2^(32 - Configs[s].cidr)
  <2>4. block = Configs[s].maxHosts + 2 /\ Configs[s].maxHosts \in Nat \ {0}
    BY PlanAssumption, Zenon
  <2>5. block = 2^(32 - Configs[s].cidr)  OBVIOUS
  <2> HIDE DEF block
  <2>6. Len(issued[s]) = block - 3  BY <2>1, <2>3, <2>4
  <2> QED  BY <2>5, <2>6, Zenon
<1> QED  BY <1>1, LeasesInductive, PTL
=============================================================================
