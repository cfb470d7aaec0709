--------------------------- MODULE RoutingProofs ---------------------------
(* What lookupRoute returns, for every set of routes, gateways and queries. *)
EXTENDS RoutingTable, FiniteSetTheorems, TLAPS

Kinds == {Route(r) : r \in Candidates}

Lesser(j, i) == \/ routes_[j].cidr < routes_[i].cidr
                \/ routes_[j].cidr = routes_[i].cidr /\ i < j

\* Of the first n routes none covers the address; the i-th is the best of them.
NoneYet(n) == /\ bestMatch = defaultRoute_ /\ longestPrefix = -1
              /\ \A j \in 1..n : ~Covers(routes_[j], destIP)
Best(i, n) == /\ Covers(routes_[i], destIP)
              /\ bestMatch = routes_[i] /\ longestPrefix = routes_[i].cidr
              /\ \A j \in 1..n : Covers(routes_[j], destIP) /\ j # i => Lesser(j, i)

(* The loop of lookupRoute, before it examines route number next.          *)
LoopInv == /\ next \in Nat /\ next <= Len(routes_) + 1
           /\ next > 0 => NoneYet(next - 1) \/ \E i \in 1 .. next - 1 : Best(i, next - 1)

(* No route of the table has been removed since it was added.              *)
RemovedInv == \A i \in DOMAIN routes_ : Prefix(routes_[i]) \notin removed

RoutesIn(S) == routes_ \in Seq(S) /\ \A r \in S : r.cidr \in Nat

LEMMA KindsTyped == \A r \in Kinds : r.cidr \in Nat
  BY RoutingAssumption DEF Kinds, Route

LEMMA ExamineLoop ==
  ASSUME NEW S, RoutesIn(S), LoopInv, Examine PROVE LoopInv' /\ UNCHANGED routes_
<1> DEFINE r == routes_[next]
<1>0. PICK n \in Nat : n = next  BY DEF LoopInv
<1>1. /\ next \in 1 .. Len(routes_) /\ Len(routes_) \in Nat /\ next' = next + 1
      /\ routes_' = routes_ /\ defaultRoute_' = defaultRoute_ /\ destIP' = destIP
      /\ r.cidr \in Nat
  BY DEF Examine, RoutesIn
<1>2. next' \in Nat /\ next' <= Len(routes_') + 1 /\ next' - 1 = n
  BY <1>0, <1>1
<1>3. NoneYet(next - 1) \/ \E i \in 1 .. next - 1 : Best(i, next - 1)
  BY <1>1 DEF LoopInv
<1>4. \A j \in 1 .. next : j \in 1 .. next - 1 \/ j = next
  BY <1>1
<1>5. CASE ~Covers(r, destIP)
  <2>1. bestMatch' = bestMatch /\ longestPrefix' = longestPrefix
    BY <1>5, Zenon DEF Examine
  <2>2. CASE NoneYet(next - 1)
    <3>1. NoneYet(n)'
      BY <2>1, <2>2, <1>0, <1>1, <1>4, <1>5 DEF NoneYet
    <3> QED  BY <3>1, <1>1, <1>2 DEF LoopInv
  <2>3. CASE \E i \in 1 .. next - 1 : Best(i, next - 1)
    <3>1. PICK i \in 1 .. next - 1 : Best(i, next - 1)  BY <2>3
    <3>2. Best(i, n)'
      BY <2>1, <3>1, <1>0, <1>1, <1>4, <1>5 DEF Best, Lesser
    <3>3. i \in 1 .. n  BY <1>0, <1>1
    <3> QED  BY <3>2, <3>3, <1>0, <1>1, <1>2 DEF LoopInv
  <2> QED  BY <1>3, <2>2, <2>3
<1>6. CASE Covers(r, destIP) /\ ~(r.cidr > longestPrefix)
  <2>1. bestMatch' = bestMatch /\ longestPrefix' = longestPrefix
    BY <1>6, Zenon DEF Examine
  <2>2. ~NoneYet(next - 1)  BY <1>1, <1>6 DEF NoneYet
  <2>3. PICK i \in 1 .. next - 1 : Best(i, next - 1)  BY <1>3, <2>2
  <2>4. routes_[i].cidr \in Nat  BY <1>1 DEF RoutesIn
  <2>5. Lesser(next, i)  BY <2>3, <2>4, <1>1, <1>6 DEF Best, Lesser
  <2>6. Best(i, n)'
    BY <2>1, <2>3, <2>5, <1>0, <1>1, <1>4 DEF Best, Lesser
  <2>7. i \in 1 .. n  BY <1>0, <1>1
  <2> QED  BY <2>6, <2>7, <1>0, <1>1, <1>2 DEF LoopInv
<1>7. CASE Covers(r, destIP) /\ r.cidr > longestPrefix
  <2>1. bestMatch' = r /\ longestPrefix' = r.cidr
    BY <1>7, Zenon DEF Examine
  <2>2. ASSUME NEW j \in 1 .. next - 1, Covers(routes_[j], destIP) PROVE Lesser(j, next)
    <3>1. routes_[j].cidr \in Nat  BY <1>1 DEF RoutesIn
    <3>2. ~NoneYet(next - 1)  BY <2>2 DEF NoneYet
    <3>3. PICK i \in 1 .. next - 1 : Best(i, next - 1)  BY <1>3, <3>2
    <3>4. routes_[j].cidr <= longestPrefix /\ longestPrefix \in Nat
      <4>1. routes_[i].cidr \in Nat  BY <1>1 DEF RoutesIn
      <4> QED  BY <3>1, <3>3, <4>1, <2>2 DEF Best, Lesser
    <3> QED  BY <3>1, <3>4, <1>1, <1>7 DEF Lesser
  <2>3. Best(n, n)'
    BY <2>1, <2>2, <1>0, <1>1, <1>4, <1>7 DEF Best, Lesser
  <2> QED  BY <2>3, <1>0, <1>1, <1>2 DEF LoopInv
<1> QED  BY <1>1, <1>5, <1>6, <1>7

LEMMA LookupLoop ==
  ASSUME NEW S, RoutesIn(S), LoopInv, LookupRoute
  PROVE  LoopInv' /\ UNCHANGED <<routes_, defaultRoute_, removed>>
<1>1. ASSUME NEW ip, BeginLookup(ip) PROVE LoopInv'
  <2>1. /\ next' = 1 /\ bestMatch' = defaultRoute_ /\ longestPrefix' = -1
        /\ routes_' = routes_ /\ defaultRoute_' = defaultRoute_
    BY <1>1 DEF BeginLookup
  <2>2. Len(routes_') \in Nat  BY <2>1 DEF RoutesIn
  <2>3. NoneYet(0)'  BY <2>1 DEF NoneYet
  <2>4. next' - 1 = 0  BY <2>1
  <2> QED  BY <2>1, <2>2, <2>3, <2>4 DEF LoopInv
<1>2. ASSUME EndLookup PROVE LoopInv'
  <2>1. next' = 0 /\ routes_' = routes_  BY <1>2 DEF EndLookup
  <2>2. Len(routes_') \in Nat  BY <2>1 DEF RoutesIn
  <2> QED  BY <2>1, <2>2 DEF LoopInv
<1>3. UNCHANGED <<routes_, defaultRoute_, removed>>
  <2>1. ASSUME NEW ip, BeginLookup(ip) PROVE UNCHANGED <<routes_, defaultRoute_, removed>>
    BY <2>1 DEF BeginLookup
  <2>2. ASSUME Examine \/ EndLookup PROVE UNCHANGED <<routes_, defaultRoute_, removed>>
    BY <2>2, Zenon DEF Examine, EndLookup
  <2> QED  BY <2>1, <2>2 DEF LookupRoute
<1> QED  BY <1>1, <1>2, <1>3, ExamineLoop DEF LookupRoute

(* A change of the table or the default happens between lookups only.      *)
LEMMA ChangeLoop ==
  ASSUME NEW S, RoutesIn(S), Kinds \subseteq S, LoopInv, RemovedInv, ChangeRoutes
  PROVE  RoutesIn(S)' /\ LoopInv' /\ RemovedInv'
<1>1. Len(routes_) \in Nat  BY DEF RoutesIn
<1>2. ASSUME NEW r \in Candidates, AddRoute(r)
      PROVE  RoutesIn(S)' /\ LoopInv' /\ RemovedInv'
  <2>1. /\ next' = 0 /\ routes_' = Append(routes_, Route(r))
        /\ removed' = removed \ {Prefix(r)}
    BY <1>2 DEF AddRoute, lookupVars
  <2>2. Route(r) \in S  BY DEF Kinds
  <2>3. Prefix(Route(r)) = Prefix(r)  BY DEF Prefix, Route
  <2>4. routes_' \in Seq(S) /\ Len(routes_') \in Nat  BY <2>1, <2>2 DEF RoutesIn
  <2>5. \A i \in DOMAIN routes_' : \/ i \in DOMAIN routes_ /\ routes_'[i] = routes_[i]
                                   \/ routes_'[i] = Route(r)
    BY <2>1, <2>2 DEF RoutesIn
  <2>6. RemovedInv'  BY <2>1, <2>3, <2>5 DEF RemovedInv
  <2> QED  BY <2>1, <2>4, <2>6 DEF LoopInv, RoutesIn
<1>3. ASSUME NEW p, RemoveRoute(p)
      PROVE  RoutesIn(S)' /\ LoopInv' /\ RemovedInv'
  <2>1. next' = 0 /\ removed' = removed \cup {p}  BY <1>3 DEF RemoveRoute, lookupVars
  <2> DEFINE m == Cardinality(Others(p))
  <2>2. m \in Nat
    <3>1. DOMAIN routes_ = 1 .. Len(routes_)  BY DEF RoutesIn
    <3>2. IsFiniteSet(DOMAIN routes_)  BY <1>1, <3>1, FS_Interval
    <3>3. Others(p) \in SUBSET DOMAIN routes_  BY DEF Others
    <3>4. IsFiniteSet(Others(p))  BY <3>2, <3>3, FS_Subset
    <3> QED  BY <3>4, FS_CardinalityType
  <2>3. PICK kept \in [1..m -> Others(p)] : routes_' = [k \in 1..m |-> routes_[kept[k]]]
    BY <1>3 DEF RemoveRoute, Kept
  <2> HIDE DEF m
  <2>4. \A k \in 1..m : routes_[kept[k]] \in S /\ kept[k] \in Others(p)
    BY <2>3 DEF RoutesIn, Others
  <2>5. routes_' \in Seq(S) /\ Len(routes_') \in Nat
    BY <2>2, <2>3, <2>4
  <2>6. RemovedInv'
    BY <2>1, <2>3, <2>4 DEF RemovedInv, Others
  <2> QED  BY <2>1, <2>5, <2>6 DEF LoopInv, RoutesIn
<1>4. ASSUME NEW g, SetDefaultGateway(g)
      PROVE  RoutesIn(S)' /\ LoopInv' /\ RemovedInv'
  BY <1>4 DEF SetDefaultGateway, lookupVars, LoopInv, RoutesIn, RemovedInv
<1> QED  BY <1>2, <1>3, <1>4 DEF ChangeRoutes

(* What the two invariants say once the loop is over.                      *)
LEMMA LoopEnd ==
  ASSUME NEW S, RoutesIn(S), LoopInv, RemovedInv
  PROVE  LookupIsLongest /\ RemovedStaysAway
<1>1. SUFFICES ASSUME LookupDone PROVE LookupIsLongest /\ RemovedStaysAway
  BY DEF LookupIsLongest, RemovedStaysAway
<1>2. /\ Len(routes_) \in Nat /\ next - 1 = Len(routes_) /\ next > 0
      /\ DOMAIN routes_ = 1 .. next - 1
  BY <1>1 DEF LookupDone, LoopInv, RoutesIn
<1>3. CASE NoneYet(next - 1)
  BY <1>2, <1>3 DEF LookupIsLongest, RemovedStaysAway, NoneYet
<1>4. ASSUME NEW i \in 1 .. next - 1, Best(i, next - 1)
      PROVE  LookupIsLongest /\ RemovedStaysAway
  <2>1. RemovedStaysAway  BY <1>2, <1>4 DEF RemovedStaysAway, RemovedInv, Best
  <2>2. LookupIsLongest  BY <1>2, <1>4 DEF LookupIsLongest, Best, Lesser
  <2> QED  BY <2>1, <2>2
<1> QED  BY <1>2, <1>3, <1>4 DEF LoopInv

RoutingInv == RoutesIn(Kinds) /\ LoopInv /\ RemovedInv

LEMMA RoutingInductive == RoutingSpec => []RoutingInv
<1>1. RoutingInit => RoutingInv
  <2> SUFFICES ASSUME RoutingInit PROVE RoutingInv
    OBVIOUS
  <2>1. routes_ = <<>> /\ next = 0  BY DEF RoutingInit
  <2>2. <<>> \in Seq(Kinds) /\ Len(<<>>) = 0 /\ DOMAIN <<>> = {}  OBVIOUS
  <2> QED  BY <2>1, <2>2, KindsTyped DEF RoutingInv, RoutesIn, LoopInv, RemovedInv
<1>2. RoutingInv /\ [RoutingNext]_routingVars => RoutingInv'
  <2> SUFFICES ASSUME RoutingInv, [RoutingNext]_routingVars PROVE RoutingInv'
    OBVIOUS
  <2>1. CASE LookupRoute
    BY <2>1, LookupLoop DEF RoutingInv, RoutesIn, RemovedInv
  <2>2. CASE ChangeRoutes
    BY <2>2, ChangeLoop DEF RoutingInv
  <2>3. CASE UNCHANGED routingVars
    BY <2>3 DEF RoutingInv, RoutesIn, LoopInv, NoneYet, Best, Lesser, RemovedInv,
                routingVars, lookupVars
  <2> QED  BY <2>1, <2>2, <2>3 DEF RoutingNext
<1> QED  BY <1>1, <1>2, PTL DEF RoutingSpec

(* A lookup returns a route of the longest prefix, the first of its kind.  *)
THEOREM LookupsAreLongest == RoutingSpec => []LookupIsLongest
<1>1. RoutingInv => LookupIsLongest  BY LoopEnd DEF RoutingInv
<1> QED  BY <1>1, RoutingInductive, PTL

(* A route that was removed is returned by no lookup.                      *)
THEOREM RemovalIsComplete == RoutingSpec => []RemovedStaysAway
<1>1. RoutingInv => RemovedStaysAway  BY LoopEnd DEF RoutingInv
<1> QED  BY <1>1, RoutingInductive, PTL
=============================================================================
