----------------------------- MODULE ARPProofs -----------------------------
(* Static entries and answers, for any threads, addresses and MACs.  Of    *)
(* what generateMAC computes they only need that it is not the empty text; *)
(* the types need that it is five bytes, by induction over the text.       *)
EXTENDS ARPTable, WellFoundedInduction, TLAPS

(* The least-number principle, and so induction.                           *)
LEMMA LeastNumber ==
  ASSUME NEW T, T \subseteq Nat, T # {}
  PROVE  \E m \in T : \A k \in T : m <= k
<1> DEFINE R == OpToRel(<, Nat)
<1>1. IsWellFoundedOn(R, Nat)  BY NatLessThanWellFounded
<1>2. \A i, j \in Nat : i < j => <<i, j>> \in R  BY DEF OpToRel
<1> HIDE DEF R
<1>3. PICK x \in T : \A y \in T : <<y, x>> \notin R  BY <1>1, WFMin
<1>4. ASSUME NEW y \in T PROVE x <= y
  <2>1. ~(y < x)  BY <1>2, <1>3
  <2> QED  BY <2>1
<1> QED  BY <1>4

LEMMA Induction ==
  ASSUME NEW S, 0 \in S, \A n \in Nat : n \in S => n + 1 \in S
  PROVE  Nat \subseteq S
<1> SUFFICES ASSUME Nat \ S # {} PROVE FALSE
  OBVIOUS
<1>1. PICK m \in Nat \ S : \A k \in Nat \ S : m <= k  BY LeastNumber
<1>2. m - 1 \in Nat /\ m - 1 \in S  BY <1>1
<1>3. (m - 1) + 1 \in S  BY <1>2
<1> QED  BY <1>1, <1>3

(* The two halves of an unsigned int, and the bytes of each.               *)
Half == 0..65535

LEMMA HalfIsNat == \A x \in Half : x \in Nat
  BY DEF Half

LEMMA Halves ==
  ASSUME NEW x \in Nat
  PROVE  /\ x % 65536 \in Half /\ x \div 65536 \in Nat
         /\ x \in Half => x \div 256 \in 0..255 /\ x \div 16 \in Nat
         /\ x % 256 \in 0..255
<1>1. x % 65536 \in Half  BY DEF Half
<1>2. x \div 65536 \in Nat /\ x \div 16 \in Nat /\ x % 256 \in 0..255  OBVIOUS
<1>3. ASSUME x \in Half PROVE x \div 256 \in 0..255
  <2>1. x < 65536  BY <1>3 DEF Half
  <2>2. x \div 256 <= 255  BY <2>1
  <2>3. x \div 256 \in Int /\ x \div 256 >= 0  OBVIOUS
  <2> QED  BY <2>2, <2>3
<1> QED  BY <1>1, <1>2, <1>3

LEMMA HashStepTyped ==
  ASSUME NEW hash \in [1..2 -> Half], NEW c \in Nat PROVE HashStep(hash, c) \in [1..2 -> Half]
<1>1. hash[1] \in Nat /\ hash[2] \in Nat
  <2>1. hash[1] \in Half /\ hash[2] \in Half  OBVIOUS
  <2> QED  BY <2>1, HalfIsNat
<1> DEFINE low == hash[2] * 31 + c
           high == hash[1] * 31 + (low \div 65536)
<1>2. low \in Nat  BY <1>1
<1> HIDE DEF low
<1>3. high \in Nat  BY <1>1, <1>2, Halves
<1> HIDE DEF high
<1>4. high % 65536 \in Half /\ low % 65536 \in Half  BY <1>2, <1>3, Halves
<1>5. HashStep(hash, c) = <<high % 65536, low % 65536>>  BY DEF HashStep, high, low
<1> QED  BY <1>4, <1>5

LEMMA MaxIsLast ==
  ASSUME NEW k \in Nat, NEW s, s \subseteq 1 .. k + 1
  PROVE  IF k + 1 \in s THEN Max(s) = k + 1 /\ s \ {k + 1} \subseteq 1..k
         ELSE s \subseteq 1..k
<1>1. ASSUME k + 1 \in s PROVE Max(s) = k + 1
  <2>1. k + 1 \in s /\ \A y \in s : k + 1 >= y  BY <1>1
  <2>2. Max(s) \in s /\ \A y \in s : Max(s) >= y  BY <2>1 DEF Max
  <2>3. Max(s) >= k + 1 /\ k + 1 >= Max(s)  BY <2>1, <2>2
  <2>4. Max(s) \in 1 .. k + 1  BY <2>2
  <2> QED  BY <2>3, <2>4
<1> QED  BY <1>1

LEMMA HashFold ==
  ASSUME NEW q \in Seq(Nat) PROVE FoldLeft(HashStep, <<0, 0>>, q) \in [1..2 -> Half]
<1> DEFINE U == [1..2 -> Half]
           Body(g, s) == IF s = {} THEN <<0, 0>> ELSE HashStep(g[s \ {Max(s)}], q[Max(s)])
           it == CHOOSE g : g = [s \in SUBSET (DOMAIN q) |-> Body(g, s)]
           Solves(g, k) == /\ g \in [SUBSET (1..k) -> U]
                           /\ \A s \in SUBSET (1..k) : g[s] = Body(g, s)
           n == Len(q)
<1>1. FoldLeft(HashStep, <<0, 0>>, q) = it[DOMAIN q]
  BY DEF FoldLeft, MapThenFoldSet
<1>2. n \in Nat /\ DOMAIN q = 1..n /\ \A i \in 1..n : q[i] \in Nat
  OBVIOUS
<1>3. <<0, 0>> \in U
  <2>1. 0 \in Half  BY DEF Half
  <2> QED  BY <2>1
<1>4. ASSUME NEW k \in Nat, k + 1 <= n, NEW g, Solves(g, k)
      PROVE  \E h : Solves(h, k + 1)
  <2> DEFINE h == [s \in SUBSET (1 .. k + 1) |->
                     IF k + 1 \in s THEN HashStep(g[s \ {k + 1}], q[k + 1]) ELSE g[s]]
  <2>1. ASSUME NEW s \in SUBSET (1 .. k + 1) PROVE h[s] \in U /\ h[s] = Body(h, s)
    <3>1. CASE k + 1 \in s
      <4>1. Max(s) = k + 1 /\ s \ {k + 1} \subseteq 1..k  BY <3>1, MaxIsLast
      <4>2. h[s] = HashStep(g[s \ {k + 1}], q[k + 1])  BY <3>1
      <4>3. h[s \ {k + 1}] = g[s \ {k + 1}]  OBVIOUS
      <4>4. q[k + 1] \in Nat /\ g[s \ {k + 1}] \in U  BY <1>2, <1>4, <4>1
      <4>5. h[s] \in U  BY <4>2, <4>4, HashStepTyped
      <4> HIDE DEF h
      <4> QED  BY <3>1, <4>1, <4>2, <4>3, <4>5
    <3>2. CASE k + 1 \notin s
      <4>1. s \subseteq 1..k  BY <3>2, MaxIsLast
      <4>2. h[s] = g[s] /\ h[s \ {Max(s)}] = g[s \ {Max(s)}]  BY <3>2
      <4>3. g[s] \in U /\ g[s] = Body(g, s)  BY <1>4, <4>1
      <4> HIDE DEF h
      <4> QED  BY <4>2, <4>3
    <3> QED  BY <3>1, <3>2
  <2>2. h \in [SUBSET (1 .. k + 1) -> U]  BY <2>1
  <2> HIDE DEF h
  <2> QED  BY <2>1, <2>2
<1>5. \E g : Solves(g, 0)
  <2> DEFINE g == [s \in SUBSET (1..0) |-> <<0, 0>>]
  <2>1. \A s \in SUBSET (1..0) : s = {} /\ g[s] = <<0, 0>>  OBVIOUS
  <2>2. g \in [SUBSET (1..0) -> U]  BY <1>3
  <2> HIDE DEF g
  <2>3. Solves(g, 0)  BY <2>1, <2>2
  <2> QED  BY <2>3
<1>6. PICK g : Solves(g, n)
  <2> DEFINE S == {k \in Nat : k <= n => \E g : Solves(g, k)}
  <2>1. 0 \in S  BY <1>5
  <2>2. ASSUME NEW k \in Nat, k \in S PROVE k + 1 \in S
    <3> HIDE DEF Solves
    <3> QED  BY <2>2, <1>2, <1>4
  <2>3. Nat \subseteq S
    <3> HIDE DEF S
    <3> QED  BY <2>1, <2>2, Induction
  <2> HIDE DEF Solves
  <2> QED  BY <1>2, <2>3
<1>7. it = [s \in SUBSET (1..n) |-> Body(it, s)]
  <2>1. g = [s \in SUBSET (1..n) |-> Body(g, s)]  BY <1>6
  <2> HIDE DEF Body
  <2> QED  BY <2>1, <1>2
<1> HIDE DEF it
<1>8. n \in {k \in Nat : k <= n => \A s \in SUBSET (1..k) : it[s] \in U}
  <2> DEFINE S == {k \in Nat : k <= n => \A s \in SUBSET (1..k) : it[s] \in U}
  <2>1. 0 \in S
    <3>1. \A s \in SUBSET (1..0) : s = {} /\ s \in SUBSET (1..n)  BY <1>2
    <3> QED  BY <3>1, <1>3, <1>7
  <2>2. ASSUME NEW k \in Nat, k \in S PROVE k + 1 \in S
    <3> SUFFICES ASSUME k + 1 <= n, NEW s \in SUBSET (1 .. k + 1) PROVE it[s] \in U
      OBVIOUS
    <3>1. \A t \in SUBSET (1..k) : it[t] \in U  BY <2>2, <1>2
    <3>2. CASE k + 1 \in s
      <4>1. Max(s) = k + 1 /\ s \ {k + 1} \subseteq 1..k  BY <3>2, MaxIsLast
      <4>2. s \in SUBSET (1..n)  BY <1>2
      <4>3. it[s] = HashStep(it[s \ {k + 1}], q[k + 1])  BY <1>7, <3>2, <4>1, <4>2
      <4>4. q[k + 1] \in Nat  BY <1>2
      <4>5. it[s \ {k + 1}] \in U  BY <3>1, <4>1
      <4> QED  BY <4>3, <4>4, <4>5, HashStepTyped
    <3>3. CASE k + 1 \notin s
      <4>1. s \subseteq 1..k  BY <3>3, MaxIsLast
      <4> QED  BY <3>1, <4>1
    <3> QED  BY <3>2, <3>3
  <2> HIDE DEF S
  <2>3. Nat \subseteq S  BY <2>1, <2>2, Induction
  <2> QED  BY <1>2, <2>3 DEF S
<1> QED  BY <1>1, <1>2, <1>8

-----------------------------------------------------------------------------
Bytes   == [1..5 -> 0..255]
AllMacs == Macs \cup {NoMac} \cup Bytes
Entries == [mac : AllMacs, age : 0..AgeCap, isStatic : BOOLEAN]

Typed == /\ table_ \in [Addresses -> Entries]
         /\ asking \in [Threads -> Addresses \cup {NoAddress}]
         /\ configured \in [Addresses -> Macs \cup {NoMac}]
         /\ told \in [Addresses -> SUBSET (AllMacs \ {NoMac})]
         /\ overtaken \subseteq Addresses

(* What a request that is under way for ip has to find.                    *)
InFlight(ip) == /\ configured[ip] = NoMac
                /\ resolve(ip) \in {NoMac, generateMAC(ip)}
                /\ told[ip] \subseteq {generateMAC(ip)}

(* All there is to say of one address.                                     *)
Sound(ip) == ip \notin overtaken =>
               /\ configured[ip] # NoMac => resolve(ip) = configured[ip] /\ table_[ip].isStatic
               /\ told[ip] \subseteq {resolve(ip)}
               /\ (\E t \in Threads : asking[t] = ip) => InFlight(ip)

ARPInv == Typed /\ \A ip \in Addresses : Sound(ip)

LEMMA MacIsNotEmpty == \A ip : generateMAC(ip) # NoMac
  BY DEF generateMAC, NoMac

LEMMA DigitsTyped == ASSUME NEW n \in 0..255 PROVE Digits(n) \in Seq(Nat)
<1>1. n \div 100 \in Nat /\ n \div 10 \in Nat /\ n % 10 \in Nat  OBVIOUS
<1>2. (n \div 10) % 10 \in Nat  BY <1>1
<1>3. n \in Nat  OBVIOUS
<1> QED  BY <1>1, <1>2, <1>3 DEF Digits

LEMMA BytesOfHalf ==
  ASSUME NEW x \in Half
  PROVE  x % 256 \in 0..255 /\ x \div 256 \in 0..255 /\ (x \div 16) % 256 \in 0..255
<1>1. x \in Nat  BY HalfIsNat
<1>2. x \div 16 \in Nat  BY <1>1, Halves
<1> QED  BY <1>1, <1>2, Halves

(* The MAC made up for an address is five bytes.                           *)
LEMMA MacIsFiveBytes == ASSUME NEW ip \in [1..4 -> 0..255] PROVE generateMAC(ip) \in Bytes
<1>1. Text(ip) \in Seq(Nat)
  <2>1. <<46>> \in Seq(Nat) /\ 1 \in 1..4 /\ 2 \in 1..4 /\ 3 \in 1..4 /\ 4 \in 1..4
    OBVIOUS
  <2>2. \A i \in 1..4 : Digits(ip[i]) \in Seq(Nat)  BY DigitsTyped
  <2>3. \A a, b \in Seq(Nat) : a \o b \in Seq(Nat)  OBVIOUS
  <2> QED  BY <2>1, <2>2, <2>3 DEF Text
<1> DEFINE hash == FoldLeft(HashStep, <<0, 0>>, Text(ip))
<1>2. hash \in [1..2 -> Half]  BY <1>1, HashFold
<1> HIDE DEF hash
<1>3. hash[1] \in Half /\ hash[2] \in Half  BY <1>2
<1> DEFINE a == hash[2] % 256  b == hash[2] \div 256  c == hash[1] % 256  d == hash[1] \div 256
           e == (hash[2] \div 16) % 256
<1>4. /\ a \in 0..255 /\ b \in 0..255 /\ c \in 0..255 /\ d \in 0..255 /\ e \in 0..255
  BY <1>3, BytesOfHalf, Zenon
<1>5. generateMAC(ip) = <<a, b, c, d, e>>  BY DEF generateMAC, hash
<1> HIDE DEF a, b, c, d, e
<1>6. <<a, b, c, d, e>> \in Bytes  BY <1>4 DEF Bytes
<1> QED  BY <1>5, <1>6, Zenon

LEMMA AbsentTyped == Absent \in Entries /\ Absent.mac = NoMac
  BY ARPAssumption DEF Absent, Entry, Entries, AllMacs

LEMMA InitARP == Init => ARPInv
<1> SUFFICES ASSUME Init PROVE ARPInv
  OBVIOUS
<1>1. Typed  BY AbsentTyped DEF Init, Typed
<1>2. ASSUME NEW ip \in Addresses PROVE Sound(ip)
  BY <1>2, ARPAssumption DEF Init, Sound
<1> QED  BY <1>1, <1>2 DEF ARPInv

\* An action that changes nothing but what is asked and told of one address.
LEMMA HitKeeps ==
  ASSUME ARPInv, NEW t \in Threads, NEW ip \in Addresses, ArpHit(t, ip) PROVE ARPInv'
<1>1. /\ resolve(ip) # NoMac /\ told' = [told EXCEPT ![ip] = told[ip] \cup {resolve(ip)}]
      /\ table_' = table_ /\ asking' = asking /\ configured' = configured /\ overtaken' = overtaken
  BY DEF ArpHit, Tell
<1>2. resolve(ip) \in AllMacs \ {NoMac}  BY <1>1 DEF ARPInv, Typed, Entries, resolve
<1>3. Typed'  BY <1>1, <1>2 DEF ARPInv, Typed
<1>4. ASSUME NEW x \in Addresses PROVE Sound(x)'
  <2>1. Sound(x) /\ told \in [Addresses -> SUBSET (AllMacs \ {NoMac})]
    BY DEF ARPInv, Typed
  <2>2. CASE x = ip  BY <1>1, <2>1, <2>2 DEF Sound, InFlight, resolve
  <2>3. CASE x # ip  BY <1>1, <2>1, <2>3 DEF Sound, InFlight, resolve
  <2> QED  BY <2>2, <2>3
<1> QED  BY <1>3, <1>4 DEF ARPInv

LEMMA MissKeeps ==
  ASSUME ARPInv, NEW t \in Threads, NEW ip \in Addresses, ArpMiss(t, ip) PROVE ARPInv'
<1>1. /\ resolve(ip) = NoMac /\ asking' = [asking EXCEPT ![t] = ip]
      /\ table_' = table_ /\ configured' = configured /\ overtaken' = overtaken /\ told' = told
  BY DEF ArpMiss
<1>2. Typed'  BY <1>1 DEF ARPInv, Typed
<1>3. ASSUME NEW x \in Addresses PROVE Sound(x)'
  <2>1. /\ Sound(x) /\ told[x] \subseteq AllMacs \ {NoMac}
        /\ asking \in [Threads -> Addresses \cup {NoAddress}]
    BY DEF ARPInv, Typed
  <2>2. CASE x = ip
    <3>1. ip \notin overtaken => configured[ip] = NoMac /\ told[ip] = {}
      BY <1>1, <2>1, <2>2 DEF Sound
    <3>2. ip \notin overtaken => InFlight(ip)  BY <3>1, <1>1 DEF InFlight
    <3> QED  BY <1>1, <2>1, <2>2, <3>2 DEF Sound, InFlight, resolve
  <2>3. CASE x # ip
    <3>1. (\E u \in Threads : asking'[u] = x) => \E u \in Threads : asking[u] = x
      BY <1>1, <2>1, <2>3
    <3> QED  BY <1>1, <2>1, <3>1 DEF Sound, InFlight, resolve
  <2> QED  BY <2>2, <2>3
<1> QED  BY <1>2, <1>3 DEF ARPInv

LEMMA InsertKeeps ==
  ASSUME ARPInv, NEW t \in Threads, NEW ip \in Addresses, ArpInsert(t, ip) PROVE ARPInv'
<1> DEFINE g == generateMAC(ip)
<1>1. /\ asking[t] = ip /\ table_' = [table_ EXCEPT ![ip] = Entry(g, FALSE)]
      /\ asking' = [asking EXCEPT ![t] = NoAddress]
      /\ told' = [told EXCEPT ![ip] = told[ip] \cup {g}]
      /\ configured' = configured /\ overtaken' = overtaken
  BY DEF ArpInsert, Tell
<1>2. g \in AllMacs \ {NoMac}
  <2>1. g \in Bytes  BY MacIsFiveBytes, ARPAssumption
  <2> QED  BY <2>1, MacIsNotEmpty DEF AllMacs
<1>3. Entry(g, FALSE) \in Entries /\ Entry(g, FALSE).mac = g
  BY <1>2, ARPAssumption DEF Entry, Entries
<1>4. Typed
  BY DEF ARPInv
<1>5. Typed'  BY <1>1, <1>2, <1>3, <1>4 DEF Typed
<1>6. ASSUME NEW x \in Addresses PROVE Sound(x)'
  <2>1. Sound(x)  BY DEF ARPInv
  <2>2. (\E u \in Threads : asking'[u] = x) => \E u \in Threads : asking[u] = x
    BY <1>1, <1>4, ARPAssumption DEF Typed
  <2>3. CASE x = ip
    <3>1. ip \notin overtaken => InFlight(ip)  BY <1>1, <2>1, <2>3 DEF Sound
    <3>2. table_'[ip].mac = g /\ told'[ip] = told[ip] \cup {g}
      BY <1>1, <1>3, <1>4 DEF Typed
    <3> QED  BY <1>1, <2>3, <3>1, <3>2 DEF Sound, InFlight, resolve
  <2>4. CASE x # ip
    <3>1. table_'[x] = table_[x] /\ told'[x] = told[x]  BY <1>1, <1>4, <2>4 DEF Typed
    <3> QED  BY <1>1, <2>1, <2>2, <3>1 DEF Sound, InFlight, resolve
  <2> QED  BY <2>3, <2>4
<1> QED  BY <1>5, <1>6 DEF ARPInv

LEMMA AddKeeps ==
  ASSUME ARPInv, NEW ip \in Addresses, NEW mac \in Macs, NEW isStatic \in BOOLEAN,
         AddEntry(ip, mac, isStatic)
  PROVE  ARPInv'
<1> DEFINE set == IF isStatic THEN mac ELSE NoMac
<1>1. /\ table_' = [table_ EXCEPT ![ip] = Entry(mac, isStatic)]
      /\ configured' = [configured EXCEPT ![ip] = set]
      /\ told' = [told EXCEPT ![ip] = {}] /\ asking' = asking
      /\ overtaken' \subseteq overtaken \cup {ip}
  BY DEF AddEntry
<1>2. /\ Entry(mac, isStatic) \in Entries /\ set \in Macs \cup {NoMac}
      /\ Entry(mac, isStatic).mac = mac /\ Entry(mac, isStatic).isStatic = isStatic
  BY ARPAssumption DEF Entry, Entries, AllMacs
<1>3. Typed  BY DEF ARPInv
<1>4. Typed'  BY <1>1, <1>2, <1>3 DEF Typed
<1>5. ASSUME NEW x \in Addresses PROVE Sound(x)'
  <2>1. Sound(x)  BY DEF ARPInv
  <2>2. CASE x = ip
    <3>1. ip \notin overtaken' => ~\E t \in Threads : asking'[t] = ip
      BY <1>1 DEF AddEntry
    <3>2. /\ table_'[ip].mac = mac /\ table_'[ip].isStatic = isStatic
          /\ configured'[ip] = set /\ told'[ip] = {}
      BY <1>1, <1>2, <1>3 DEF Typed
    <3> QED  BY <2>2, <3>1, <3>2 DEF Sound, resolve
  <2>3. CASE x # ip
    <3>1. table_'[x] = table_[x] /\ told'[x] = told[x] /\ configured'[x] = configured[x]
      BY <1>1, <1>3, <2>3 DEF Typed
    <3>2. x \notin overtaken' => x \notin overtaken  BY <2>3 DEF AddEntry
    <3> QED  BY <1>1, <2>1, <3>1, <3>2 DEF Sound, InFlight, resolve
  <2> QED  BY <2>2, <2>3
<1> QED  BY <1>4, <1>5 DEF ARPInv

LEMMA RemoveKeeps ==
  ASSUME ARPInv, NEW ip \in Addresses, RemoveEntry(ip) PROVE ARPInv'
<1>1. /\ table_' = [table_ EXCEPT ![ip] = Absent]
      /\ configured' = [configured EXCEPT ![ip] = NoMac]
      /\ told' = [told EXCEPT ![ip] = {}] /\ asking' = asking
      /\ overtaken' = overtaken \ {ip}
  BY DEF RemoveEntry
<1>2. Typed  BY DEF ARPInv
<1>3. Typed'  BY <1>1, <1>2, AbsentTyped DEF Typed
<1>4. ASSUME NEW x \in Addresses PROVE Sound(x)'
  <2>1. Sound(x)  BY DEF ARPInv
  <2>2. CASE x = ip
    <3>1. table_'[ip].mac = NoMac /\ configured'[ip] = NoMac /\ told'[ip] = {}
      BY <1>1, <1>2, AbsentTyped DEF Typed
    <3> QED  BY <2>2, <3>1 DEF Sound, InFlight, resolve
  <2>3. CASE x # ip
    <3>1. table_'[x] = table_[x] /\ told'[x] = told[x] /\ configured'[x] = configured[x]
      BY <1>1, <1>2, <2>3 DEF Typed
    <3> QED  BY <1>1, <2>1, <2>3, <3>1 DEF Sound, InFlight, resolve
  <2> QED  BY <2>2, <2>3
<1> QED  BY <1>3, <1>4 DEF ARPInv

LEMMA FlushKeeps == ASSUME ARPInv, NEW maxAge, FlushExpired(maxAge) PROVE ARPInv'
<1>1. /\ table_' = [x \in Addresses |-> IF Expired(x, maxAge) THEN Absent ELSE table_[x]]
      /\ told' = [x \in Addresses |-> IF Expired(x, maxAge) THEN {} ELSE told[x]]
      /\ asking' = asking /\ configured' = configured /\ overtaken' = overtaken
  BY DEF FlushExpired
<1>2. Typed  BY DEF ARPInv
<1>3. Typed'  BY <1>1, <1>2, AbsentTyped DEF Typed
<1>4. ASSUME NEW x \in Addresses PROVE Sound(x)'
  <2>1. Sound(x)  BY DEF ARPInv
  <2>2. CASE Expired(x, maxAge)
    <3>1. table_'[x].mac = NoMac /\ told'[x] = {} /\ ~table_[x].isStatic
      BY <1>1, <2>2, AbsentTyped DEF Expired
    <3> QED  BY <1>1, <2>1, <3>1 DEF Sound, InFlight, resolve
  <2>3. CASE ~Expired(x, maxAge)
    <3>1. table_'[x] = table_[x] /\ told'[x] = told[x]  BY <1>1, <2>3
    <3> QED  BY <1>1, <2>1, <3>1 DEF Sound, InFlight, resolve
  <2> QED  BY <2>2, <2>3
<1> QED  BY <1>3, <1>4 DEF ARPInv

LEMMA TickKeeps == ASSUME ARPInv, Tick PROVE ARPInv'
<1>1. /\ told' = told /\ asking' = asking /\ configured' = configured
      /\ overtaken' = overtaken
  BY DEF Tick
<1>2. Typed  BY DEF ARPInv
<1>3. ASSUME NEW x \in Addresses
      PROVE  /\ table_'[x] \in Entries /\ table_'[x].mac = table_[x].mac
             /\ table_'[x].isStatic = table_[x].isStatic
  <2>1. table_[x] \in Entries  BY <1>2 DEF Typed
  <2>2. \/ table_'[x] = table_[x]
        \/ ~(table_[x].age >= AgeCap) /\ table_'[x] = [table_[x] EXCEPT !.age = @ + 1]
    BY DEF Tick
  <2>3. table_[x].age \in 0..AgeCap /\ AgeCap \in Nat  BY <2>1, ARPAssumption DEF Entries
  <2>4. ~(table_[x].age >= AgeCap) => table_[x].age + 1 \in 0..AgeCap  BY <2>3
  <2> QED  BY <2>1, <2>2, <2>4 DEF Entries
<1>4. table_' \in [Addresses -> Entries]  BY <1>3 DEF Tick
<1>5. Typed'  BY <1>1, <1>2, <1>4 DEF Typed
<1>6. ASSUME NEW x \in Addresses PROVE Sound(x)'
  <2>1. Sound(x)  BY DEF ARPInv
  <2> QED  BY <1>1, <1>3, <2>1 DEF Sound, InFlight, resolve
<1> QED  BY <1>5, <1>6 DEF ARPInv

LEMMA ARPInductive == Spec => []ARPInv
<1>1. ARPInv /\ [Next]_vars => ARPInv'
  <2> SUFFICES ASSUME ARPInv, [Next]_vars PROVE ARPInv'
    OBVIOUS
  <2>1. CASE UNCHANGED vars
    BY <2>1 DEF vars, ARPInv, Typed, Sound, InFlight, resolve
  <2> QED  BY <2>1, HitKeeps, MissKeeps, InsertKeeps, AddKeeps, RemoveKeeps, FlushKeeps,
              TickKeeps DEF Next
<1> QED  BY <1>1, InitARP, PTL DEF Spec

(* Only a request that looked before a static entry was made can write     *)
(* over it.                                                                *)
THEOREM StaticEntriesSurvive == Spec => []StaticSurvives
<1>1. ARPInv => StaticSurvives  BY DEF ARPInv, Sound, StaticSurvives, resolve
<1> QED  BY <1>1, ARPInductive, PTL

(* All threads that ask for one address hear one MAC, the table's.         *)
THEOREM AnswersAgree == Spec => []AnswersStand
<1>1. ARPInv => AnswersStand  BY DEF ARPInv, Sound, AnswersStand
<1> QED  BY <1>1, ARPInductive, PTL

(* The types of the table, for any threads and addresses: every MAC in it  *)
(* or answered is one somebody configured or five bytes.                   *)
THEOREM ARPTypes == Spec => []TypeOK
<1>1. ARPInv => TypeOK
  <2> SUFFICES ASSUME Typed PROVE TypeOK
    BY DEF ARPInv
  <2>1. AllMacs \ {NoMac} \subseteq Macs \cup [1..5 -> 0..255]  BY DEF AllMacs, Bytes
  <2>2. told \in [Addresses -> SUBSET (Macs \cup [1..5 -> 0..255])]  BY <2>1 DEF Typed
  <2>3. table_ \in [Addresses -> [mac : Macs \cup {NoMac} \cup [1..5 -> 0..255],
                                  age : 0..AgeCap, isStatic : BOOLEAN]]
    BY DEF Typed, Entries, AllMacs, Bytes
  <2> QED  BY <2>2, <2>3 DEF Typed, TypeOK
<1> QED  BY <1>1, ARPInductive, PTL
=============================================================================
