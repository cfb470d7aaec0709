------------------------------ MODULE ARPTable ------------------------------
(***************************************************************************)
(* src/network/ARPTable.cpp.  Every method is one critical section under   *)
(* arpMutex_, one step, except arpRequest: its lookup and its insertion    *)
(* are two, and other threads run in between.                              *)
(***************************************************************************)
EXTENDS Integers, Sequences, SequencesExt

CONSTANTS Threads,    \* the threads that call arpRequest
          Addresses,  \* IP addresses, as octets
          Macs,       \* what addEntry is called with
          Limits,     \* what flushExpired is called with
          AgeCap,     \* bound: an entry this old, in seconds, gets no older
          NoAddress   \* no request under way

NoMac == <<>>         \* the empty text

ASSUME ARPAssumption == /\ Addresses \subseteq [1..4 -> 0..255] /\ NoAddress \notin Addresses
                        /\ AgeCap \in Nat /\ Limits \subseteq Int

\* Decimal digits and dots as character codes.
Digits(n) == IF n < 10 THEN <<48 + n>>
             ELSE IF n < 100 THEN <<48 + (n \div 10), 48 + (n % 10)>>
             ELSE <<48 + (n \div 100), 48 + ((n \div 10) % 10), 48 + (n % 10)>>
Text(ip)  == Digits(ip[1]) \o <<46>> \o Digits(ip[2]) \o <<46>> \o
             Digits(ip[3]) \o <<46>> \o Digits(ip[4])

\* hash * 31 + c, modulo 2^32, on the upper and lower 16 bits.
HashStep(hash, c) == LET low == hash[2] * 31 + c
                     IN <<(hash[1] * 31 + (low \div 65536)) % 65536, low % 65536>>

\* MUTANT: a byte is written without its mask.
UnmaskedMAC(ip) == LET hash == FoldLeft(HashStep, <<0, 0>>, Text(ip))
                   IN <<hash[2] % 256, hash[2] \div 256, hash[1] % 256, hash[1] \div 256,
                        hash[2] \div 16>>

generateMAC(ip) == LET hash == FoldLeft(HashStep, <<0, 0>>, Text(ip))
                   IN <<hash[2] % 256, hash[2] \div 256, hash[1] % 256, hash[1] \div 256,
                        (hash[2] \div 16) % 256>>
-----------------------------------------------------------------------------
VARIABLES table_,      \* by address, its entry
          asking,      \* by thread, the address its lookup did not find
          configured,  \* by address, the MAC of the static entry it was given (history)
          overtaken,   \* addresses given an entry while a request was under way (history)
          told         \* by address, the MACs answered since its entry was last set
                       \* or dropped by other means than a request (history)

vars == <<table_, asking, configured, overtaken, told>>

Entry(mac, isStatic) == [mac |-> mac, age |-> 0, isStatic |-> isStatic]
Absent == Entry(NoMac, FALSE)

Init == /\ table_ = [ip \in Addresses |-> Absent]
        /\ asking = [t \in Threads |-> NoAddress]
        /\ configured = [ip \in Addresses |-> NoMac]
        /\ overtaken = {}
        /\ told = [ip \in Addresses |-> {}]

resolve(ip) == table_[ip].mac
Tell(ip, mac) == told' = [told EXCEPT ![ip] = @ \cup {mac}]

ArpHit(t, ip) == /\ asking[t] = NoAddress
                 /\ resolve(ip) # NoMac
                 /\ Tell(ip, resolve(ip))
                 /\ UNCHANGED <<table_, asking, configured, overtaken>>

\* MUTANT: the cache is not consulted.
ArpMissAlways(t, ip) == /\ asking[t] = NoAddress
                        /\ asking' = [asking EXCEPT ![t] = ip]
                        /\ UNCHANGED <<table_, configured, overtaken, told>>

ArpMiss(t, ip) == /\ asking[t] = NoAddress
                  /\ resolve(ip) = NoMac
                  /\ asking' = [asking EXCEPT ![t] = ip]
                  /\ UNCHANGED <<table_, configured, overtaken, told>>

ArpInsert(t, ip) == /\ asking[t] = ip
                    /\ table_' = [table_ EXCEPT ![ip] = Entry(generateMAC(ip), FALSE)]
                    /\ asking' = [asking EXCEPT ![t] = NoAddress]
                    /\ Tell(ip, generateMAC(ip))
                    /\ UNCHANGED <<configured, overtaken>>

AddEntry(ip, mac, isStatic) ==
    /\ table_' = [table_ EXCEPT ![ip] = Entry(mac, isStatic)]
    /\ configured' = [configured EXCEPT ![ip] = IF isStatic THEN mac ELSE NoMac]
    /\ overtaken' = IF \E t \in Threads : asking[t] = ip
                    THEN overtaken \cup {ip} ELSE overtaken \ {ip}
    /\ told' = [told EXCEPT ![ip] = {}]
    /\ UNCHANGED asking

RemoveEntry(ip) == /\ table_' = [table_ EXCEPT ![ip] = Absent]
                   /\ configured' = [configured EXCEPT ![ip] = NoMac]
                   /\ overtaken' = overtaken \ {ip}
                   /\ told' = [told EXCEPT ![ip] = {}]
                   /\ UNCHANGED asking

\* MUTANT: static entries expire too.
AllExpired(ip, maxAge) == table_[ip].age > maxAge

Expired(ip, maxAge) == ~table_[ip].isStatic /\ table_[ip].age > maxAge

FlushExpired(maxAge) ==
    /\ table_' = [ip \in Addresses |-> IF Expired(ip, maxAge) THEN Absent ELSE table_[ip]]
    /\ told' = [ip \in Addresses |-> IF Expired(ip, maxAge) THEN {} ELSE told[ip]]
    /\ UNCHANGED <<asking, configured, overtaken>>

\* One second of the steady clock.
Tick == /\ table_' = [ip \in Addresses |->
                        IF resolve(ip) = NoMac \/ table_[ip].age >= AgeCap THEN table_[ip]
                        ELSE [table_[ip] EXCEPT !.age = @ + 1]]
        /\ UNCHANGED <<asking, configured, overtaken, told>>

Next == \/ \E t \in Threads, ip \in Addresses :
              ArpHit(t, ip) \/ ArpMiss(t, ip) \/ ArpInsert(t, ip)
        \/ \E ip \in Addresses, mac \in Macs, isStatic \in BOOLEAN : AddEntry(ip, mac, isStatic)
        \/ \E ip \in Addresses : RemoveEntry(ip)
        \/ \E maxAge \in Limits : FlushExpired(maxAge)
        \/ Tick

Spec == Init /\ [][Next]_vars
-----------------------------------------------------------------------------
(* Every MAC in the table is one somebody configured or five bytes.        *)
TypeOK == /\ table_ \in [Addresses -> [mac : Macs \cup {NoMac} \cup [1..5 -> 0..255],
                                       age : 0..AgeCap, isStatic : BOOLEAN]]
          /\ asking \in [Threads -> Addresses \cup {NoAddress}]
          /\ configured \in [Addresses -> Macs \cup {NoMac}]
          /\ overtaken \subseteq Addresses
          /\ told \in [Addresses -> SUBSET (Macs \cup [1..5 -> 0..255])]

(* A static entry stays until somebody replaces or removes it, whatever is *)
(* asked or flushed meanwhile.  The exception is the gap in arpRequest: a  *)
(* request that had looked before the entry was made may write over it.    *)
StaticSurvives ==
    \A ip \in Addresses \ overtaken : configured[ip] # NoMac =>
        table_[ip].mac = configured[ip] /\ table_[ip].isStatic

(* Threads that ask for one address, at the same time or one after the     *)
(* other, hear the same MAC, and it is what the table says as long as the  *)
(* entry is neither set, removed nor flushed; with the same exception.     *)
AnswersStand == \A ip \in Addresses \ overtaken : told[ip] \subseteq {resolve(ip)}
=============================================================================
