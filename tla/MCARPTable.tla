----------------------------- MODULE MCARPTable -----------------------------
(* A small instance of ARPTable, and a check of generateMAC. *)
EXTENDS ARPTable, FiniteSets, TLC

TwoLights == {<<192,168,1,2>>, <<192,168,1,3>>}
SomeMacs  == {NoMac, <<170>>}
SomeLimits == {-1, 1}
Symmetry  == Permutations(Threads)

\* The addresses of the house all get different MACs.
House == {<<192,168,1,h>> : h \in 0..255}
ASSUME MacsDistinct == Cardinality({generateMAC(ip) : ip \in House}) = Cardinality(House)
=============================================================================
