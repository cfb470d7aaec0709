--------------------------- MODULE MCHomeNetwork ---------------------------
(* A plan for TLC that is small enough to use up, and checks of the real one. *)
EXTENDS HomeNetwork

SmallPlan  == [A |-> SubnetInfo(<<192,168,1,0>>, <<255,255,255,248>>, <<192,168,1,1>>, 29, 6),
               B |-> SubnetInfo(<<192,168,1,8>>, <<255,255,255,252>>, <<192,168,1,9>>, 30, 2)]
SmallOrder == <<"A", "B">>
Base       == [network |-> <<192,168,1,0>>, cidr |-> 24]
Gate       == [gateway |-> <<192,168,1,1>>, interface_ |-> "B"]
OtherGates == {Gate}

\* A cheaper copy of A's route, and a route to a part of A.
OtherRoutes ==
    {[destination |-> <<192,168,1,0>>, cidr |-> 29, gateway |-> <<192,168,1,6>>,
      interface_ |-> "X", metric |-> 0],
     [destination |-> <<192,168,1,4>>, cidr |-> 30, gateway |-> <<192,168,1,5>>,
      interface_ |-> "Y", metric |-> 1]}
SomeQueries == {<<192,168,1,5>>, <<192,168,1,10>>, <<10,0,0,1>>}

\* The plan of the house is one the theorems are about.
Real == INSTANCE SubnetManager WITH Configs <- getSubnetConfigurations
ASSUME RealPlanSound == Real!PlanAssumption

\* Its written-out masks and gateways are those of the prefix lengths.
ASSUME RealPlanConsistent ==
    \A s \in Real!Names : /\ getSubnetConfigurations[s].subnetMask = cidrToMask(getSubnetConfigurations[s].cidr)
                          /\ getSubnetConfigurations[s].gateway = Real!Address(s, 1)
=============================================================================
