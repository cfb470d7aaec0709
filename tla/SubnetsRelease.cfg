\* Releasing and allocating again.
SPECIFICATION HomeSpec
CONSTANTS
    Configs <- SmallPlan
    Strangers = {"NonExistent"}
    MaxIssued = 8
    PlanOrder <- SmallOrder
    HomeGateway <- Gate
    HomeBase <- Base
    Candidates <- OtherRoutes
    Gateways <- OtherGates
    Queries <- SomeQueries
    MaxRoutes = 4
INVARIANT ReleasedComesBack
