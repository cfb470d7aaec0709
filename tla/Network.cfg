\* A plan whose subnets run out of addresses, and the routes it makes.
SPECIFICATION HomeSpec
CONSTANTS
    Configs <- SmallPlan
    Strangers = {"NonExistent"}
    MaxIssued = 8
    PlanOrder <- SmallOrder
    HomeGateway <- Gate
    HomeBase <- Base
    Candidates <- OtherRoutes
    Gateways <- OtherGates
    Queries <- SomeQueries
    MaxRoutes = 4
INVARIANTS TypeOK LeasesUnique LeasesUsable UsedUpBeforeThrow
    LookupIsLongest RemovedStaysAway PingAgreesWithArp
