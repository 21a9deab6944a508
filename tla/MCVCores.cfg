\* Three tasks compete for two cores while a reader samples the account.
SPECIFICATION CoresSpec
CONSTANTS
    Tasks = {a, b, c}
    max_cores = 2
    MaxTime = 2
SYMMETRY TaskSymmetry
INVARIANTS TicketsExact UtilizationBounded UnusedWithinMove
