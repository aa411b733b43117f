SPECIFICATION FairSpec
CONSTANTS
    Workers = {w1, w2}
    Clients = {c1, c2}
    MaxJobs = 4
INVARIANTS TypeOK WorkConserving
PROPERTIES FutureSettled ImplementsService
