SPECIFICATION Spec
CONSTANTS
    Workers = {w1, w2}
    Main = main
    PoolSize = 3
    Ops = {"work", "pause", "resume"}
    Targets = {1}
    Backends = {TRUE}
    MaxCommands = 4
    MaxShards = 2
    MaxWait = 1
SYMMETRY WorkerSymmetry
INVARIANTS PausedTaskKept
