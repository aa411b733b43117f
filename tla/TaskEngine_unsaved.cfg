SPECIFICATION FairSpec
CONSTANTS
    Workers = {w1, w2}
    Main = main
    PoolSize = 2
    Ops = {"work", "pause"}
    Targets = {1}
    Backends = {TRUE}
    MaxCommands = 2
    MaxShards = 1
    MaxWait = 1
PROPERTIES PauseLeadsToSnapshot
