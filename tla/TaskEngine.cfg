SPECIFICATION FairSpec
CONSTANTS
    Workers = {w1, w2}
    Main = main
    PoolSize = 2
    Ops = {"work", "bad", "pause", "resume"}
    Targets = {1}
    Backends = {TRUE, FALSE}
    MaxCommands = 3
    MaxShards = 2
    MaxWait = 1
INVARIANTS TypeOK NoNullTask SlotOwnedOnce NoSlotLeaked AnsweredExactlyOnce CleanShutdown StoredComesBack StoredCutIsSafe StoredLaterIsRead
PROPERTIES PauseInShardHolds EveryExecutionAnswered DestructionTerminates
