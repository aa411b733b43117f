SPECIFICATION FairSpec
CONSTANTS
    Flushers = {main}
    Pushers = {main}
    Ring <- RingOfTwo
    SeqModulus = 8
    Retries = 2
    StaleLimit = 2
    MagicLimit = 1
    Before = 2
    MaxWrites = 3
    MaxRestarts = 1
INVARIANTS TypeOK
PROPERTIES NoTornRead LastWriteIsSeen DeadIsNoSignal
