SPECIFICATION Spec
CONSTANTS
    Flushers = {main}
    Pushers = {worker}
    Ring <- RingOfTwo
    SeqModulus = 8
    Retries = 1
    StaleLimit = 1
    MagicLimit = 1
    Before = 0
    MaxWrites = 2
    MaxRestarts = 0
PROPERTIES NoTornRead
