SPECIFICATION FairSpec
CONSTANTS
    PoolSize = 1
    WorkerCount = 1
    MaxTyped = 4
    MaxInjected = 1
    MaxSent = 1
INVARIANTS TypeOK WordsAsTyped LineAsTyped
PROPERTIES NoWorkWaits PromptComesBack StopIsObeyed InputThreadLeaves
