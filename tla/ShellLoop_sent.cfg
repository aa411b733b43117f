SPECIFICATION FairSpec
CONSTANTS
    PoolSize = 1
    WorkerCount = 1
    MaxTyped = 2
    MaxInjected = 0
    MaxSent = 1
PROPERTIES SentPackIsTaken
