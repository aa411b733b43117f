SPECIFICATION FairSpec
CONSTANTS
    Threads = {t1, t2}
    LineLevels = {1, 2}
    LevelNames = {"debug", "error"}
    Configs <- ConfFiles
    MaxLines = 2
INVARIANTS TypeOK LinesInOrder RunsAsConfigured
PROPERTIES LineReachesFile
