SPECIFICATION FairSpec
CONSTANTS
    Threads = {t1}
    LineLevels = {1}
    LevelNames = {}
    Configs <- ConfFiles
    MaxLines = 1
PROPERTIES DestructorCompletesFile
