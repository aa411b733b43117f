SPECIFICATION FairSpec
CONSTANTS
    Loaders = {l1, l2}
    Unloaders = {u1}
    Callers = {c1, c2}
    Funcs = {add, help}
    Help = help
    Throwing = {add}
    Files = {so}
    MaxLoads = 2
INVARIANTS TypeOK BusMatchesMap
PROPERTIES NoUseAfterFree MutexComesBack
