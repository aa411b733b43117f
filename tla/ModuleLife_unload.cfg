SPECIFICATION Spec
CONSTANTS
    Loaders = {l1}
    Unloaders = {u1}
    Callers = {c1}
    Funcs = {add, help}
    Help = help
    Throwing = {add}
    Files = {so}
    MaxLoads = 1
INVARIANTS CallbackCodeIsMapped
