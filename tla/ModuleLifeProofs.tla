-------------------------- MODULE ModuleLifeProofs --------------------------
(***************************************************************************)
(* Proofs about ModuleLife, for any number of threads, functions, files    *)
(* and loads: map and bus agree whenever mutex_ is free, and no thread     *)
(* gets hold of a deleted module.                                          *)
(*                                                                         *)
(* The argument: one thread at a time is inside mutex_ (LockOK).  A loader *)
(* there works towards a bus that answers for its object, an unloader      *)
(* towards one that answers for nobody (BusOK), and module_map_ changes at *)
(* the end of that work, so that both say the same when mutex_ is back.    *)
(* Callers change the state of a slot, but never to "unlinked", and they   *)
(* take hold of a module only where somebody holds it already.             *)
(***************************************************************************)
EXTENDS ModuleLife, TLAPS

LoaderInside(l) == loader[l].pc \in {"register", "link", "publish"}
UnloaderInside(u) == unloader[u].pc \in {"remove", "close"}

Dispatching(c) == caller[c].pc = "dispatch"

\* mutex_: one loader or unloader, or any number of dispatching callers.
LockOK ==
    /\ \A l \in Loaders : LoaderInside(l) =>
          /\ mutex # None
          /\ \A k \in Loaders : LoaderInside(k) => k = l
          /\ \A u \in Unloaders : ~UnloaderInside(u)
    /\ \A u \in Unloaders : UnloaderInside(u) =>
          /\ mutex # None
          /\ \A v \in Unloaders : UnloaderInside(v) => v = u
    /\ \A c \in Callers : Dispatching(c) =>
          /\ mutex = None
          /\ module # None
          /\ caller[c].obj = module

\* f answers for the object o.
Answers(o, f) == signals[f] = o /\ slot[o][f] # "unlinked"

\* How far a loader that has mutex_ has come.
LoaderOK(l) ==
    /\ module = None
    /\ \A f \in Funcs \ loader[l].todo : Answers(loader[l].obj, f)
    /\ loader[l].pc = "link" =>
          /\ signals[loader[l].func] = loader[l].obj
          /\ loader[l].func = Help => loader[l].todo = {Help}
    /\ loader[l].pc = "publish" => loader[l].todo = {}

\* And an unloader.
UnloaderOK(u) ==
    /\ \A f \in Funcs \ unloader[u].todo : signals[f] = None
    /\ unloader[u].pc = "close" => module = None /\ unloader[u].todo = {}

BusOK ==
    /\ \A l \in Loaders : loader[l].pc # "idle" => loader[l].obj # None
    /\ \A l \in Loaders : LoaderInside(l) => LoaderOK(l)
    /\ \A u \in Unloaders : UnloaderInside(u) => UnloaderOK(u)
    /\ module # None => \A f \in Funcs : slot[module][f] # "unlinked"
    /\ \/ \E l \in Loaders : LoaderInside(l)
       \/ \E u \in Unloaders : UnloaderInside(u)
       \/ \A f \in Funcs : signals[f] = module

LifeInv == TypeOK /\ LockOK /\ BusOK

-----------------------------------------------------------------------------
(***************************************************************************)
(* Types.                                                                  *)
(***************************************************************************)
LoaderPCs == {"idle", "add", "register", "link", "publish", "drop", "keep"}
LoaderRec ==
    [pc : LoaderPCs, obj : Objects \cup {None}, func : Funcs,
     todo : SUBSET Funcs]
UnloaderRec == [pc : {"idle", "remove", "close"}, todo : SUBSET Funcs]
CallerRec ==
    [pc : {"idle", "traverse", "run", "inside", "dispatch"},
     obj : Objects \cup {None}, func : Funcs]

\* TypeOK in two parts: what is shared, and where the threads stand.
SharedOK ==
    /\ mutex \in Loaders \cup Unloaders \cup {None}
    /\ module \in Objects \cup {None}
    /\ handle \in Objects \cup {None}
    /\ signals \in [Funcs -> Objects \cup {None}]
    /\ slot \in [Objects -> [Funcs -> SlotStates]]
    /\ born \in 0 .. MaxLoads
    /\ file \in [Objects -> Files]
    /\ open \subseteq 1 .. born

ThreadsOK ==
    /\ loader \in [Loaders -> LoaderRec]
    /\ unloader \in [Unloaders -> UnloaderRec]
    /\ caller \in [Callers -> CallerRec]

LEMMA TypeParts == TypeOK <=> SharedOK /\ ThreadsOK
BY DEF TypeOK, SharedOK, ThreadsOK, LoaderRec, LoaderPCs, UnloaderRec, CallerRec

\* What a loader writes into its record.
LEMMA LoaderEdit ==
    ASSUME NEW t \in [Loaders -> LoaderRec], NEW l \in Loaders,
           NEW p \in LoaderPCs, NEW o \in Objects \cup {None},
           NEW f \in Funcs, NEW s \in SUBSET Funcs
    PROVE  /\ [t EXCEPT ![l].pc = p] \in [Loaders -> LoaderRec]
           /\ [t EXCEPT ![l].pc = p, ![l].obj = o] \in [Loaders -> LoaderRec]
           /\ [t EXCEPT ![l].pc = p, ![l].todo = s] \in [Loaders -> LoaderRec]
           /\ [t EXCEPT ![l].pc = p, ![l].func = f] \in [Loaders -> LoaderRec]
           /\ [t EXCEPT ![l].todo = s, ![l].func = f, ![l].pc = p]
                 \in [Loaders -> LoaderRec]
BY DEF LoaderRec

\* Every variable has its type at first.
LEMMA TypeInit ==
    ASSUME Init, ModuleAssumption
    PROVE  SharedOK /\ ThreadsOK
BY DEF Init, SharedOK, ThreadsOK, LoaderRec, LoaderPCs, UnloaderRec, CallerRec,
       ModuleAssumption, Objects, SlotStates

\* A step of a loader keeps the types.
LEMMA LoadTypes ==
    ASSUME SharedOK, ThreadsOK, ModuleAssumption, NEW l \in Loaders, Load(l)
    PROVE  SharedOK' /\ ThreadsOK'
<1>a. /\ loader \in [Loaders -> LoaderRec]
      /\ {"idle", "add", "register", "link", "publish", "drop", "keep"}
            \subseteq LoaderPCs
      /\ Help \in Funcs
      /\ loader[l].obj \in Objects \cup {None}
      /\ loader[l].todo \in SUBSET Funcs
  BY DEF ThreadsOK, LoaderRec, LoaderPCs, ModuleAssumption
<1>1. CASE OpenLibrary(l)
  <2>1. born + 1 \in Objects
    BY <1>1 DEF OpenLibrary, Objects, SharedOK, ModuleAssumption
  <2>2. SharedOK'
    BY <1>1, <2>1 DEF OpenLibrary, Objects, SharedOK, ModuleAssumption
  <2>3. loader' = [loader EXCEPT ![l].pc = "add", ![l].obj = born + 1]
    BY <1>1 DEF OpenLibrary
  <2>4. loader' \in [Loaders -> LoaderRec]
    BY <1>a, <2>1, <2>3, LoaderEdit
  <2> QED
    BY <1>1, <2>2, <2>4 DEF OpenLibrary, ThreadsOK
<1>2. CASE InitFails(l)
  <2>1. born' \in 0 .. MaxLoads /\ open' \subseteq 1 .. born'
    BY <1>2 DEF InitFails, SharedOK, ModuleAssumption
  <2> QED
    BY <1>2, <2>1 DEF InitFails, SharedOK, ThreadsOK
<1>3. CASE AddDuplicate(l)
  <2>1. loader' \in [Loaders -> LoaderRec]
    BY <1>3, <1>a, LoaderEdit DEF AddDuplicate
  <2> QED
    BY <1>3, <2>1 DEF AddDuplicate, SharedOK, ThreadsOK
<1>4. CASE AddModule(l)
  <2>1. loader' \in [Loaders -> LoaderRec]
    BY <1>4, <1>a, LoaderEdit DEF AddModule
  <2> QED
    BY <1>4, <2>1 DEF AddModule, SharedOK, ThreadsOK
<1>5. ASSUME NEW f \in Funcs, RegisterSignal(l, f)
      PROVE  SharedOK' /\ ThreadsOK'
  <2>1. signals' \in [Funcs -> Objects \cup {None}]
    BY <1>5, <1>a DEF RegisterSignal, SharedOK
  <2>2. loader' \in [Loaders -> LoaderRec]
    BY <1>5, <1>a, LoaderEdit DEF RegisterSignal
  <2> QED
    BY <1>5, <2>1, <2>2 DEF RegisterSignal, SharedOK, ThreadsOK
<1>6. CASE LinkSlot(l)
  <2> DEFINE f == loader[l].func
             p == IF f = Help THEN "publish" ELSE "register"
  <2>1. slot' \in [Objects -> [Funcs -> SlotStates]]
    BY <1>6 DEF LinkSlot, SlotStates, SharedOK
  <2>2. loader' = [loader EXCEPT ![l].todo = loader[l].todo \ {f},
                                 ![l].func = Help, ![l].pc = p]
    BY <1>6 DEF LinkSlot
  <2>3. p \in LoaderPCs /\ loader[l].todo \ {f} \in SUBSET Funcs
    BY <1>a
  <2>4. loader' \in [Loaders -> LoaderRec]
    <3> HIDE DEF p, f
    <3> QED
      BY <1>a, <2>2, <2>3, LoaderEdit
  <2> QED
    BY <1>6, <2>1, <2>4 DEF LinkSlot, SharedOK, ThreadsOK
<1>7. CASE Publish(l)
  <2>1. loader' \in [Loaders -> LoaderRec]
    BY <1>7, <1>a, LoaderEdit DEF Publish, Go
  <2> QED
    BY <1>7, <1>a, <2>1 DEF Publish, SharedOK, ThreadsOK
<1>8. CASE DropLocal(l)
  <2>1. loader' \in [Loaders -> LoaderRec]
    BY <1>8, <1>a, LoaderEdit DEF DropLocal, Go
  <2> QED
    BY <1>8, <2>1 DEF DropLocal, SharedOK, ThreadsOK
<1>9. CASE KeepHandle(l)
  <2>1. loader' \in [Loaders -> LoaderRec]
    BY <1>9, <1>a, LoaderEdit DEF KeepHandle
  <2> QED
    BY <1>9, <1>a, <2>1 DEF KeepHandle, SharedOK, ThreadsOK
<1> QED
  BY <1>1, <1>2, <1>3, <1>4, <1>5, <1>6, <1>7, <1>8, <1>9 DEF Load, Connect

\* So does a step of an unloader.
LEMMA UnloadTypes ==
    ASSUME SharedOK, ThreadsOK, NEW u \in Unloaders, Unload(u) \/ Dismantle(u)
    PROVE  SharedOK' /\ ThreadsOK'
<1> USE DEF SharedOK, ThreadsOK, UnloaderRec
<1>1. CASE Unload(u)
  BY <1>1 DEF Unload
<1>2. ASSUME NEW f \in Funcs, RemoveSignal(u, f)
      PROVE  SharedOK' /\ ThreadsOK'
  BY <1>2 DEF RemoveSignal
<1>3. CASE EraseModule(u)
  BY <1>3 DEF EraseModule
<1>4. CASE CloseLibrary(u)
  BY <1>4 DEF CloseLibrary
<1> QED
  BY <1>1, <1>2, <1>3, <1>4 DEF Dismantle

\* And a step of a caller.
LEMMA CallTypes ==
    ASSUME SharedOK, ThreadsOK, ModuleAssumption, NEW c \in Callers, Call(c)
    PROVE  SharedOK' /\ ThreadsOK'
<1> USE DEF SharedOK, ThreadsOK
<1>1. Leave(c) => caller' \in [Callers -> CallerRec]
  BY DEF Leave, CallerRec, ModuleAssumption
<1>2. ASSUME NEW f \in Funcs, Emit(c, f)
      PROVE  SharedOK' /\ ThreadsOK'
  BY <1>2 DEF Emit, CallerRec
<1>3. CASE Traverse(c)
  <2>1. UNCHANGED <<mutex, module, handle, signals, born, file, open,
                    loader, unloader>>
    BY <1>3 DEF Traverse
  <2>2. caller' = [caller EXCEPT ![c].pc = "run"] \/ Leave(c)
    BY <1>3 DEF Traverse
  <2>3. caller' \in [Callers -> CallerRec]
    BY <1>1, <2>2 DEF CallerRec
  <2>4. slot' \in [Objects -> [Funcs -> SlotStates]]
    BY <1>3 DEF Traverse, SlotStates
  <2> QED
    BY <2>1, <2>3, <2>4
<1>4. CASE LockModule(c)
  BY <1>4 DEF LockModule, CallerRec
<1>5. CASE SkipModule(c) \/ Return(c) \/ EndDispatch(c)
  BY <1>1, <1>5 DEF SkipModule, Return, EndDispatch
<1>6. CASE Dispatch(c)
  BY <1>6 DEF Dispatch, CallerRec
<1>7. CASE Throw(c)
  <2>1. slot' \in [Objects -> [Funcs -> SlotStates]]
    BY <1>7 DEF Throw, SlotStates
  <2> QED
    BY <1>1, <1>7, <2>1 DEF Throw
<1> QED
  BY <1>2, <1>3, <1>4, <1>5, <1>6, <1>7 DEF Call

\* Every step keeps the types.
LEMMA TypeStep ==
    ASSUME TypeOK, [Next]_vars, ModuleAssumption
    PROVE  TypeOK'
<1>1. SharedOK /\ ThreadsOK
  BY TypeParts
<1>2. SharedOK' /\ ThreadsOK' => TypeOK'
  BY TypeParts, PTL
<1>3. CASE UNCHANGED vars
  BY <1>1, <1>2, <1>3 DEF vars, SharedOK, ThreadsOK
<1> QED
  BY <1>1, <1>2, <1>3, LoadTypes, UnloadTypes, CallTypes DEF Next, Ended

\* What the program keeps in its maps, its slots and its threads has its type.
THEOREM ModuleTypes == Spec => []TypeOK
<1>1. Init => TypeOK
  BY TypeInit, TypeParts, ModuleAssumption
<1>2. TypeOK /\ [Next]_vars => TypeOK'
  BY TypeStep, ModuleAssumption
<1> QED
  BY <1>1, <1>2, PTL DEF Spec

-----------------------------------------------------------------------------
(***************************************************************************)
(* mutex_, and the work that is done under it.                             *)
(***************************************************************************)
LEMMA LifeInit ==
    ASSUME Init
    PROVE  LockOK /\ BusOK
BY DEF Init, LockOK, BusOK, LoaderInside, UnloaderInside, Dispatching, None

\* Steps of a loader.
LEMMA LoadKeeps ==
    ASSUME LifeInv, ModuleAssumption, ThreadAssumption,
           NEW l \in Loaders, Load(l)
    PROVE  LockOK' /\ BusOK'
<1> USE DEF LoaderInside, UnloaderInside, Dispatching
<1>a. SharedOK /\ ThreadsOK /\ LockOK /\ BusOK
  BY TypeParts DEF LifeInv
<1>b. l # None
  BY ThreadAssumption DEF ThreadAssumption
<1>1. CASE OpenLibrary(l)
  <2>1. born + 1 # None
    BY <1>a DEF SharedOK, None
  <2>2. \A k \in Loaders : LoaderInside(k)' <=> LoaderInside(k)
    BY <1>1, <1>a DEF OpenLibrary, ThreadsOK, LoaderRec
  <2>3. LockOK'
    BY <1>1, <1>a, <2>2 DEF OpenLibrary, LockOK
  <2>4. BusOK'
    BY <1>1, <1>a, <2>1, <2>2
       DEF OpenLibrary, BusOK, LoaderOK, UnloaderOK, Answers, ThreadsOK,
           LoaderRec
  <2> QED
    BY <2>3, <2>4
<1>2. CASE InitFails(l)
  BY <1>2, <1>a
     DEF InitFails, LockOK, BusOK, LoaderOK, UnloaderOK, Answers
<1>3. CASE AddDuplicate(l) \/ DropLocal(l) \/ KeepHandle(l)
  <2>1. /\ UNCHANGED <<mutex, module, signals, slot, unloader, caller>>
        /\ ~LoaderInside(l) /\ ~LoaderInside(l)'
        /\ loader'[l].pc # "idle" => loader'[l].obj = loader[l].obj
        /\ \A k \in Loaders : k # l => loader'[k] = loader[k]
        /\ loader[l].pc # "idle"
    BY <1>3, <1>a
       DEF AddDuplicate, DropLocal, KeepHandle, Go, ThreadsOK, LoaderRec
  <2>2. LockOK'
    BY <1>a, <2>1 DEF LockOK
  <2>3. BusOK'
    BY <1>a, <2>1 DEF BusOK, LoaderOK, UnloaderOK, Answers
  <2> QED
    BY <2>2, <2>3
<1>4. CASE AddModule(l)
  <2>1. /\ \A k \in Loaders : ~LoaderInside(k)
        /\ \A u \in Unloaders : ~UnloaderInside(u)
    BY <1>4, <1>a DEF AddModule, Free, LockOK
  <2>2. /\ mutex' # None /\ module = None
        /\ UNCHANGED <<module, signals, slot, unloader, caller>>
        /\ loader'[l].pc = "register" /\ loader'[l].todo = Funcs
        /\ loader'[l].obj = loader[l].obj
        /\ \A k \in Loaders : k # l => loader'[k] = loader[k]
        /\ \A c \in Callers : ~Dispatching(c)
        /\ loader[l].pc # "idle"
    BY <1>4, <1>a, <1>b DEF AddModule, Free, ThreadsOK, LoaderRec
  <2>3. LockOK'
    BY <2>1, <2>2 DEF LockOK
  <2>4. BusOK'
    BY <1>a, <2>1, <2>2 DEF BusOK, LoaderOK, UnloaderOK
  <2> QED
    BY <2>3, <2>4
<1>5. ASSUME NEW f \in Funcs, RegisterSignal(l, f)
      PROVE  LockOK' /\ BusOK'
  <2>1. /\ UNCHANGED <<mutex, module, slot, unloader, caller>>
        /\ LoaderInside(l) /\ loader'[l].pc = "link"
        /\ loader'[l].func = f /\ f \in loader[l].todo
        /\ loader'[l].todo = loader[l].todo /\ loader'[l].obj = loader[l].obj
        /\ f = Help => loader[l].todo = {Help}
        /\ \A k \in Loaders : k # l => loader'[k] = loader[k]
        /\ signals'[f] = loader[l].obj
        /\ \A g \in Funcs \ {f} : signals'[g] = signals[g]
    BY <1>5, <1>a
       DEF RegisterSignal, SharedOK, ThreadsOK, LoaderRec
  <2>2. LockOK'
    BY <1>a, <2>1 DEF LockOK
  <2>3. /\ \A k \in Loaders : LoaderInside(k) => k = l
        /\ \A u \in Unloaders : ~UnloaderInside(u)
        /\ LoaderOK(l)
    BY <1>a, <2>1 DEF LockOK, BusOK
  <2>4. LoaderOK(l)'
    BY <2>1, <2>3 DEF LoaderOK, Answers
  <2>5. BusOK'
    BY <1>a, <2>1, <2>3, <2>4 DEF BusOK
  <2> QED
    BY <2>2, <2>5
<1>6. CASE LinkSlot(l)
  <2> DEFINE f == loader[l].func
             o == loader[l].obj
  <2>1. /\ UNCHANGED <<mutex, module, signals, unloader, caller>>
        /\ loader[l].pc = "link" /\ LoaderInside(l)'
        /\ loader'[l].todo = loader[l].todo \ {f} /\ loader'[l].obj = o
        /\ loader'[l].pc = IF f = Help THEN "publish" ELSE "register"
        /\ \A k \in Loaders : k # l => loader'[k] = loader[k]
    BY <1>6, <1>a DEF LinkSlot, ThreadsOK, LoaderRec
  <2>2. LockOK'
    BY <1>a, <2>1 DEF LockOK
  <2>3. /\ \A k \in Loaders : LoaderInside(k) => k = l
        /\ \A u \in Unloaders : ~UnloaderInside(u)
        /\ LoaderOK(l)
        /\ o \in Objects /\ f \in Funcs
    BY <1>a, <2>1 DEF LockOK, BusOK, ThreadsOK, LoaderRec
  <2>4. /\ slot'[o][f] = "alive"
        /\ \A g \in Funcs \ {f} : slot'[o][g] = slot[o][g]
    BY <1>6, <1>a, <2>1, <2>3 DEF LinkSlot, LoaderOK, SharedOK
  <2>5. LoaderOK(l)'
    <3>1. \A g \in Funcs \ loader'[l].todo : Answers(o, g)'
      BY <2>1, <2>3, <2>4 DEF LoaderOK, Answers
    <3> QED
      BY <2>1, <2>3, <3>1 DEF LoaderOK
  <2>6. BusOK'
    BY <1>a, <2>1, <2>3, <2>5 DEF BusOK, LoaderOK
  <2> QED
    BY <2>2, <2>6
<1>7. CASE Publish(l)
  <2>1. /\ UNCHANGED <<signals, slot, unloader, caller>>
        /\ module' = loader[l].obj /\ mutex' = None
        /\ loader[l].pc = "publish" /\ loader'[l].pc = "drop"
        /\ loader'[l].obj = loader[l].obj
        /\ \A k \in Loaders : k # l => loader'[k] = loader[k]
    BY <1>7, <1>a DEF Publish, Go, ThreadsOK, LoaderRec
  <2>2. /\ \A k \in Loaders : LoaderInside(k) => k = l
        /\ \A u \in Unloaders : ~UnloaderInside(u)
        /\ \A c \in Callers : ~Dispatching(c)
        /\ LoaderOK(l)
    BY <1>a, <2>1 DEF LockOK, BusOK
  <2>3. LockOK'
    BY <2>1, <2>2 DEF LockOK
  <2>4. \A f \in Funcs : Answers(loader[l].obj, f)
    BY <2>1, <2>2 DEF LoaderOK
  <2>5. BusOK'
    BY <1>a, <2>1, <2>2, <2>4 DEF BusOK, Answers
  <2> QED
    BY <2>3, <2>5
<1> QED
  BY <1>1, <1>2, <1>3, <1>4, <1>5, <1>6, <1>7 DEF Load, Connect

\* Steps of an unloader.
LEMMA UnloadKeeps ==
    ASSUME LifeInv, ThreadAssumption,
           NEW u \in Unloaders, Unload(u) \/ Dismantle(u)
    PROVE  LockOK' /\ BusOK'
<1> USE DEF LoaderInside, UnloaderInside, Dispatching
<1>a. SharedOK /\ ThreadsOK /\ LockOK /\ BusOK
  BY TypeParts DEF LifeInv
<1>b. u # None
  BY ThreadAssumption DEF ThreadAssumption
<1>c. /\ UNCHANGED <<slot, loader, caller>>
      /\ \A v \in Unloaders : v # u => unloader'[v] = unloader[v]
  BY <1>a
     DEF Unload, Dismantle, RemoveSignal, EraseModule, CloseLibrary,
         ThreadsOK, UnloaderRec
<1>1. CASE Unload(u)
  <2>1. /\ \A l \in Loaders : ~LoaderInside(l)
        /\ \A v \in Unloaders : ~UnloaderInside(v)
        /\ \A c \in Callers : ~Dispatching(c)
    BY <1>1, <1>a DEF Unload, Free, LockOK
  <2>2. /\ mutex' # None
        /\ UNCHANGED <<module, signals>>
        /\ unloader'[u].pc = "remove"
        /\ unloader'[u].todo = {f \in Funcs : signals[f] # None}
    BY <1>1, <1>a, <1>b DEF Unload, ThreadsOK, UnloaderRec
  <2>3. LockOK'
    BY <1>c, <2>1, <2>2 DEF LockOK
  <2>4. BusOK'
    BY <1>a, <1>c, <2>1, <2>2 DEF BusOK, UnloaderOK
  <2> QED
    BY <2>3, <2>4
<1>2. CASE Dismantle(u)
  <2>1. UnloaderInside(u)
    BY <1>2 DEF Dismantle, RemoveSignal, EraseModule, CloseLibrary
  <2>2. /\ \A l \in Loaders : ~LoaderInside(l)
        /\ \A v \in Unloaders : UnloaderInside(v) => v = u
        /\ \A c \in Callers : ~Dispatching(c)
        /\ UnloaderOK(u)
    BY <1>a, <2>1 DEF LockOK, BusOK
  <2>3. ASSUME NEW f \in Funcs, RemoveSignal(u, f)
        PROVE  LockOK' /\ BusOK'
    <3>1. /\ UNCHANGED <<mutex, module>>
          /\ unloader'[u].pc = "remove"
          /\ unloader'[u].todo = unloader[u].todo \ {f}
          /\ signals'[f] = None
          /\ \A g \in Funcs \ {f} : signals'[g] = signals[g]
      BY <2>3, <1>a DEF RemoveSignal, SharedOK, ThreadsOK, UnloaderRec
    <3>2. LockOK'
      BY <1>a, <1>c, <2>1, <2>2, <3>1 DEF LockOK
    <3>3. UnloaderOK(u)'
      BY <2>2, <3>1 DEF UnloaderOK
    <3>4. BusOK'
      BY <1>a, <1>c, <2>2, <3>1, <3>3 DEF BusOK
    <3> QED
      BY <3>2, <3>4
  <2>4. CASE EraseModule(u)
    <3>1. /\ UNCHANGED <<mutex, signals>>
          /\ module' = None
          /\ unloader'[u].pc = "close" /\ unloader'[u].todo = {}
      BY <2>4, <1>a DEF EraseModule, ThreadsOK, UnloaderRec
    <3>2. LockOK'
      BY <1>a, <1>c, <2>1, <2>2, <3>1 DEF LockOK
    <3>3. UnloaderOK(u)'
      BY <2>2, <2>4, <3>1 DEF UnloaderOK, EraseModule
    <3>4. BusOK'
      BY <1>a, <1>c, <2>2, <3>1, <3>3 DEF BusOK
    <3> QED
      BY <3>2, <3>4
  <2>5. CASE CloseLibrary(u)
    <3>1. /\ UNCHANGED <<module, signals>>
          /\ unloader[u].pc = "close" /\ unloader'[u].pc = "idle"
      BY <2>5, <1>a DEF CloseLibrary, ThreadsOK, UnloaderRec
    <3>2. LockOK'
      BY <1>c, <2>2, <3>1 DEF LockOK
    <3>3. module = None /\ \A f \in Funcs : signals[f] = None
      BY <2>2, <3>1 DEF UnloaderOK
    <3>4. BusOK'
      BY <1>a, <1>c, <2>2, <3>1, <3>3 DEF BusOK
    <3> QED
      BY <3>2, <3>4
  <2> QED
    BY <1>2, <2>3, <2>4, <2>5 DEF Dismantle
<1> QED
  BY <1>1, <1>2

\* Steps of a caller: only the state of a slot changes, and no slot becomes
\* unlinked.
LEMMA CallKeeps ==
    ASSUME LifeInv, NEW c \in Callers, Call(c)
    PROVE  LockOK' /\ BusOK'
<1> USE DEF LoaderInside, UnloaderInside, Dispatching
<1>a. SharedOK /\ ThreadsOK /\ LockOK /\ BusOK
  BY TypeParts DEF LifeInv
<1>1. /\ UNCHANGED <<mutex, module, signals, loader, unloader>>
      /\ \A d \in Callers : d # c => caller'[d] = caller[d]
  BY <1>a
     DEF Call, Emit, Traverse, LockModule, SkipModule, Return, Throw, Dispatch,
         EndDispatch, Leave, ThreadsOK, CallerRec
<1>2. caller'[c].pc = "dispatch" =>
          mutex = None /\ module # None /\ caller'[c].obj = module
  <2>1. CASE Dispatch(c)
    BY <1>a, <2>1 DEF Dispatch, ThreadsOK, CallerRec
  <2>2. CASE ~Dispatch(c)
    BY <1>a, <2>2
       DEF Call, Emit, Traverse, LockModule, SkipModule, Return, Throw,
           EndDispatch, Leave, ThreadsOK, CallerRec
  <2> QED
    BY <2>1, <2>2
<1>3. \A o \in Objects, f \in Funcs :
          slot[o][f] # "unlinked" => slot'[o][f] # "unlinked"
  <2>1. CASE Traverse(c)
    BY <1>a, <2>1 DEF Traverse, SharedOK
  <2>2. CASE Throw(c)
    BY <1>a, <2>2 DEF Throw, SharedOK
  <2>3. CASE ~Traverse(c) /\ ~Throw(c)
    BY <2>3 DEF Call, Emit, LockModule, SkipModule, Return, Dispatch,
                EndDispatch
  <2> QED
    BY <2>1, <2>2, <2>3
<1>4. LockOK'
  BY <1>a, <1>1, <1>2 DEF LockOK
<1>5. \A l \in Loaders : LoaderInside(l) => LoaderOK(l)'
  <2> SUFFICES ASSUME NEW l \in Loaders, LoaderInside(l)
               PROVE  LoaderOK(l)'
    OBVIOUS
  <2>1. LoaderOK(l) /\ loader[l].obj \in Objects
    BY <1>a DEF BusOK, ThreadsOK, LoaderRec
  <2> QED
    BY <1>1, <1>3, <2>1 DEF LoaderOK, Answers
<1>6. \A u \in Unloaders : UnloaderInside(u) => UnloaderOK(u)'
  BY <1>a, <1>1 DEF BusOK, UnloaderOK
<1>7. module # None => \A f \in Funcs : slot'[module][f] # "unlinked"
  BY <1>a, <1>3 DEF BusOK, SharedOK
<1>8. BusOK'
  BY <1>a, <1>1, <1>5, <1>6, <1>7 DEF BusOK
<1> QED
  BY <1>4, <1>8

\* LifeInv is inductive.
LEMMA LifeStep ==
    ASSUME LifeInv, [Next]_vars, ModuleAssumption, ThreadAssumption
    PROVE  LifeInv'
<1>1. TypeOK'
  BY TypeStep DEF LifeInv
<1>2. CASE UNCHANGED vars
  BY <1>1, <1>2
     DEF vars, LifeInv, LockOK, BusOK, LoaderInside, UnloaderInside,
         Dispatching, LoaderOK, UnloaderOK, Answers
<1> QED
  BY <1>1, <1>2, LoadKeeps, UnloadKeeps, CallKeeps DEF Next, Ended, LifeInv

LEMMA LifeAlways == Spec => []LifeInv
<1>1. Init => LifeInv
  BY TypeInit, TypeParts, LifeInit, ModuleAssumption DEF LifeInv
<1>2. LifeInv /\ [Next]_vars => LifeInv'
  BY LifeStep, ModuleAssumption, ThreadAssumption
<1> QED
  BY <1>1, <1>2, PTL DEF Spec

-----------------------------------------------------------------------------
\* Whenever mutex_ is free, a published module answers all its signals, each
\* with a linked slot, and a name that is not published answers none.
THEOREM MapAndBusAgree == Spec => []BusMatchesMap
<1>1. LifeInv => BusMatchesMap
  BY DEF LifeInv, LockOK, BusOK, BusMatchesMap
<1> QED
  BY <1>1, LifeAlways, PTL

\* An object that nobody holds stays unheld: a loader holds a number that was
\* not given out, a published object is one its loader held, and a caller
\* enters only what is alive.
LEMMA DeadStaysDead ==
    ASSUME LifeInv, [Next]_vars, NEW o \in 1 .. born, ~Alive(o)
    PROVE  ~Alive(o)'
<1>a. SharedOK /\ ThreadsOK /\ LockOK /\ BusOK
  BY TypeParts DEF LifeInv
<1>b. /\ module # o
      /\ \A l \in Loaders : ~LoaderOwns(l, o)
      /\ \A c \in Callers : ~CallerOwns(c, o)
  BY DEF Alive
<1>c. o # None
  BY <1>a DEF None, SharedOK
<1>1. module' # o
  <2>1. CASE \E l \in Loaders : Publish(l)
    BY <1>a, <1>b, <2>1 DEF Publish, LoaderOwns
  <2>2. CASE UNCHANGED module \/ module' = None
    BY <1>b, <1>c, <2>2
  <2> QED
    BY <2>1, <2>2
       DEF Next, Load, Connect, OpenLibrary, InitFails, AddDuplicate, AddModule,
           RegisterSignal, LinkSlot, DropLocal, KeepHandle, Unload, Dismantle,
           RemoveSignal, EraseModule, CloseLibrary, Call, Emit, Traverse,
           LockModule, SkipModule, Return, Throw, Dispatch, EndDispatch, Ended,
           vars
<1>2. ASSUME NEW l \in Loaders
      PROVE  ~LoaderOwns(l, o)'
  <2>1. CASE UNCHANGED loader
    BY <1>b, <2>1 DEF LoaderOwns
  <2>2. ASSUME NEW k \in Loaders, Load(k)
        PROVE  ~LoaderOwns(l, o)'
    <3>1. CASE OpenLibrary(k)
      <4>1. o # born + 1
        BY <1>a DEF SharedOK
      <4> QED
        BY <1>a, <1>b, <3>1, <4>1
           DEF OpenLibrary, LoaderOwns, ThreadsOK, LoaderRec
    <3>2. CASE ~OpenLibrary(k)
      BY <1>a, <1>b, <2>2, <3>2
         DEF Load, Connect, InitFails, AddDuplicate, AddModule, RegisterSignal,
             LinkSlot, Publish, DropLocal, KeepHandle, Go, LoaderOwns,
             ThreadsOK, LoaderRec
    <3> QED
      BY <3>1, <3>2
  <2> QED
    BY <2>1, <2>2
       DEF Next, Unload, Dismantle, RemoveSignal, EraseModule, CloseLibrary,
           Call, Emit, Traverse, LockModule, SkipModule, Return, Throw,
           Dispatch, EndDispatch, Ended, vars
<1>3. ASSUME NEW c \in Callers
      PROVE  ~CallerOwns(c, o)'
  <2>1. CASE UNCHANGED caller
    BY <1>b, <2>1 DEF CallerOwns
  <2>2. ASSUME NEW d \in Callers, Call(d)
        PROVE  ~CallerOwns(c, o)'
    <3>1. CASE LockModule(d)
      BY <1>a, <1>b, <3>1
         DEF LockModule, CallerOwns, ThreadsOK, CallerRec
    <3>2. CASE ~LockModule(d)
      BY <1>a, <1>b, <2>2, <3>2
         DEF Call, Emit, Traverse, SkipModule, Return, Throw, Dispatch,
             EndDispatch, Leave, CallerOwns, ThreadsOK, CallerRec
    <3> QED
      BY <3>1, <3>2
  <2> QED
    BY <2>1, <2>2
       DEF Next, Load, Connect, OpenLibrary, InitFails, AddDuplicate, AddModule,
           RegisterSignal, LinkSlot, Publish, DropLocal, KeepHandle, Unload,
           Dismantle, RemoveSignal, EraseModule, CloseLibrary, Ended, vars
<1> QED
  BY <1>1, <1>2, <1>3 DEF Alive

\* What NoUseAfterFree says of one step.
HeldOnly ==
    /\ \A o \in 1 .. born : ~Alive(o) => ~Alive(o)'
    /\ \A c \in Callers :
           (caller[c].pc = "dispatch" => Alive(caller[c].obj))'

\* A deleted object is never called into: nobody gets hold of it again, and one
\* that is dispatched to is still in the map.
THEOREM HeldIsAlive == Spec => NoUseAfterFree
<1>1. LifeInv /\ LifeInv' /\ [Next]_vars => [HeldOnly]_vars
  <2> SUFFICES ASSUME LifeInv, LifeInv', [Next]_vars
               PROVE  HeldOnly
    OBVIOUS
  <2>1. \A o \in 1 .. born : ~Alive(o) => ~Alive(o)'
    BY DeadStaysDead
  <2>2. \A c \in Callers :
            (caller[c].pc = "dispatch" => Alive(caller[c].obj))'
    BY DEF LifeInv, LockOK, Dispatching, Alive
  <2> QED
    BY <2>1, <2>2 DEF HeldOnly
<1> QED
  BY <1>1, LifeAlways, PTL DEF Spec, NoUseAfterFree, HeldOnly
=============================================================================
