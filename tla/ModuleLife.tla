----------------------------- MODULE ModuleLife -----------------------------
(***************************************************************************)
(* ModuleLifeManager and the EventBus, for the plugins that go by one      *)
(* module name: threads that load it (LoadDLLModule, AddModule), threads   *)
(* that unload it (UnloadModule) and threads that call its functions       *)
(* (EventBus::Emit on "name.func", from a task's Step, or Dispatch, past   *)
(* the bus).                                                               *)
(*                                                                         *)
(* Objects are numbered in the order in which CreateModule makes them.     *)
(* An object also names the SharedLibrary opened for it and the Signal     *)
(* instances registered for its functions, one slot each: a signal is the  *)
(* pair of an object and a function.  shared_ptr counts are not kept: who  *)
(* holds an object can be read off the threads (Owners).                   *)
(***************************************************************************)
EXTENDS Naturals, FiniteSets

CONSTANTS
    Loaders,    \* threads that load plugins
    Unloaders,  \* threads that unload the module
    Callers,    \* threads that emit its signals
    Funcs,      \* what OnInit registers, and Help
    Help,       \* the signal AddModule adds to them
    Throwing,   \* the functions that may throw
    Files,      \* plugin files whose module has this name
    MaxLoads    \* bound: objects created

ASSUME ModuleAssumption ==
    /\ Help \in Funcs
    /\ Throwing \subseteq Funcs
    /\ MaxLoads \in Nat \ {0}

Objects == 1 .. MaxLoads
None == 0     \* no object, and no thread's lock
ASSUME ThreadAssumption == None \notin Loaders \cup Unloaders

VARIABLES
    mutex,      \* who holds ModuleLifeManager::mutex_ exclusively, or None
    module,     \* module_map_[name], or None
    handle,     \* dll_handles_[name]: the object it was opened for, or None
    signals,    \* EventBus::signals_["name.f"]: the object it was made for
    slot,       \* slot[o][f]: the slot of that signal
    born,       \* objects created so far
    file,       \* the file each object's code is in
    open,       \* the objects whose SharedLibrary is open
    loader,     \* where each loader stands, its object, functions to connect
    unloader,   \* where each unloader stands, signals to remove
    caller      \* where each caller stands, the signal of its snapshot; one
                \* that dispatches holds mutex_ too, shared

vars == <<mutex, module, handle, signals, slot, born, file, open, loader,
          unloader, caller>>

\* A slot that was never linked, is_alive_, not is_alive_, or erased.
SlotStates == {"unlinked", "alive", "dead", "erased"}

TypeOK ==
    /\ mutex \in Loaders \cup Unloaders \cup {None}
    /\ module \in Objects \cup {None}
    /\ handle \in Objects \cup {None}
    /\ signals \in [Funcs -> Objects \cup {None}]
    /\ slot \in [Objects -> [Funcs -> SlotStates]]
    /\ born \in 0 .. MaxLoads
    /\ file \in [Objects -> Files]
    /\ open \in SUBSET (1 .. born)
    /\ loader \in [Loaders ->
           [pc : {"idle", "add", "register", "link", "publish", "drop", "keep"},
            obj : Objects \cup {None}, func : Funcs, todo : SUBSET Funcs]]
    /\ unloader \in [Unloaders ->
           [pc : {"idle", "remove", "close"}, todo : SUBSET Funcs]]
    /\ caller \in [Callers ->
           [pc : {"idle", "traverse", "run", "inside", "dispatch"},
            obj : Objects \cup {None}, func : Funcs]]

Init ==
    /\ mutex = None
    /\ module = None
    /\ handle = None
    /\ signals = [f \in Funcs |-> None]
    /\ slot = [o \in Objects |-> [f \in Funcs |-> "unlinked"]]
    /\ born = 0
    /\ file \in [Objects -> Files]
    /\ open = {}
    /\ loader = [l \in Loaders |->
                    [pc |-> "idle", obj |-> None, func |-> Help, todo |-> {}]]
    /\ unloader = [u \in Unloaders |-> [pc |-> "idle", todo |-> {}]]
    /\ caller = [c \in Callers |->
                    [pc |-> "idle", obj |-> None, func |-> Help]]

-----------------------------------------------------------------------------
(***************************************************************************)
(* Who holds what.                                                         *)
(***************************************************************************)
\* The loader's unique_ptr, then its shared_mod; the keep_alive of a caller.
LoaderOwns(l, o) ==
    /\ loader[l].obj = o
    /\ loader[l].pc \notin {"idle", "keep"}

CallerOwns(c, o) == caller[c].pc = "inside" /\ caller[c].obj = o

\* The shared_ptrs to o that count: module_map_, loaders and callers.
Alive(o) ==
    \/ module = o
    \/ \E l \in Loaders : LoaderOwns(l, o)
    \/ \E c \in Callers : CallerOwns(c, o)

\* dlopen counts: the code of a file is there while one of its handles is.
Mapped(o) == \E p \in open : file[p] = file[o]

\* mutex_ can be had exclusively: no shared_lock is held either.
Free == mutex = None /\ \A c \in Callers : caller[c].pc # "dispatch"

Go(l, step) == loader' = [loader EXCEPT ![l].pc = step]

-----------------------------------------------------------------------------
(***************************************************************************)
(* LoadDLLModule.                                                          *)
(***************************************************************************)
\* SharedLibrary::Load, CreateModule and, in AddModule but before the lock,
\* OnInit.  Nothing of it is shared with another thread yet.
OpenLibrary(l) ==
    /\ loader[l].pc = "idle"
    /\ born < MaxLoads
    /\ born' = born + 1
    /\ open' = open \cup {born + 1}
    /\ loader' = [loader EXCEPT ![l].pc = "add", ![l].obj = born + 1]
    /\ UNCHANGED <<mutex, module, handle, signals, slot, file, unloader,
                   caller>>

\* OnInit fails: the object is deleted and the library closed again.  Where
\* the library or CreateModule fails, nothing has changed at all.
InitFails(l) ==
    /\ loader[l].pc = "idle"
    /\ born < MaxLoads
    /\ born' = born + 1
    /\ UNCHANGED <<mutex, module, handle, signals, slot, file, open, loader,
                   unloader, caller>>

\* The name is taken: the object is deleted, then lib goes out of scope.
AddDuplicate(l) ==
    /\ loader[l].pc = "add"
    /\ Free
    /\ module # None
    /\ loader' = [loader EXCEPT ![l].pc = "idle", ![l].obj = None]
    /\ open' = open \ {loader[l].obj}
    /\ UNCHANGED <<mutex, module, handle, signals, slot, born, file, unloader,
                   caller>>

\* mutex_ is locked, and held until Publish.
AddModule(l) ==
    /\ loader[l].pc = "add"
    /\ Free
    /\ module = None
    /\ mutex' = l
    /\ loader' = [loader EXCEPT ![l].pc = "register", ![l].todo = Funcs]
    /\ UNCHANGED <<module, handle, signals, slot, born, file, open, unloader,
                   caller>>

\* RegisterSignal, under bus_mutex_: a new Signal, with no slot.  funcs_ is
\* walked in any order; help is the last.
RegisterSignal(l, f) ==
    /\ loader[l].pc = "register"
    /\ f \in loader[l].todo
    /\ f = Help => loader[l].todo = {Help}
    /\ signals' = [signals EXCEPT ![f] = loader[l].obj]
    /\ loader' = [loader EXCEPT ![l].pc = "link", ![l].func = f]
    /\ UNCHANGED <<mutex, module, handle, slot, born, file, open, unloader,
                   caller>>

\* LinkSlotFunc: bus_mutex_ is taken anew, and the signal looked up again.
LinkSlot(l) ==
    LET f == loader[l].func IN
    /\ loader[l].pc = "link"
    /\ slot' = [slot EXCEPT ![loader[l].obj][f] =
                   IF signals[f] = loader[l].obj THEN "alive" ELSE @]
    /\ loader' = [loader EXCEPT
                     ![l].todo = @ \ {f}, ![l].func = Help,
                     ![l].pc = IF f = Help THEN "publish" ELSE "register"]
    /\ UNCHANGED <<mutex, module, handle, signals, born, file, open, unloader,
                   caller>>

\* module_map_[name] = shared_mod, and the end of wr_lock.
Publish(l) ==
    /\ loader[l].pc = "publish"
    /\ module' = loader[l].obj
    /\ mutex' = None
    /\ Go(l, "drop")
    /\ UNCHANGED <<handle, signals, slot, born, file, open, unloader, caller>>

\* shared_mod goes out of scope after the lock.
DropLocal(l) ==
    /\ loader[l].pc = "drop"
    /\ Go(l, "keep")
    /\ UNCHANGED <<mutex, module, handle, signals, slot, born, file, open,
                   unloader, caller>>

\* dll_handles_[raw->GetName()] = std::move(lib): outside mutex_, and the
\* SharedLibrary that was there is closed.  Once the object is deleted,
\* GetName of what is left of it may be any name, and lib is kept under that.
KeepHandle(l) ==
    /\ loader[l].pc = "keep"
    /\ \/ /\ handle' = loader[l].obj
          /\ open' = open \ {handle}
       \/ /\ ~Alive(loader[l].obj)
          /\ UNCHANGED <<handle, open>>
    /\ loader' = [loader EXCEPT ![l].pc = "idle", ![l].obj = None]
    /\ UNCHANGED <<mutex, module, signals, slot, born, file, unloader, caller>>

-----------------------------------------------------------------------------
(***************************************************************************)
(* UnloadModule, from lock to unlock under mutex_.                         *)
(***************************************************************************)
\* The module is found, OnShutdown runs and GetSignalNames lists its signals,
\* which nobody else changes while mutex_ is held.
Unload(u) ==
    /\ unloader[u].pc = "idle"
    /\ Free
    /\ module # None
    /\ mutex' = u
    /\ unloader' = [unloader EXCEPT ![u] =
           [pc |-> "remove", todo |-> {f \in Funcs : signals[f] # None}]]
    /\ UNCHANGED <<module, handle, signals, slot, born, file, open, loader,
                   caller>>

\* Mutant of RemoveSignal: Emit holds bus_mutex_ while the slot runs (v2.5).
RemoveSignalWaits(u, f) ==
    /\ unloader[u].pc = "remove"
    /\ f \in unloader[u].todo
    /\ \A c \in Callers : caller[c].pc = "idle"
    /\ signals' = [signals EXCEPT ![f] = None]
    /\ unloader' = [unloader EXCEPT ![u].todo = @ \ {f}]
    /\ UNCHANGED <<mutex, module, handle, slot, born, file, open, loader,
                   caller>>

RemoveSignal(u, f) ==
    /\ unloader[u].pc = "remove"
    /\ f \in unloader[u].todo
    /\ signals' = [signals EXCEPT ![f] = None]
    /\ unloader' = [unloader EXCEPT ![u].todo = @ \ {f}]
    /\ UNCHANGED <<mutex, module, handle, slot, born, file, open, loader,
                   caller>>

\* Mutant of EraseModule: a signal is left on the bus.
EraseEarly(u) ==
    /\ unloader[u].pc = "remove"
    /\ Cardinality(unloader[u].todo) <= 1
    /\ module' = None
    /\ unloader' = [unloader EXCEPT ![u].pc = "close", ![u].todo = {}]
    /\ UNCHANGED <<mutex, handle, signals, slot, born, file, open, loader,
                   caller>>

\* module_map_.erase.
EraseModule(u) ==
    /\ unloader[u].pc = "remove"
    /\ unloader[u].todo = {}
    /\ module' = None
    /\ unloader' = [unloader EXCEPT ![u].pc = "close"]
    /\ UNCHANGED <<mutex, handle, signals, slot, born, file, open, loader,
                   caller>>

\* dll_handles_.erase closes the SharedLibrary; mutex_ is released.
CloseLibrary(u) ==
    /\ unloader[u].pc = "close"
    /\ handle' = None
    /\ open' = open \ {handle}
    /\ mutex' = None
    /\ unloader' = [unloader EXCEPT ![u].pc = "idle"]
    /\ UNCHANGED <<module, signals, slot, born, file, loader, caller>>

-----------------------------------------------------------------------------
(***************************************************************************)
(* EventBus::Emit.                                                         *)
(***************************************************************************)
\* The snapshot of the signal, under bus_mutex_.  Emit returns false where
\* there is none.
Emit(c, f) ==
    /\ caller[c].pc = "idle"
    /\ signals[f] # None
    /\ caller' = [caller EXCEPT ![c] =
                     [pc |-> "traverse", obj |-> signals[f], func |-> f]]
    /\ UNCHANGED <<mutex, module, handle, signals, slot, born, file, open,
                   loader, unloader>>

Leave(c) ==
    caller' = [caller EXCEPT ![c] =
                  [pc |-> "idle", obj |-> None, func |-> Help]]

\* TraverseSlots, under slot_mutex_: a slot that is alive is run; one that is
\* dead, or whose module is gone, is erased.  Emit is true either way.
Traverse(c) ==
    LET o == caller[c].obj
        f == caller[c].func
    IN
    /\ caller[c].pc = "traverse"
    /\ \/ /\ slot[o][f] = "alive" /\ Alive(o)
          /\ caller' = [caller EXCEPT ![c].pc = "run"]
          /\ UNCHANGED slot
       \/ /\ slot[o][f] \in {"alive", "dead"}
          /\ slot[o][f] = "alive" => ~Alive(o)
          /\ slot' = [slot EXCEPT ![o][f] = "erased"]
          /\ Leave(c)
       \/ /\ slot[o][f] \in {"unlinked", "erased"}
          /\ Leave(c)
          /\ UNCHANGED slot
    /\ UNCHANGED <<mutex, module, handle, signals, born, file, open, loader,
                   unloader>>

\* Mutant of LockModule: the slot calls through the raw this of its lambda.
RunUnlocked(c) ==
    /\ caller[c].pc = "run"
    /\ caller' = [caller EXCEPT ![c].pc = "inside"]
    /\ UNCHANGED <<mutex, module, handle, signals, slot, born, file, open,
                   loader, unloader>>

\* Slot::Run: keep_alive is locked, is_alive_ read once more.
LockModule(c) ==
    /\ caller[c].pc = "run"
    /\ Alive(caller[c].obj)
    /\ slot[caller[c].obj][caller[c].func] = "alive"
    /\ caller' = [caller EXCEPT ![c].pc = "inside"]
    /\ UNCHANGED <<mutex, module, handle, signals, slot, born, file, open,
                   loader, unloader>>

\* The module is gone, or another call has thrown.  UpdateState is not
\* reached where the lock fails, so the slot keeps its state.
SkipModule(c) ==
    /\ caller[c].pc = "run"
    /\ \/ ~Alive(caller[c].obj)
       \/ slot[caller[c].obj][caller[c].func] # "alive"
    /\ Leave(c)
    /\ UNCHANGED <<mutex, module, handle, signals, slot, born, file, open,
                   loader, unloader>>

\* func_ returns, and keep_alive goes out of scope: the last holder deletes
\* the object.
Return(c) ==
    /\ caller[c].pc = "inside"
    /\ Leave(c)
    /\ UNCHANGED <<mutex, module, handle, signals, slot, born, file, open,
                   loader, unloader>>

\* Mutant of Throw: nobody catches, and the worker dies with the exception.
ThrowEscapes(c) ==
    /\ caller[c].pc = "inside"
    /\ caller[c].func \in Throwing
    /\ caller' = [caller EXCEPT ![c].pc = "terminated"]
    /\ UNCHANGED <<mutex, module, handle, signals, slot, born, file, open,
                   loader, unloader>>

\* func_ throws: MarkDead.
Throw(c) ==
    /\ caller[c].pc = "inside"
    /\ caller[c].func \in Throwing
    /\ slot' = [slot EXCEPT ![caller[c].obj][caller[c].func] =
                   IF @ = "alive" THEN "dead" ELSE @]
    /\ Leave(c)
    /\ UNCHANGED <<mutex, module, handle, signals, born, file, open, loader,
                   unloader>>

-----------------------------------------------------------------------------
(***************************************************************************)
(* Dispatch: the module is looked up and called under a shared lock.       *)
(***************************************************************************)
\* Help or Execute is called through the map's pointer; where the name is not
\* there, Dispatch is false.
Dispatch(c) ==
    /\ caller[c].pc = "idle"
    /\ mutex = None
    /\ module # None
    /\ caller' = [caller EXCEPT ![c].pc = "dispatch", ![c].obj = module]
    /\ UNCHANGED <<mutex, module, handle, signals, slot, born, file, open,
                   loader, unloader>>

\* It returns or throws: the lock goes either way, and no slot is marked.
EndDispatch(c) ==
    /\ caller[c].pc = "dispatch"
    /\ Leave(c)
    /\ UNCHANGED <<mutex, module, handle, signals, slot, born, file, open,
                   loader, unloader>>

-----------------------------------------------------------------------------
\* What a loader does once it has mutex_.
Connect(l) ==
    (\E f \in Funcs : RegisterSignal(l, f)) \/ LinkSlot(l) \/ Publish(l)

Load(l) ==
    \/ OpenLibrary(l) \/ InitFails(l) \/ AddDuplicate(l)
    \/ AddModule(l) \/ Connect(l) \/ DropLocal(l) \/ KeepHandle(l)

\* What an unloader does once it has mutex_.
Dismantle(u) ==
    (\E f \in Funcs : RemoveSignal(u, f)) \/ EraseModule(u) \/ CloseLibrary(u)

Call(c) ==
    \/ \E f \in Funcs : Emit(c, f)
    \/ Traverse(c) \/ LockModule(c) \/ SkipModule(c) \/ Return(c) \/ Throw(c)
    \/ Dispatch(c) \/ EndDispatch(c)

\* Nothing is loaded and nothing more will be.
Ended ==
    /\ born = MaxLoads
    /\ module = None
    /\ \A l \in Loaders : loader[l].pc = "idle"
    /\ UNCHANGED vars

Next ==
    \/ \E l \in Loaders : Load(l)
    \/ \E u \in Unloaders : Unload(u) \/ Dismantle(u)
    \/ \E c \in Callers : Call(c)
    \/ Ended

(***************************************************************************)
(* A thread that holds mutex_ keeps going.  No caller has to: what a       *)
(* module's function does, and how long, is up to its author.              *)
(***************************************************************************)
Fairness ==
    /\ \A l \in Loaders : WF_vars(Connect(l))
    /\ \A u \in Unloaders : WF_vars(Dismantle(u))

Spec == Init /\ [][Next]_vars
FairSpec == Spec /\ Fairness

-----------------------------------------------------------------------------
(***************************************************************************)
(* Properties.                                                             *)
(***************************************************************************)
\* While nobody changes them, module_map_ and the bus agree: a published
\* module answers all its signals, each with a slot that was linked, and a
\* name that is not published answers none.
BusMatchesMap ==
    mutex = None =>
        \A f \in Funcs :
            /\ signals[f] = module
            /\ module # None => slot[module][f] # "unlinked"

\* No caller gets hold of an object that has been deleted (Slot::Run's
\* keep_alive against UnloadModule, for snapshots of any age), and none that is
\* dispatching through the map's pointer has it deleted under it.
NoUseAfterFree ==
    [][/\ \A o \in 1 .. born : ~Alive(o) => ~Alive(o)'
       /\ \A c \in Callers :
              (caller[c].pc = "dispatch" => Alive(caller[c].obj))']_vars

\* mutex_ is always given back, with functions of the module still running:
\* RemoveSignal does not wait for them (event_bus.h, v2.6).
MutexComesBack == \A u \in Unloaders : mutex = u ~> mutex # u

\* The code of an object is there as long as the object: dlclose comes after
\* the last callback (UnloadModule's comment, step 4).
CallbackCodeIsMapped ==
    \A c \in Callers : caller[c].pc = "inside" => Mapped(caller[c].obj)
=============================================================================
