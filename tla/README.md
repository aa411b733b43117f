# A verification project for ModularCommandFramework

The repository is a C++20 command shell: lines are typed, parsed into a
`ParmarPack`, turned into tasks, executed by a thread pool that calls module
functions through an event bus, and answered on the main thread. Modules may be
plugins, tasks may be paused, saved and resumed, and a second process shows the
shell's figures from shared memory. Almost everything that can go wrong in it
goes wrong between threads. This directory models those parts in TLA+, checks
the models with TLC and proves the most important invariants with TLAPS. What
is sequential but easy to get wrong, the reading of command lines, snapshots and
settings, is written down as functions and checked against what it should be.

All paths are relative to the repository (`src/` is its root). Definitions keep
the names of the code where they can; `PROJECT.json` maps each of them to its
lines.

## 1. Inventory

| Part | Code | State | Operations | Talks to |
|---|---|---|---|---|
| Task engine | `core/Task.*`, `TasksPool.h`, `ResultStore.h`, `MemTaskStore.h`, `ShellEngine.h` (SubmitTask, Shutdown), `modules/TaskManagerModule.h` | slots with a `Task` each, free list, `next_id_`, snapshots, results | Acquire, Release, Step, Pause, Resume, ExportRecord, Restore, Save, Load, Delete, PushResult, Drain, Shutdown | thread pool (jobs), event bus (Step emits), shell loop (results) |
| Thread pool | `core/ThreadPool.h` | queue, mutex, condition variable, `stop_` | Enqueue, Submit, WorkerLoop, destructor | whoever hands in jobs; jobs hand in jobs (resume) |
| Shell loop | `core/ShellEngine.h`, `LockQueue.h` | `running`, `prompt_ready`, input queue | input thread, DrainResults, WaitForWork, ProcessInput, InjectCommand, RequestStop | user, UI thread, task engine |
| Module life manager and event bus | `core/ModuleLifeManager.h`, `ModuleBaseObject.h`, `eventbus/` | `module_map_`, `dll_handles_`, `signals_`, slots with weak references | LoadDLLModule, AddModule, UnloadModule, RegisterSignal, LinkSlot, RemoveSignal, Emit, Slot::Run | Step calls Emit; plugins |
| Metrics | `core/MetricsCollector.h`, `monitor/` | one page of shared memory under a seqlock | Flush, PushEvent, TryRead, the monitor's render | main loop; another process |
| Logging | `modules/logging/LogModule.h` | a queue and a writing thread | Write, WorkerLoop, destructor | every part |
| Command parser | `parser/CommandParser.*` | a queue of packs | SendPack, SendCommand, PopPack, HandleTXT | shell loop, a UI |
| ParmarPack | `sdk/ParmarPack.h` | a value | ToJson, FromJson | snapshots |
| Configuration and assembly | `core/Config.h`, `ShellApp.h` | a value | LoadFromFile, ApplyArgs, LoadConfig | everything it configures |
| Platform, formatting, samples | `core/platform/`, `IResultFormatter.h`, samples | - | wrappers | - |

What is hard, part by part, and what makes the part correct:

* **Task engine.** A `Task*` travels from `Acquire` through the job queue to a
  worker and back, and `pause`, `resume` reach into tasks of other workers
  without a lock that covers more than one access. Correct means: no slot has
  two owners or none, each accepted execution is answered exactly once, a
  shutdown leaves no result behind, `pause N` pauses N, and a paused task can be
  resumed.
* **Thread pool.** Notifications are sent outside the mutex, jobs enqueue jobs,
  the destructor races with both. Correct means: a FIFO service that runs each
  accepted job exactly once and ends when it has.
* **Shell loop.** Nobody holds `cv_mutex` while changing what the predicate
  reads, so wakeups get lost; the prompt is gated by a flag that two threads
  store. Correct means: no line, result or stop waits for ever, and the prompt
  comes when the line before it is done.
* **Modules and bus.** A call may be under way in a module that is unloaded, with
  a snapshot of a signal that is gone. Correct means: the map and the bus agree,
  a deleted object is never entered, its code stays while it runs, and the
  manager's mutex comes back.
* **Metrics.** One page, no lock, another process, crashes. Correct means: no
  torn snapshot is shown, and a dead shell is shown as dead.
* **Logging.** A queue with a thread behind it: what is left in the queue when the
  thread is told to stop, and whether a line or the stop can be slept through.
  Correct means: the lines of a thread reach the file once and in order, none
  waits for ever, and the destructor leaves a complete file.
* **Command parser.** A tokenizer with three quoting modes, heads in any order, and
  one queue that two parts fill. Correct means: a pack is what was typed, and
  the main thread never blocks on the queue.
* **ParmarPack, configuration.** Texts written and read back, cut at the wrong
  place, or from a later version; two readers of one setting. Correct means: a
  snapshot gives back its shards, and the order of precedence is the documented
  one.

The full list of hazards, each at its line and with the properties that watch
it, is `hazards` in `PROJECT.json`.

## 2. Modules

| Module | What it is |
|---|---|
| `TaskEngine` | The life of a command after parsing; composes slots, workers, stores, the pause and resume commands and the shutdown |
| `TaskEngineProofs` | Its types, slot ownership, one answer for every run of a command, the clean shutdown, a pause inside a shard that stays, and the kept snapshot with one worker, proved |
| `JobService` | Abstract: what a job queue promises |
| `ThreadPool` | `core/ThreadPool.h` in full; shown to implement `JobService` |
| `ThreadPoolProofs` | Type, no lost wakeup, nobody sleeps through the end, refinement, proved |
| `ShellLoop` | The threads around `MainLoop`, and the parser's queue between a line and its task |
| `ShellLoopProofs` | Its types, its gate and the balance of the parser's queue, proved; and, of `CommandLine`, that what was typed is what is read, for lines of any length |
| `ModuleLife` | The life manager and the event bus for one module name |
| `ModuleLifeProofs` | Its types, map and bus in agreement, no use after free, proved |
| `SeqLock` | The metrics page, its writers and the monitor |
| `SeqLockProofs` | Its types for any writers, whole pages for one, whatever the size of the event ring, proved |
| `FileLog` | The logger, its three outputs and the log thread |
| `FileLogProofs` | Its types, the lines in order, no lost notification, proved; and, of `ShellConfig`, which setting counts, for files and command lines of any length |
| `CommandLine` | Functions: from a line to its words, from the words to a pack |
| `PackJson` | Functions: packs and snapshots as JSON, written and read |
| `PackJsonProofs` | A snapshot gives back its shards, for packs of any size, proved |
| `ShellConfig` | Functions: defaults, file and command line, one over the other |
| `LoopLemmas` | Lemmas about induction, loops and texts inside texts, which the proofs about texts share |
| `MC...` | What TLC needs beyond the configurations (symmetry, the configurations of `FileLog`, and the facts about texts, below) |

One action stands for one access to shared state or one critical section.
What a thread does between two of them, alone, belongs to the action. Operators
named as mutants (`... Mutant of X`) are wrong versions of X a programmer might
have written; they take no part in the specifications and show that each
property can fail.

### TaskEngine

`task[s]` is the `Task` in slot `s`, `free` is `free_indices_`, `queue` is the
thread pool's queue (a job is the slot it captured), `store` is `MemPersistence`,
`hasStore` says whether the engine was given one, `results` is `ResultStore`. `pc`, `job`, `held`, `ptr` and `snap` are the stack
of each thread: the slot whose job it runs, the slot it acquired and has not
enqueued yet, the `Task*` a pause holds, the record a resume loaded.
`SubmitAcquire`/`SubmitEnqueue` are `SubmitTask`; `TakeJob` to `FinishTask` are
`WorkerLoop`, the `while (task->Step())` loop and `Step`, one action per read or
write of `state_`; `SaveIfPaused`, `PushResult`, `ResetTask`, `FreeSlot` are the
rest of the job; `PauseFind` to `ResumeDelete` are the commands of
`TaskManagerModule`; `Shutdown` to `StopPool` are `ShellEngine::Shutdown` and the
destruction. All shards of a task ask for the same thing and `EmitWork` may
append one, which stands for `PushShard` by any module function. In this module
the pool's condition variable is left out: `ThreadPool` shows that a queued job
is taken.

### ThreadPool and JobService

`sleeping` are the threads in `cv_.wait`, `worker` says where each stands. `Push`
is the critical section of `Enqueue`, `ClientNotify` and `JobNotify` are the
`notify_one` after it, `Stop`, `NotifyAll`, `Join` the destructor, `future` the
state of what `Submit` returned. The refinement mapping is at the end of
`ThreadPool`: the queue is the line, the jobs in the workers' hands are running,
and what is nowhere was refused.

### ShellLoop

`input` and `main` are the program counters of the two threads, `bells` counts
workers between `PushResult` and `notify_one`. `doze` is the gap between a false
predicate and the blocked thread, where a notification is lost because nobody
notifies under `cv_mutex`. What a line says is chosen when `ProcessInput` looks
at it (`ExecuteExit`, `ExecuteNothing`, `ParseLine`). The workers appear only as
what they do to the main thread. `packs` is the queue of `CommandParser`:
`SendCommand` puts the pack of an accepted line in, and `ProcessInput` takes one
out with the blocking `PopPack` right after. `SendPack`, which `CommandParser.h:34`
offers to a user interface, puts one in and wakes nobody. A pack sent so is
executed when the next line is typed, in place of that line's own, and from then
on every line runs one pack late: the run `shell_sent_pack` shows a pack that is
never taken, and `OnePackPerLine` is the account of it that is proved.

### ModuleLife

Objects are numbered as `CreateModule` makes them; an object, its
`SharedLibrary` and its signals share the number. Reference counts are not kept
but read off (`Alive`): the map, a loader before its locals go, a caller inside
`Slot::Run`. `AddModule` to `Publish` run under `mutex_`; `KeepHandle`, outside
it, is `dll_handles_[raw->GetName()] = ...`: when the module was unloaded in
between, `raw` is a deleted object, and the handle is kept under its name or,
since nothing can be said of what a deleted object answers, under some other.
`Emit`, `Traverse`, `LockModule`,
`Return`/`Throw` are `EventBus::Emit`, `Signal::TraverseSlots` and `Slot::Run`;
`Dispatch` calls through the map under a shared lock, which loads and unloads
wait for.

### SeqLock

`page` has one entry for `magic`, `seq`, two fields of `Flush`, `event_head` and
each entry of the event ring, whose names are the constant `Ring`; a flush
writes its number, an event is its number. `Flushers` and `Pushers` are the
threads that call `Flush` and `PushEvent`; a thread can be both. `Shown` is the
event list the monitor draws. `seq++` is a load and a store. Between two fences
the words are written, and copied by `memcpy`, in any order; across a fence
nothing moves, which is what the fences are for. `CheckMagic` to `Discard` are
one render of the monitor with its three `TryRead`s. `view.taken` is a history:
the copy taken over last, which the code has in its `snap` and the properties
compare with the page. A process may die at any moment, and a new one may take
the page over. The monitor is started beside a shell that has pushed `Before`
events already (`PageBefore`), as many as it likes up to a full ring.

### FileLog

`Init` reads `log.conf`, which fixes the kind of output and the first level. `Log`,
`SetLevel` and `Write` are a thread that logs, by a macro or by a command of
`LogModule`; `EmitWritten` is what the user interface hears. `log`, `held` and
`running` are the log thread, `mutex_` and `running_`; `doze` is the log thread
between its predicate and its sleep, with the mutex, and `CloseNotify` the notify
of the destructor, without it. Two threads inside an unlocked `FileOutput::Write`
leave anything (`overlap`).

### CommandLine, PackJson, ShellConfig

These have no state. A text is a sequence of characters, and what no operator
looks into is one element. Recursive functions follow the loops of the code; in
`PackJson` a loop is a function of the number of rounds (`Ended`), and the
control characters that are written as `\u` and four digits are one, `bell`. Their
properties are facts about all short texts over the characters that matter; each
compares the code's reading with what was written by an independent writer
(`Typed`, `Escape` and the damage done to its text, `InFile`, `OnCommandLine`).

The facts ride on the runs of the components that rely on them, as invariants
that mention the state only to say when they matter: `WordsAsTyped` and
`LineAsTyped` on `shell_loop` (the pack behind a line), `StoredComesBack`,
`StoredCutIsSafe` and `StoredLaterIsRead` on `engine_commands`
(where `TaskEngine` gives a restored task the shards that were exported), and
`RunsAsConfigured` on `file_log`. TLC evaluates each of them once.

## 3. Runs

Passing runs:

| Run | Bounds | Shows |
|---|---|---|
| `engine_commands` | 2 workers, 2 slots, 3 commands (a bad one among them), 2 shards, 1 round of waiting, with a store and without | `NoNullTask`, `SlotOwnedOnce`, `NoSlotLeaked`: a `Task*` is used only while it is there, a slot never has two owners or none. `AnsweredExactlyOnce`: what `Acquire` accepted is unanswered, in the store, or emitted, and only one of these. `CleanShutdown`: a shutdown that saw all slots free left no result. `PauseInShardHolds`: a pause that arrives while a shard of its task runs, from whichever worker, is still there when the snapshot is saved, unless the shard fails or a resume comes; with the runs below this is what is left of the promise of `pause`. Liveness: `EveryExecutionAnswered`, `DestructionTerminates`. The text of a snapshot: `StoredComesBack`, `StoredCutIsSafe`, `StoredLaterIsRead`, over strings of up to 3 of 8 special characters |
| `thread_pool` | 2 workers, 2 clients, 4 jobs | `WorkConserving` (no lost wakeup), `FutureSettled`, `ImplementsService` |
| `shell_loop` | 4 typed lines, 1 injected, 1 pack sent, 1 worker | `NoWorkWaits` (no line and no result waits for ever), `PromptComesBack`, `StopIsObeyed`, `InputThreadLeaves`. What the parser makes of a line: `WordsAsTyped` (words of up to 3 of 5 characters, in each quoting), `LineAsTyped` |
| `module_life` | 2 loaders, 1 unloader, 2 callers, 2 loads | `BusMatchesMap`, `NoUseAfterFree`, `MutexComesBack` |
| `metrics_page` | 1 thread that flushes and pushes, a ring of 2 events that is full, 1 more write, by this process or the next, 2 attempts, a crash at any moment and a restart | `NoTornRead`: no write shows in part, across the restart as well, and the event list is the last events in their order. `LastWriteIsSeen`: what is on the page when the writing stops gets taken over word for word, also from a process that has counted less far, except a page whose `seq` the monitor has already seen. `DeadIsNoSignal` |
| `file_log` | 2 threads, 2 lines each, 4 files `log.conf` | `LinesInOrder`: the lines of a thread are written to the stream, or still queued, once and in order, and are those the user interface heard of. `LineReachesFile`: as long as the process runs, none stays in the queue for ever. Neither speaks of the stream's own buffer, nor of what a process that ends leaves queued. `RunsAsConfigured`: command line before file before default |

Runs in which TLC finds a text of the repository contradicted by its code (each
is a finding in `PROJECT.json`, with the quotation):

| Run | Trace |
|---|---|
| `engine_lost_snapshot` | `resume` queues the job before it deletes the snapshot; another worker runs the task to its next pause and saves it; the delete then erases the new snapshot (`PausedTaskKept`) |
| `engine_pause_unsaved` | `Step` loads `state_`, another worker's `pause` stores PAUSED, `Step` stores RUNNING over it: the shards that are left are executed, the task answers and releases its slot, and no snapshot is ever saved, with every thread scheduled (`PauseLeadsToSnapshot`) |
| `shell_sent_pack` | a pack given to `SendPack` lies in the parser's queue for ever, since the main loop takes a pack only after a line, and only one (`SentPackIsTaken`) |
| `module_unload` | the library is closed while a callback runs in it: since `Emit` runs slots outside `bus_mutex_`, `RemoveSignal` does not wait (`CallbackCodeIsMapped`) |
| `metrics_two` | the main loop flushes while a worker pushes an event: both load the same `seq`, so that it is even while one still writes, and the monitor takes over half a write (`NoTornRead`) |
| `file_log_closing` | the destructor clears `running_` and notifies while the log thread is between its predicate and its sleep: the thread sleeps on, and the join never returns. Where the log thread reads `running_` first, lines stay in the queue (`DestructorCompletesFile`) |

Both pause properties need a second worker to fail, and four are the default.
What survives any number of workers is `PauseInShardHolds`. `metrics_two` takes
`PushEvent` at its word, that it is thread-safe, though nothing in the repository
calls it yet; `monitor/simulate.cpp`, which writes into the page of a running
shell (`simulate.cpp:24`), is a second writer of the same kind.

What else the models let happen, as the code does, and no property denies:

* The `Task*` of `FindTask` outlives the task it was found for. `pause N` may
  pause the command that was given the slot, or a slot `resume` has just
  acquired; then `Restore` refuses it, nobody looks at what it returns, and an
  empty task is queued in place of the snapshot, which is deleted.
* A resume may restore an id whose old slot is not released yet.
* The prompt may come while the line before it waits, although
  `ShellEngine.h:60` and `:244-245` tie it to the end of the round before: the
  main thread finds its queue empty, a line arrives, and the store of
  `prompt_ready = true` comes after it. `GateHolds` bounds what can pile up.
* A module that is unloaded after `AddModule` has published it and before its
  loader has kept the handle leaves its library open for good
  (`ModuleLifeManager.h:235`).
* A restarted process whose `seq` is the one the monitor saw last is not seen
  until it writes again: `render` compares nothing else (`main.cpp:108`).

**Why the bounds are enough.** Two workers give every pair of threads that can
meet in the engine; two slots are enough for the pool to be exhausted by a task
and the command that pauses it. Two shards make the difference
between a pause with work left and one with none; three commands allow work,
pause and resume, a task that pauses itself, and a bad one among others, and the
proofs remove the bound for everything that is safety. The four commands and the
third slot of `engine_lost_snapshot` are a second pause, and what a resume needs
besides itself and the task. `MaxWait` is 50 rounds in the code; one and
two rounds have the same two ways out. For the pool, two workers and four jobs
let a job be taken by a worker that was not notified while another sleeps, and a
job enqueue a job after `stop_`; the proofs remove these bounds. Four typed
lines are one more than can wait although the prompt comes early (`GateHolds`).
The pack sent directly is there to be left behind; a second would stay behind as
well, which is proved. Two loads let an old snapshot meet a reloaded module.
A ring
of two that is full when the monitor starts is one where the next event
overwrites the first while the second stays, so that an order can be wrong. One
more write is enough to tear a read or to be missed; made by the next process it
ends with a lower `seq` than the monitor saw last. `SeqModulus` (2^32 in the code) only has to exceed the steps `seq` can take, and is assumed
to. `kMaxEvents` is 8 and `Retries`, `StaleLimit` and `MagicLimit` are 3, 8 and
4 in the code; the proof of `NoTornRead` has them all as parameters. Two writers
are enough for two loads of `seq++` to meet. Two lines of two threads are what
an order can be wrong about, and let one be queued while the log thread holds
the other. The strings of the text facts are long enough for an escape before
and behind every special character, and for two shards, the first of which has
to be found whole.

**Deadlock** is checked in every run. Where the system ends, an action says so
(`Finished`, `Destroyed`, `Ended`). In `file_log_closing` the hanging join is no
deadlock to TLC, because a spurious wakeup may always come; it is found as a
liveness property that does not count on one.

**Fairness.** Threads are scheduled (`WF` of each worker and of the main thread,
where a step waits for nothing but its guard). Nothing is assumed of the user,
of callers of the pool, of spurious wakeups, of notifications, or of the time a
module function takes, except that a job of the pool returns. In `ShellLoop` the
fairness of the main thread includes the 100 ms of `wait_for`, on which every
liveness property of that module rests (the mutant without it breaks two). In
`ModuleLife` only threads that hold `mutex_` are fair. In `SeqLock` only the
monitor is: its refresh thread posts a tick as long as the user does not pause it.
In `FileLog` a thread in the middle of a write, the log thread and a destructor
once begun are fair.

## 4. Proofs

TLAPS proves, for every value of the constants that satisfies the named
assumptions (`PoolAssumption`, `ThreadPoolAssumption`, `ShellAssumption`,
`ModuleAssumption`, `ThreadAssumption`, `SeqLockAssumption`, `RingAssumption`,
`LogAssumption`):

| Module | Theorem | Says |
|---|---|---|
| `TaskEngineProofs` | `TypeCorrect` | `Spec => []TypeOK` |
| | `NeverNullTask` | `Spec => []NoNullTask` |
| | `OneOwnerPerSlot` | `Spec => []SlotOwnedOnce` |
| | `NoLeak` | `Spec => []NoSlotLeaked` |
| | `OneAnswerEach` | `Spec => []AnsweredExactlyOnce` |
| | `NothingLeftBehind` | `Spec => []CleanShutdown` |
| | `PausedIsKept` | `OneWorker => (Spec => []PausedTaskKept)` |
| | `PauseInShardStays` | `Spec => PauseInShardHolds` |
| `ThreadPoolProofs` | `TypeCorrect` | `Spec => []TypeOK` |
| | `NobodySleepsOn` | `Spec => []NoSleeperAfterStop` |
| | `NoLostWakeup` | `Spec => []WorkConserving` |
| | `Implements` | `Spec => service!Promise`, the safety of `JobService` |
| `ShellLoopProofs` | `TypeCorrect` | `Spec => []TypeOK` |
| | `GateHolds` | `Spec => []BacklogBounded` |
| | `PackForEveryLine` | `Spec => []OnePackPerLine` |
| | `RoundTrip` | `TokenizeCommand` gives back the words that were typed, however many, however long, each in any number of bare and quoted parts |
| | `WordsKept` | `Spec => []WordsAsTyped` |
| | `PackReadAsMeant` | `HandleTXT` makes the pack that was meant, for every module, function, two keys, two values and quoting, in one `-v:` or in two, with the heads in another order |
| | `LineKept` | `Spec => []LineAsTyped` |
| `ModuleLifeProofs` | `ModuleTypes` | `Spec => []TypeOK` |
| | `MapAndBusAgree` | `Spec => []BusMatchesMap` |
| | `HeldIsAlive` | `Spec => NoUseAfterFree` |
| `SeqLockProofs` | `PageTypes` | `Spec => []TypeOK` |
| | `WholePagesOnly` | `OneWriter => (Spec => NoTornRead)` |
| `FileLogProofs` | `LogTypesHold` | `Spec => []TypeOK` |
| | `NoLineLost` | `Spec => []LinesInOrder` |
| | `NoLostNotify` | `Spec => []NoLineSleeps`, the safety behind `LineReachesFile` |
| | `Precedence` | a field has the value of the last argument that sets it, else of the last line, else its default, whatever the texts are |
| | `AnyNumberOfSettings` | `LastOneCounts(inFile, onLine)` for any number of settings in all the styles |
| | `ConfiguredAsPromised` | `Spec => []RunsAsConfigured` |
| `PackJsonProofs` | `StringComesBack` | `ParseString` reads what `Escape` writes, for every string over any characters |
| | `ShardsComeBack` | `ParseShardsJson` gives back the packs that were exported, for any number of packs, parameters and values, any strings, any order of the parameters |
| | `StoredBack` | `Spec => []StoredComesBack` |

Each inductive invariant below was checked by TLC, as an invariant, on the
instances of the runs before it was proved.

*TaskEngine.* The inductive invariant `SlotInv` is the type invariant, the
control invariant `NoNullTask` (the program counter decides which of `job`,
`held`, `ptr` is set) and the two ownership properties. None is inductive alone:
a slot is pushed on the free list by a worker whose `job` must be one slot that
is nowhere else, which needs ownership, and moving it needs the program counter
to say that it is there. All actions fall into those that move a slot, along one
of seven ways (`SlotMove`), and those that do not (`SlotStay`); ownership is
proved once per way instead of once per action. The parts of the type invariant
are proved by group of actions.

*ThreadPool.* `WaitInv` ties `sleeping` and `stop` to the program counters;
`JobInv` says that a job number is in the queue, with one worker, or done, and
never two of these. With them `WorkConserving` is inductive: the critical step is
`Sleep`, which is possible only with an empty queue, and `Take`, which removes one
job with one looker. The refinement is then one step of `JobService`, or a
stutter, per action (`StepRefines`).

*ShellLoop.* The gate may open early, but not again and again, which is what
`GateHolds` says. That at most three typed lines wait is not inductive: a state with
three waiting and the gate open would break it. The invariant is
`Backlog + Coming <= 3`, where `Coming` counts the lines that may still arrive
before the main thread sees its queue empty: the one read and not pushed, the one
the gate has let pass or would, and the one that the `store(true)` the main thread
is about to make will let pass. A line read or pushed moves from `Coming` to
`Backlog`; only `PopNothing` lets `Coming` grow, and it needs an empty queue. The
count of typed lines in a queue after a push and a pop is what the lemmas
`TypedAfterPush` and `TypedAfterPop` give, the second by a bijection of positions.
`LineInv` says that a thread has a line in its hands while it works on one.

*The answers.* `AnsweredExactlyOnce` counts results, and a count says nothing
about a run that is still in a slot. The invariant `AnswerInv` adds that the slots
in use carry different run numbers, all of them given out and none of them
answered yet. Every step is then one of three (`AnswerMove`): a slot is
given a new run, a run's answer is pushed, or answers are delivered.
`CleanShutdown` follows from the order of `Shutdown`: when the free list has the
length of the pool it is a permutation of it (`FullListIsPool`, an injection of a
finite set into itself).

*Pause.* `PauseInShardHolds` is an action property of all workers at once. A step
of the worker that runs the shard follows its program counter, and only a failing
shard stores something else (`EmitMissing`). A step of any other thread does not
write to that `Task`, since `SlotInv` says that it is not theirs, except through
a stale pointer of a pause, which stores PAUSED again, or by `Resume`
(`OthersLeaveShard`). `PausedTaskKept` is false with two workers, as
`engine_lost_snapshot` shows. `PausedIsKept` says that the number of workers is the
reason: between the `Enqueue` and the `Delete` of a resume (`DeleteOK`) nobody else
runs.

*ModuleLife.* `LockOK` says that one loader or unloader at a time is inside
`mutex_`, or any number of dispatching callers and no other. `BusOK` says how far
the thread inside has come: a loader has connected the functions that are no
longer in its `todo`, an unloader has disconnected them, and with nobody inside
the map and the bus say the same. A `todo` that is empty when the map is written
gives `BusMatchesMap`. `NoUseAfterFree` needs that a number that was given out is
taken hold of only by somebody who finds it alive (`DeadStaysDead`), and that the
map does not change while a shared lock is held.

*SeqLock.* The types hold for any number of writers; `event_head` stays below
the bound because every event that was stored is a write begun, the writers that
have begun and not stored being counted apart (`HeadOK`, with a cardinality).
`WholePagesOnly` is about one writer, as the shell has one: its invariant says
where `seq` is odd and what of the page is written there (`WriterOK`), that an
even `seq` means a whole page even when the process is gone (`LifeOK`), and that
what was copied is what is on the page as long as `seq` is still `s1`, except
`magic`, which is written outside the protocol (`CopyOK`). `seq` does not come
round in the life of a page (`SeqLockAssumption`). That the event list is right
needs the ring: `Ordered` says which event each entry holds for a given
`event_head`, the last one whose number leaves the entry's index as a remainder,
and `Kept` the same while an entry or `event_head` is being written. One more
event overwrites the oldest and no other, because two of the last `Len(Ring)`
numbers never have the same remainder (`ModApart`); the lemmas about `%` before it
are proved from `DivMod`. `FirstPage` shows that the page of a running shell, with
any number of events up to a full ring, is `Ordered` when the monitor is started.
The ring may have any size.

*FileLog.* `LinesInOrder` compares sequences, and nothing can be proved here of an
operator that filters one. So the property is stated by positions and sets: the
numbers of a thread's lines increase in what was written and in what was heard,
and the two have the same lines; for increasing sequences that is equality.
The file followed by the queue is one sequence to which lines are appended and
which the log thread leaves as it is. `NumbersOK` gives the reason why an appended
line is the latest of its thread: a thread's lines are numbered up to its count,
and the one in its hands has that number.

*CommandLine.* Most of what a text means is induction over its characters, and
no induction theorem of the library can be used (each takes an operator as a
parameter). One that needs no operator is proved from a fact about finite sets:
a set of numbers that has 0 and the successor of each member has them all, or
"one more" would be an injection of a finite set into itself that leaves an
element out (`Induction`, from `FS_Injection`). With it the tokenizer's loop, a
function defined by its own values, is shown to have a value after every
character (`Iteration`; both are in `LoopLemmas`), a piece in quotes or bare
adds its characters to the word (one lemma per way of typing), a blank ends the
word, and words follow each other. The pack is read the same way: the loop of
the head `-v:` stops at the commas it finds and nowhere else, and a loop that
has the right values at every step is the loop (`WritePairs` is unique).

*ShellConfig.* `LoadFromFile` and `ApplyArgs` are one loop over `Apply`, with the key
and the value that a line or an argument yields, if any. After `n` rounds a field
has the value of the last of the first `n` settings of it, or what it had before
(`LoopIs`, by `Induction`). That gives `Precedence`, which says nothing of how a
setting is written. What each style of a line and of an argument yields is a
lemma of its own (`FileSays`, `ArgSays`), and a file followed by a command line
has the last setting of the command line, or of the file if there is none there
(`LastOfTwo`).

*PackJson.* A text is laid out before it is read: `EscapeLies`, `Flattened` and
`HasEach` say where in a text each of its parts stands, and every reader is
shown to go from the beginning of a part to its end, with the value the part was
made from (`StringRead`, `ListRead`, `ParamRead`, `FieldRead`, `PackRead`). A list is
read by the same loop whatever its items are, so `ListRead` is stated for
items that are read rightly where they stand, and used for values, for parameters
and for fields. The scan for the end of a shard is defined by what follows it,
not by what went before; that it is a function at all is `PastExists`. It
passes a string with its braces and escapes (`StringPasses`) and everything
between a brace and its partner (`ObjectPasses`), so that it cuts out the text of
one pack and no more (`CutOut`). The parameters of a pack are a map: any
sequence in which every key occurs rebuilds it (`ParamsTaken`).

Only model-checked: all liveness, which is out of the provers' reach, as is
ENABLED; so `ImplementsService` is checked with its fairness and proved without,
and of `LineReachesFile` the safety is proved (`NoLostNotify`). Of the facts about
texts, the two of `PackJson` that are not about what the code wrote itself:
`StoredCutIsSafe`, which needs that a text cut anywhere is refused, the converse of
all that is proved here, and `StoredLaterIsRead`, which needs an induction over
the depth of unknown values.

## 5. Not modelled

* **Task**: `Tick`, `Cancel`, the completion and error callbacks and
  `SetTotalShards`, which only tests use. `Tick` runs module functions under the
  pool's mutex and the callbacks run under `shards_mutex_`, so a function or
  callback that asks the pool or the task would deadlock; with no caller in the
  shell nothing of it can happen there.
* **Task scheduler** (`ITaskScheduler`, `MemScheduler`, the null stores): no caller.
* **A crash of the shell's process**: `MemPersistence`, the only store, dies with it.
* **Event bus**: several slots on one signal, `DisableSignal`, `DeleteSlot`. The
  manager makes one slot per signal and never disables one.
* **Metrics**: how the figures are sampled (`FlushMetrics` asks the pool twice, and
  uses the collector's pointer after the lookup's lock is gone; nobody unloads the
  collector), `TimerLoop`, which nothing starts, and the command `metrics`, which
  reads the page without `TryRead`; `monitor/simulate.cpp` beyond what
  `metrics_two` says of a second writer.
* **ParmarPack**: the typed accessors. **Logging**: the two formats of a line.
  **Command parser**: `RegisterFormat` and `RegisterHead`, called by the
  constructor only. **Assembly** (`ShellApp`, `main.cpp`): straight-line code.
* **Platform layer, result formatting, sample modules, the deprecated console
  parser**: wrappers, pure formatting, user functions, dead code.
* **Time**: no clock. A timeout is a step that may happen; how long the monitor or
  a wait takes is left open.
* **Memory order**: single accesses are atomic and in program order, except
  where `SeqLock` says otherwise; the shared flags of the shell are
  `std::atomic` with the default order.
* **A starving main thread**: `ProcessInput` takes lines as long as there are any,
  so a UI that injects faster than they run keeps results from being drained, as
  `docs/zh/12-并发审计.md`, Problem D (lines 157-172), says. The number of injected
  lines is bounded here, which leaves that out: `NoWorkWaits` holds for finitely
  many.

## 6. Plan

Done, in this order: `TaskEngine` with its proofs; `JobService`, `ThreadPool` with
its proofs; `ShellLoop`; `ModuleLife`; `SeqLock`; `FileLog`; `CommandLine`,
`PackJson`, `ShellConfig`; the parser's queue in `ShellLoop`, and its proofs;
`Dispatch` in `ModuleLife`; the event ring in `SeqLock`.
Then the proofs of the answers and of pause and resume in `TaskEngineProofs`, of
`ModuleLifeProofs`, `SeqLockProofs` and `FileLogProofs`, and of the texts, with
`LoopLemmas`: command lines, settings, snapshots (`PackJsonProofs`).

Next, proofs again:

1. Which `Task` a resumed job continues: that the shards of a restored task are
   those of the snapshot it was made from, for any number of workers.
2. The safety behind `MutexComesBack` and `StopIsObeyed`, as `NoLostNotify` is
   behind `LineReachesFile`: whoever has `mutex_` always has a step to take, and a
   stop that was requested is never taken back.
3. The safety behind `LastWriteIsSeen`: with the framework down and `seq` even, the
   monitor's next complete copy is taken over or has the `seq` of the last one.
