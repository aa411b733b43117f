----------------------------- MODULE TaskEngine -----------------------------
(***************************************************************************)
(* The life of a command once ShellEngine::ProcessInput has parsed it: a   *)
(* slot of TasksPool is acquired, a job is put in ThreadPool's queue, a    *)
(* worker drives Task::Step until it returns false, saves a snapshot when  *)
(* the task stopped PAUSED, pushes the result and releases the slot.  The  *)
(* pause and resume commands of TaskManagerModule are themselves tasks     *)
(* whose only shard reaches into the state of other tasks.                 *)
(*                                                                         *)
(* Every shared atomic read or write and every critical section is a step  *)
(* of its own, so that the interleavings of the C++ threads are those of   *)
(* this module.                                                            *)
(***************************************************************************)
EXTENDS Integers, Sequences, FiniteSets

CONSTANTS
    Workers,      \* the threads of ThreadPool
    Main,         \* the thread that runs ShellEngine::MainLoop
    PoolSize,     \* the slots of TasksPool
    Ops,          \* the kinds of command the user types
    Targets,      \* the task ids the user names in pause and resume
    Backends,     \* whether a persistence backend is injected: TRUE, FALSE or both
    MaxCommands,  \* bound: commands typed in a behaviour
    MaxShards,    \* bound: shards a task grows to with PushShard
    MaxWait       \* kMaxWait: rounds Shutdown waits for (50 in the code)

ASSUME PoolAssumption ==
    /\ PoolSize \in Nat \ {0}       \* TasksPool's constructor throws on 0
    /\ Main \notin Workers
    /\ Ops \subseteq {"work", "bad", "pause", "resume"}
    /\ Targets \subseteq Nat
    /\ Backends \subseteq BOOLEAN
    /\ MaxCommands \in Nat
    /\ MaxShards \in Nat \ {0}
    /\ MaxWait \in Nat \ {0}

Slots   == 1 .. PoolSize
NoSlot  == 0                        \* a null Task*
Threads == Workers \cup {Main}

-----------------------------------------------------------------------------
(***************************************************************************)
(* Data.  A pack is what a shard asks for: "work" is a module function     *)
(* that may append shards, "bad" names a signal nobody registered.  All    *)
(* shards of a task ask for the same thing, so a task keeps its pack, the  *)
(* number of its shards and the next one to run.  `run` is the number that *)
(* Acquire drew for this execution (Restore overwrites id, not run).       *)
(***************************************************************************)
Packs == [op : {"work", "bad", "pause", "resume"}, arg : Nat]

\* The std::make_unique<ParmarPack>() that resume acquires with: its signal
\* is ".", which no module registers.
DummyPack == [op |-> "bad", arg |-> 0]

States == {"IDLE", "RUNNING", "PAUSED", "COMPLETED", "FAILED"}

Tasks == [state : States, id : Nat, run : Nat, pack : Packs,
          total : Nat, cur : Nat]

\* Mutant of EmptyTask: Reset writes the -1 that pause and resume use as "no id".
EmptyTaskMinusOne == [state |-> "IDLE", id |-> -1, run |-> 0,
                      pack |-> DummyPack, total |-> 0, cur |-> 0]

EmptyTask == [state |-> "IDLE", id |-> 0, run |-> 0, pack |-> DummyPack,
              total |-> 0, cur |-> 0]

\* Task::Assign followed by SetID: one shard, nothing executed.
Assigned(pack, n) == [state |-> "IDLE", id |-> n, run |-> n, pack |-> pack,
                      total |-> 1, cur |-> 0]

Records == [id : Nat, state : States, pack : Packs, total : Nat, cur : Nat]
NoRecord == [id |-> 0, state |-> "IDLE", pack |-> DummyPack,
             total |-> 0, cur |-> 0]

\* Task::ExportRecord.
ExportRecord(t) == [id |-> t.id, state |-> t.state, pack |-> t.pack,
                    total |-> t.total, cur |-> t.cur]

\* Task::Restore on an IDLE task; on any other it returns false and changes
\* nothing, and resume does not look at the answer.
Restored(t, r) ==
    IF t.state = "IDLE"
    THEN [t EXCEPT !.state = IF r.state = "COMPLETED" THEN "IDLE" ELSE r.state,
                   !.id = r.id, !.pack = r.pack,
                   !.total = r.total, !.cur = r.cur]
    ELSE t

-----------------------------------------------------------------------------
VARIABLES
    task,     \* the Task object of each slot
    free,     \* TasksPool::free_indices_, oldest first
    nextId,   \* TasksPool::next_id_
    queue,    \* ThreadPool::queue_: the slot each job captured
    stop,     \* ThreadPool::stop_
    pc,       \* where each thread stands
    job,      \* the slot whose job a worker executes
    held,     \* the slot a thread acquired and has not enqueued yet
    ptr,      \* the Task* a pause or in-memory resume holds on to
    snap,     \* the record a resume loaded
    hasStore, \* whether store_ is injected (before the threads start)
    store,    \* MemPersistence::records_
    results,  \* ResultStore::store_, as the executions whose result it holds
    emitted,  \* history: executions whose result reached EmitResult
    dropped,  \* history: slots whose job ThreadPool::Enqueue threw away
    parked,   \* history: tasks saved PAUSED and not resumed since
    sent,     \* bound counter: commands typed so far
    waits     \* the loop counter of Shutdown

vars == <<task, free, nextId, queue, stop, pc, job, held, ptr, snap,
          hasStore, store, results, emitted, dropped, parked, sent, waits>>

poolVars   == <<free, nextId, hasStore>>
jobVars    == <<queue, stop, dropped, hasStore>>
resultVars == <<results, emitted, parked>>
mainVars   == <<sent, waits>>

MainPCs == {"run", "enqueue", "waiting", "counting", "final", "drained",
            "timedout"}
WorkerPCs == {"wait", "load", "start", "check", "emit", "advance", "finish",
              "exit", "push", "reset", "free", "gone",
              "pauseCheck", "pauseStore",
              "acquire", "restore", "unpause", "handover", "delete",
              "memCheck", "memResume"}

TypeOK ==
    /\ task \in [Slots -> Tasks]
    /\ free \in Seq(Slots)
    /\ nextId \in Nat \ {0}
    /\ queue \in Seq(Slots)
    /\ stop \in BOOLEAN
    /\ pc \in [Threads -> MainPCs \cup WorkerPCs]
    /\ job \in [Workers -> Slots \cup {NoSlot}]
    /\ held \in [Threads -> Slots \cup {NoSlot}]
    /\ ptr \in [Workers -> Slots \cup {NoSlot}]
    /\ snap \in [Workers -> Records]
    /\ hasStore \in BOOLEAN
    /\ store \in SUBSET Records
    /\ results \in SUBSET Nat
    /\ emitted \in SUBSET Nat
    /\ dropped \in SUBSET Slots
    /\ parked \in SUBSET Nat
    /\ sent \in Nat
    /\ waits \in Nat

Init ==
    /\ task = [s \in Slots |-> EmptyTask]
    /\ free = [i \in 1 .. PoolSize |-> i]
    /\ nextId = 1
    /\ queue = <<>>
    /\ stop = FALSE
    /\ pc = [t \in Threads |-> IF t = Main THEN "run" ELSE "wait"]
    /\ job = [w \in Workers |-> NoSlot]
    /\ held = [t \in Threads |-> NoSlot]
    /\ ptr = [w \in Workers |-> NoSlot]
    /\ snap = [w \in Workers |-> NoRecord]
    /\ hasStore \in Backends
    /\ store = {}
    /\ results = {}
    /\ emitted = {}
    /\ dropped = {}
    /\ parked = {}
    /\ sent = 0
    /\ waits = 0

-----------------------------------------------------------------------------
(***************************************************************************)
(* Building blocks shared by the main thread and the workers.              *)
(***************************************************************************)
Goto(t, label) == pc' = [pc EXCEPT ![t] = label]

SetState(s, st) == task' = [task EXCEPT ![s].state = st]

\* Mutant of Acquire: the index is read but not popped.
AcquireWithoutPop(t, pack) ==
    /\ free # <<>>
    /\ held' = [held EXCEPT ![t] = Head(free)]
    /\ UNCHANGED free
    /\ task' = [task EXCEPT ![Head(free)] = Assigned(pack, nextId)]
    /\ nextId' = nextId + 1

\* TasksPool::Acquire when a slot is free: the oldest free index, a fresh id.
Acquire(t, pack) ==
    /\ free # <<>>
    /\ held' = [held EXCEPT ![t] = Head(free)]
    /\ free' = Tail(free)
    /\ task' = [task EXCEPT ![Head(free)] = Assigned(pack, nextId)]
    /\ nextId' = nextId + 1

\* Mutant of Enqueue: a job that finds another one waiting is dropped too.
EnqueueBounded(t) ==
    /\ held' = [held EXCEPT ![t] = NoSlot]
    /\ IF stop \/ queue # <<>>
       THEN dropped' = dropped \cup {held[t]} /\ UNCHANGED queue
       ELSE queue' = Append(queue, held[t]) /\ UNCHANGED dropped
    /\ UNCHANGED stop

\* ThreadPool::Enqueue: silently drops the job once the pool is stopping.
Enqueue(t) ==
    /\ held' = [held EXCEPT ![t] = NoSlot]
    /\ IF stop
       THEN dropped' = dropped \cup {held[t]} /\ UNCHANGED queue
       ELSE queue' = Append(queue, held[t]) /\ UNCHANGED dropped
    /\ UNCHANGED stop

\* TasksPool::FindTask: the first slot, free or not, whose id matches.
Matches(n) == {s \in Slots : task[s].id = n}
Found(s, n) == s \in Matches(n) /\ \A r \in Matches(n) : s <= r

\* MemPersistence::Save, Load and Delete.
Save(r)   == store' = {x \in store : x.id # r.id} \cup {r}
Delete(n) == store' = {x \in store : x.id # n}

\* ResultStore::Drain followed by EmitResult on every item.
Drain == /\ emitted' = emitted \cup results
         /\ results' = {}
         /\ UNCHANGED parked

-----------------------------------------------------------------------------
(***************************************************************************)
(* The main thread.                                                        *)
(***************************************************************************)
Commands == [op : Ops \ {"pause", "resume"}, arg : {0}]
                \cup [op : Ops \cap {"pause", "resume"}, arg : Targets]

\* SubmitTask: Acquire fails, "All tasks busy" is printed.
SubmitBusy ==
    /\ pc[Main] = "run"
    /\ sent < MaxCommands
    /\ free = <<>>
    /\ sent' = sent + 1
    /\ UNCHANGED <<task, poolVars, jobVars, pc, job, held, ptr, snap, store,
                   resultVars, waits>>

\* SubmitTask: a slot is acquired for the command.
SubmitAcquire ==
    /\ pc[Main] = "run"
    /\ sent < MaxCommands
    /\ \E cmd \in Commands : Acquire(Main, cmd)
    /\ sent' = sent + 1
    /\ Goto(Main, "enqueue")
    /\ UNCHANGED <<jobVars, job, ptr, snap, store, resultVars, waits>>

\* SubmitTask: its job goes to the thread pool.
SubmitEnqueue ==
    /\ pc[Main] = "enqueue"
    /\ Enqueue(Main)
    /\ Goto(Main, "run")
    /\ UNCHANGED <<task, poolVars, job, ptr, snap, store, resultVars, mainVars>>

\* MainLoop: DrainResults.
DrainResults ==
    /\ pc[Main] = "run"
    /\ results # {}
    /\ Drain
    /\ UNCHANGED <<task, poolVars, jobVars, pc, job, held, ptr, snap, store,
                   mainVars>>

\* The main loop has ended: Shutdown starts its bounded idle drain.
Shutdown ==
    /\ pc[Main] = "run"
    /\ Goto(Main, "waiting")
    /\ UNCHANGED <<task, poolVars, jobVars, job, held, ptr, snap, store,
                   resultVars, mainVars>>

\* One round: cv.wait_for returns (by a result or after 100 ms), Drain.
ShutdownDrain ==
    /\ pc[Main] = "waiting"
    /\ Drain
    /\ waits' = waits + 1
    /\ Goto(Main, "counting")
    /\ UNCHANGED <<task, poolVars, jobVars, job, held, ptr, snap, store, sent>>

\* GetFreeCount() == GetTotalCount() ends the wait; so does the last round.
ShutdownCount ==
    /\ pc[Main] = "counting"
    /\ \/ Len(free) = PoolSize /\ Goto(Main, "final")
       \/ Len(free) # PoolSize /\ waits < MaxWait /\ Goto(Main, "waiting")
       \/ Len(free) # PoolSize /\ waits >= MaxWait /\ Goto(Main, "timedout")
    /\ UNCHANGED <<task, poolVars, jobVars, job, held, ptr, snap, store,
                   resultVars, mainVars>>

\* Mutant of ShutdownFinalDrain: the code before v2.5, without the second Drain.
ShutdownWithoutFinalDrain ==
    /\ pc[Main] = "final"
    /\ Goto(Main, "drained")
    /\ UNCHANGED <<task, poolVars, jobVars, job, held, ptr, snap, store,
                   resultVars, mainVars>>

\* The double check of v2.5: a last Drain after every slot is back.
ShutdownFinalDrain ==
    /\ pc[Main] = "final"
    /\ Drain
    /\ Goto(Main, "drained")
    /\ UNCHANGED <<task, poolVars, jobVars, job, held, ptr, snap, store,
                   mainVars>>

\* ~ThreadPool: stop_ under the lock, notify_all; the join is Finished.
StopPool ==
    /\ pc[Main] \in {"drained", "timedout"}
    /\ ~stop
    /\ stop' = TRUE
    /\ UNCHANGED <<task, poolVars, queue, dropped, pc, job, held, ptr, snap,
                   store, resultVars, mainVars>>

-----------------------------------------------------------------------------
(***************************************************************************)
(* ThreadPool::WorkerLoop.                                                 *)
(***************************************************************************)
TakeJob(w) ==
    /\ pc[w] = "wait"
    /\ queue # <<>>
    /\ job' = [job EXCEPT ![w] = Head(queue)]
    /\ queue' = Tail(queue)
    /\ Goto(w, "load")
    /\ UNCHANGED <<task, poolVars, stop, dropped, held, ptr, snap, store,
                   resultVars, mainVars>>

Leave(w) ==
    /\ pc[w] = "wait"
    /\ stop
    /\ queue = <<>>
    /\ Goto(w, "gone")
    /\ UNCHANGED <<task, poolVars, jobVars, job, held, ptr, snap, store,
                   resultVars, mainVars>>

-----------------------------------------------------------------------------
(***************************************************************************)
(* Task::Step, as the job's loop `while (task->Step(bus)) {}` calls it.    *)
(***************************************************************************)
quiet == <<poolVars, jobVars, job, held, snap, results, emitted, mainVars>>

\* Mutant of LoadState: COMPLETED is not an early return.
LoadStateIgnoringCompletion(w) ==
    /\ pc[w] = "load"
    /\ \/ task[job[w]].state = "IDLE" /\ Goto(w, "start")
       \/ task[job[w]].state \in {"RUNNING", "COMPLETED"} /\ Goto(w, "check")
       \/ task[job[w]].state \in {"PAUSED", "FAILED"} /\ Goto(w, "exit")
    /\ UNCHANGED <<task, ptr, store, parked, quiet>>

\* state_.load(): the copy s decides; state_ may change before it is used.
LoadState(w) ==
    /\ pc[w] = "load"
    /\ \/ task[job[w]].state = "IDLE" /\ Goto(w, "start")
       \/ task[job[w]].state = "RUNNING" /\ Goto(w, "check")
       \/ /\ task[job[w]].state \in {"PAUSED", "COMPLETED", "FAILED"}
          /\ Goto(w, "exit")
    /\ UNCHANGED <<task, ptr, store, parked, quiet>>

\* state_.store(RUNNING), whatever state_ is by now.
StartTask(w) ==
    /\ pc[w] = "start"
    /\ SetState(job[w], "RUNNING")
    /\ Goto(w, "check")
    /\ UNCHANGED <<ptr, store, parked, quiet>>

\* Under shards_mutex_: no shard left, or the pack of the next one.
CheckShards(w) ==
    LET s == job[w] IN
    /\ pc[w] = "check"
    /\ \/ /\ task[s].cur >= task[s].total
          /\ SetState(s, "COMPLETED")
          /\ Goto(w, "load")
       \/ /\ task[s].cur < task[s].total
          /\ Goto(w, "emit")
          /\ UNCHANGED task
    /\ UNCHANGED <<ptr, store, parked, quiet>>

Emitting(w, op) == pc[w] = "emit" /\ task[job[w]].pack.op = op

\* Emit answers false: SIGNAL_NOT_FOUND, Step returns false.
EmitMissing(w) ==
    /\ Emitting(w, "bad")
    /\ SetState(job[w], "FAILED")
    /\ Goto(w, "exit")
    /\ UNCHANGED <<ptr, store, parked, quiet>>

\* A module function ran; it may have appended the next shard (PushShard).
EmitWork(w) ==
    LET s == job[w] IN
    /\ Emitting(w, "work")
    /\ \/ UNCHANGED task
       \/ /\ task[s].total < MaxShards
          /\ task' = [task EXCEPT ![s].total = @ + 1]
    /\ Goto(w, "advance")
    /\ UNCHANGED <<ptr, store, parked, quiet>>

\* Mutant of Advance: current_ is not incremented.
AdvanceNowhere(w) ==
    LET s == job[w] IN
    /\ pc[w] = "advance"
    /\ \/ task[s].state = "PAUSED" /\ Goto(w, "exit")
       \/ task[s].state # "PAUSED" /\ task[s].cur >= task[s].total
                                  /\ Goto(w, "finish")
       \/ task[s].state # "PAUSED" /\ task[s].cur < task[s].total
                                  /\ Goto(w, "load")
    /\ UNCHANGED <<task, ptr, store, parked, quiet>>

\* Under shards_mutex_: current_++, then state_.load() and the size test.
Advance(w) ==
    LET s == job[w] IN
    /\ pc[w] = "advance"
    /\ task' = [task EXCEPT ![s].cur = @ + 1]
    /\ \/ task[s].state = "PAUSED" /\ Goto(w, "exit")
       \/ /\ task[s].state # "PAUSED"
          /\ task[s].cur + 1 >= task[s].total
          /\ Goto(w, "finish")
       \/ /\ task[s].state # "PAUSED"
          /\ task[s].cur + 1 < task[s].total
          /\ Goto(w, "load")
    /\ UNCHANGED <<ptr, store, parked, quiet>>

\* state_.store(COMPLETED), whatever state_ is by now.
FinishTask(w) ==
    /\ pc[w] = "finish"
    /\ SetState(job[w], "COMPLETED")
    /\ Goto(w, "load")
    /\ UNCHANGED <<ptr, store, parked, quiet>>

-----------------------------------------------------------------------------
(***************************************************************************)
(* TaskManagerModule, run by the worker as the shard of a pause command.   *)
(***************************************************************************)
PauseFind(w) ==
    LET n == task[job[w]].pack.arg IN
    /\ Emitting(w, "pause")
    /\ \/ Matches(n) = {} /\ Goto(w, "advance") /\ UNCHANGED ptr
       \/ \E s \in Slots :
            /\ Found(s, n)
            /\ ptr' = [ptr EXCEPT ![w] = s]
            /\ Goto(w, "pauseCheck")
    /\ UNCHANGED <<task, store, parked, quiet>>

\* Already paused: nothing is stored.
PauseCheck(w) ==
    /\ pc[w] = "pauseCheck"
    /\ \/ /\ task[ptr[w]].state = "PAUSED"
          /\ ptr' = [ptr EXCEPT ![w] = NoSlot]
          /\ Goto(w, "advance")
       \/ /\ task[ptr[w]].state # "PAUSED"
          /\ UNCHANGED ptr
          /\ Goto(w, "pauseStore")
    /\ UNCHANGED <<task, store, parked, quiet>>

\* Task::Pause through the pointer found two steps ago.
PauseStore(w) ==
    /\ pc[w] = "pauseStore"
    /\ SetState(ptr[w], "PAUSED")
    /\ ptr' = [ptr EXCEPT ![w] = NoSlot]
    /\ Goto(w, "advance")
    /\ UNCHANGED <<store, parked, quiet>>

(***************************************************************************)
(* ... and of a resume command with a persistence backend.                 *)
(***************************************************************************)
ResumeLoad(w) ==
    LET n == task[job[w]].pack.arg IN
    /\ hasStore
    /\ Emitting(w, "resume")
    /\ \/ /\ \A r \in store : r.id # n
          /\ Goto(w, "advance")
          /\ UNCHANGED snap
       \/ \E r \in store :
            /\ r.id = n
            /\ snap' = [snap EXCEPT ![w] = r]
            /\ Goto(w, "acquire")
    /\ UNCHANGED <<task, ptr, store, poolVars, jobVars, job, held, resultVars,
                   mainVars>>

\* Mutant of ResumeBusy: the null Task* is not tested.
ResumeUnchecked(w) ==
    /\ pc[w] = "acquire"
    /\ free = <<>>
    /\ Goto(w, "restore")
    /\ UNCHANGED <<task, ptr, snap, store, poolVars, jobVars, job, held,
                   resultVars, mainVars>>

\* No free slot: the command fails and the snapshot stays.
ResumeBusy(w) ==
    /\ pc[w] = "acquire"
    /\ free = <<>>
    /\ snap' = [snap EXCEPT ![w] = NoRecord]
    /\ Goto(w, "advance")
    /\ UNCHANGED <<task, ptr, store, poolVars, jobVars, job, held, resultVars,
                   mainVars>>

ResumeAcquire(w) ==
    /\ pc[w] = "acquire"
    /\ Acquire(w, DummyPack)
    /\ Goto(w, "restore")
    /\ UNCHANGED <<ptr, snap, store, jobVars, job, resultVars, mainVars>>

\* Task::Restore.
ResumeRestore(w) ==
    /\ pc[w] = "restore"
    /\ task' = [task EXCEPT ![held[w]] = Restored(@, snap[w])]
    /\ snap' = [snap EXCEPT ![w] = NoRecord]
    /\ Goto(w, "unpause")
    /\ UNCHANGED <<ptr, store, poolVars, jobVars, job, held, resultVars,
                   mainVars>>

\* Task::Resume: PAUSED becomes RUNNING, any other state stays.
Resumed(s) == IF task[s].state = "PAUSED"
              THEN SetState(s, "RUNNING")
              ELSE UNCHANGED task

ResumeUnpause(w) ==
    /\ pc[w] = "unpause"
    /\ Resumed(held[w])
    /\ Goto(w, "handover")
    /\ UNCHANGED <<ptr, store, parked, quiet>>

\* workers_.Enqueue: from here on another worker may run the task.
ResumeEnqueue(w) ==
    /\ pc[w] = "handover"
    /\ Enqueue(w)
    /\ parked' = parked \ {task[job[w]].pack.arg}
    /\ Goto(w, "delete")
    /\ UNCHANGED <<task, poolVars, job, ptr, snap, store, results, emitted,
                   mainVars>>

\* store_->Delete(tid), after the job is already in the queue.
ResumeDelete(w) ==
    /\ pc[w] = "delete"
    /\ Delete(task[job[w]].pack.arg)
    /\ Goto(w, "advance")
    /\ UNCHANGED <<task, ptr, parked, quiet>>

(***************************************************************************)
(* ... and of a resume command without one.                                *)
(***************************************************************************)
MemFind(w) ==
    LET n == task[job[w]].pack.arg IN
    /\ ~hasStore
    /\ Emitting(w, "resume")
    /\ \/ Matches(n) = {} /\ Goto(w, "advance") /\ UNCHANGED ptr
       \/ \E s \in Slots :
            /\ Found(s, n)
            /\ ptr' = [ptr EXCEPT ![w] = s]
            /\ Goto(w, "memCheck")
    /\ UNCHANGED <<task, store, parked, quiet>>

MemCheck(w) ==
    /\ pc[w] = "memCheck"
    /\ \/ /\ task[ptr[w]].state = "PAUSED"
          /\ UNCHANGED ptr
          /\ Goto(w, "memResume")
       \/ /\ task[ptr[w]].state # "PAUSED"
          /\ ptr' = [ptr EXCEPT ![w] = NoSlot]
          /\ Goto(w, "advance")
    /\ UNCHANGED <<task, store, parked, quiet>>

MemResume(w) ==
    /\ pc[w] = "memResume"
    /\ Resumed(ptr[w])
    /\ ptr' = [ptr EXCEPT ![w] = NoSlot]
    /\ Goto(w, "advance")
    /\ UNCHANGED <<store, parked, quiet>>

-----------------------------------------------------------------------------
(***************************************************************************)
(* The tail of the job, after the Step loop.                               *)
(***************************************************************************)
\* Mutant of SaveIfPaused: a pause that hits the last shard is not saved.
SaveIfUnfinished(w) ==
    LET t == task[job[w]] IN
    /\ pc[w] = "exit"
    /\ IF t.state = "PAUSED" /\ hasStore /\ t.cur < t.total
       THEN /\ Save(ExportRecord(t))
            /\ parked' = parked \cup {t.id}
       ELSE UNCHANGED <<store, parked>>
    /\ Goto(w, "push")
    /\ UNCHANGED <<task, ptr, quiet>>

SaveIfPaused(w) ==
    /\ pc[w] = "exit"
    /\ IF task[job[w]].state = "PAUSED" /\ hasStore
       THEN /\ Save(ExportRecord(task[job[w]]))
            /\ parked' = parked \cup {task[job[w]].id}
       ELSE UNCHANGED <<store, parked>>
    /\ Goto(w, "push")
    /\ UNCHANGED <<task, ptr, quiet>>

\* Mutant of PushResult: a paused task pushes nothing.
PushUnlessPaused(w) ==
    /\ pc[w] = "push"
    /\ results' = IF task[job[w]].state = "PAUSED" THEN results
                  ELSE results \cup {task[job[w]].run}
    /\ Goto(w, "reset")
    /\ UNCHANGED <<task, ptr, snap, store, poolVars, jobVars, job, held,
                   emitted, parked, mainVars>>

\* ResultStore::PushResult with a copy of CurrentPack().
PushResult(w) ==
    /\ pc[w] = "push"
    /\ results' = results \cup {task[job[w]].run}
    /\ Goto(w, "reset")
    /\ UNCHANGED <<task, ptr, snap, store, poolVars, jobVars, job, held,
                   emitted, parked, mainVars>>

\* TasksPool::Release: Task::Reset happens before the pool's lock ...
ResetTask(w) ==
    /\ pc[w] = "reset"
    /\ task' = [task EXCEPT ![job[w]] = EmptyTask]
    /\ Goto(w, "free")
    /\ UNCHANGED <<ptr, store, parked, quiet>>

\* ... and the index goes to the back of the free list under it.
FreeSlot(w) ==
    /\ pc[w] = "free"
    /\ free' = Append(free, job[w])
    /\ job' = [job EXCEPT ![w] = NoSlot]
    /\ Goto(w, "wait")
    /\ UNCHANGED <<task, nextId, jobVars, held, ptr, snap, store, resultVars,
                   mainVars>>

-----------------------------------------------------------------------------
StepTask(w) ==
    \/ LoadState(w) \/ StartTask(w) \/ CheckShards(w) \/ EmitMissing(w)
    \/ EmitWork(w) \/ Advance(w) \/ FinishTask(w)

PauseCommand(w) == PauseFind(w) \/ PauseCheck(w) \/ PauseStore(w)

ResumeCommand(w) ==
    \/ ResumeLoad(w) \/ ResumeBusy(w) \/ ResumeAcquire(w) \/ ResumeRestore(w)
    \/ ResumeUnpause(w) \/ ResumeEnqueue(w) \/ ResumeDelete(w)
    \/ MemFind(w) \/ MemCheck(w) \/ MemResume(w)

FinishJob(w) ==
    \/ SaveIfPaused(w) \/ PushResult(w) \/ ResetTask(w) \/ FreeSlot(w)

Worker(w) ==
    \/ TakeJob(w) \/ Leave(w) \/ StepTask(w) \/ PauseCommand(w)
    \/ ResumeCommand(w) \/ FinishJob(w)

MainStep ==
    \/ SubmitEnqueue \/ DrainResults \/ ShutdownDrain \/ ShutdownCount
    \/ ShutdownFinalDrain \/ StopPool

\* The engine is destroyed: every worker has been joined.
Finished ==
    /\ stop
    /\ \A w \in Workers : pc[w] = "gone"
    /\ UNCHANGED vars

Next ==
    \/ SubmitBusy \/ SubmitAcquire \/ Shutdown
    \/ MainStep
    \/ \E w \in Workers : Worker(w)
    \/ Finished

(***************************************************************************)
(* Fairness: the operating system schedules every runnable thread, and no  *)
(* step above waits for anything but its own guard.  Typing a command and  *)
(* asking for the end are the user's choice and carry none.                *)
(***************************************************************************)
Fairness ==
    /\ WF_vars(MainStep)
    /\ \A w \in Workers : WF_vars(Worker(w))

Spec == Init /\ [][Next]_vars
FairSpec == Spec /\ Fairness
-----------------------------------------------------------------------------
(***************************************************************************)
(* Properties.                                                             *)
(***************************************************************************)
Occupants(seq) == {seq[i] : i \in DOMAIN seq}
Distinct(seq)  == \A i, j \in DOMAIN seq : seq[i] = seq[j] => i = j

\* Where a thread stands decides which slots it has in hand: a worker between
\* TakeJob and FreeSlot executes a job, and only then; SubmitTask and
\* resume hold a fresh slot exactly from Acquire to Enqueue; a pause keeps the
\* pointer of FindTask exactly until Pause().  Every dereference of the model
\* is thereby one of a live Task*.
Executing == WorkerPCs \ {"wait", "gone"}
Holding   == {"enqueue", "restore", "unpause", "handover"}
Pointing  == {"pauseCheck", "pauseStore", "memCheck", "memResume"}

NoNullTask ==
    /\ pc[Main] \in MainPCs
    /\ \A w \in Workers : /\ pc[w] \in WorkerPCs
                          /\ job[w] # NoSlot <=> pc[w] \in Executing
                          /\ ptr[w] # NoSlot <=> pc[w] \in Pointing
    /\ \A t \in Threads : held[t] # NoSlot <=> pc[t] \in Holding

\* A slot is never handed out twice: the free list, the job queue, the jobs
\* being executed and the slots on their way from Acquire to Enqueue never
\* name the same slot, and none of them names it twice.  Two tasks sharing a
\* Task object would overwrite each other's shards (TasksPool, ThreadPool).
SlotOwnedOnce ==
    /\ Distinct(free)
    /\ Distinct(queue)
    /\ \A v, w \in Workers : job[v] = job[w] /\ job[v] # NoSlot => v = w
    /\ \A t, u \in Threads : held[t] = held[u] /\ held[t] # NoSlot => t = u
    /\ Occupants(free) \cap Occupants(queue) = {}
    /\ \A w \in Workers : job[w] \notin Occupants(free) \cup Occupants(queue)
    /\ \A t \in Threads : held[t] \notin Occupants(free) \cup Occupants(queue)
    /\ \A w \in Workers, t \in Threads : job[w] = held[t] => job[w] = NoSlot

\* No slot leaks out of the pool: one that is not free is in the hands of a
\* thread or of the queue, except for the jobs that ThreadPool::Enqueue throws
\* away after its destructor has begun.  (A leaked slot is never released, so
\* the pool ends up answering "All tasks busy" for ever.)
NoSlotLeaked ==
    /\ \A s \in Slots : \/ s \in Occupants(free) \cup Occupants(queue)
                        \/ \E w \in Workers : job[w] = s
                        \/ \E t \in Threads : held[t] = s
                        \/ s \in dropped
    /\ dropped # {} => stop

\* The executions whose result has not been pushed yet.
Unanswered ==
    {task[s].run : s \in Occupants(queue) \cup dropped}
      \cup {task[held[t]].run : t \in {u \in Threads : held[u] # NoSlot}}
      \cup {task[job[w]].run : w \in {v \in Workers :
                  job[v] # NoSlot /\ pc[v] \notin {"reset", "free"}}}

\* Every execution is answered exactly once: what Acquire accepted is either
\* still to be answered, or waits in the ResultStore, or has been emitted, and
\* never two of these.  In particular the result is pushed before the slot
\* goes back (SubmitTask's job, TaskManagerModule's job, Drain).
AnsweredExactlyOnce ==
    /\ 1 .. nextId - 1 = Unanswered \cup results \cup emitted
    /\ Unanswered \cap (results \cup emitted) = {}
    /\ results \cap emitted = {}

\* When Shutdown stops waiting because every slot is free, no result is left
\* behind: all accepted executions have been emitted.  This is the race the
\* second Drain of v2.5 closes (ShellEngine::Shutdown).
CleanShutdown ==
    pc[Main] = "drained" => /\ results = {}
                            /\ emitted = 1 .. nextId - 1

\* A paused task can be resumed: from the Save of its snapshot until a resume
\* command has queued it again, the store has a snapshot of it.
PausedTaskKept == \A n \in parked : \E r \in store : r.id = n

\* Where a worker stands while the shard of its job runs, up to the end of the
\* Step loop: in Emit, in one of the functions of TaskManagerModule, in the
\* second critical section of Step, or behind the loop.
InShard == Executing \ {"load", "start", "check", "finish", "push", "reset",
                        "free"}

\* A pause that arrives while a shard of the task runs takes effect behind
\* that shard: until the worker has left the Step loop and saved the snapshot
\* no step of any thread overwrites it, unless the shard itself fails
\* (Task::Step, and the job of SubmitTask and of resume).
PauseInShardHolds ==
    [][\A w \in Workers :
         pc[w] \in InShard /\ task[job[w]].state = "PAUSED" =>
            \/ pc'[w] \in InShard /\ task'[job[w]].state = "PAUSED"
            \/ /\ pc'[w] = "push"
               /\ hasStore => ExportRecord(task[job[w]]) \in store'
            \/ EmitMissing(w)
            \/ \E v \in Workers : MemResume(v)]_vars

\* In the end every accepted execution has been answered, unless the thread
\* pool was already being destroyed when it was queued (SubmitTask's job,
\* resume's job, WorkerLoop).
Answered(n) == \/ n \in results \cup emitted
               \/ \E s \in dropped : task[s].run = n

EveryExecutionAnswered == <>[](\A n \in 1 .. nextId - 1 : Answered(n))

\* Destroying the engine terminates: after Shutdown begins, every worker
\* eventually leaves its loop, whatever was queued or running.
DestructionTerminates ==
    pc[Main] = "waiting" ~> stop /\ \A w \in Workers : pc[w] = "gone"

\* A task that is paused while it has shards left is saved some time later,
\* unless the engine is destroyed: what docs/en/05-task-system.md says of the
\* pause command.  (Step may store RUNNING over the pause, and execute them.)
PauseLeadsToSnapshot ==
    \A n \in 1 .. 2 * MaxCommands :
        (\E s \in Slots : /\ task[s].id = n
                          /\ task[s].state = "PAUSED"
                          /\ task[s].cur < task[s].total)
            ~> stop \/ \E r \in store : r.id = n
=============================================================================
