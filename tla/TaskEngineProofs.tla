-------------------------- MODULE TaskEngineProofs --------------------------
(***************************************************************************)
(* What TaskEngine guarantees for every pool size, every number of worker  *)
(* threads and every sequence of commands: who owns a slot, then that      *)
(* every execution is answered once, then that a snapshot is kept (with    *)
(* one worker) and that a pause in a running shard holds (with any number).*)
(*                                                                         *)
(* Who owns a slot: whatever a step does to tasks and snapshots, it moves  *)
(* at most one slot from one owner to the next (SlotMoves), so ownership   *)
(* is preserved by four small moves.  That a move starts from a real slot  *)
(* follows from where the thread stands (ControlOK).                       *)
(***************************************************************************)
EXTENDS TaskEngine, SequenceTheorems, FiniteSetTheorems, TLAPS

\* Where the threads stand and what they have in hand.
ControlOK ==
    /\ pc \in [Threads -> MainPCs \cup WorkerPCs]
    /\ job \in [Workers -> Slots \cup {NoSlot}]
    /\ held \in [Threads -> Slots \cup {NoSlot}]
    /\ ptr \in [Workers -> Slots \cup {NoSlot}]
    /\ NoNullTask

\* The two lists and the slots Enqueue threw away.
QueuesOK ==
    /\ free \in Seq(Slots)
    /\ queue \in Seq(Slots)
    /\ dropped \in SUBSET Slots

\* The four ways a slot changes hands.
AcquireStep ==
    \E t \in Threads, pack \in Packs :
        /\ Acquire(t, pack)
        /\ held[t] = NoSlot
        /\ UNCHANGED <<queue, job, stop, dropped>>

EnqueueStep ==
    \E t \in Threads :
        /\ Enqueue(t)
        /\ held[t] \in Slots
        /\ UNCHANGED <<free, job>>

TakeStep ==
    \E w \in Workers :
        /\ queue # <<>>
        /\ job[w] = NoSlot
        /\ job' = [job EXCEPT ![w] = Head(queue)]
        /\ queue' = Tail(queue)
        /\ UNCHANGED <<free, held, stop, dropped>>

FreeStep ==
    \E w \in Workers :
        /\ job[w] \in Slots
        /\ free' = Append(free, job[w])
        /\ job' = [job EXCEPT ![w] = NoSlot]
        /\ UNCHANGED <<queue, held, stop, dropped>>

\* A step moves one slot, or leaves every slot where it is.
SlotMove == AcquireStep \/ EnqueueStep \/ TakeStep \/ FreeStep
SlotStay == UNCHANGED <<free, queue, job, held, dropped>> /\ (stop => stop')

\* The Task objects, the loaded records and the saved ones.
DataOK ==
    /\ task \in [Slots -> Tasks]
    /\ nextId \in Nat \ {0}
    /\ snap \in [Workers -> Records]
    /\ store \in SUBSET Records

\* The flags, the results and the counters.
BooksOK ==
    /\ stop \in BOOLEAN
    /\ hasStore \in BOOLEAN
    /\ results \in SUBSET Nat
    /\ emitted \in SUBSET Nat
    /\ parked \in SUBSET Nat
    /\ sent \in Nat
    /\ waits \in Nat

\* The four parts are the type invariant and NoNullTask.
LEMMA TypeParts == TypeOK /\ NoNullTask <=> ControlOK /\ QueuesOK /\ DataOK /\ BooksOK
BY DEF TypeOK, ControlOK, QueuesOK, DataOK, BooksOK

-----------------------------------------------------------------------------
(***************************************************************************)
(* Sequences without duplicates.                                           *)
(***************************************************************************)
\* Popping a duplicate-free list removes its head from what it names.
LEMMA TailOccupants ==
    ASSUME NEW S, NEW q \in Seq(S), q # <<>>, Distinct(q)
    PROVE  /\ Tail(q) \in Seq(S)
           /\ Head(q) \in S
           /\ Distinct(Tail(q))
           /\ Head(q) \notin Occupants(Tail(q))
           /\ Occupants(q) = {Head(q)} \cup Occupants(Tail(q))
<1>1. /\ Head(q) = q[1] /\ Tail(q) \in Seq(S) /\ Len(q) >= 1
      /\ Len(Tail(q)) = Len(q) - 1
      /\ \A i \in 1 .. Len(q) - 1 : Tail(q)[i] = q[i + 1]
      /\ Head(q) \in S
  BY HeadTailProperties
<1>2. DOMAIN q = 1 .. Len(q) /\ DOMAIN Tail(q) = 1 .. Len(q) - 1 /\ Len(q) \in Nat
  BY <1>1
<1>3. Distinct(Tail(q))
  BY <1>1, <1>2 DEF Distinct
<1>4. Head(q) \notin Occupants(Tail(q))
  BY <1>1, <1>2 DEF Distinct, Occupants
<1>5. ASSUME NEW x \in Occupants(q) PROVE x = Head(q) \/ x \in Occupants(Tail(q))
  <2>1. PICK i \in 1 .. Len(q) : x = q[i]
    BY <1>2 DEF Occupants
  <2>2. CASE i = 1
    BY <1>1, <2>1, <2>2
  <2>3. CASE i # 1
    <3>1. i - 1 \in DOMAIN Tail(q) /\ Tail(q)[i - 1] = x
      BY <1>1, <1>2, <2>1, <2>3
    <3> QED
      BY <3>1 DEF Occupants
  <2> QED
    BY <2>2, <2>3
<1>6. ASSUME NEW x \in Occupants(Tail(q)) PROVE x \in Occupants(q)
  BY <1>1, <1>2 DEF Occupants
<1>7. Head(q) \in Occupants(q)
  BY <1>1, <1>2 DEF Occupants
<1> QED
  BY <1>1, <1>3, <1>4, <1>5, <1>6, <1>7

\* Appending adds one name, and keeps a list duplicate-free if it is new.
LEMMA AppendOccupants ==
    ASSUME NEW S, NEW q \in Seq(S), NEW x \in S
    PROVE  /\ Append(q, x) \in Seq(S)
           /\ Occupants(Append(q, x)) = Occupants(q) \cup {x}
           /\ Distinct(q) /\ x \notin Occupants(q) => Distinct(Append(q, x))
<1>1. /\ Append(q, x) \in Seq(S)
      /\ Len(Append(q, x)) = Len(q) + 1
      /\ \A i \in 1 .. Len(q) : Append(q, x)[i] = q[i]
      /\ Append(q, x)[Len(q) + 1] = x
  BY AppendProperties
<1>2. DOMAIN q = 1 .. Len(q) /\ DOMAIN Append(q, x) = 1 .. Len(q) + 1 /\ Len(q) \in Nat
  BY <1>1
<1>3. Occupants(Append(q, x)) = Occupants(q) \cup {x}
  <2>1. ASSUME NEW y \in Occupants(Append(q, x)) PROVE y = x \/ y \in Occupants(q)
    BY <1>1, <1>2 DEF Occupants
  <2>2. ASSUME NEW y \in Occupants(q) PROVE y \in Occupants(Append(q, x))
    BY <1>1, <1>2 DEF Occupants
  <2>3. x \in Occupants(Append(q, x))
    BY <1>1, <1>2 DEF Occupants
  <2> QED
    BY <2>1, <2>2, <2>3
<1>4. ASSUME Distinct(q), x \notin Occupants(q) PROVE Distinct(Append(q, x))
  BY <1>1, <1>2, <1>4 DEF Distinct, Occupants
<1> QED
  BY <1>1, <1>3, <1>4

-----------------------------------------------------------------------------
(***************************************************************************)
(* The hands of the threads.                                               *)
(***************************************************************************)
\* A worker that goes to label l with the right things in hand keeps ControlOK.
LEMMA WorkerMoves ==
    ASSUME ControlOK, PoolAssumption, NEW w \in Workers, NEW l \in WorkerPCs,
           Goto(w, l),
           NEW j \in Slots \cup {NoSlot}, job' = [job EXCEPT ![w] = j],
           NEW h \in Slots \cup {NoSlot}, held' = [held EXCEPT ![w] = h],
           NEW p \in Slots \cup {NoSlot}, ptr' = [ptr EXCEPT ![w] = p],
           j # NoSlot <=> l \in Executing,
           h # NoSlot <=> l \in Holding,
           p # NoSlot <=> l \in Pointing
    PROVE  ControlOK'
BY DEF ControlOK, NoNullTask, Goto, Threads

\* The same for the main thread.
LEMMA MainMoves ==
    ASSUME ControlOK, PoolAssumption, NEW l \in MainPCs, Goto(Main, l),
           NEW h \in Slots \cup {NoSlot}, held' = [held EXCEPT ![Main] = h],
           h # NoSlot <=> l \in Holding,
           UNCHANGED <<job, ptr>>
    PROVE  ControlOK'
BY DEF ControlOK, NoNullTask, Goto, Threads

\* The facts about worker w that every move of w starts from.
LEMMA WorkerAt ==
    ASSUME ControlOK, NEW w \in Workers
    PROVE  /\ job[w] \in Slots \cup {NoSlot}
           /\ held[w] \in Slots \cup {NoSlot}
           /\ ptr[w] \in Slots \cup {NoSlot}
           /\ job[w] # NoSlot <=> pc[w] \in Executing
           /\ held[w] # NoSlot <=> pc[w] \in Holding
           /\ ptr[w] # NoSlot <=> pc[w] \in Pointing
           /\ job = [job EXCEPT ![w] = job[w]]
           /\ held = [held EXCEPT ![w] = held[w]]
           /\ ptr = [ptr EXCEPT ![w] = ptr[w]]
BY DEF ControlOK, NoNullTask, Threads

Plain == {"load", "start", "check", "emit", "advance", "finish", "exit",
          "push", "reset", "free", "acquire", "delete"}

LEMMA PlainLabels ==
    /\ Plain \subseteq WorkerPCs /\ Plain \subseteq Executing
    /\ Plain \cap Holding = {} /\ Plain \cap Pointing = {}
BY DEF Plain, WorkerPCs, Executing, Holding, Pointing

\* A worker that stays at labels where it has only its job in hand.
LEMMA PlainMoves ==
    ASSUME ControlOK, PoolAssumption, NEW w \in Workers,
           pc[w] \in Plain, NEW l \in Plain, Goto(w, l),
           UNCHANGED <<job, held, ptr>>
    PROVE  ControlOK'
<1>1. /\ job[w] # NoSlot /\ held[w] = NoSlot /\ ptr[w] = NoSlot
      /\ job[w] \in Slots \cup {NoSlot} /\ NoSlot \in Slots \cup {NoSlot}
  BY WorkerAt, PlainLabels
<1>2. /\ job' = [job EXCEPT ![w] = job[w]]
      /\ held' = [held EXCEPT ![w] = NoSlot]
      /\ ptr' = [ptr EXCEPT ![w] = NoSlot]
  BY WorkerAt, <1>1
<1>3. l \in WorkerPCs /\ l \in Executing /\ l \notin Holding /\ l \notin Pointing
  BY PlainLabels
<1> QED
  BY <1>1, <1>2, <1>3, WorkerMoves

\* Task::Step keeps the worker's hands as they are.
LEMMA StepTaskControl ==
    ASSUME ControlOK, PoolAssumption, NEW w \in Workers, StepTask(w)
    PROVE  ControlOK'
<1> USE DEF StepTask, LoadState, StartTask, CheckShards, EmitMissing,
            EmitWork, Advance, FinishTask, Emitting
<1>1. PICK l \in Plain : Goto(w, l)
  BY DEF Plain
<1>2. pc[w] \in Plain
  BY DEF Plain
<1>3. UNCHANGED <<job, held, ptr>>
  BY DEF quiet
<1> QED
  BY <1>1, <1>2, <1>3, PlainMoves

\* The tail of the job ends with empty hands.
LEMMA FinishJobControl ==
    ASSUME ControlOK, PoolAssumption, NEW w \in Workers, FinishJob(w)
    PROVE  ControlOK'
<1>1. CASE SaveIfPaused(w) \/ PushResult(w) \/ ResetTask(w)
  <2> USE DEF SaveIfPaused, PushResult, ResetTask
  <2>1. PICK l \in Plain : Goto(w, l)
    BY <1>1 DEF Plain
  <2>2. pc[w] \in Plain
    BY <1>1 DEF Plain
  <2>3. UNCHANGED <<job, held, ptr>>
    BY <1>1 DEF quiet
  <2> QED
    BY <2>1, <2>2, <2>3, PlainMoves
<1>2. CASE FreeSlot(w)
  <2>1. /\ pc[w] \in Plain /\ Goto(w, "wait") /\ UNCHANGED <<held, ptr>>
        /\ job' = [job EXCEPT ![w] = NoSlot]
    BY <1>2 DEF FreeSlot, Plain
  <2>2. "wait" \in WorkerPCs /\ "wait" \notin Executing \cup Holding \cup Pointing
    BY DEF WorkerPCs, Executing, Holding, Pointing
  <2> QED
    BY <2>1, <2>2, WorkerAt, PlainLabels, WorkerMoves
<1> QED
  BY <1>1, <1>2 DEF FinishJob

\* Taking a job fills them, leaving the loop does not.
LEMMA QueueControl ==
    ASSUME ControlOK, QueuesOK, PoolAssumption, NEW w \in Workers,
           TakeJob(w) \/ Leave(w)
    PROVE  ControlOK'
<1>1. /\ pc[w] = "wait" /\ "wait" \in WorkerPCs
      /\ "wait" \notin Executing \cup Holding \cup Pointing
  BY DEF TakeJob, Leave, WorkerPCs, Executing, Holding, Pointing
<1>2. CASE TakeJob(w)
  <2>1. /\ Goto(w, "load") /\ UNCHANGED <<held, ptr>>
        /\ job' = [job EXCEPT ![w] = Head(queue)]
    BY <1>2 DEF TakeJob
  <2>2. Head(queue) \in Slots /\ Head(queue) # NoSlot
    BY <1>2 DEF TakeJob, QueuesOK, Slots, NoSlot
  <2>3. "load" \in Plain
    BY DEF Plain
  <2>4. /\ held[w] = NoSlot /\ ptr[w] = NoSlot
        /\ held' = [held EXCEPT ![w] = NoSlot]
        /\ ptr' = [ptr EXCEPT ![w] = NoSlot]
    BY <1>1, <2>1, WorkerAt
  <2> QED
    BY <2>1, <2>2, <2>3, <2>4, PlainLabels, WorkerMoves
<1>3. CASE Leave(w)
  <2>1. Goto(w, "gone") /\ UNCHANGED <<job, held, ptr>>
    BY <1>3 DEF Leave, jobVars
  <2>2. "gone" \in WorkerPCs /\ "gone" \notin Executing \cup Holding \cup Pointing
    BY DEF WorkerPCs, Executing, Holding, Pointing
  <2> QED
    BY <1>1, <2>1, <2>2, WorkerAt, WorkerMoves
<1> QED
  BY <1>2, <1>3

\* Pause and in-memory resume differ from the above by the pointer they keep.
LEMMA PointerControl ==
    ASSUME ControlOK, PoolAssumption, NEW w \in Workers,
           PauseCommand(w) \/ MemFind(w) \/ MemCheck(w) \/ MemResume(w)
    PROVE  ControlOK'
<1> USE DEF PauseCommand, PauseFind, PauseCheck, PauseStore, MemFind,
            MemCheck, MemResume, Emitting, Found
<1> DEFINE At == Pointing \cup {"emit", "advance"}
<1>1. pc[w] \in At
  BY DEF Pointing
<1>2. UNCHANGED <<job, held>>
  BY DEF quiet
<1>3. \E l \in At, p \in Slots \cup {NoSlot} :
          /\ Goto(w, l)
          /\ ptr' = [ptr EXCEPT ![w] = p]
          /\ p # NoSlot <=> l \in Pointing
  <2>1. /\ \A s \in Slots : s # NoSlot
        /\ {"pauseCheck", "pauseStore", "memCheck", "memResume"} = Pointing
        /\ {"emit", "advance"} \cap Pointing = {}
    BY DEF Slots, NoSlot, Pointing
  <2>2. CASE PauseFind(w)
    BY <2>1, <2>2, WorkerAt DEF Pointing
  <2>3. CASE PauseCheck(w)
    BY <2>1, <2>3, WorkerAt DEF Pointing
  <2>4. CASE PauseStore(w)
    BY <2>1, <2>4, WorkerAt DEF Pointing
  <2>5. CASE MemFind(w)
    BY <2>1, <2>5, WorkerAt DEF Pointing
  <2>6. CASE MemCheck(w)
    BY <2>1, <2>6, WorkerAt DEF Pointing
  <2>7. CASE MemResume(w)
    BY <2>1, <2>7, WorkerAt DEF Pointing
  <2> QED
    BY <2>2, <2>3, <2>4, <2>5, <2>6, <2>7
<1>4. At \subseteq WorkerPCs /\ At \subseteq Executing /\ At \cap Holding = {}
  BY DEF Pointing, WorkerPCs, Executing, Holding
<1>5. PICK l \in At, p \in Slots \cup {NoSlot} :
          /\ Goto(w, l)
          /\ ptr' = [ptr EXCEPT ![w] = p]
          /\ p # NoSlot <=> l \in Pointing
  BY <1>3
<1>6. /\ job[w] \in Slots \cup {NoSlot} /\ job[w] # NoSlot
      /\ held[w] = NoSlot
      /\ job' = [job EXCEPT ![w] = job[w]]
      /\ held' = [held EXCEPT ![w] = NoSlot]
  BY <1>1, <1>2, <1>4, WorkerAt
<1>7. l \in WorkerPCs /\ l \in Executing /\ l \notin Holding
  BY <1>4
<1> QED
  BY <1>5, <1>6, <1>7, WorkerMoves

\* Resume holds the slot it acquired until Enqueue.
LEMMA ResumeControl ==
    ASSUME ControlOK, QueuesOK, PoolAssumption, NEW w \in Workers,
           \/ ResumeLoad(w) \/ ResumeBusy(w) \/ ResumeAcquire(w)
           \/ ResumeRestore(w) \/ ResumeUnpause(w) \/ ResumeEnqueue(w)
           \/ ResumeDelete(w)
    PROVE  ControlOK'
<1>1. CASE ResumeLoad(w) \/ ResumeBusy(w) \/ ResumeDelete(w)
  <2> USE DEF ResumeLoad, ResumeBusy, ResumeDelete, Emitting
  <2>1. PICK l \in Plain : Goto(w, l)
    BY <1>1 DEF Plain
  <2>2. pc[w] \in Plain
    BY <1>1 DEF Plain
  <2>3. UNCHANGED <<job, held, ptr>>
    BY <1>1 DEF quiet
  <2> QED
    BY <2>1, <2>2, <2>3, PlainMoves
<1>2. CASE ResumeAcquire(w)
  <2>1. /\ pc[w] = "acquire" /\ Goto(w, "restore") /\ UNCHANGED <<job, ptr>>
        /\ held' = [held EXCEPT ![w] = Head(free)]
    BY <1>2 DEF ResumeAcquire, Acquire
  <2>2. Head(free) \in Slots /\ Head(free) # NoSlot
    BY <1>2 DEF ResumeAcquire, Acquire, QueuesOK, Slots, NoSlot
  <2>3. /\ "acquire" \in Executing /\ "acquire" \notin Pointing
        /\ "restore" \in WorkerPCs \cap Executing \cap Holding
        /\ "restore" \notin Pointing
    BY DEF WorkerPCs, Executing, Holding, Pointing
  <2>4. /\ job[w] \in Slots \cup {NoSlot} /\ job[w] # NoSlot
        /\ ptr[w] = NoSlot
        /\ job' = [job EXCEPT ![w] = job[w]]
        /\ ptr' = [ptr EXCEPT ![w] = NoSlot]
    BY <2>1, <2>3, WorkerAt
  <2> QED
    BY <2>1, <2>2, <2>3, <2>4, WorkerMoves
<1>3. CASE ResumeRestore(w) \/ ResumeUnpause(w)
  <2>1. PICK l \in {"unpause", "handover"} : Goto(w, l)
    BY <1>3 DEF ResumeRestore, ResumeUnpause
  <2>2. pc[w] \in {"restore", "unpause"} /\ UNCHANGED <<job, held, ptr>>
    BY <1>3 DEF ResumeRestore, ResumeUnpause, quiet
  <2>3. \A k \in {"restore", "unpause", "handover"} :
           k \in WorkerPCs \cap Executing \cap Holding /\ k \notin Pointing
    BY DEF WorkerPCs, Executing, Holding, Pointing
  <2>4. /\ job[w] \in Slots \cup {NoSlot} /\ job[w] # NoSlot
        /\ held[w] \in Slots \cup {NoSlot} /\ held[w] # NoSlot
        /\ ptr[w] = NoSlot
        /\ job' = [job EXCEPT ![w] = job[w]]
        /\ held' = [held EXCEPT ![w] = held[w]]
        /\ ptr' = [ptr EXCEPT ![w] = NoSlot]
    BY <2>2, <2>3, WorkerAt
  <2> QED
    BY <2>1, <2>3, <2>4, WorkerMoves
<1>4. CASE ResumeEnqueue(w)
  <2>1. /\ pc[w] = "handover" /\ Goto(w, "delete") /\ UNCHANGED <<job, ptr>>
        /\ held' = [held EXCEPT ![w] = NoSlot]
    BY <1>4 DEF ResumeEnqueue, Enqueue
  <2>2. /\ "handover" \in Executing /\ "handover" \notin Pointing
        /\ "delete" \in WorkerPCs \cap Executing
        /\ "delete" \notin Holding \cup Pointing
    BY DEF WorkerPCs, Executing, Holding, Pointing
  <2>3. /\ job[w] \in Slots \cup {NoSlot} /\ job[w] # NoSlot
        /\ ptr[w] = NoSlot
        /\ job' = [job EXCEPT ![w] = job[w]]
        /\ ptr' = [ptr EXCEPT ![w] = NoSlot]
    BY <2>1, <2>2, WorkerAt
  <2> QED
    BY <2>1, <2>2, <2>3, WorkerMoves
<1> QED
  BY <1>1, <1>2, <1>3, <1>4

\* SubmitTask holds a slot between Acquire and Enqueue only.
LEMMA MainControl ==
    ASSUME ControlOK, QueuesOK, PoolAssumption,
           \/ SubmitBusy \/ SubmitAcquire \/ Shutdown \/ MainStep
    PROVE  ControlOK'
<1> USE DEF MainPCs, Holding, NoSlot
<1>1. CASE SubmitBusy \/ DrainResults \/ StopPool
  <2>1. UNCHANGED <<pc, job, held, ptr>>
    BY <1>1 DEF SubmitBusy, DrainResults, StopPool
  <2> QED
    BY <2>1 DEF ControlOK, NoNullTask
<1>2. CASE SubmitAcquire
  <2>1. /\ Goto(Main, "enqueue") /\ UNCHANGED <<job, ptr>>
        /\ held' = [held EXCEPT ![Main] = Head(free)]
    BY <1>2 DEF SubmitAcquire, Acquire
  <2>2. Head(free) \in Slots /\ Head(free) # NoSlot
    BY <1>2 DEF SubmitAcquire, Acquire, QueuesOK, Slots
  <2> QED
    BY <2>1, <2>2, MainMoves
<1>3. CASE SubmitEnqueue
  <2>1. /\ Goto(Main, "run") /\ UNCHANGED <<job, ptr>>
        /\ held' = [held EXCEPT ![Main] = NoSlot]
    BY <1>3 DEF SubmitEnqueue, Enqueue
  <2> QED
    BY <2>1, MainMoves
<1>4. CASE Shutdown \/ ShutdownDrain \/ ShutdownCount \/ ShutdownFinalDrain
  <2> USE DEF Shutdown, ShutdownDrain, ShutdownCount, ShutdownFinalDrain
  <2> DEFINE L == {"waiting", "counting", "final", "timedout", "drained"}
  <2>1. PICK l \in L : Goto(Main, l)
    BY <1>4
  <2>2. pc[Main] \in {"run", "waiting", "counting", "final"}
    BY <1>4
  <2>3. UNCHANGED <<job, held, ptr>>
    BY <1>4
  <2>4. held[Main] = NoSlot /\ held = [held EXCEPT ![Main] = held[Main]]
    BY <2>2 DEF ControlOK, NoNullTask, Threads
  <2> QED
    BY <2>1, <2>3, <2>4, MainMoves
<1> QED
  BY <1>1, <1>2, <1>3, <1>4 DEF MainStep

\* Every step of the engine keeps ControlOK.
LEMMA ControlStep ==
    ASSUME ControlOK, QueuesOK, PoolAssumption, [Next]_vars
    PROVE  ControlOK'
<1>1. CASE Finished \/ UNCHANGED vars
  BY <1>1 DEF Finished, vars, ControlOK, NoNullTask
<1>2. CASE \E w \in Workers : Worker(w)
  BY <1>2, StepTaskControl, FinishJobControl, QueueControl, PointerControl,
     ResumeControl DEF Worker, ResumeCommand
<1> QED
  BY <1>1, <1>2, MainControl DEF Next

-----------------------------------------------------------------------------
(***************************************************************************)
(* How slots move.                                                         *)
(***************************************************************************)
\* What the user can type is a pack.
LEMMA CommandsArePacks == PoolAssumption => Commands \subseteq Packs
<1> SUFFICES ASSUME PoolAssumption, NEW c \in Commands PROVE c \in Packs
  OBVIOUS
<1>1. CASE c \in [op : Ops \ {"pause", "resume"}, arg : {0}]
  <2>1. c = [op |-> c.op, arg |-> c.arg] /\ c.op \in Ops /\ c.arg = 0
    BY <1>1, Zenon
  <2>2. c.op \in {"work", "bad", "pause", "resume"}
    BY <2>1, PoolAssumption, Zenon
  <2> QED
    BY <2>1, <2>2 DEF Packs
<1>2. CASE c \in [op : Ops \cap {"pause", "resume"}, arg : Targets]
  BY <1>2, PoolAssumption DEF Packs
<1> QED
  BY <1>1, <1>2 DEF Commands

\* Every step of the engine moves one slot from one list to the next, or none:
\* the only code that touches ownership is Acquire, Enqueue, the pop of
\* WorkerLoop and Release.
LEMMA SlotMoves ==
    ASSUME ControlOK, PoolAssumption, [Next]_vars
    PROVE  SlotMove \/ SlotStay
<1> USE DEF SlotMove, SlotStay, poolVars, jobVars, mainVars, resultVars, quiet
<1>1. CASE SubmitAcquire
  <2>1. Commands \subseteq Packs
    BY CommandsArePacks
  <2>2. held[Main] = NoSlot
    BY <1>1 DEF SubmitAcquire, ControlOK, NoNullTask, Holding, Threads
  <2> QED
    BY <1>1, <2>1, <2>2 DEF SubmitAcquire, AcquireStep, Threads
<1>2. CASE SubmitEnqueue
  <2>1. held[Main] \in Slots
    BY <1>2 DEF SubmitEnqueue, ControlOK, NoNullTask, Holding, Threads
  <2> QED
    BY <1>2, <2>1 DEF SubmitEnqueue, EnqueueStep, Threads
<1>3. CASE SubmitBusy \/ DrainResults \/ Shutdown \/ ShutdownDrain
             \/ ShutdownCount \/ ShutdownFinalDrain
  BY <1>3, Zenon DEF SubmitBusy, DrainResults, Shutdown, ShutdownDrain, ShutdownCount,
             ShutdownFinalDrain
<1>4. CASE StopPool
  BY <1>4, Zenon DEF StopPool
<1>5. ASSUME NEW w \in Workers, TakeJob(w)
      PROVE  TakeStep
  BY <1>5 DEF TakeJob, TakeStep, ControlOK, NoNullTask, Executing
<1>6. ASSUME NEW w \in Workers, FreeSlot(w)
      PROVE  FreeStep
  BY <1>6 DEF FreeSlot, FreeStep, ControlOK, NoNullTask, Executing, WorkerPCs
<1>7. ASSUME NEW w \in Workers, ResumeAcquire(w)
      PROVE  AcquireStep
  BY <1>7 DEF ResumeAcquire, AcquireStep, ControlOK, NoNullTask, Holding, Threads, Packs, DummyPack
<1>8. ASSUME NEW w \in Workers, ResumeEnqueue(w)
      PROVE  EnqueueStep
  BY <1>8 DEF ResumeEnqueue, EnqueueStep, ControlOK, NoNullTask, Holding, Threads
<1>9. ASSUME NEW w \in Workers, Leave(w) \/ StepTask(w) \/ PauseCommand(w)
      PROVE SlotStay
  BY <1>9 DEF Leave, StepTask, PauseCommand, LoadState, StartTask, CheckShards,
     EmitMissing, EmitWork, Advance, FinishTask, PauseFind, PauseCheck, PauseStore
<1>10. ASSUME NEW w \in Workers, ResumeLoad(w) \/ ResumeBusy(w) \/ ResumeRestore(w)
           \/ ResumeUnpause(w) \/ ResumeDelete(w) \/ MemFind(w) \/ MemCheck(w) \/ MemResume(w)
      PROVE SlotStay
  BY <1>10 DEF ResumeLoad, ResumeBusy, ResumeRestore, ResumeUnpause, ResumeDelete, MemFind, MemCheck, MemResume
<1>11. ASSUME NEW w \in Workers, SaveIfPaused(w) \/ PushResult(w) \/ ResetTask(w)
      PROVE SlotStay
  BY <1>11 DEF SaveIfPaused, PushResult, ResetTask
<1>12. CASE Finished \/ UNCHANGED vars
  BY <1>12, Zenon DEF Finished, vars
<1> QED
  BY <1>1, <1>2, <1>3, <1>4, <1>5, <1>6, <1>7, <1>8, <1>9, <1>10, <1>11, <1>12, Zenon
     DEF Next, MainStep, Worker, ResumeCommand, FinishJob

-----------------------------------------------------------------------------
(***************************************************************************)
(* Ownership.                                                              *)
(***************************************************************************)
\* The lists name slots, never the null pointer.
LEMMA NullNotListed ==
    ASSUME QueuesOK
    PROVE  NoSlot \notin Occupants(free) \cup Occupants(queue)
<1>1. free \in Seq(Slots) /\ queue \in Seq(Slots)
  BY DEF QueuesOK
<1>2. \A i \in DOMAIN free : free[i] \in Slots
  BY <1>1
<1>3. \A i \in DOMAIN queue : queue[i] \in Slots
  BY <1>1
<1>4. NoSlot \notin Slots
  BY DEF NoSlot, Slots
<1> QED
  BY <1>2, <1>3, <1>4, Zenon DEF Occupants

\* No move of a slot makes two owners of it.
LEMMA OwnedOnceStep ==
    ASSUME ControlOK, QueuesOK, SlotOwnedOnce, SlotMove \/ SlotStay, Main \notin Workers
    PROVE  SlotOwnedOnce'
<1> USE DEF ControlOK, QueuesOK
<1>1. CASE AcquireStep
  <2>1. PICK t \in Threads, pack \in Packs :
            /\ Acquire(t, pack)
            /\ held[t] = NoSlot
            /\ UNCHANGED <<queue, job, stop, dropped>>
    BY <1>1 DEF AcquireStep
  <2>2. /\ free # <<>> /\ Distinct(free)
        /\ held' = [held EXCEPT ![t] = Head(free)]
        /\ free' = Tail(free)
    BY <2>1 DEF Acquire, SlotOwnedOnce
  <2>3. /\ Head(free) \in Slots
        /\ Distinct(free')
        /\ Head(free) \notin Occupants(free')
        /\ Occupants(free) = {Head(free)} \cup Occupants(free')
    BY <2>2, TailOccupants
  <2> QED
    BY <2>1, <2>2, <2>3 DEF SlotOwnedOnce, Slots, NoSlot
<1>2. CASE EnqueueStep
  <2>1. PICK t \in Threads : /\ Enqueue(t)
                             /\ held[t] \in Slots
                             /\ UNCHANGED <<free, job>>
    BY <1>2 DEF EnqueueStep
  <2>2. held' = [held EXCEPT ![t] = NoSlot]
    BY <2>1 DEF Enqueue
  <2>3. CASE stop
    <3>1. queue' = queue
      BY <2>1, <2>3 DEF Enqueue
    <3>a. /\ Distinct(free') /\ Distinct(queue')
          /\ Occupants(free') \cap Occupants(queue') = {}
      BY <2>1, <2>2, <3>1 DEF SlotOwnedOnce
    <3>b. \A v \in Workers : job'[v] \notin Occupants(free') \cup Occupants(queue')
      BY <2>1, <2>2, <3>1, NullNotListed DEF SlotOwnedOnce, Slots, NoSlot
    <3>c. \A u \in Threads : held'[u] \notin Occupants(free') \cup Occupants(queue')
      BY <2>1, <2>2, <3>1, NullNotListed DEF SlotOwnedOnce, Slots, NoSlot
    <3>d. /\ \A v, x \in Workers : job'[v] = job'[x] /\ job'[v] # NoSlot => v = x
          /\ \A u, x \in Threads : held'[u] = held'[x] /\ held'[u] # NoSlot => u = x
          /\ \A v \in Workers, u \in Threads : job'[v] = held'[u] => job'[v] = NoSlot
      BY <2>1, <2>2, <3>1, NullNotListed DEF SlotOwnedOnce, Slots, NoSlot
    <3> QED
      BY <3>a, <3>b, <3>c, <3>d DEF SlotOwnedOnce, Slots, NoSlot
  <2>4. CASE ~stop
    <3>1. queue' = Append(queue, held[t])
      BY <2>1, <2>4 DEF Enqueue
    <3>2. held[t] \notin Occupants(queue) /\ Distinct(queue)
      BY DEF SlotOwnedOnce
    <3>3. /\ Distinct(queue')
          /\ Occupants(queue') = Occupants(queue) \cup {held[t]}
      BY <2>1, <3>1, <3>2, AppendOccupants
    <3>a. /\ Distinct(free') /\ Distinct(queue')
          /\ Occupants(free') \cap Occupants(queue') = {}
      BY <2>1, <2>2, <3>3 DEF SlotOwnedOnce
    <3>b. \A v \in Workers : job'[v] \notin Occupants(free') \cup Occupants(queue')
      BY <2>1, <2>2, <3>3, NullNotListed DEF SlotOwnedOnce, Slots, NoSlot
    <3>c. \A u \in Threads : held'[u] \notin Occupants(free') \cup Occupants(queue')
      BY <2>1, <2>2, <3>3, NullNotListed DEF SlotOwnedOnce, Slots, NoSlot
    <3>d. /\ \A v, x \in Workers : job'[v] = job'[x] /\ job'[v] # NoSlot => v = x
          /\ \A u, x \in Threads : held'[u] = held'[x] /\ held'[u] # NoSlot => u = x
          /\ \A v \in Workers, u \in Threads : job'[v] = held'[u] => job'[v] = NoSlot
      BY <2>1, <2>2, <3>3, NullNotListed DEF SlotOwnedOnce, Slots, NoSlot
    <3> QED
      BY <3>a, <3>b, <3>c, <3>d DEF SlotOwnedOnce, Slots, NoSlot
  <2> QED
    BY <2>3, <2>4
<1>3. CASE TakeStep
  <2>1. PICK w \in Workers : /\ queue # <<>>
                             /\ job[w] = NoSlot
                             /\ job' = [job EXCEPT ![w] = Head(queue)]
                             /\ queue' = Tail(queue)
                             /\ UNCHANGED <<free, held>>
    BY <1>3 DEF TakeStep
  <2>2. /\ Head(queue) \in Slots
        /\ Distinct(queue')
        /\ Head(queue) \notin Occupants(queue')
        /\ Occupants(queue) = {Head(queue)} \cup Occupants(queue')
    BY <2>1, TailOccupants DEF SlotOwnedOnce
  <2> QED
    BY <2>1, <2>2 DEF SlotOwnedOnce, Slots, NoSlot
<1>4. CASE FreeStep
  <2>1. PICK w \in Workers : /\ job[w] \in Slots
                             /\ free' = Append(free, job[w])
                             /\ job' = [job EXCEPT ![w] = NoSlot]
                             /\ UNCHANGED <<queue, held>>
    BY <1>4 DEF FreeStep
  <2>2. job[w] \notin Occupants(free) /\ Distinct(free)
    BY DEF SlotOwnedOnce
  <2>3. /\ Distinct(free')
        /\ Occupants(free') = Occupants(free) \cup {job[w]}
    BY <2>1, <2>2, AppendOccupants
  <2>a. /\ Distinct(free') /\ Distinct(queue')
        /\ Occupants(free') \cap Occupants(queue') = {}
    BY <2>1, <2>3 DEF SlotOwnedOnce
  <2>b. \A v \in Workers : job'[v] \notin Occupants(free') \cup Occupants(queue')
    BY <2>1, <2>3, NullNotListed DEF SlotOwnedOnce, Slots, NoSlot
  <2>c. \A u \in Threads : held'[u] \notin Occupants(free') \cup Occupants(queue')
    BY <2>1, <2>3, NullNotListed DEF SlotOwnedOnce, Slots, NoSlot
  <2>d. /\ \A v, x \in Workers : job'[v] = job'[x] /\ job'[v] # NoSlot => v = x
        /\ \A u, x \in Threads : held'[u] = held'[x] /\ held'[u] # NoSlot => u = x
        /\ \A v \in Workers, u \in Threads : job'[v] = held'[u] => job'[v] = NoSlot
    BY <2>1, <2>3, NullNotListed DEF SlotOwnedOnce, Slots, NoSlot
  <2> QED
    BY <2>a, <2>b, <2>c, <2>d DEF SlotOwnedOnce, Slots, NoSlot
<1>5. CASE SlotStay
  BY <1>5 DEF SlotStay, SlotOwnedOnce
<1> QED
  BY <1>1, <1>2, <1>3, <1>4, <1>5 DEF SlotMove

\* The free list and the job queue stay sequences of slots.
LEMMA QueuesStep ==
    ASSUME ControlOK, QueuesOK, SlotOwnedOnce, SlotMove \/ SlotStay
    PROVE  QueuesOK'
<1> USE DEF QueuesOK
<1>1. CASE AcquireStep
  BY <1>1, TailOccupants DEF AcquireStep, Acquire, SlotOwnedOnce
<1>2. CASE EnqueueStep
  <2>1. PICK t \in Threads : /\ Enqueue(t)
                             /\ held[t] \in Slots
                             /\ UNCHANGED <<free, job>>
    BY <1>2 DEF EnqueueStep
  <2>2. CASE stop
    <3>1. /\ queue' = queue /\ free' = free
          /\ dropped' = dropped \cup {held[t]}
      BY <2>1, <2>2, Zenon DEF Enqueue
    <3> QED
      BY <2>1, <3>1
  <2>3. CASE ~stop
    <3>1. /\ queue' = Append(queue, held[t]) /\ free' = free
          /\ dropped' = dropped
      BY <2>1, <2>3, Zenon DEF Enqueue
    <3>2. Append(queue, held[t]) \in Seq(Slots)
      BY <2>1, AppendOccupants
    <3> QED
      BY <3>1, <3>2
  <2> QED
    BY <2>2, <2>3
<1>3. CASE TakeStep
  BY <1>3, TailOccupants DEF TakeStep, SlotOwnedOnce
<1>4. CASE FreeStep
  BY <1>4, AppendOccupants DEF FreeStep
<1>5. CASE SlotStay
  BY <1>5 DEF SlotStay
<1> QED
  BY <1>1, <1>2, <1>3, <1>4, <1>5 DEF SlotMove

\* No move of a slot forgets it, except Enqueue on a stopped pool.
LEMMA NotLeakedStep ==
    ASSUME ControlOK, QueuesOK, SlotOwnedOnce, NoSlotLeaked,
           SlotMove \/ SlotStay
    PROVE  NoSlotLeaked'
<1> USE DEF ControlOK, QueuesOK
<1>1. CASE AcquireStep
  <2>1. PICK t \in Threads, pack \in Packs :
            /\ Acquire(t, pack)
            /\ held[t] = NoSlot
            /\ UNCHANGED <<queue, job, stop, dropped>>
    BY <1>1 DEF AcquireStep
  <2>2. /\ free # <<>> /\ Distinct(free)
        /\ held' = [held EXCEPT ![t] = Head(free)]
        /\ free' = Tail(free)
    BY <2>1 DEF Acquire, SlotOwnedOnce
  <2>3. Occupants(free) = {Head(free)} \cup Occupants(free')
    BY <2>2, TailOccupants
  <2>4. /\ held'[t] = Head(free)
        /\ \A u \in Threads : held[u] # NoSlot => held'[u] = held[u]
    BY <2>1, <2>2
  <2>5. ASSUME NEW s \in Slots
        PROVE  \/ s \in Occupants(free') \cup Occupants(queue')
               \/ \E w \in Workers : job'[w] = s
               \/ \E u \in Threads : held'[u] = s
               \/ s \in dropped'
    <3>1. s # NoSlot
      BY DEF Slots, NoSlot
    <3> QED
      BY <2>1, <2>3, <2>4, <3>1 DEF NoSlotLeaked
  <2> QED
    BY <2>1, <2>5 DEF NoSlotLeaked
<1>2. CASE EnqueueStep
  <2>1. PICK t \in Threads : /\ Enqueue(t)
                             /\ held[t] \in Slots
                             /\ UNCHANGED <<free, job>>
    BY <1>2 DEF EnqueueStep
  <2>2. held' = [held EXCEPT ![t] = NoSlot] /\ stop' = stop
    BY <2>1 DEF Enqueue
  <2>3. CASE stop
    <3>1. queue' = queue /\ dropped' = dropped \cup {held[t]}
      BY <2>1, <2>3 DEF Enqueue
    <3> QED
      BY <2>1, <2>2, <2>3, <3>1 DEF NoSlotLeaked
  <2>4. CASE ~stop
    <3>1. queue' = Append(queue, held[t]) /\ dropped' = dropped
      BY <2>1, <2>4 DEF Enqueue
    <3>2. Occupants(queue') = Occupants(queue) \cup {held[t]}
      BY <2>1, <3>1, AppendOccupants
    <3> QED
      BY <2>1, <2>2, <3>1, <3>2 DEF NoSlotLeaked
  <2> QED
    BY <2>3, <2>4
<1>3. CASE TakeStep
  <2>1. PICK w \in Workers : /\ queue # <<>>
                             /\ job[w] = NoSlot
                             /\ job' = [job EXCEPT ![w] = Head(queue)]
                             /\ queue' = Tail(queue)
                             /\ UNCHANGED <<free, held, stop, dropped>>
    BY <1>3 DEF TakeStep
  <2>2. Occupants(queue) = {Head(queue)} \cup Occupants(queue')
    BY <2>1, TailOccupants DEF SlotOwnedOnce
  <2>3. /\ job'[w] = Head(queue)
        /\ \A v \in Workers : job[v] # NoSlot => job'[v] = job[v]
    BY <2>1
  <2>4. ASSUME NEW s \in Slots
        PROVE  \/ s \in Occupants(free') \cup Occupants(queue')
               \/ \E v \in Workers : job'[v] = s
               \/ \E u \in Threads : held'[u] = s
               \/ s \in dropped'
    <3>1. s # NoSlot
      BY DEF Slots, NoSlot
    <3> QED
      BY <2>1, <2>2, <2>3, <3>1 DEF NoSlotLeaked
  <2> QED
    BY <2>1, <2>4 DEF NoSlotLeaked
<1>4. CASE FreeStep
  <2>1. PICK w \in Workers : /\ job[w] \in Slots
                             /\ free' = Append(free, job[w])
                             /\ job' = [job EXCEPT ![w] = NoSlot]
                             /\ UNCHANGED <<queue, held, stop, dropped>>
    BY <1>4 DEF FreeStep
  <2>2. Occupants(free') = Occupants(free) \cup {job[w]}
    BY <2>1, AppendOccupants
  <2> QED
    BY <2>1, <2>2 DEF NoSlotLeaked
<1>5. CASE SlotStay
  BY <1>5 DEF SlotStay, NoSlotLeaked
<1> QED
  BY <1>1, <1>2, <1>3, <1>4, <1>5 DEF SlotMove

\* At the start every slot is free, once.
LEMMA InitSlots ==
    ASSUME Init, PoolAssumption
    PROVE  QueuesOK /\ SlotOwnedOnce /\ NoSlotLeaked
<1>1. /\ free \in Seq(Slots) /\ DOMAIN free = 1 .. PoolSize
      /\ \A i \in 1 .. PoolSize : free[i] = i
      /\ queue = <<>> /\ queue \in Seq(Slots) /\ DOMAIN queue = {}
  BY IsASeq DEF Init, PoolAssumption, Slots
<1>2. Occupants(free) = Slots /\ Occupants(queue) = {}
  BY <1>1 DEF Occupants, Slots
<1>3. QueuesOK
  BY <1>1 DEF QueuesOK, Init
<1>4. SlotOwnedOnce
  BY <1>1, <1>2, PoolAssumption DEF SlotOwnedOnce, Distinct, Init, Slots, NoSlot, Threads
<1>5. NoSlotLeaked
  BY <1>2 DEF NoSlotLeaked, Init
<1> QED
  BY <1>3, <1>4, <1>5

-----------------------------------------------------------------------------
(***************************************************************************)
(* Data.                                                                   *)
(***************************************************************************)
\* Writing state_ keeps the Task objects well formed.
LEMMA SetStateType ==
    ASSUME DataOK, NEW s \in Slots, NEW st \in States, SetState(s, st)
    PROVE  task' \in [Slots -> Tasks]
BY DEF DataOK, SetState, Tasks

\* So does Acquire, which also advances next_id_.
LEMMA AcquireType ==
    ASSUME DataOK, QueuesOK, NEW t \in Threads, NEW pack \in Packs,
           Acquire(t, pack)
    PROVE  task' \in [Slots -> Tasks] /\ nextId' \in Nat \ {0}
<1>1. Head(free) \in Slots
  BY DEF Acquire, QueuesOK
<1>2. Assigned(pack, nextId) \in Tasks
  BY DEF Assigned, Tasks, States, DataOK
<1> QED
  BY <1>1, <1>2 DEF Acquire, DataOK

\* So does Task::Step.
LEMMA StepTaskData ==
    ASSUME ControlOK, DataOK, NEW w \in Workers, StepTask(w)
    PROVE  DataOK'
<1>1. UNCHANGED <<nextId, snap, store>>
  BY DEF StepTask, LoadState, StartTask, CheckShards, EmitMissing, EmitWork,
         Advance, FinishTask, quiet, poolVars
<1>2. pc[w] \in Plain
  BY DEF Plain, StepTask, LoadState, StartTask, CheckShards, EmitMissing,
         EmitWork, Advance, FinishTask, Emitting
<1>3. job[w] \in Slots
  BY <1>2, WorkerAt, PlainLabels
<1>4. {"RUNNING", "COMPLETED", "FAILED"} \subseteq States
  BY DEF States
<1>5. CASE LoadState(w)
  BY <1>1, <1>5 DEF LoadState, DataOK
<1>6. CASE StartTask(w) \/ FinishTask(w) \/ EmitMissing(w)
  BY <1>1, <1>3, <1>4, <1>6, SetStateType
     DEF StartTask, FinishTask, EmitMissing, DataOK
<1>7. CASE CheckShards(w)
  BY <1>1, <1>3, <1>4, <1>7, SetStateType DEF CheckShards, DataOK
<1>8. CASE EmitWork(w)
  BY <1>1, <1>3, <1>8 DEF EmitWork, DataOK, Tasks
<1>9. CASE Advance(w)
  BY <1>1, <1>3, <1>9 DEF Advance, DataOK, Tasks
<1> QED
  BY <1>5, <1>6, <1>7, <1>8, <1>9 DEF StepTask

\* So do pause and resume, Restore included.
LEMMA CommandData ==
    ASSUME ControlOK, QueuesOK, DataOK, NEW w \in Workers,
           PauseCommand(w) \/ ResumeCommand(w)
    PROVE  DataOK'
<1>0. {"PAUSED", "RUNNING"} \subseteq States
  BY DEF States
<1>1. CASE PauseFind(w) \/ PauseCheck(w) \/ MemFind(w) \/ MemCheck(w)
  BY <1>1 DEF PauseFind, PauseCheck, MemFind, MemCheck, quiet, poolVars, DataOK
<1>2. CASE PauseStore(w)
  <2>1. ptr[w] \in Slots
    BY <1>2, WorkerAt DEF PauseStore, Pointing
  <2> QED
    BY <1>0, <1>2, <2>1, SetStateType DEF PauseStore, quiet, poolVars, DataOK
<1>3. CASE MemResume(w)
  <2>1. ptr[w] \in Slots
    BY <1>3, WorkerAt DEF MemResume, Pointing
  <2> QED
    BY <1>0, <1>3, <2>1, SetStateType
       DEF MemResume, Resumed, quiet, poolVars, DataOK
<1>4. CASE ResumeLoad(w) \/ ResumeBusy(w)
  <2>1. NoRecord \in Records
    BY DEF NoRecord, Records, States, Packs, DummyPack
  <2> QED
    BY <1>4, <2>1 DEF ResumeLoad, ResumeBusy, poolVars, DataOK
<1>5. CASE ResumeAcquire(w)
  <2>1. DummyPack \in Packs
    BY DEF DummyPack, Packs
  <2> QED
    BY <1>5, <2>1, AcquireType DEF ResumeAcquire, DataOK, Threads
<1>6. CASE ResumeRestore(w)
  <2>1. held[w] \in Slots
    BY <1>6, WorkerAt DEF ResumeRestore, Holding
  <2>2. NoRecord \in Records
    BY DEF NoRecord, Records, States, Packs, DummyPack
  <2>3. Restored(task[held[w]], snap[w]) \in Tasks
    BY <2>1 DEF DataOK, Restored, Tasks, Records, States
  <2> QED
    BY <1>6, <2>1, <2>2, <2>3 DEF ResumeRestore, poolVars, DataOK
<1>7. CASE ResumeUnpause(w)
  <2>1. held[w] \in Slots
    BY <1>7, WorkerAt DEF ResumeUnpause, Holding
  <2> QED
    BY <1>0, <1>7, <2>1, SetStateType
       DEF ResumeUnpause, Resumed, quiet, poolVars, DataOK
<1>8. CASE ResumeEnqueue(w) \/ ResumeDelete(w)
  BY <1>8 DEF ResumeEnqueue, ResumeDelete, Delete, quiet, poolVars, DataOK
<1> QED
  BY <1>1, <1>2, <1>3, <1>4, <1>5, <1>6, <1>7, <1>8
     DEF PauseCommand, ResumeCommand

\* So does the tail of the job, and the records it saves are well formed.
LEMMA FinishJobData ==
    ASSUME ControlOK, DataOK, NEW w \in Workers, FinishJob(w)
    PROVE  DataOK'
<1>1. job[w] \in Slots
  BY WorkerAt DEF FinishJob, SaveIfPaused, PushResult, ResetTask, FreeSlot,
                  Executing, WorkerPCs
<1>2. CASE SaveIfPaused(w)
  <2>1. ExportRecord(task[job[w]]) \in Records
    BY <1>1 DEF ExportRecord, Records, Tasks, DataOK
  <2> QED
    BY <1>2, <2>1 DEF SaveIfPaused, Save, quiet, poolVars, DataOK
<1>3. CASE ResetTask(w)
  <2>1. EmptyTask \in Tasks
    BY DEF EmptyTask, Tasks, States, Packs, DummyPack
  <2> QED
    BY <1>3, <2>1 DEF ResetTask, quiet, poolVars, DataOK
<1>4. CASE PushResult(w) \/ FreeSlot(w)
  BY <1>4 DEF PushResult, FreeSlot, poolVars, DataOK
<1> QED
  BY <1>2, <1>3, <1>4 DEF FinishJob

\* Every step of the engine keeps DataOK.
LEMMA DataStep ==
    ASSUME ControlOK, QueuesOK, DataOK, PoolAssumption, [Next]_vars
    PROVE  DataOK'
<1>1. CASE SubmitAcquire
  BY <1>1, CommandsArePacks, AcquireType DEF SubmitAcquire, DataOK, Threads
<1>2. CASE SubmitBusy \/ Shutdown \/ MainStep
  BY <1>2 DEF SubmitBusy, Shutdown, MainStep, SubmitEnqueue, DrainResults,
     ShutdownDrain, ShutdownCount, ShutdownFinalDrain, StopPool, poolVars, DataOK
<1>3. ASSUME NEW w \in Workers, TakeJob(w) \/ Leave(w)
      PROVE  DataOK'
  BY <1>3 DEF TakeJob, Leave, poolVars, DataOK
<1>4. ASSUME NEW w \in Workers, Worker(w)
      PROVE  DataOK'
  BY <1>3, <1>4, StepTaskData, CommandData, FinishJobData DEF Worker
<1>5. CASE Finished \/ UNCHANGED vars
  BY <1>5 DEF Finished, vars, DataOK
<1> QED
  BY <1>1, <1>2, <1>4, <1>5 DEF Next

\* Every step of the engine keeps BooksOK.
LEMMA BooksStep ==
    ASSUME ControlOK, DataOK, BooksOK, [Next]_vars
    PROVE  BooksOK'
<1> USE DEF BooksOK
<1>1. CASE SubmitBusy \/ SubmitAcquire \/ Shutdown
  <2>1. UNCHANGED <<stop, hasStore, results, emitted, parked, waits>>
    BY <1>1, Zenon DEF SubmitBusy, SubmitAcquire, Shutdown, jobVars, resultVars,
       mainVars
  <2>2. sent' = sent \/ sent' = sent + 1
    BY <1>1, Zenon DEF SubmitBusy, SubmitAcquire, Shutdown, mainVars
  <2> QED
    BY <2>1, <2>2
<1>2. CASE SubmitEnqueue
  BY <1>2 DEF SubmitEnqueue, Enqueue, poolVars, resultVars, mainVars
<1>3. CASE DrainResults \/ ShutdownDrain \/ ShutdownFinalDrain
  <2> USE DEF DrainResults, ShutdownDrain, ShutdownFinalDrain, Drain
  <2>1. emitted' = emitted \cup results /\ results' = {}
    BY <1>3, Zenon
  <2>2. UNCHANGED <<stop, hasStore, parked, sent>>
    BY <1>3, Zenon DEF jobVars, mainVars
  <2>3. waits' = waits \/ waits' = waits + 1
    BY <1>3, Zenon DEF mainVars
  <2> QED
    BY <2>1, <2>2, <2>3
<1>4. CASE ShutdownCount \/ StopPool
  BY <1>4 DEF ShutdownCount, StopPool, poolVars, jobVars, resultVars,
     mainVars
<1>5. ASSUME NEW w \in Workers, TakeJob(w) \/ Leave(w)
      PROVE  BooksOK'
  BY <1>5 DEF TakeJob, Leave, poolVars, jobVars, resultVars, mainVars
<1>6. ASSUME NEW w \in Workers, StepTask(w)
      PROVE  BooksOK'
  BY <1>6 DEF StepTask, LoadState, StartTask, CheckShards, EmitMissing,
     EmitWork, Advance, FinishTask, quiet, jobVars, mainVars
<1>7. ASSUME NEW w \in Workers,
             PauseCommand(w) \/ MemFind(w) \/ MemCheck(w) \/ MemResume(w)
      PROVE  BooksOK'
  BY <1>7 DEF PauseCommand, PauseFind, PauseCheck, PauseStore, MemFind,
     MemCheck, MemResume, quiet, jobVars, mainVars
<1>8. ASSUME NEW w \in Workers,
             \/ ResumeLoad(w) \/ ResumeBusy(w) \/ ResumeAcquire(w)
             \/ ResumeRestore(w) \/ ResumeUnpause(w) \/ ResumeDelete(w)
      PROVE  BooksOK'
  BY <1>8 DEF ResumeLoad, ResumeBusy, ResumeAcquire, ResumeRestore,
     ResumeUnpause, ResumeDelete, quiet, jobVars, resultVars, mainVars
<1>9. ASSUME NEW w \in Workers, ResumeEnqueue(w)
      PROVE  BooksOK'
  BY <1>9 DEF ResumeEnqueue, Enqueue, poolVars, mainVars
<1>10. ASSUME NEW w \in Workers, FinishJob(w)
       PROVE  BooksOK'
  <2>1. job[w] \in Slots
    BY <1>10, WorkerAt DEF FinishJob, SaveIfPaused, PushResult, ResetTask,
                           FreeSlot, Executing, WorkerPCs
  <2>2. task[job[w]].id \in Nat /\ task[job[w]].run \in Nat
    BY <2>1 DEF DataOK, Tasks
  <2> QED
    BY <1>10, <2>2 DEF FinishJob, SaveIfPaused, PushResult, ResetTask, FreeSlot,
       quiet, jobVars, resultVars, mainVars
<1>11. CASE Finished \/ UNCHANGED vars
  BY <1>11 DEF Finished, vars
<1> QED
  BY <1>1, <1>2, <1>3, <1>4, <1>5, <1>6, <1>7, <1>8, <1>9, <1>10, <1>11
     DEF Next, MainStep, Worker, ResumeCommand

\* The initial state is well formed.
LEMMA InitType ==
    ASSUME Init, PoolAssumption
    PROVE  ControlOK /\ DataOK /\ BooksOK
<1>1. ControlOK
  BY PoolAssumption DEF Init, ControlOK, NoNullTask, MainPCs, WorkerPCs, Executing,
     Holding, Pointing, Slots, NoSlot, Threads
<1>2. EmptyTask \in Tasks /\ NoRecord \in Records
  BY DEF EmptyTask, NoRecord, Tasks, Records, States, Packs, DummyPack
<1>3. DataOK
  BY <1>2 DEF Init, DataOK
<1>4. BooksOK
  <2>1. stop = FALSE /\ results = {} /\ emitted = {} /\ parked = {}
    BY DEF Init
  <2>2. sent \in Nat /\ waits \in Nat
    BY DEF Init
  <2>3. hasStore \in BOOLEAN
    BY DEF Init, PoolAssumption
  <2> QED
    BY <2>1, <2>2, <2>3, Zenon DEF BooksOK
<1> QED
  BY <1>1, <1>3, <1>4

-----------------------------------------------------------------------------
(***************************************************************************)
(* The theorems.                                                           *)
(***************************************************************************)
\* The inductive invariant: types, the hands of the threads, and ownership.
SlotInv == /\ ControlOK /\ QueuesOK /\ DataOK /\ BooksOK
           /\ SlotOwnedOnce /\ NoSlotLeaked

LEMMA InitInv == Init => SlotInv
BY InitType, InitSlots, PoolAssumption DEF SlotInv

LEMMA NextInv == SlotInv /\ [Next]_vars => SlotInv'
<1> SUFFICES ASSUME SlotInv, [Next]_vars PROVE SlotInv'
  OBVIOUS
<1>1. SlotMove \/ SlotStay
  BY SlotMoves, PoolAssumption DEF SlotInv
<1>2. ControlOK' /\ DataOK' /\ BooksOK'
  BY ControlStep, DataStep, BooksStep, PoolAssumption DEF SlotInv
<1>3. QueuesOK' /\ SlotOwnedOnce' /\ NoSlotLeaked'
  BY <1>1, QueuesStep, OwnedOnceStep, NotLeakedStep, PoolAssumption DEF SlotInv
<1> QED
  BY <1>2, <1>3 DEF SlotInv

LEMMA Invariance == Spec => []SlotInv
BY InitInv, NextInv, PTL DEF Spec

\* Every variable keeps its type: the free list and the queue hold slots only,
\* every Task field stays in its range, the store holds well-formed records.
THEOREM TypeCorrect == Spec => []TypeOK
<1>1. SlotInv => TypeOK
  BY TypeParts DEF SlotInv
<1> QED
  BY <1>1, Invariance, PTL

\* No thread follows a null Task*: the job's task, the slot between Acquire and
\* Enqueue and the pointer of pause and resume are there whenever they are used.
THEOREM NeverNullTask == Spec => []NoNullTask
<1>1. SlotInv => NoNullTask
  BY DEF SlotInv, ControlOK
<1> QED
  BY <1>1, Invariance, PTL

\* A Task object has one owner at a time, for any pool size, any number of
\* workers and any mix of commands, resumes and pauses.
THEOREM OneOwnerPerSlot == Spec => []SlotOwnedOnce
<1>1. SlotInv => SlotOwnedOnce
  BY DEF SlotInv
<1> QED
  BY <1>1, Invariance, PTL

\* The pool never loses a slot while the thread pool accepts jobs.
THEOREM NoLeak == Spec => []NoSlotLeaked
<1>1. SlotInv => NoSlotLeaked
  BY DEF SlotInv
<1> QED
  BY <1>1, Invariance, PTL

-----------------------------------------------------------------------------
(***************************************************************************)
(* Every execution is answered exactly once, and a shutdown that saw every *)
(* slot free leaves no answer behind: for every pool size, every number of *)
(* worker threads and every sequence of commands.                          *)
(*                                                                         *)
(* The argument: an execution is open while its slot is in the queue, in   *)
(* the hands of a thread that has not pushed its result yet, or thrown     *)
(* away.  A step opens one execution, with a number never drawn before,    *)
(* answers one, or leaves what is open and what is answered as they are    *)
(* (AnswerMove); open slots carry different numbers, so an answer takes    *)
(* exactly one number from the open ones.                                  *)
(***************************************************************************)

\* The worker has pushed the result of its job, and has not given the slot back.
Closing(w) == pc[w] \in {"reset", "free"}

\* The execution in slot s has not been answered.
Open(s) ==
    \/ s \in Occupants(queue) \cup dropped
    \/ \E t \in Threads : held[t] = s
    \/ \E w \in Workers : job[w] = s /\ ~Closing(w)

OpenSlots == {s \in Slots : Open(s)}

\* A slot whose job was thrown away is nowhere else.
DroppedApart ==
    /\ dropped \cap (Occupants(free) \cup Occupants(queue)) = {}
    /\ \A w \in Workers : job[w] \notin dropped
    /\ \A t \in Threads : held[t] \notin dropped

\* Two open slots never carry the same number.
OneRunPerSlot ==
    \A r, s \in OpenSlots : task[r].run = task[s].run => r = s

-----------------------------------------------------------------------------
(***************************************************************************)
(* What a step may do to the answers.                                      *)
(***************************************************************************)
\* A fresh execution in a slot that was not open.
AskStep ==
    \E h \in Slots \ OpenSlots :
        /\ OpenSlots' = OpenSlots \cup {h}
        /\ task'[h].run = nextId
        /\ \A s \in OpenSlots : task'[s].run = task[s].run
        /\ nextId' = nextId + 1
        /\ UNCHANGED <<results, emitted>>

\* The result of an open slot goes to the ResultStore.
PushStep ==
    \E s \in OpenSlots :
        /\ OpenSlots' = OpenSlots \ {s}
        /\ results' = results \cup {task[s].run}
        /\ UNCHANGED <<task, nextId, emitted>>

\* The main thread empties the ResultStore, or nothing happens to an answer.
DrainStep ==
    /\ OpenSlots' = OpenSlots
    /\ \A s \in OpenSlots : task'[s].run = task[s].run
    /\ nextId' = nextId
    /\ \/ UNCHANGED <<results, emitted>>
       \/ emitted' = emitted \cup results /\ results' = {}

AnswerMove == AskStep \/ PushStep \/ DrainStep

-----------------------------------------------------------------------------
(***************************************************************************)
(* Thrown away jobs.                                                       *)
(***************************************************************************)
\* No move brings a thrown away slot back.
LEMMA DroppedStep ==
    ASSUME ControlOK, QueuesOK, SlotOwnedOnce, DroppedApart,
           SlotMove \/ SlotStay
    PROVE  DroppedApart'
<1> USE DEF ControlOK, QueuesOK
<1>0. NoSlot \notin dropped
  BY DEF Slots, NoSlot
<1>1. CASE AcquireStep
  <2>1. PICK t \in Threads, pack \in Packs :
            /\ Acquire(t, pack)
            /\ UNCHANGED <<queue, job, stop, dropped>>
    BY <1>1 DEF AcquireStep
  <2>2. /\ held' = [held EXCEPT ![t] = Head(free)]
        /\ Occupants(free) = {Head(free)} \cup Occupants(free')
    BY <2>1, TailOccupants DEF Acquire, SlotOwnedOnce
  <2>3. Head(free) \notin dropped
    BY <2>2 DEF DroppedApart
  <2> QED
    BY <2>1, <2>2, <2>3 DEF DroppedApart
<1>2. CASE EnqueueStep
  <2>1. PICK t \in Threads : /\ Enqueue(t)
                             /\ held[t] \in Slots
                             /\ UNCHANGED <<free, job>>
    BY <1>2 DEF EnqueueStep
  <2>2. held' = [held EXCEPT ![t] = NoSlot]
    BY <2>1 DEF Enqueue
  <2>3. CASE stop
    <3>1. queue' = queue /\ dropped' = dropped \cup {held[t]}
      BY <2>1, <2>3 DEF Enqueue
    <3>2. held[t] \notin Occupants(free) \cup Occupants(queue)
      BY DEF SlotOwnedOnce
    <3>3. \A w \in Workers : job[w] # held[t]
      BY <2>1 DEF SlotOwnedOnce, Slots, NoSlot
    <3>4. \A u \in Threads : u # t => held[u] # held[t]
      BY <2>1 DEF SlotOwnedOnce, Slots, NoSlot
    <3>5. held[t] # NoSlot
      BY <2>1 DEF Slots, NoSlot
    <3> QED
      BY <1>0, <2>1, <2>2, <3>1, <3>2, <3>3, <3>4, <3>5 DEF DroppedApart
  <2>4. CASE ~stop
    <3>1. queue' = Append(queue, held[t]) /\ dropped' = dropped
      BY <2>1, <2>4 DEF Enqueue
    <3>2. Occupants(queue') = Occupants(queue) \cup {held[t]}
      BY <2>1, <3>1, AppendOccupants
    <3>3. held[t] \notin dropped
      BY DEF DroppedApart
    <3> QED
      BY <1>0, <2>1, <2>2, <3>1, <3>2, <3>3 DEF DroppedApart
  <2> QED
    BY <2>3, <2>4
<1>3. CASE TakeStep
  <2>1. PICK w \in Workers : /\ queue # <<>>
                             /\ job' = [job EXCEPT ![w] = Head(queue)]
                             /\ queue' = Tail(queue)
                             /\ UNCHANGED <<free, held, dropped>>
    BY <1>3 DEF TakeStep
  <2>2. Occupants(queue) = {Head(queue)} \cup Occupants(queue')
    BY <2>1, TailOccupants DEF SlotOwnedOnce
  <2>3. Head(queue) \notin dropped
    BY <2>2 DEF DroppedApart
  <2> QED
    BY <2>1, <2>2, <2>3 DEF DroppedApart
<1>4. CASE FreeStep
  <2>1. PICK w \in Workers : /\ job[w] \in Slots
                             /\ free' = Append(free, job[w])
                             /\ job' = [job EXCEPT ![w] = NoSlot]
                             /\ UNCHANGED <<queue, held, dropped>>
    BY <1>4 DEF FreeStep
  <2>2. Occupants(free') = Occupants(free) \cup {job[w]}
    BY <2>1, AppendOccupants
  <2>3. job[w] \notin dropped
    BY DEF DroppedApart
  <2> QED
    BY <1>0, <2>1, <2>2, <2>3 DEF DroppedApart
<1>5. CASE SlotStay
  BY <1>5 DEF SlotStay, DroppedApart
<1> QED
  BY <1>1, <1>2, <1>3, <1>4, <1>5 DEF SlotMove

-----------------------------------------------------------------------------
(***************************************************************************)
(* What a move of a slot does to the open ones.                            *)
(***************************************************************************)
\* The slot an Acquire hands out was not open; it is now.
LEMMA AcquireOpens ==
    ASSUME ControlOK, QueuesOK, SlotOwnedOnce, DroppedApart,
           NEW t \in Threads, NEW pack \in Packs, Acquire(t, pack),
           held[t] = NoSlot, UNCHANGED <<queue, job, dropped>>,
           \A w \in Workers : Closing(w)' <=> Closing(w)
    PROVE  /\ Head(free) \in Slots \ OpenSlots
           /\ OpenSlots' = OpenSlots \cup {Head(free)}
<1>1. /\ held' = [held EXCEPT ![t] = Head(free)]
      /\ Head(free) \in Slots
      /\ Head(free) \in Occupants(free)
  BY TailOccupants DEF Acquire, SlotOwnedOnce, QueuesOK
<1>2. /\ Head(free) \notin Occupants(queue) \cup dropped
      /\ \A w \in Workers : job[w] # Head(free)
      /\ \A u \in Threads : held[u] # Head(free)
  BY <1>1 DEF SlotOwnedOnce, DroppedApart
<1>3. Head(free) \notin OpenSlots
  BY <1>2 DEF OpenSlots, Open
<1>4. ASSUME NEW s \in Slots
      PROVE  Open(s)' <=> Open(s) \/ s = Head(free)
  <2>1. (\E u \in Threads : held'[u] = s)
            <=> (\E u \in Threads : held[u] = s) \/ s = Head(free)
    BY <1>1 DEF ControlOK, Slots, NoSlot
  <2> QED
    BY <2>1 DEF Open
<1> QED
  BY <1>1, <1>3, <1>4 DEF OpenSlots

\* Enqueue passes a slot from a thread to the queue, or throws its job away.
LEMMA EnqueueKeepsOpen ==
    ASSUME ControlOK, QueuesOK, EnqueueStep,
           \A w \in Workers : Closing(w)' <=> Closing(w)
    PROVE  OpenSlots' = OpenSlots
<1>1. PICK t \in Threads : /\ Enqueue(t)
                           /\ held[t] \in Slots
                           /\ UNCHANGED <<free, job>>
  BY DEF EnqueueStep
<1>2. held' = [held EXCEPT ![t] = NoSlot]
  BY <1>1 DEF Enqueue
<1>3. Occupants(queue') \cup dropped' = Occupants(queue) \cup dropped \cup {held[t]}
  <2>1. CASE stop
    BY <1>1, <2>1 DEF Enqueue
  <2>2. CASE ~stop
    <3>1. queue' = Append(queue, held[t]) /\ dropped' = dropped
      BY <1>1, <2>2 DEF Enqueue
    <3>2. Occupants(queue') = Occupants(queue) \cup {held[t]}
      BY <1>1, <3>1, AppendOccupants DEF QueuesOK
    <3> QED
      BY <3>1, <3>2
  <2> QED
    BY <2>1, <2>2
<1>4. ASSUME NEW s \in Slots
      PROVE  Open(s)' <=> Open(s)
  <2>1. (\E u \in Threads : held[u] = s)
            <=> (\E u \in Threads : held'[u] = s) \/ s = held[t]
    BY <1>1, <1>2 DEF ControlOK, Slots, NoSlot
  <2> QED
    BY <1>1, <1>3, <2>1 DEF Open
<1> QED
  BY <1>4 DEF OpenSlots

\* A worker that takes a job has not answered it.
LEMMA TakeKeepsOpen ==
    ASSUME ControlOK, QueuesOK, SlotOwnedOnce, NEW w \in Workers, TakeJob(w)
    PROVE  OpenSlots' = OpenSlots
<1>1. /\ queue # <<>> /\ queue' = Tail(queue)
      /\ job' = [job EXCEPT ![w] = Head(queue)]
      /\ pc' = [pc EXCEPT ![w] = "load"]
      /\ UNCHANGED <<held, dropped>>
      /\ job[w] = NoSlot
  BY WorkerAt DEF TakeJob, Goto, Executing
<1>2. Occupants(queue) = {Head(queue)} \cup Occupants(queue')
  BY <1>1, TailOccupants DEF SlotOwnedOnce, QueuesOK
<1>3. ~Closing(w)' /\ \A v \in Workers : v # w => (Closing(v)' <=> Closing(v))
  BY <1>1 DEF Closing, ControlOK, Threads
<1>4. ASSUME NEW s \in Slots
      PROVE  Open(s)' <=> Open(s)
  <2>1. (\E v \in Workers : job'[v] = s /\ ~Closing(v)')
            <=> (\E v \in Workers : job[v] = s /\ ~Closing(v)) \/ s = Head(queue)
    BY <1>1, <1>3 DEF ControlOK, Slots, NoSlot
  <2> QED
    BY <1>1, <1>2, <2>1 DEF Open
<1> QED
  BY <1>4 DEF OpenSlots

\* A worker that gives its slot back has answered it.
LEMMA FreeKeepsOpen ==
    ASSUME ControlOK, NEW w \in Workers, FreeSlot(w)
    PROVE  OpenSlots' = OpenSlots
<1>1. /\ pc[w] = "free"
      /\ job' = [job EXCEPT ![w] = NoSlot]
      /\ pc' = [pc EXCEPT ![w] = "wait"]
      /\ UNCHANGED <<queue, held, dropped>>
  BY DEF FreeSlot, Goto, jobVars
<1>2. Closing(w) /\ \A v \in Workers : v # w => (Closing(v)' <=> Closing(v))
  BY <1>1 DEF Closing, ControlOK, Threads
<1>3. ASSUME NEW s \in Slots
      PROVE  Open(s)' <=> Open(s)
  <2>1. (\E v \in Workers : job'[v] = s /\ ~Closing(v)')
            <=> (\E v \in Workers : job[v] = s /\ ~Closing(v))
    BY <1>1, <1>2 DEF ControlOK, Slots, NoSlot
  <2> QED
    BY <1>1, <2>1 DEF Open
<1> QED
  BY <1>3 DEF OpenSlots

\* A step that moves no slot and finishes no job keeps it open.
LEMMA StayKeepsOpen ==
    ASSUME SlotStay, \A w \in Workers : Closing(w)' <=> Closing(w)
    PROVE  OpenSlots' = OpenSlots
<1>1. ASSUME NEW s \in Slots
      PROVE  Open(s)' <=> Open(s)
  BY DEF SlotStay, Open
<1> QED
  BY <1>1 DEF OpenSlots

\* The push of a result closes the slot of the job, and no other.
LEMMA PushCloses ==
    ASSUME ControlOK, QueuesOK, SlotOwnedOnce, DroppedApart,
           NEW w \in Workers, PushResult(w)
    PROVE  /\ job[w] \in OpenSlots
           /\ OpenSlots' = OpenSlots \ {job[w]}
<1>1. /\ pc[w] = "push" /\ pc' = [pc EXCEPT ![w] = "reset"]
      /\ UNCHANGED <<queue, job, held, dropped>>
      /\ job[w] \in Slots
  BY WorkerAt DEF PushResult, Goto, jobVars, Executing, WorkerPCs
<1>2. /\ ~Closing(w) /\ Closing(w)'
      /\ \A v \in Workers : v # w => (Closing(v)' <=> Closing(v))
  BY <1>1 DEF Closing, ControlOK, Threads
<1>3. /\ job[w] \notin Occupants(queue) \cup dropped
      /\ \A t \in Threads : held[t] # job[w]
      /\ \A v \in Workers : job[v] = job[w] => v = w
  BY <1>1 DEF SlotOwnedOnce, DroppedApart, Slots, NoSlot
<1>4. job[w] \in OpenSlots
  BY <1>1, <1>2 DEF OpenSlots, Open
<1>5. ASSUME NEW s \in Slots
      PROVE  Open(s)' <=> Open(s) /\ s # job[w]
  BY <1>1, <1>2, <1>3 DEF Open
<1> QED
  BY <1>4, <1>5 DEF OpenSlots

\* The slot a worker resets has been answered.
LEMMA ResetIsClosed ==
    ASSUME ControlOK, SlotOwnedOnce, DroppedApart,
           NEW w \in Workers, ResetTask(w)
    PROVE  /\ job[w] \notin OpenSlots
           /\ OpenSlots' = OpenSlots
<1>1. /\ pc[w] = "reset" /\ pc' = [pc EXCEPT ![w] = "free"]
      /\ UNCHANGED <<queue, job, held, dropped>>
      /\ job[w] \in Slots
  BY WorkerAt DEF ResetTask, Goto, quiet, jobVars, Executing, WorkerPCs
<1>2. Closing(w) /\ \A v \in Workers : Closing(v)' <=> Closing(v)
  BY <1>1 DEF Closing, ControlOK, Threads
<1>3. /\ job[w] \notin Occupants(queue) \cup dropped
      /\ \A t \in Threads : held[t] # job[w]
      /\ \A v \in Workers : job[v] = job[w] => v = w
  BY <1>1 DEF SlotOwnedOnce, DroppedApart, Slots, NoSlot
<1>4. job[w] \notin OpenSlots
  BY <1>2, <1>3 DEF OpenSlots, Open
<1>5. ASSUME NEW s \in Slots
      PROVE  Open(s)' <=> Open(s)
  BY <1>1, <1>2 DEF Open
<1> QED
  BY <1>4, <1>5 DEF OpenSlots

-----------------------------------------------------------------------------
(***************************************************************************)
(* Every step of the engine is an AnswerMove.                              *)
(***************************************************************************)
\* A thread that neither comes from nor goes to the end of a job.
LEMMA ClosingKept ==
    ASSUME ControlOK, PoolAssumption, NEW t \in Threads, NEW l, Goto(t, l),
           t = Main \/ (pc[t] \notin {"reset", "free"} /\ l \notin {"reset", "free"})
    PROVE  \A w \in Workers : Closing(w)' <=> Closing(w)
BY DEF ControlOK, Goto, Closing, Threads, PoolAssumption

\* Task::Step writes state_ and current_, and grows a task; it never renumbers.
LEMMA StepTaskAnswers ==
    ASSUME ControlOK, DataOK, PoolAssumption, NEW w \in Workers, StepTask(w)
    PROVE  DrainStep
<1> USE DEF StepTask, LoadState, StartTask, CheckShards, EmitMissing,
            EmitWork, Advance, FinishTask, Emitting
<1>1. PICK l \in Plain \ {"reset", "free"} : Goto(w, l)
  BY DEF Plain
<1>2. pc[w] \in Plain \ {"reset", "free"}
  BY DEF Plain
<1>3. \A v \in Workers : Closing(v)' <=> Closing(v)
  BY <1>1, <1>2, ClosingKept DEF Threads
<1>4. UNCHANGED <<poolVars, jobVars, job, held, results, emitted>>
  BY DEF quiet
<1>5. OpenSlots' = OpenSlots
  BY <1>3, <1>4, StayKeepsOpen DEF SlotStay, poolVars, jobVars
<1>6. job[w] \in Slots
  BY <1>2, WorkerAt, PlainLabels
<1>7. ASSUME NEW s \in Slots
      PROVE  task'[s].run = task[s].run
  <2>1. task \in [Slots -> Tasks]
    BY DEF DataOK
  <2>2. CASE LoadState(w)
    BY <2>2
  <2>3. CASE StartTask(w) \/ FinishTask(w) \/ EmitMissing(w) \/ CheckShards(w)
    BY <1>6, <2>1, <2>3 DEF SetState, Tasks
  <2>4. CASE EmitWork(w)
    BY <1>6, <2>1, <2>4 DEF Tasks
  <2>5. CASE Advance(w)
    BY <1>6, <2>1, <2>5 DEF Tasks
  <2> QED
    BY <2>2, <2>3, <2>4, <2>5
<1> QED
  BY <1>4, <1>5, <1>7 DEF DrainStep, OpenSlots, poolVars

\* pause and in-memory resume write state_ only.
LEMMA PointerAnswers ==
    ASSUME ControlOK, DataOK, PoolAssumption, NEW w \in Workers,
           PauseCommand(w) \/ MemFind(w) \/ MemCheck(w) \/ MemResume(w)
    PROVE  DrainStep
<1> USE DEF PauseCommand, PauseFind, PauseCheck, PauseStore, MemFind,
            MemCheck, MemResume, Emitting
<1>1. PICK l \in Pointing \cup {"advance"} : Goto(w, l)
  BY DEF Pointing
<1>2. pc[w] \in Pointing \cup {"emit"}
  BY DEF Pointing
<1>3. \A v \in Workers : Closing(v)' <=> Closing(v)
  BY <1>1, <1>2, ClosingKept DEF Threads, Pointing
<1>4. UNCHANGED <<poolVars, jobVars, job, held, results, emitted>>
  BY DEF quiet
<1>5. OpenSlots' = OpenSlots
  BY <1>3, <1>4, StayKeepsOpen DEF SlotStay, poolVars, jobVars
<1>6. ASSUME NEW s \in Slots
      PROVE  task'[s].run = task[s].run
  <2>1. task \in [Slots -> Tasks]
    BY DEF DataOK
  <2>2. CASE PauseFind(w) \/ PauseCheck(w) \/ MemFind(w) \/ MemCheck(w)
    BY <2>2
  <2>3. CASE PauseStore(w) \/ MemResume(w)
    <3>1. ptr[w] \in Slots
      BY <2>3, WorkerAt DEF Pointing
    <3> QED
      BY <2>1, <2>3, <3>1 DEF SetState, Resumed, Tasks
  <2> QED
    BY <2>2, <2>3
<1> QED
  BY <1>4, <1>5, <1>6 DEF DrainStep, OpenSlots, poolVars

\* Restore overwrites the id of a task, not the number of its execution.
LEMMA ResumeAnswers ==
    ASSUME ControlOK, DataOK, PoolAssumption, NEW w \in Workers,
           \/ ResumeLoad(w) \/ ResumeBusy(w) \/ ResumeRestore(w)
           \/ ResumeUnpause(w) \/ ResumeDelete(w)
    PROVE  DrainStep
<1> USE DEF ResumeLoad, ResumeBusy, ResumeRestore, ResumeUnpause, ResumeDelete,
            Emitting
<1>1. PICK l \in {"acquire", "advance", "unpause", "handover"} : Goto(w, l)
  OBVIOUS
<1>2. pc[w] \in {"emit", "acquire", "restore", "unpause", "delete"}
  OBVIOUS
<1>3. \A v \in Workers : Closing(v)' <=> Closing(v)
  BY <1>1, <1>2, ClosingKept DEF Threads
<1>4. UNCHANGED <<poolVars, jobVars, job, held, results, emitted>>
  BY DEF quiet, resultVars
<1>5. OpenSlots' = OpenSlots
  BY <1>3, <1>4, StayKeepsOpen DEF SlotStay, poolVars, jobVars
<1>6. ASSUME NEW s \in Slots
      PROVE  task'[s].run = task[s].run
  <2>1. task \in [Slots -> Tasks]
    BY DEF DataOK
  <2>2. CASE ResumeLoad(w) \/ ResumeBusy(w) \/ ResumeDelete(w)
    BY <2>2
  <2>3. CASE ResumeRestore(w)
    <3>1. held[w] \in Slots
      BY <2>3, WorkerAt DEF Holding
    <3>2. Restored(task[held[w]], snap[w]).run = task[held[w]].run
      BY <2>1, <3>1 DEF Restored, Tasks
    <3> QED
      BY <2>1, <2>3, <3>1, <3>2
  <2>4. CASE ResumeUnpause(w)
    <3>1. held[w] \in Slots
      BY <2>4, WorkerAt DEF Holding
    <3> QED
      BY <2>1, <2>4, <3>1 DEF SetState, Resumed, Tasks
  <2> QED
    BY <2>2, <2>3, <2>4
<1> QED
  BY <1>4, <1>5, <1>6 DEF DrainStep, OpenSlots, poolVars

\* A slot acquired for a command or for a resume opens a new execution.
LEMMA AcquireAsks ==
    ASSUME ControlOK, QueuesOK, DataOK, SlotOwnedOnce, DroppedApart,
           NEW t \in Threads, NEW pack \in Packs, Acquire(t, pack),
           held[t] = NoSlot, UNCHANGED <<queue, job, dropped, results, emitted>>,
           \A w \in Workers : Closing(w)' <=> Closing(w)
    PROVE  AskStep
<1>1. /\ Head(free) \in Slots \ OpenSlots
      /\ OpenSlots' = OpenSlots \cup {Head(free)}
  BY AcquireOpens
<1>2. /\ task' = [task EXCEPT ![Head(free)] = Assigned(pack, nextId)]
      /\ nextId' = nextId + 1
  BY DEF Acquire
<1>3. task'[Head(free)].run = nextId
  BY <1>1, <1>2 DEF DataOK, Assigned
<1>4. \A s \in OpenSlots : task'[s].run = task[s].run
  BY <1>1, <1>2 DEF DataOK, OpenSlots
<1> QED
  BY <1>1, <1>2, <1>3, <1>4 DEF AskStep

\* The main thread asks and drains.
LEMMA MainAnswers ==
    ASSUME ControlOK, QueuesOK, DataOK, SlotOwnedOnce, DroppedApart, PoolAssumption,
           \/ SubmitBusy \/ SubmitAcquire \/ Shutdown \/ MainStep
    PROVE  AskStep \/ DrainStep
<1>1. CASE SubmitAcquire
  <2>1. PICK cmd \in Packs : Acquire(Main, cmd)
    BY <1>1, CommandsArePacks DEF SubmitAcquire
  <2>2. /\ Goto(Main, "enqueue")
        /\ UNCHANGED <<queue, job, dropped, results, emitted>>
        /\ held[Main] = NoSlot
    BY <1>1 DEF SubmitAcquire, jobVars, resultVars, ControlOK, NoNullTask,
       Holding, Threads
  <2>3. \A w \in Workers : Closing(w)' <=> Closing(w)
    BY <2>2, ClosingKept DEF Threads
  <2> QED
    BY <2>1, <2>2, <2>3, AcquireAsks DEF Threads
<1>2. CASE SubmitEnqueue
  <2>1. /\ Goto(Main, "run") /\ Enqueue(Main)
        /\ UNCHANGED <<task, nextId, free, job, results, emitted>>
        /\ held[Main] \in Slots
    BY <1>2 DEF SubmitEnqueue, poolVars, resultVars, ControlOK, NoNullTask,
       Holding, Threads
  <2>2. \A w \in Workers : Closing(w)' <=> Closing(w)
    BY <2>1, ClosingKept DEF Threads
  <2>3. OpenSlots' = OpenSlots
    BY <2>1, <2>2, EnqueueKeepsOpen DEF EnqueueStep, Threads
  <2> QED
    BY <2>1, <2>3 DEF DrainStep
<1>3. CASE SubmitBusy \/ DrainResults \/ StopPool \/ Shutdown \/ ShutdownDrain
             \/ ShutdownCount \/ ShutdownFinalDrain
  <2> USE DEF SubmitBusy, DrainResults, StopPool, Shutdown, ShutdownDrain,
              ShutdownCount, ShutdownFinalDrain
  <2>a. stop' = stop \/ stop' = TRUE
    BY <1>3, Zenon DEF jobVars
  <2>b. UNCHANGED <<task, poolVars, queue, dropped, job, held>>
    BY <1>3, Zenon DEF jobVars
  <2>1. UNCHANGED <<task, poolVars, queue, dropped, job, held>> /\ (stop => stop')
    BY <2>a, <2>b
  <2>2. UNCHANGED pc \/ \E l : Goto(Main, l)
    BY <1>3
  <2>3. \A w \in Workers : Closing(w)' <=> Closing(w)
    BY <2>2, ClosingKept DEF Threads, Closing
  <2>4. OpenSlots' = OpenSlots
    BY <2>1, <2>3, StayKeepsOpen DEF SlotStay, poolVars
  <2>5. \/ UNCHANGED <<results, emitted>>
        \/ emitted' = emitted \cup results /\ results' = {}
    BY <1>3, Zenon DEF Drain, resultVars
  <2> QED
    BY <2>1, <2>4, <2>5 DEF DrainStep, poolVars
<1> QED
  BY <1>1, <1>2, <1>3 DEF MainStep

\* A resume asks in between; a job is taken, answered and given back.
LEMMA WorkerAnswers ==
    ASSUME ControlOK, QueuesOK, DataOK, SlotOwnedOnce, DroppedApart, PoolAssumption,
           NEW w \in Workers, Worker(w)
    PROVE  AnswerMove
<1>1. CASE ResumeAcquire(w)
  <2>1. /\ Acquire(w, DummyPack) /\ pc[w] = "acquire" /\ Goto(w, "restore")
        /\ UNCHANGED <<queue, job, dropped, results, emitted>>
        /\ held[w] = NoSlot
    BY <1>1, WorkerAt DEF ResumeAcquire, jobVars, resultVars, Holding
  <2>2. \A v \in Workers : Closing(v)' <=> Closing(v)
    BY <2>1, ClosingKept DEF Threads
  <2>3. DummyPack \in Packs
    BY DEF DummyPack, Packs
  <2> QED
    BY <2>1, <2>2, <2>3, AcquireAsks DEF Threads, AnswerMove
<1>2. CASE ResumeEnqueue(w)
  <2>1. /\ pc[w] = "handover" /\ Goto(w, "delete") /\ Enqueue(w)
        /\ UNCHANGED <<task, nextId, free, job, results, emitted>>
        /\ held[w] \in Slots
    BY <1>2, WorkerAt DEF ResumeEnqueue, poolVars, Holding
  <2>2. \A v \in Workers : Closing(v)' <=> Closing(v)
    BY <2>1, ClosingKept DEF Threads
  <2>3. OpenSlots' = OpenSlots
    BY <2>1, <2>2, EnqueueKeepsOpen DEF EnqueueStep, Threads
  <2> QED
    BY <2>1, <2>3 DEF DrainStep, AnswerMove
<1>3. CASE TakeJob(w)
  BY <1>3, TakeKeepsOpen DEF TakeJob, poolVars, resultVars, DrainStep, AnswerMove
<1>4. CASE FreeSlot(w)
  BY <1>4, FreeKeepsOpen DEF FreeSlot, resultVars, DrainStep, AnswerMove
<1>5. CASE Leave(w) \/ SaveIfPaused(w)
  <2>1. /\ UNCHANGED <<task, poolVars, jobVars, job, held, results, emitted>>
        /\ \E l \in {"gone", "push"} : Goto(w, l)
        /\ pc[w] \in {"wait", "exit"}
    BY <1>5 DEF Leave, SaveIfPaused, resultVars, quiet
  <2>2. \A v \in Workers : Closing(v)' <=> Closing(v)
    BY <2>1, ClosingKept DEF Threads
  <2>3. OpenSlots' = OpenSlots
    BY <2>1, <2>2, StayKeepsOpen DEF SlotStay, poolVars, jobVars
  <2> QED
    BY <2>1, <2>3 DEF DrainStep, AnswerMove, poolVars
<1>6. CASE PushResult(w)
  BY <1>6, PushCloses DEF PushResult, poolVars, PushStep, AnswerMove
<1>7. CASE ResetTask(w)
  <2>1. /\ task' = [task EXCEPT ![job[w]] = EmptyTask]
        /\ UNCHANGED <<nextId, results, emitted>>
    BY <1>7 DEF ResetTask, quiet, poolVars
  <2>2. job[w] \notin OpenSlots /\ OpenSlots' = OpenSlots
    BY <1>7, ResetIsClosed
  <2>3. \A s \in OpenSlots : task'[s].run = task[s].run
    BY <2>1, <2>2 DEF DataOK, OpenSlots
  <2> QED
    BY <2>1, <2>2, <2>3 DEF DrainStep, AnswerMove
<1> QED
  BY <1>1, <1>2, <1>3, <1>4, <1>5, <1>6, <1>7, StepTaskAnswers, PointerAnswers,
     ResumeAnswers DEF Worker, ResumeCommand, FinishJob, AnswerMove

\* Every step of the engine asks, answers, or drains.
LEMMA AnswerMoves ==
    ASSUME ControlOK, QueuesOK, DataOK, SlotOwnedOnce, DroppedApart, PoolAssumption,
           [Next]_vars
    PROVE  AnswerMove
<1>1. CASE Finished \/ UNCHANGED vars
  <2>1. UNCHANGED vars
    BY <1>1 DEF Finished
  <2>2. OpenSlots' = OpenSlots
    BY <2>1 DEF vars, OpenSlots, Open, Closing
  <2> QED
    BY <2>1, <2>2 DEF vars, DrainStep, AnswerMove
<1> QED
  BY <1>1, MainAnswers, WorkerAnswers DEF Next, AnswerMove

-----------------------------------------------------------------------------
(***************************************************************************)
(* Exactly one answer.                                                     *)
(***************************************************************************)
\* The executions without an answer are those of the open slots.
LEMMA UnansweredIsOpen ==
    ASSUME ControlOK, QueuesOK
    PROVE  Unanswered = {task[s].run : s \in OpenSlots}
<1>1. ASSUME NEW n \in Unanswered
      PROVE  \E s \in OpenSlots : n = task[s].run
  <2>1. CASE \E s \in Occupants(queue) \cup dropped : n = task[s].run
    BY <2>1 DEF OpenSlots, Open, QueuesOK, Occupants
  <2>2. CASE \E t \in Threads : held[t] # NoSlot /\ n = task[held[t]].run
    BY <2>2 DEF OpenSlots, Open, ControlOK
  <2>3. CASE \E w \in Workers : /\ job[w] # NoSlot /\ pc[w] \notin {"reset", "free"}
                                /\ n = task[job[w]].run
    BY <2>3 DEF OpenSlots, Open, Closing, ControlOK
  <2> QED
    BY <2>1, <2>2, <2>3 DEF Unanswered
<1>2. ASSUME NEW s \in OpenSlots
      PROVE  task[s].run \in Unanswered
  <2>1. s # NoSlot
    BY DEF OpenSlots, Slots, NoSlot
  <2> QED
    BY <2>1 DEF OpenSlots, Open, Closing, Unanswered
<1> QED
  BY <1>1, <1>2

\* What the engine owes, has in the ResultStore and has emitted, by numbers.
AnswersOK ==
    /\ OneRunPerSlot
    /\ 1 .. nextId - 1 = {task[s].run : s \in OpenSlots} \cup results \cup emitted
    /\ {task[s].run : s \in OpenSlots} \cap (results \cup emitted) = {}
    /\ results \cap emitted = {}

\* A question gets a number of its own, an answer takes one, a drain none.
LEMMA AnswersStep ==
    ASSUME AnswersOK, nextId \in Nat \ {0}, AnswerMove
    PROVE  AnswersOK'
<1> DEFINE U == {task[s].run : s \in OpenSlots}
<1>0. \A n : n \in U => n \in 1 .. nextId - 1
  BY DEF AnswersOK
<1>1. CASE AskStep
  <2>1. PICK h \in Slots \ OpenSlots :
            /\ OpenSlots' = OpenSlots \cup {h}
            /\ task'[h].run = nextId
            /\ \A s \in OpenSlots : task'[s].run = task[s].run
            /\ nextId' = nextId + 1
            /\ UNCHANGED <<results, emitted>>
    BY <1>1 DEF AskStep
  <2>2. U' = U \cup {nextId}
    BY <2>1
  <2>3. nextId \notin U \cup results \cup emitted
    BY DEF AnswersOK
  <2>4. 1 .. nextId' - 1 = (1 .. nextId - 1) \cup {nextId}
    BY <2>1
  <2>5. OneRunPerSlot'
    <3> SUFFICES ASSUME NEW r \in OpenSlots', NEW s \in OpenSlots',
                        task'[r].run = task'[s].run
                 PROVE  r = s
      BY DEF OneRunPerSlot
    <3>1. CASE r \in OpenSlots /\ s \in OpenSlots
      BY <2>1, <3>1 DEF AnswersOK, OneRunPerSlot
    <3>2. CASE r = h \/ s = h
      BY <2>1, <2>3, <3>2
    <3> QED
      BY <2>1, <3>1, <3>2
  <2> QED
    BY <2>1, <2>2, <2>3, <2>4, <2>5 DEF AnswersOK
<1>2. CASE PushStep
  <2>1. PICK s \in OpenSlots :
            /\ OpenSlots' = OpenSlots \ {s}
            /\ results' = results \cup {task[s].run}
            /\ UNCHANGED <<task, nextId, emitted>>
    BY <1>2 DEF PushStep
  <2>2. U' = U \ {task[s].run}
    BY <2>1 DEF AnswersOK, OneRunPerSlot
  <2>3. OneRunPerSlot'
    BY <2>1 DEF AnswersOK, OneRunPerSlot
  <2>4. task[s].run \in U /\ task[s].run \notin emitted
    BY DEF AnswersOK
  <2> QED
    BY <2>1, <2>2, <2>3, <2>4 DEF AnswersOK
<1>3. CASE DrainStep
  <2>1. U' = U
    BY <1>3 DEF DrainStep
  <2>2. OneRunPerSlot'
    BY <1>3 DEF DrainStep, AnswersOK, OneRunPerSlot
  <2>3. /\ results' \cup emitted' = results \cup emitted
        /\ results' \cap emitted' = {}
    BY <1>3 DEF DrainStep, AnswersOK
  <2>4. nextId' = nextId
    BY <1>3 DEF DrainStep
  <2> QED
    BY <2>1, <2>2, <2>3, <2>4 DEF AnswersOK
<1> QED
  BY <1>1, <1>2, <1>3 DEF AnswerMove

\* The inductive invariant: ownership, and who is still owed an answer.
AnswerInv == SlotInv /\ DroppedApart /\ AnswersOK

\* At the start nothing has been asked.
LEMMA InitAnswers == Init => AnswerInv
<1> SUFFICES ASSUME Init PROVE AnswerInv
  OBVIOUS
<1>1. SlotInv
  BY InitInv
<1>2. /\ dropped = {} /\ queue = <<>> /\ results = {} /\ emitted = {} /\ nextId = 1
      /\ \A t \in Threads : held[t] = NoSlot
      /\ \A w \in Workers : job[w] = NoSlot
  BY DEF Init
<1>3. DroppedApart
  BY <1>2 DEF DroppedApart
<1>4. OpenSlots = {}
  BY <1>2 DEF OpenSlots, Open, Occupants, Slots, NoSlot
<1>5. AnswersOK
  BY <1>2, <1>4 DEF AnswersOK, OneRunPerSlot
<1> QED
  BY <1>1, <1>3, <1>5 DEF AnswerInv

\* Every step keeps it.
LEMMA NextAnswers == AnswerInv /\ [Next]_vars => AnswerInv'
<1> SUFFICES ASSUME AnswerInv, [Next]_vars PROVE AnswerInv'
  OBVIOUS
<1>1. SlotInv'
  BY NextInv DEF AnswerInv
<1>2. DroppedApart'
  BY SlotMoves, DroppedStep, PoolAssumption DEF AnswerInv, SlotInv
<1>3. AnswerMove
  BY AnswerMoves, PoolAssumption DEF AnswerInv, SlotInv
<1>4. AnswersOK'
  BY <1>3, AnswersStep DEF AnswerInv, SlotInv, DataOK
<1> QED
  BY <1>1, <1>2, <1>4 DEF AnswerInv

\* No execution that Acquire numbered is lost or answered twice, for any pool
\* size, any number of workers and any commands: it still holds its slot and has
\* no answer (a job that Enqueue refused after stop keeps its slot for good), or
\* its result is in the ResultStore, or it has been emitted, and never two of
\* these (SubmitTask's job, TaskManagerModule's job, Drain).
THEOREM OneAnswerEach == Spec => []AnsweredExactlyOnce
<1>1. AnswerInv => AnsweredExactlyOnce
  BY UnansweredIsOpen DEF AnswerInv, SlotInv, AnswersOK, AnsweredExactlyOnce
<1> QED
  BY <1>1, InitAnswers, NextAnswers, PTL DEF Spec

-----------------------------------------------------------------------------
(***************************************************************************)
(* Shutdown.                                                               *)
(***************************************************************************)
AllFree == Occupants(free) = Slots

\* A free list as long as the pool has every slot in it.
LEMMA FullListIsPool ==
    ASSUME PoolAssumption, QueuesOK, Distinct(free), Len(free) = PoolSize
    PROVE  AllFree
<1>1. DOMAIN free = Slots /\ free \in [Slots -> Slots]
  BY DEF QueuesOK, Slots, PoolAssumption
<1>2. free \in Injection(Slots, Slots)
  BY <1>1 DEF Distinct, Injection, IsInjective
<1>3. IsFiniteSet(Slots)
  BY FS_Interval DEF Slots, PoolAssumption
<1>4. free \in Surjection(Slots, Slots)
  BY <1>2, <1>3, FS_Injection
<1> QED
  BY <1>1, <1>4 DEF Surjection, AllFree, Occupants

\* With every slot free there is nothing to run and nothing in hand.
LEMMA NothingLeft ==
    ASSUME ControlOK, QueuesOK, SlotOwnedOnce, DroppedApart, AllFree
    PROVE  /\ queue = <<>> /\ OpenSlots = {}
           /\ \A w \in Workers : job[w] = NoSlot
           /\ \A t \in Threads : held[t] = NoSlot
<1>1. /\ \A w \in Workers : job[w] = NoSlot
      /\ \A t \in Threads : held[t] = NoSlot
  BY DEF SlotOwnedOnce, AllFree, ControlOK
<1>2. \A s \in Slots : s \notin Occupants(queue) \cup dropped
  BY DEF SlotOwnedOnce, DroppedApart, AllFree
<1>3. queue = <<>>
  <2>1. SUFFICES ASSUME queue # <<>> PROVE FALSE
    OBVIOUS
  <2>2. Head(queue) \in Slots /\ Head(queue) \in Occupants(queue)
    BY <2>1, TailOccupants DEF QueuesOK, SlotOwnedOnce
  <2> QED
    BY <1>2, <2>2
<1>4. OpenSlots = {}
  BY <1>1, <1>2 DEF OpenSlots, Open, Slots, NoSlot
<1> QED
  BY <1>1, <1>3, <1>4

\* What Shutdown has found when it stops waiting.
ShutdownOK ==
    /\ pc[Main] \in {"final", "drained"} => AllFree
    /\ pc[Main] = "drained" => results = {}

\* Behind the wait no worker has a job and the main thread hands out none.
LEMMA ShutdownStep ==
    ASSUME AnswerInv, ShutdownOK, PoolAssumption, [Next]_vars
    PROVE  ShutdownOK'
<1> USE DEF AnswerInv, SlotInv
<1>1. CASE SubmitBusy \/ SubmitAcquire \/ SubmitEnqueue \/ DrainResults
             \/ Shutdown \/ ShutdownDrain
  <2> USE DEF SubmitBusy, SubmitAcquire, SubmitEnqueue, DrainResults, Shutdown,
              ShutdownDrain
  <2>1. pc'[Main] \in {"run", "enqueue", "waiting", "counting"}
    BY <1>1 DEF Goto, ControlOK, Threads
  <2> QED
    BY <2>1 DEF ShutdownOK
<1>2. CASE ShutdownCount
  <2>1. /\ UNCHANGED free
        /\ pc'[Main] = "final" => Len(free) = PoolSize
        /\ pc'[Main] # "drained"
    BY <1>2 DEF ShutdownCount, Goto, ControlOK, Threads, poolVars
  <2> QED
    BY <2>1, FullListIsPool DEF ShutdownOK, SlotOwnedOnce, AllFree
<1>3. CASE ShutdownFinalDrain
  BY <1>3 DEF ShutdownFinalDrain, Drain, ShutdownOK, AllFree, poolVars
<1>4. CASE StopPool \/ Finished \/ UNCHANGED vars
  <2>1. UNCHANGED <<pc, free, results>>
    BY <1>4 DEF StopPool, Finished, vars, poolVars, resultVars
  <2> QED
    BY <2>1 DEF ShutdownOK, AllFree
<1>5. ASSUME NEW w \in Workers, Worker(w)
      PROVE  ShutdownOK'
  <2>1. pc'[Main] = pc[Main]
    <3>1. \E l : Goto(w, l)
      BY <1>5 DEF Worker, TakeJob, Leave, StepTask, PauseCommand, ResumeCommand,
         FinishJob, LoadState, StartTask, CheckShards, EmitMissing, EmitWork,
         Advance, FinishTask, PauseFind, PauseCheck, PauseStore, ResumeLoad,
         ResumeBusy, ResumeAcquire, ResumeRestore, ResumeUnpause, ResumeEnqueue,
         ResumeDelete, MemFind, MemCheck, MemResume, SaveIfPaused, PushResult,
         ResetTask, FreeSlot
    <3> QED
      BY <3>1, PoolAssumption DEF Goto, ControlOK, Threads, PoolAssumption
  <2>2. CASE pc[Main] \notin {"final", "drained"}
    BY <2>1, <2>2 DEF ShutdownOK
  <2>3. CASE pc[Main] \in {"final", "drained"}
    <3>1. queue = <<>> /\ job[w] = NoSlot
      BY <2>3, NothingLeft DEF ShutdownOK
    <3>2. pc[w] \notin Executing
      BY <3>1, WorkerAt
    <3>3. Leave(w)
      BY <1>5, <3>1, <3>2 DEF Executing, WorkerPCs, Worker, TakeJob, StepTask,
         PauseCommand, ResumeCommand, FinishJob, LoadState, StartTask,
         CheckShards, EmitMissing, EmitWork, Advance, FinishTask, PauseFind,
         PauseCheck, PauseStore, ResumeLoad, ResumeBusy, ResumeAcquire,
         ResumeRestore, ResumeUnpause, ResumeEnqueue, ResumeDelete, MemFind,
         MemCheck, MemResume, SaveIfPaused, PushResult, ResetTask, FreeSlot,
         Emitting
    <3>4. UNCHANGED <<free, results>>
      BY <3>3 DEF Leave, poolVars, resultVars
    <3> QED
      BY <2>1, <3>4 DEF ShutdownOK, AllFree
  <2> QED
    BY <2>2, <2>3
<1> QED
  BY <1>1, <1>2, <1>3, <1>4, <1>5 DEF Next, MainStep

\* When Shutdown stops waiting because every slot is free, the last Drain leaves
\* nothing: all executions ever accepted have been emitted.  This holds for any
\* number of workers, wherever they were when the slots were counted
\* (ShellEngine::Shutdown, the second Drain of v2.5).
THEOREM NothingLeftBehind == Spec => []CleanShutdown
<1>1. Init => ShutdownOK
  BY DEF Init, ShutdownOK, Threads
<1>2. AnswerInv /\ ShutdownOK /\ [Next]_vars => ShutdownOK'
  BY ShutdownStep, PoolAssumption
<1>3. ASSUME AnswerInv, ShutdownOK PROVE CleanShutdown
  <2>1. SUFFICES ASSUME pc[Main] = "drained"
                 PROVE  results = {} /\ emitted = 1 .. nextId - 1
    BY DEF CleanShutdown
  <2>2. results = {} /\ OpenSlots = {}
    BY <1>3, <2>1, NothingLeft DEF ShutdownOK, AnswerInv, SlotInv
  <2> QED
    BY <1>3, <2>2 DEF AnswerInv, AnswersOK
<1> QED
  BY <1>1, <1>2, <1>3, InitAnswers, NextAnswers, PTL DEF Spec

-----------------------------------------------------------------------------
(***************************************************************************)
(* A paused task keeps its snapshot where the thread pool has one worker,  *)
(* for every pool size and every sequence of commands.  With two workers   *)
(* the run engine_lost_snapshot violates it: the Delete of one resume      *)
(* meets the Save of the job that it queued.                               *)
(*                                                                         *)
(* The argument: between two steps of the only worker nobody but the main  *)
(* thread runs, and what that writes is the Task of a free slot            *)
(* (MainLeaves).                                                           *)
(***************************************************************************)

OneWorker == \A v, w \in Workers : v = w

\* What the main thread leaves alone: the stack of a worker, what is saved, and
\* every Task object that is not in a free slot.
MainLeft ==
    /\ UNCHANGED <<job, ptr, snap, store, parked>>
    /\ \A w \in Workers : pc'[w] = pc[w] /\ held'[w] = held[w]
    /\ \/ UNCHANGED <<task, free>>
       \/ \E s \in Occupants(free), cmd \in Commands :
            /\ task' = [task EXCEPT ![s] = Assigned(cmd, nextId)]
            /\ Occupants(free') \subseteq Occupants(free) \ {s}

\* Every step of the main thread leaves that alone.
LEMMA MainLeaves ==
    ASSUME SlotInv, PoolAssumption,
           \/ SubmitBusy \/ SubmitAcquire \/ Shutdown \/ MainStep
    PROVE  MainLeft
<1> USE DEF SlotInv
<1>1. \A w \in Workers : w # Main
  BY DEF PoolAssumption
<1>2. CASE SubmitAcquire
  <2>1. PICK cmd \in Commands : Acquire(Main, cmd)
    BY <1>2 DEF SubmitAcquire
  <2>2. /\ Head(free) \in Occupants(free)
        /\ Occupants(free') = Occupants(free) \ {Head(free)}
    <3>1. /\ Head(free) \notin Occupants(free')
          /\ Occupants(free) = {Head(free)} \cup Occupants(free')
      BY <2>1, TailOccupants DEF Acquire, QueuesOK, SlotOwnedOnce
    <3> QED
      BY <3>1
  <2>3. /\ UNCHANGED <<job, ptr, snap, store, parked>>
        /\ Goto(Main, "enqueue")
    BY <1>2 DEF SubmitAcquire, resultVars
  <2>4. \A w \in Workers : pc'[w] = pc[w] /\ held'[w] = held[w]
    BY <1>1, <2>1, <2>3 DEF Goto, Acquire, ControlOK, Threads
  <2> QED
    BY <2>1, <2>2, <2>3, <2>4 DEF MainLeft, Acquire
<1>3. CASE SubmitEnqueue
  <2>1. /\ UNCHANGED <<task, free, job, ptr, snap, store, parked>>
        /\ Goto(Main, "run") /\ Enqueue(Main)
    BY <1>3 DEF SubmitEnqueue, resultVars, poolVars
  <2>2. \A w \in Workers : pc'[w] = pc[w] /\ held'[w] = held[w]
    BY <1>1, <2>1 DEF Goto, Enqueue, ControlOK, Threads
  <2> QED
    BY <2>1, <2>2 DEF MainLeft
<1>4. CASE SubmitBusy \/ DrainResults \/ StopPool \/ Shutdown \/ ShutdownDrain
             \/ ShutdownCount \/ ShutdownFinalDrain
  <2> USE DEF SubmitBusy, DrainResults, StopPool, Shutdown, ShutdownDrain,
              ShutdownCount, ShutdownFinalDrain
  <2>1. UNCHANGED <<task, free, job, held, ptr, snap, store>>
    BY <1>4, Zenon DEF poolVars
  <2>2. parked' = parked
    BY <1>4, Zenon DEF resultVars, Drain
  <2>3. UNCHANGED pc \/ \E l : Goto(Main, l)
    BY <1>4
  <2>4. \A w \in Workers : pc'[w] = pc[w]
    BY <1>1, <2>3 DEF Goto, ControlOK, Threads
  <2> QED
    BY <2>1, <2>2, <2>4 DEF MainLeft
<1> QED
  BY <1>2, <1>3, <1>4 DEF MainStep

\* A slot in the hands of a worker is not free.
LEMMA HandsNotFree ==
    ASSUME SlotInv, NEW w \in Workers
    PROVE  job[w] \notin Occupants(free) /\ held[w] \notin Occupants(free)
BY DEF SlotInv, SlotOwnedOnce, Threads

-----------------------------------------------------------------------------
(***************************************************************************)
(* The snapshot of a paused task.                                          *)
(***************************************************************************)
\* A resume that is about to delete a snapshot has taken its task off the list
\* of those that are waiting to be resumed, and nobody has put it back.
DeleteOK ==
    \A w \in Workers : pc[w] = "delete" => task[job[w]].pack.arg \notin parked

\* Save adds snapshots; only a delete takes one away.
LEMMA KeptStep ==
    ASSUME OneWorker, SlotInv, PausedTaskKept, DeleteOK, PoolAssumption,
           [Next]_vars
    PROVE  PausedTaskKept' /\ DeleteOK'
<1> USE DEF SlotInv
<1>1. CASE SubmitBusy \/ SubmitAcquire \/ Shutdown \/ MainStep
  <2>1. MainLeft
    BY <1>1, MainLeaves
  <2>2. \A w \in Workers : job[w] # NoSlot => task'[job[w]] = task[job[w]]
    BY <2>1, HandsNotFree DEF MainLeft, DataOK, ControlOK
  <2>3. \A w \in Workers : pc[w] = "delete" => job[w] # NoSlot
    BY WorkerAt DEF Executing, WorkerPCs
  <2> QED
    BY <2>1, <2>2, <2>3 DEF MainLeft, PausedTaskKept, DeleteOK
<1>2. ASSUME NEW w \in Workers, SaveIfPaused(w)
      PROVE  PausedTaskKept' /\ DeleteOK'
  <2>1. pc'[w] = "push"
    BY <1>2 DEF SaveIfPaused, Goto, ControlOK, Threads
  <2>2. DeleteOK'
    BY <2>1 DEF OneWorker, DeleteOK
  <2>3. CASE UNCHANGED <<store, parked>>
    BY <2>2, <2>3 DEF PausedTaskKept
  <2>4. CASE /\ store' = {x \in store : x.id # task[job[w]].id}
                             \cup {ExportRecord(task[job[w]])}
             /\ parked' = parked \cup {task[job[w]].id}
    BY <2>2, <2>4 DEF PausedTaskKept, ExportRecord
  <2> QED
    BY <1>2, <2>3, <2>4 DEF SaveIfPaused, Save, ExportRecord
<1>3. ASSUME NEW w \in Workers, ResumeEnqueue(w)
      PROVE  PausedTaskKept' /\ DeleteOK'
  <2>1. /\ store' = store /\ task' = task /\ job' = job
        /\ parked' = parked \ {task[job[w]].pack.arg}
    BY <1>3 DEF ResumeEnqueue
  <2> QED
    BY <2>1 DEF OneWorker, PausedTaskKept, DeleteOK
<1>4. ASSUME NEW w \in Workers, ResumeDelete(w)
      PROVE  PausedTaskKept' /\ DeleteOK'
  <2>1. /\ parked' = parked
        /\ store' = {x \in store : x.id # task[job[w]].pack.arg}
        /\ task[job[w]].pack.arg \notin parked
    BY <1>4 DEF ResumeDelete, Delete, DeleteOK
  <2>2. pc'[w] = "advance"
    BY <1>4 DEF ResumeDelete, Goto, ControlOK, Threads
  <2> QED
    BY <2>1, <2>2 DEF OneWorker, PausedTaskKept, DeleteOK
<1>5. ASSUME NEW w \in Workers, Worker(w),
             ~SaveIfPaused(w), ~ResumeEnqueue(w), ~ResumeDelete(w)
      PROVE  PausedTaskKept' /\ DeleteOK'
  <2> USE <1>5 DEF Worker, TakeJob, Leave, StepTask, PauseCommand, ResumeCommand,
         FinishJob, LoadState, StartTask, CheckShards, EmitMissing, EmitWork,
         Advance, FinishTask, PauseFind, PauseCheck, PauseStore, ResumeLoad,
         ResumeBusy, ResumeAcquire, ResumeRestore, ResumeUnpause,
         MemFind, MemCheck, MemResume, PushResult, ResetTask, FreeSlot
  <2>1. UNCHANGED <<store, parked>>
    BY DEF resultVars
  <2>2. \E l \in WorkerPCs \ {"delete"} : Goto(w, l)
    BY DEF WorkerPCs
  <2>3. pc'[w] # "delete"
    BY <2>2 DEF Goto, ControlOK, Threads
  <2> QED
    BY <2>1, <2>3 DEF OneWorker, PausedTaskKept, DeleteOK
<1>6. CASE Finished \/ UNCHANGED vars
  BY <1>6 DEF Finished, vars, PausedTaskKept, DeleteOK
<1> QED
  BY <1>1, <1>2, <1>3, <1>4, <1>5, <1>6 DEF Next

\* With one worker a paused task can be resumed: from the Save of its snapshot
\* until a resume has queued it again, the store has a snapshot of it
\* (SubmitTask's job and TaskManagerModule's resume).
THEOREM PausedIsKept == OneWorker => (Spec => []PausedTaskKept)
<1> SUFFICES ASSUME OneWorker PROVE Spec => []PausedTaskKept
  OBVIOUS
<1>1. Init => PausedTaskKept /\ DeleteOK
  BY DEF Init, PausedTaskKept, DeleteOK, Threads
<1>2. SlotInv /\ PausedTaskKept /\ DeleteOK /\ [Next]_vars
        => PausedTaskKept' /\ DeleteOK'
  BY KeptStep, PoolAssumption
<1> QED
  BY <1>1, <1>2, Invariance, PTL DEF Spec

-----------------------------------------------------------------------------
(***************************************************************************)
(* A pause that arrives while a shard runs, for every number of workers.   *)
(* The state_ of a task whose shard runs is written by its own worker, by  *)
(* pause and by a resume in memory, and by nobody else: every other step   *)
(* writes the Task of a slot it owns itself (OneOwnerPerSlot) or that is   *)
(* free.                                                                   *)
(***************************************************************************)
\* What PauseInShardHolds says of one worker's shard.
ShardHolds(w) ==
    pc[w] \in InShard /\ task[job[w]].state = "PAUSED" =>
        \/ pc'[w] \in InShard /\ task'[job[w]].state = "PAUSED"
        \/ /\ pc'[w] = "push"
           /\ hasStore => ExportRecord(task[job[w]]) \in store'
        \/ EmitMissing(w)
        \/ \E v \in Workers : MemResume(v)

\* A worker in a shard stands at one of these labels and has a slot.
LEMMA ShardLabels ==
    ASSUME SlotInv, NEW w \in Workers, pc[w] \in InShard
    PROVE  /\ pc[w] \in {"emit", "advance", "exit", "pauseCheck", "pauseStore",
                         "acquire", "restore", "unpause", "handover",
                         "delete", "memCheck", "memResume"}
           /\ job[w] \in Slots
           /\ w \in Threads
           /\ pc \in [Threads -> MainPCs \cup WorkerPCs]
           /\ task \in [Slots -> Tasks]
<1>1. pc[w] \in Executing
  BY DEF InShard
<1> QED
  BY <1>1, WorkerAt DEF SlotInv, ControlOK, DataOK, Threads, InShard, Executing,
     WorkerPCs

\* A step of another worker writes PAUSED, or is a resume in memory, or leaves
\* the Task alone.
LEMMA OthersLeaveShard ==
    ASSUME SlotInv, NEW w \in Workers, NEW v \in Workers, v # w,
           job[w] \in Slots, Worker(v)
    PROVE  /\ pc'[w] = pc[w]
           /\ \/ task'[job[w]] = task[job[w]]
              \/ task'[job[w]].state = "PAUSED"
              \/ MemResume(v)
<1> USE DEF SlotInv
<1>1. /\ task \in [Slots -> Tasks]
      /\ pc \in [Threads -> MainPCs \cup WorkerPCs]
      /\ v \in Threads /\ w \in Threads
      /\ ptr[v] \in Slots \cup {NoSlot}
  BY DEF DataOK, ControlOK, Threads
<1>2. job[v] # job[w] /\ held[v] # job[w] /\ job[w] \notin Occupants(free)
  BY <1>1, HandsNotFree DEF SlotOwnedOnce, NoSlot, Slots
<1>3. \E l \in WorkerPCs : Goto(v, l)
  BY DEF Worker, TakeJob, Leave, StepTask, LoadState, StartTask, CheckShards,
     EmitMissing, EmitWork, Advance, FinishTask, PauseCommand, PauseFind,
     PauseCheck, PauseStore, ResumeCommand, ResumeLoad, ResumeBusy,
     ResumeAcquire, ResumeRestore, ResumeUnpause, ResumeEnqueue, ResumeDelete,
     MemFind, MemCheck, MemResume, FinishJob, SaveIfPaused, PushResult,
     ResetTask, FreeSlot, WorkerPCs
<1>4. pc'[w] = pc[w]
  BY <1>1, <1>3 DEF Goto
<1>5. CASE TakeJob(v) \/ Leave(v)
  BY <1>4, <1>5 DEF TakeJob, Leave
<1>6. CASE StepTask(v)
  <2>1. \A s \in Slots : s # job[v] => task'[s] = task[s]
    BY <1>1, <1>6 DEF StepTask, LoadState, StartTask, CheckShards,
       EmitMissing, EmitWork, Advance, FinishTask, SetState
  <2> QED
    BY <1>2, <1>4, <2>1
<1>7. CASE PauseCommand(v)
  <2>1. CASE PauseStore(v)
    BY <1>1, <1>4, <2>1 DEF PauseStore, SetState, Tasks
  <2>2. CASE PauseFind(v) \/ PauseCheck(v)
    BY <1>4, <2>2 DEF PauseFind, PauseCheck
  <2> QED
    BY <1>7, <2>1, <2>2 DEF PauseCommand
<1>8. CASE ResumeCommand(v)
  <2>1. CASE ResumeAcquire(v)
    <3>1. Head(free) \in Occupants(free)
      BY <2>1, TailOccupants DEF ResumeAcquire, Acquire, QueuesOK, SlotOwnedOnce
    <3> QED
      BY <1>1, <1>2, <1>4, <2>1, <3>1 DEF ResumeAcquire, Acquire
  <2>2. CASE ResumeRestore(v)
    BY <1>1, <1>2, <1>4, <2>2 DEF ResumeRestore
  <2>3. CASE ResumeUnpause(v)
    BY <1>1, <1>2, <1>4, <2>3 DEF ResumeUnpause, Resumed, SetState
  <2>4. CASE MemResume(v)
    BY <1>4, <2>4
  <2>5. CASE ResumeLoad(v) \/ ResumeBusy(v) \/ ResumeEnqueue(v)
               \/ ResumeDelete(v) \/ MemFind(v) \/ MemCheck(v)
    BY <1>4, <2>5 DEF ResumeLoad, ResumeBusy, ResumeEnqueue, ResumeDelete,
       MemFind, MemCheck
  <2> QED
    BY <1>8, <2>1, <2>2, <2>3, <2>4, <2>5 DEF ResumeCommand
<1>9. CASE FinishJob(v)
  <2>1. \A s \in Slots : s # job[v] => task'[s] = task[s]
    BY <1>1, <1>9 DEF FinishJob, SaveIfPaused, PushResult, ResetTask, FreeSlot
  <2> QED
    BY <1>2, <1>4, <2>1
<1> QED
  BY <1>5, <1>6, <1>7, <1>8, <1>9 DEF Worker

\* The worker's own steps: Step tests PAUSED before it tests the size, and the
\* job saves what Step left PAUSED.
LEMMA OwnShard ==
    ASSUME SlotInv, NEW w \in Workers, Worker(w)
    PROVE  ShardHolds(w)
<1> SUFFICES ASSUME pc[w] \in InShard, task[job[w]].state = "PAUSED"
             PROVE  \/ pc'[w] \in InShard /\ task'[job[w]].state = "PAUSED"
                    \/ /\ pc'[w] = "push"
                       /\ hasStore => ExportRecord(task[job[w]]) \in store'
                    \/ EmitMissing(w)
                    \/ MemResume(w)
  BY DEF ShardHolds
<1>1. /\ pc[w] \in {"emit", "advance", "exit", "pauseCheck", "pauseStore",
                    "acquire", "restore", "unpause", "handover",
                    "delete", "memCheck", "memResume"}
      /\ job[w] \in Slots /\ w \in Threads
      /\ pc \in [Threads -> MainPCs \cup WorkerPCs]
      /\ task \in [Slots -> Tasks]
  BY ShardLabels
<1>2. held[w] # job[w] /\ job[w] \notin Occupants(free)
  BY <1>1, HandsNotFree DEF SlotInv, SlotOwnedOnce, NoSlot, Slots
<1>3. \A l \in InShard : Goto(w, l) => pc'[w] \in InShard
  BY <1>1 DEF Goto
<1>4. {"advance", "exit", "pauseCheck", "pauseStore", "acquire", "restore",
       "unpause", "handover", "delete", "memCheck", "memResume"}
        \subseteq InShard
  BY DEF InShard, Executing, WorkerPCs
<1>5. CASE StepTask(w)
  <2>1. CASE EmitMissing(w)
    BY <2>1
  <2>2. CASE EmitWork(w)
    BY <1>1, <1>3, <1>4, <2>2 DEF EmitWork, Emitting, Tasks
  <2>3. CASE Advance(w)
    BY <1>1, <1>3, <1>4, <2>3 DEF Advance, Tasks
  <2>4. pc[w] \notin {"load", "start", "check", "finish"}
    BY <1>1
  <2> QED
    BY <1>5, <2>1, <2>2, <2>3, <2>4 DEF StepTask, LoadState, StartTask,
       CheckShards, FinishTask
<1>6. CASE PauseCommand(w)
  <2>1. CASE PauseStore(w)
    BY <1>1, <1>3, <1>4, <2>1 DEF PauseStore, SetState, Tasks
  <2>2. CASE PauseFind(w) \/ PauseCheck(w)
    BY <1>3, <1>4, <2>2 DEF PauseFind, PauseCheck
  <2> QED
    BY <1>6, <2>1, <2>2 DEF PauseCommand
<1>7. CASE ResumeCommand(w)
  <2>1. CASE ResumeAcquire(w)
    <3>1. Head(free) \in Occupants(free)
      BY <2>1, TailOccupants DEF ResumeAcquire, Acquire, SlotInv, QueuesOK,
         SlotOwnedOnce
    <3> QED
      BY <1>1, <1>2, <1>3, <1>4, <2>1, <3>1 DEF ResumeAcquire, Acquire
  <2>2. CASE ResumeRestore(w)
    BY <1>1, <1>2, <1>3, <1>4, <2>2 DEF ResumeRestore
  <2>3. CASE ResumeUnpause(w)
    BY <1>1, <1>2, <1>3, <1>4, <2>3 DEF ResumeUnpause, Resumed, SetState
  <2>4. CASE MemResume(w)
    BY <2>4
  <2>5. CASE ResumeLoad(w) \/ ResumeBusy(w) \/ ResumeEnqueue(w)
               \/ ResumeDelete(w) \/ MemFind(w) \/ MemCheck(w)
    BY <1>3, <1>4, <2>5 DEF ResumeLoad, ResumeBusy, ResumeEnqueue,
       ResumeDelete, MemFind, MemCheck
  <2> QED
    BY <1>7, <2>1, <2>2, <2>3, <2>4, <2>5 DEF ResumeCommand
<1>8. CASE FinishJob(w)
  <2>1. pc[w] \notin {"push", "reset", "free"}
    BY <1>1
  <2>2. SaveIfPaused(w)
    BY <1>8, <2>1 DEF FinishJob, PushResult, ResetTask, FreeSlot
  <2> QED
    BY <1>1, <2>2 DEF SaveIfPaused, Save, Goto
<1>9. ~TakeJob(w) /\ ~Leave(w)
  BY <1>1 DEF TakeJob, Leave
<1> QED
  BY <1>5, <1>6, <1>7, <1>8, <1>9 DEF Worker

\* Every step of the engine.
LEMMA ShardStep ==
    ASSUME SlotInv, PoolAssumption, [Next]_vars, NEW w \in Workers
    PROVE  ShardHolds(w)
<1>1. CASE SubmitBusy \/ SubmitAcquire \/ Shutdown \/ MainStep
  <2>1. pc'[w] = pc[w] /\ MainLeft
    BY <1>1, MainLeaves DEF MainLeft
  <2>2. ASSUME pc[w] \in InShard PROVE task'[job[w]] = task[job[w]]
    BY <2>1, <2>2, ShardLabels, HandsNotFree DEF MainLeft
  <2> QED
    BY <2>1, <2>2 DEF ShardHolds
<1>2. ASSUME NEW v \in Workers, Worker(v)
      PROVE  ShardHolds(w)
  <2>1. CASE v = w
    BY <1>2, <2>1, OwnShard
  <2>3. CASE v # w
    BY <1>2, <2>3, ShardLabels, OthersLeaveShard DEF ShardHolds
  <2> QED
    BY <2>1, <2>3
<1>3. CASE Finished \/ UNCHANGED vars
  BY <1>3 DEF Finished, vars, ShardHolds
<1> QED
  BY <1>1, <1>2, <1>3 DEF Next

\* A pause that arrives while a shard of the task runs takes effect behind that
\* shard, for any number of workers: nobody overwrites it before the snapshot
\* is saved, but a shard that fails or a resume (Task::Step and the job's tail).
THEOREM PauseInShardStays == Spec => PauseInShardHolds
<1>1. SlotInv /\ [Next]_vars => [\A w \in Workers : ShardHolds(w)]_vars
  BY ShardStep, PoolAssumption
<1> QED
  BY <1>1, Invariance, PTL DEF Spec, PauseInShardHolds, ShardHolds
=============================================================================
