----------------------------- MODULE ShellLoop -----------------------------
(***************************************************************************)
(* The threads around ShellEngine::MainLoop: the input thread that reads   *)
(* stdin, the main thread that drains results and executes lines, a UI     *)
(* thread that calls InjectCommand and RequestStop, and the workers, which *)
(* appear only as what they do to the main thread: a result and a notify.  *)
(* The queue of CommandParser lies between a line and its task: a line is  *)
(* parsed into it and ProcessInput takes the oldest pack out; SendPack     *)
(* puts packs in from outside.                                             *)
(*                                                                         *)
(* Nobody holds cv_mutex while changing what WaitForWork's predicate reads *)
(* and notifying, so a notification can fall between the predicate and the *)
(* sleep ("doze") and be lost; the 100 ms of wait_for are what saves it.   *)
(***************************************************************************)
EXTENDS Naturals, Sequences, FiniteSets

CONSTANTS
    PoolSize,     \* slots of TasksPool
    WorkerCount,  \* threads of ThreadPool
    MaxTyped,     \* bound: lines typed on stdin
    MaxInjected,  \* bound: lines injected by the UI
    MaxSent       \* bound: packs given to SendPack

ASSUME ShellAssumption ==
    /\ PoolSize \in Nat \ {0}
    /\ WorkerCount \in Nat \ {0}
    /\ MaxTyped \in Nat
    /\ MaxInjected \in Nat
    /\ MaxSent \in Nat

\* A line is where it comes from.  What it says is first looked at by
\* ProcessInput, so that is where its kind is chosen: "/exit", a line that
\* starts no task (empty, or rejected by the parser) or a command.
Lines  == {"stdin", "ui"}
NoLine == "none"

\* A pack is the line it was parsed from, or one that was sent.
Packs == Lines \cup {"sent"}

VARIABLES
    running,      \* ShellSharedState::running
    promptReady,  \* ShellSharedState::prompt_ready
    inputQueue,   \* ShellSharedState::input_queue
    input,        \* where the input thread stands
    line,         \* the line it has read and not pushed
    main,         \* where the main thread stands
    text,         \* the line ProcessInput works on
    packs,        \* CommandParser::queue_
    ui,           \* where the UI thread stands
    jobs,         \* commands given to the workers whose result is not pushed
    results,      \* ResultStore::HasResults()
    bells,        \* workers between PushResult and cv.notify_one
    typed,        \* bound counter: lines read from stdin
    injected,     \* bound counter: lines injected
    sent          \* bound counter: packs sent

vars == <<running, promptReady, inputQueue, input, line, main, text, ui, jobs,
          results, bells, typed, injected, packs, sent>>

inputVars  == <<input, line, typed>>
workerVars == <<jobs, results, bells>>
uiVars     == <<ui, injected>>
packVars   == <<packs, sent>>

InputPCs == {"loop", "gate", "prompt", "read", "check", "close", "push",
             "notify", "eof", "eofNotify", "done"}
MainPCs  == {"loop", "drain", "wait", "doze", "asleep", "process", "execute",
             "pop", "open", "down"}

TypeOK ==
    /\ running \in BOOLEAN
    /\ promptReady \in BOOLEAN
    /\ inputQueue \in Seq(Lines)
    /\ input \in InputPCs
    /\ line \in Lines \cup {NoLine}
    /\ main \in MainPCs
    /\ text \in Lines \cup {NoLine}
    /\ ui \in {"idle", "notify"}
    /\ jobs \in Nat
    /\ results \in BOOLEAN
    /\ bells \in Nat
    /\ typed \in 0 .. MaxTyped
    /\ injected \in 0 .. MaxInjected
    /\ packs \in Seq(Packs)
    /\ sent \in 0 .. MaxSent

Init ==
    /\ running = TRUE
    /\ promptReady = TRUE
    /\ inputQueue = <<>>
    /\ input = "loop"
    /\ line = NoLine
    /\ main = "loop"
    /\ text = NoLine
    /\ ui = "idle"
    /\ jobs = 0
    /\ results = FALSE
    /\ bells = 0
    /\ typed = 0
    /\ injected = 0
    /\ packs = <<>>
    /\ sent = 0

\* cv.notify_one and notify_all: the main thread is the only one that waits.
\* Woken, it tests the predicate again.
Notify == main' = IF main = "asleep" THEN "wait" ELSE main

-----------------------------------------------------------------------------
(***************************************************************************)
(* StartInputThread.                                                       *)
(***************************************************************************)
\* while (running), around the whole body.
InputLoop ==
    /\ input = "loop"
    /\ input' = IF running THEN "gate" ELSE "done"
    /\ UNCHANGED <<packVars, running, promptReady, inputQueue, line, main, text, ui,
                   workerVars, typed, injected>>

\* Mutant of InputGate: the gate ignores running.
InputGateForEver ==
    /\ input = "gate"
    /\ promptReady
    /\ input' = IF running THEN "prompt" ELSE "done"
    /\ UNCHANGED <<packVars, running, promptReady, inputQueue, line, main, text, ui,
                   workerVars, typed, injected>>

\* The gate: polled every 5 ms until the prompt may be printed or running
\* is false.
InputGate ==
    /\ input = "gate"
    /\ \/ ~running /\ input' = "done"
       \/ running /\ promptReady /\ input' = "prompt"
    /\ UNCHANGED <<packVars, running, promptReady, inputQueue, line, main, text, ui,
                   workerVars, typed, injected>>

\* "> " is printed.
Prompt ==
    /\ input = "prompt"
    /\ input' = "read"
    /\ UNCHANGED <<packVars, running, promptReady, inputQueue, line, main, text, ui,
                   workerVars, typed, injected>>

\* getline returns a line, whenever the user likes.
ReadLine ==
    /\ input = "read"
    /\ typed < MaxTyped
    /\ typed' = typed + 1
    /\ line' = "stdin"
    /\ input' = "check"
    /\ UNCHANGED <<packVars, running, promptReady, inputQueue, main, text, workerVars,
                   uiVars>>

\* getline fails: end of file.
ReadEof ==
    /\ input = "read"
    /\ input' = "eof"
    /\ UNCHANGED <<packVars, running, promptReady, inputQueue, line, main, text,
                   workerVars, uiVars, typed>>

StoreEof ==
    /\ input = "eof"
    /\ running' = FALSE
    /\ input' = "eofNotify"
    /\ UNCHANGED <<packVars, promptReady, inputQueue, line, main, text, workerVars,
                   uiVars, typed>>

NotifyEof ==
    /\ input = "eofNotify"
    /\ Notify
    /\ input' = "done"
    /\ UNCHANGED <<packVars, running, promptReady, inputQueue, line, text, workerVars,
                   uiVars, typed>>

\* Mutant of InputCheck: the line it did not take stays.
InputCheckKeeps ==
    /\ input = "check"
    /\ input' = IF running THEN "close" ELSE "done"
    /\ line' = IF running THEN line ELSE "dropped"
    /\ UNCHANGED <<packVars, running, promptReady, inputQueue, main, text, workerVars,
                   uiVars, typed>>

\* running is tested once more after getline.
InputCheck ==
    /\ input = "check"
    /\ \/ running /\ input' = "close" /\ UNCHANGED line
       \/ ~running /\ input' = "done" /\ line' = NoLine
    /\ UNCHANGED <<packVars, running, promptReady, inputQueue, main, text, workerVars,
                   uiVars, typed>>

\* prompt_ready.store(false).
CloseGate ==
    /\ input = "close"
    /\ promptReady' = FALSE
    /\ input' = "push"
    /\ UNCHANGED <<packVars, running, inputQueue, line, main, text, workerVars, uiVars,
                   typed>>

PushLine ==
    /\ input = "push"
    /\ inputQueue' = Append(inputQueue, line)
    /\ line' = NoLine
    /\ input' = "notify"
    /\ UNCHANGED <<packVars, running, promptReady, main, text, workerVars, uiVars, typed>>

NotifyLine ==
    /\ input = "notify"
    /\ Notify
    /\ input' = "loop"
    /\ UNCHANGED <<packVars, running, promptReady, inputQueue, line, text, workerVars,
                   uiVars, typed>>

-----------------------------------------------------------------------------
(***************************************************************************)
(* MainLoop.                                                               *)
(***************************************************************************)
MainLoop ==
    /\ main = "loop"
    /\ main' = IF running THEN "drain" ELSE "down"
    /\ UNCHANGED <<packVars, running, promptReady, inputQueue, inputVars, text,
                   workerVars, uiVars>>

\* Mutant of DrainResults: it leaves the store as it is.
DrainNothing ==
    /\ main = "drain"
    /\ main' = "wait"
    /\ UNCHANGED <<packVars, running, promptReady, inputQueue, inputVars, text, jobs,
                   results, bells, uiVars>>

DrainResults ==
    /\ main = "drain"
    /\ results' = FALSE
    /\ main' = "wait"
    /\ UNCHANGED <<packVars, running, promptReady, inputQueue, inputVars, text, jobs,
                   bells, uiVars>>

\* The predicate.  Its three reads are three moments, but nobody but the main
\* thread makes it false again, so what comes in between them is what comes
\* while the thread dozes.
HasWork == results \/ inputQueue # <<>> \/ ~running

WaitForWork ==
    /\ main = "wait"
    /\ main' = IF HasWork THEN "process" ELSE "doze"
    /\ UNCHANGED <<packVars, running, promptReady, inputQueue, inputVars, text,
                   workerVars, uiVars>>

\* From the false predicate to the blocked thread.
FallAsleep ==
    /\ main = "doze"
    /\ main' = "asleep"
    /\ UNCHANGED <<packVars, running, promptReady, inputQueue, inputVars, text,
                   workerVars, uiVars>>

\* Mutant of WaitTimeout: wait instead of wait_for.
WaitForNotify ==
    /\ main = "asleep"
    /\ FALSE
    /\ UNCHANGED <<packVars, running, promptReady, inputQueue, inputVars, text, main,
                   workerVars, uiVars>>

\* 100 ms are over, or the operating system wakes the thread for no reason.
WaitTimeout ==
    /\ main = "asleep"
    /\ main' = "process"
    /\ UNCHANGED <<packVars, running, promptReady, inputQueue, inputVars, text,
                   workerVars, uiVars>>

SpuriousWakeup ==
    /\ main = "asleep"
    /\ main' = "wait"
    /\ UNCHANGED <<packVars, running, promptReady, inputQueue, inputVars, text,
                   workerVars, uiVars>>

\* ProcessInput: TryPop.
PopLine ==
    /\ main = "process"
    /\ inputQueue # <<>>
    /\ text' = Head(inputQueue)
    /\ inputQueue' = Tail(inputQueue)
    /\ main' = "execute"
    /\ UNCHANGED <<packVars, running, promptReady, inputVars, workerVars, uiVars>>

PopNothing ==
    /\ main = "process"
    /\ inputQueue = <<>>
    /\ main' = "open"
    /\ UNCHANGED <<packVars, running, promptReady, inputQueue, inputVars, text,
                   workerVars, uiVars>>

\* "/exit" leaves ProcessInput at once, with the gate as it is.
ExecuteExit ==
    /\ main = "execute"
    /\ running' = FALSE
    /\ text' = NoLine
    /\ main' = "loop"
    /\ UNCHANGED <<packVars, promptReady, inputQueue, inputVars, workerVars, uiVars>>

\* The module list, or "Parse failed".
ExecuteNothing ==
    /\ main = "execute"
    /\ text' = NoLine
    /\ main' = "process"
    /\ UNCHANGED <<packVars, running, promptReady, inputQueue, inputVars, workerVars,
                   uiVars>>

\* CommandParser::SendCommand accepts the line and queues its pack.
ParseLine ==
    /\ main = "execute"
    /\ packs' = Append(packs, text)
    /\ main' = "pop"
    /\ UNCHANGED <<sent, running, promptReady, inputQueue, inputVars, text,
                   workerVars, uiVars>>

\* PopPack waits for a pack and takes the oldest, whosoever it is; SubmitTask: a
\* slot is free, or "All tasks busy" is printed.  A worker between PushResult
\* and its notify has released its slot, or has not.
ExecutePack ==
    /\ main = "pop"
    /\ packs # <<>>
    /\ packs' = Tail(packs)
    /\ text' = NoLine
    /\ \/ jobs < PoolSize /\ jobs' = jobs + 1
       \/ jobs + bells >= PoolSize /\ UNCHANGED jobs
    /\ main' = "process"
    /\ UNCHANGED <<sent, running, promptReady, inputQueue, inputVars, results,
                   bells, uiVars>>

\* Mutant of OpenGate: the gate is opened only after a task was started.
OpenGateIfBusy ==
    /\ main = "open"
    /\ promptReady' = (promptReady \/ jobs > 0)
    /\ main' = "loop"
    /\ UNCHANGED <<packVars, running, inputQueue, inputVars, text, workerVars, uiVars>>

\* prompt_ready.store(true).
OpenGate ==
    /\ main = "open"
    /\ promptReady' = TRUE
    /\ main' = "loop"
    /\ UNCHANGED <<packVars, running, inputQueue, inputVars, text, workerVars, uiVars>>

-----------------------------------------------------------------------------
(***************************************************************************)
(* The workers and the UI thread.                                          *)
(***************************************************************************)
PushResult ==
    /\ jobs > 0
    /\ bells < WorkerCount
    /\ jobs' = jobs - 1
    /\ results' = TRUE
    /\ bells' = bells + 1
    /\ UNCHANGED <<packVars, running, promptReady, inputQueue, inputVars, main, text,
                   uiVars>>

NotifyResult ==
    /\ bells > 0
    /\ bells' = bells - 1
    /\ Notify
    /\ UNCHANGED <<packVars, running, promptReady, inputQueue, inputVars, text, jobs,
                   results, uiVars>>

InjectCommand ==
    /\ ui = "idle"
    /\ injected < MaxInjected
    /\ injected' = injected + 1
    /\ inputQueue' = Append(inputQueue, "ui")
    /\ ui' = "notify"
    /\ UNCHANGED <<packVars, running, promptReady, inputVars, main, text, workerVars>>

RequestStop ==
    /\ ui = "idle"
    /\ running' = FALSE
    /\ ui' = "notify"
    /\ UNCHANGED <<packVars, promptReady, inputQueue, inputVars, main, text, workerVars,
                   injected>>

\* CommandParser::SendPack wakes nobody but a PopPack.
SendPack ==
    /\ ui = "idle"
    /\ sent < MaxSent
    /\ sent' = sent + 1
    /\ packs' = Append(packs, "sent")
    /\ UNCHANGED <<running, promptReady, inputQueue, inputVars, main, text,
                   workerVars, uiVars>>

NotifyUI ==
    /\ ui = "notify"
    /\ Notify
    /\ ui' = "idle"
    /\ UNCHANGED <<packVars, running, promptReady, inputQueue, inputVars, text,
                   workerVars, injected>>

-----------------------------------------------------------------------------
\* Everything the input thread does without the user.
InputThread ==
    \/ InputLoop \/ InputGate \/ Prompt \/ InputCheck \/ CloseGate
    \/ PushLine \/ NotifyLine \/ StoreEof \/ NotifyEof

MainThread ==
    \/ MainLoop \/ DrainResults \/ WaitForWork \/ FallAsleep \/ WaitTimeout
    \/ PopLine \/ PopNothing \/ ExecuteExit \/ ExecuteNothing
    \/ ParseLine \/ ExecutePack \/ OpenGate

Ended == main = "down" /\ input = "done" /\ UNCHANGED vars

Next ==
    \/ InputThread \/ ReadLine \/ ReadEof
    \/ MainThread \/ SpuriousWakeup
    \/ PushResult \/ NotifyResult
    \/ InjectCommand \/ SendPack \/ RequestStop \/ NotifyUI
    \/ Ended

(***************************************************************************)
(* Both threads are scheduled, and 100 ms pass: WaitTimeout is part of     *)
(* MainThread.  The user (ReadLine, ReadEof, InjectCommand, SendPack,      *)
(* RequestStop) owes nothing; no notification is relied on, nor is a task  *)
(* that ends.                                                              *)
(***************************************************************************)
Fairness == WF_vars(InputThread) /\ WF_vars(MainThread)

Spec == Init /\ [][Next]_vars
FairSpec == Spec /\ Fairness

-----------------------------------------------------------------------------
(***************************************************************************)
(* Properties.                                                             *)
(***************************************************************************)
\* The typed lines that have been pushed and not executed to the end.
Backlog ==
    Cardinality({i \in DOMAIN inputQueue : inputQueue[i] = "stdin"})
        + (IF text = "stdin" THEN 1 ELSE 0)

\* The prompt does not always come after the lines typed before it, as
\* ShellEngine.h:60 and :244-245 have it.  What is left of that: a store(true)
\* of ProcessInput that is late by one round lets one line pass, one more can
\* pass while ProcessInput goes round between the closing of the gate and the
\* Push, and no further one does (StartInputThread, ProcessInput).
BacklogBounded == Backlog <= 3

\* A pack given to SendPack is taken by the main loop, unless the loop ends: the
\* "direct entry for a UI" of CommandParser.h:26 and :81 (ProcessInput looks
\* at the parser's queue only after a line it has parsed).
SentPackIsTaken ==
    (\E i \in DOMAIN packs : packs[i] = "sent")
        ~> (\A i \in DOMAIN packs : packs[i] # "sent") \/ main = "down"

\* A parsed line takes one pack out of the parser's queue for the one it put
\* in, so the PopPack of the main thread never blocks; but a pack that was sent
\* leaves one behind for good, and each later line runs that many packs late
\* (CommandParser.h:105, ShellEngine.h:336-343).
OnePackPerLine == Len(packs) = sent + (IF main = "pop" THEN 1 ELSE 0)

\* A line in the queue is executed, typed or injected, and a result is emitted,
\* unless the loop ends (then Shutdown drains the results): no lost notification
\* delays either for ever.
NoWorkWaits ==
    /\ inputQueue # <<>> ~> inputQueue = <<>> \/ main = "down"
    /\ results ~> ~results \/ main = "down"

\* After a line the user gets a prompt again, unless the shell stops.
PromptComesBack == input = "push" ~> input = "read" \/ ~running

\* The loop ends after /exit, end of file or RequestStop.
StopIsObeyed == ~running ~> main = "down"

\* The detached input thread is never left polling the gate: after a stop it
\* ends or waits in getline.
InputThreadLeaves == ~running ~> input \in {"done", "read"}
=============================================================================
