------------------------------- MODULE FileLog -------------------------------
(***************************************************************************)
(* The log (modules/logging/LogModule.h): threads that log through the     *)
(* macros or the commands of LogModule, the level filter, the three kinds  *)
(* of output, and the thread that writes the file of a ThreadFileOutput.   *)
(*                                                                         *)
(* LogFac reads log.conf once, when the first line is logged; the kind of  *)
(* output and whether its file could be opened stay fixed from then on.    *)
(* LogFac is a static object, destroyed by the main thread after every     *)
(* thread that logs has been joined.                                       *)
(***************************************************************************)
EXTENDS Naturals, Sequences, FiniteSets, SequencesExt

CONSTANTS
    Threads,      \* the threads that log
    LineLevels,   \* the levels of the lines they log
    LevelNames,   \* what setlevel is given
    Configs,      \* the files log.conf may be: sequences of <<key, value>>
    MaxLines      \* bound: lines a thread logs

ASSUME LogAssumption == MaxLines \in Nat

-----------------------------------------------------------------------------
(* Levels and configuration.                                               *)

Levels == 0..3                     \* DEBUG < INFO < ERROR < FATAL

\* An unknown name, a misspelt or mis-trimmed one too, is DEBUG.
StringToLogLevel(name) ==
  CASE name = "info" -> 1 [] name = "error" -> 2 [] name = "fatal" -> 3 [] OTHER -> 0

\* The last line with the key counts.
Setting(conf, key, default) ==
  LET at == SelectLastInSeq(conf, LAMBDA line : line[1] = key)
  IN  IF at = 0 THEN default ELSE conf[at][2]

\* A log_type that is neither kind of file is the console.
OutputOf(conf) ==
  LET type == Setting(conf, "log_type", "console")
  IN  IF type \in {"file", "thread_file"} THEN type ELSE "console"

-----------------------------------------------------------------------------
VARIABLES
    output,   \* the kind of Logger::output_
    opened,   \* whether ofs_ could be opened
    level,    \* Logger::level_
    pc,       \* where each thread stands in Logger::Write
    line,     \* the line it writes
    count,    \* bound counter: lines it has logged
    heard,    \* the lines log.written was emitted for
    file,     \* the lines given to ofs_ (flushed or not), or to the console
    overlap,  \* threads whose unsynchronised write met another
    queue,    \* ThreadFileOutput::queue_
    held,     \* whether the log thread holds mutex_ over several steps
    log,      \* where the log thread stands
    running,  \* ThreadFileOutput::running_
    owner     \* the main thread and the destructor it runs at exit

writing == <<level, pc, line, count, heard, overlap>>
fixed == <<output, opened>>
vars == <<fixed, writing, file, queue, held, log, running, owner>>

Lines == [by : Threads, n : 1..MaxLines, level : LineLevels]
NoLine == [by |-> CHOOSE t \in Threads : TRUE, n |-> 0, level |-> 0]
Torn == [by |-> CHOOSE t \in Threads : TRUE, n |-> 0, level |-> 3]

TypeOK ==
  /\ output \in {"console", "file", "thread_file"}
  /\ opened \in BOOLEAN
  /\ level \in Levels
  /\ pc \in [Threads -> {"idle", "write", "writing", "emit"}]
  /\ line \in [Threads -> Lines \cup {NoLine}]
  /\ count \in [Threads -> 0..MaxLines]
  /\ heard \in Seq(Lines) /\ queue \in Seq(Lines) /\ file \in Seq(Lines \cup {Torn})
  /\ overlap \subseteq Threads
  /\ held = (log \in {"doze", "drain"})
  /\ log \in {"none", "top", "lock", "doze", "asleep", "drain", "exit"}
  /\ running = (owner = "up" /\ output = "thread_file")
  /\ owner \in {"up", "notify", "join", "gone"}

Init ==
  /\ \E conf \in Configs :
       /\ output = OutputOf(conf)
       /\ level = StringToLogLevel(Setting(conf, "log_level", "debug"))
  /\ opened \in (IF output = "console" THEN {TRUE} ELSE BOOLEAN)
  /\ pc = [t \in Threads |-> "idle"]
  /\ line = [t \in Threads |-> NoLine]
  /\ count = [t \in Threads |-> 0]
  /\ heard = <<>> /\ file = <<>> /\ queue = <<>>
  /\ overlap = {}
  /\ held = FALSE
  /\ running = (output = "thread_file")
  /\ log = IF output = "thread_file" THEN "top" ELSE "none"
  /\ owner = "up"

-----------------------------------------------------------------------------
(* A thread that logs.                                                     *)

\* Logger::Write, from a macro or from a command info, error, debug or fatal.
\* A command without its msg is answered 400 and does nothing else; one whose
\* line the filter drops is answered "logged" like any other.
Log(t, lv) ==
  /\ owner = "up" /\ pc[t] = "idle" /\ count[t] < MaxLines
  /\ count' = [count EXCEPT ![t] = @ + 1]
  /\ IF lv < level
     THEN UNCHANGED <<pc, line>>
     ELSE /\ pc' = [pc EXCEPT ![t] = "write"]
          /\ line' = [line EXCEPT ![t] = [by |-> t, n |-> count'[t], level |-> lv]]
  /\ UNCHANGED <<fixed, level, heard, overlap, file, queue, held, log, running, owner>>

\* The command setlevel.
SetLevel(t, name) ==
  /\ owner = "up" /\ pc[t] = "idle"
  /\ level' = StringToLogLevel(name)
  /\ UNCHANGED <<fixed, pc, line, count, heard, overlap, file, queue, held, log, running, owner>>

\* ConsoleOutput::Write, under the mutex all output to the console takes.
WriteConsole(t) ==
  /\ output = "console" /\ pc[t] = "write"
  /\ file' = Append(file, line[t])
  /\ pc' = [pc EXCEPT ![t] = "emit"]
  /\ UNCHANGED <<fixed, level, line, count, heard, overlap, queue, held, log, running, owner>>

\* FileOutput::Write takes no lock: two threads may be inside ofs_ at once.
StartWrite(t) ==
  LET inside == {u \in Threads : pc[u] = "writing"}
  IN  /\ output = "file" /\ pc[t] = "write"
      /\ pc' = [pc EXCEPT ![t] = "writing"]
      /\ overlap' = IF inside = {} THEN overlap ELSE overlap \cup inside \cup {t}
      /\ UNCHANGED <<fixed, level, line, count, heard, file, queue, held, log, running, owner>>

\* What two such writes leave in the file is undefined: the line, a torn one
\* or nothing.
EndWrite(t) ==
  /\ pc[t] = "writing"
  /\ file' \in IF ~opened THEN {file}
               ELSE IF t \in overlap
               THEN {file, Append(file, line[t]), Append(file, Torn)}
               ELSE {Append(file, line[t])}
  /\ overlap' = overlap \ {t}
  /\ pc' = [pc EXCEPT ![t] = "emit"]
  /\ UNCHANGED <<fixed, level, line, count, heard, queue, held, log, running, owner>>

\* cv_.notify_one: the log thread, if it is blocked, goes for the mutex.
Notify == log' = IF log = "asleep" THEN "lock" ELSE log

\* Mutant of PushLine: without the mutex.
PushLineUnlocked(t) ==
  /\ output = "thread_file" /\ pc[t] = "write"
  /\ queue' = Append(queue, line[t])
  /\ Notify
  /\ pc' = [pc EXCEPT ![t] = "emit"]
  /\ UNCHANGED <<fixed, level, line, count, heard, overlap, file, held, running, owner>>

\* ThreadFileOutput::Write, one critical section.
PushLine(t) ==
  /\ output = "thread_file" /\ pc[t] = "write" /\ ~held
  /\ queue' = Append(queue, line[t])
  /\ Notify
  /\ pc' = [pc EXCEPT ![t] = "emit"]
  /\ UNCHANGED <<fixed, level, line, count, heard, overlap, file, held, running, owner>>

\* The user interface hears of the line after it has been written.
EmitWritten(t) ==
  /\ pc[t] = "emit"
  /\ heard' = Append(heard, line[t])
  /\ pc' = [pc EXCEPT ![t] = "idle"]
  /\ UNCHANGED <<fixed, level, line, count, overlap, file, queue, held, log, running, owner>>

-----------------------------------------------------------------------------
(* ThreadFileOutput::WorkerLoop.                                           *)

\* while (running_), read outside the mutex.
TestRunning ==
  /\ log = "top"
  /\ log' = IF running THEN "lock" ELSE "exit"
  /\ UNCHANGED <<fixed, writing, file, queue, held, running, owner>>

\* The mutex is taken, at the loop's head or on the way out of the wait, and the
\* predicate evaluated.  A thread about to block still holds the mutex.
TestPredicate ==
  /\ log = "lock" /\ ~held
  /\ log' = IF queue # <<>> \/ ~running THEN "drain" ELSE "doze"
  /\ held' = TRUE
  /\ UNCHANGED <<fixed, writing, file, queue, running, owner>>

\* Mutant of Block: the thread sleeps with the mutex.
BlockHolding ==
  /\ log = "doze"
  /\ log' = "asleep"
  /\ UNCHANGED <<fixed, writing, file, queue, held, running, owner>>

Block ==
  /\ log = "doze"
  /\ log' = "asleep"
  /\ held' = FALSE
  /\ UNCHANGED <<fixed, writing, file, queue, running, owner>>

SpuriousWakeup ==
  /\ log = "asleep"
  /\ log' = "lock"
  /\ UNCHANGED <<fixed, writing, file, queue, held, running, owner>>

\* Mutant of DrainLine: the newest line first.
DrainNewest ==
  /\ log = "drain" /\ queue # <<>>
  /\ file' = IF opened THEN Append(file, Last(queue)) ELSE file
  /\ queue' = Front(queue)
  /\ UNCHANGED <<fixed, writing, held, log, running, owner>>

\* One line after the other, under the mutex.  Without a file they are dropped.
DrainLine ==
  /\ log = "drain" /\ queue # <<>>
  /\ file' = IF opened THEN Append(file, Head(queue)) ELSE file
  /\ queue' = Tail(queue)
  /\ UNCHANGED <<fixed, writing, held, log, running, owner>>

DrainEnd ==
  /\ log = "drain" /\ queue = <<>>
  /\ log' = "top"
  /\ held' = FALSE
  /\ UNCHANGED <<fixed, writing, file, queue, running, owner>>

-----------------------------------------------------------------------------
(* ~ThreadFileOutput.  The other outputs have nothing to wait for.         *)

\* running_ is cleared without the mutex.
Close ==
  /\ owner = "up" /\ \A t \in Threads : pc[t] = "idle"
  /\ running' = FALSE
  /\ owner' = IF output = "thread_file" THEN "notify" ELSE "gone"
  /\ UNCHANGED <<fixed, writing, file, queue, held, log>>

CloseNotify ==
  /\ owner = "notify"
  /\ Notify
  /\ owner' = "join"
  /\ UNCHANGED <<fixed, writing, file, queue, held, running>>

Join ==
  /\ owner = "join" /\ log = "exit"
  /\ owner' = "gone"
  /\ UNCHANGED <<fixed, writing, file, queue, held, log, running>>

-----------------------------------------------------------------------------
Write(t) == WriteConsole(t) \/ StartWrite(t) \/ EndWrite(t) \/ PushLine(t) \/ EmitWritten(t)
WorkerLoop == TestRunning \/ TestPredicate \/ Block \/ DrainLine \/ DrainEnd

\* The process is over.
Ended == owner = "gone" /\ UNCHANGED vars

Next ==
  \/ \E t \in Threads : \/ \E lv \in LineLevels : Log(t, lv)
                        \/ \E name \in LevelNames : SetLevel(t, name)
                        \/ Write(t)
  \/ WorkerLoop
  \/ SpuriousWakeup
  \/ Close \/ CloseNotify \/ Join
  \/ Ended

Spec == Init /\ [][Next]_vars

\* A thread in the middle of a write and the log thread are scheduled again and
\* again; so is a destructor once begun.  Nobody has to log, and no wait has to
\* wake up by itself.
FairSpec ==
  /\ Spec
  /\ \A t \in Threads : WF_vars(Write(t))
  /\ WF_vars(WorkerLoop)
  /\ WF_vars(CloseNotify \/ Join)

-----------------------------------------------------------------------------
(* Properties.                                                             *)

Written == file \o queue

\* What the user interface has heard, or is about to hear from t.
Told(t) == IF pc[t] = "emit" THEN Append(heard, line[t]) ELSE heard

\* The lines of one thread, as often as they occur, in the order of logging.
InOrder(lines) ==
  \A i, j \in DOMAIN lines :
    i < j /\ lines[i].by = lines[j].by => lines[i].n < lines[j].n

By(t, lines) == {l \in Range(lines) : l.by = t}

(* The lines of a thread are written to ofs_, or still in the queue,       *)
(* exactly once and in the order in which the thread logged them, and they *)
(* are the lines log.written told the user interface of (Logger::Write and *)
(* WorkerLoop).  What a process that ends leaves in the queue counts as    *)
(* queued here: see DestructorCompletesFile.  A FileOutput shared by       *)
(* threads promises nothing of the kind, and a file that could not be      *)
(* opened swallows everything.                                             *)
LinesInOrder ==
  output # "file" /\ opened =>
    /\ InOrder(Written)
    /\ \A t \in Threads : InOrder(Told(t)) /\ By(t, Written) = By(t, Told(t))

(* As long as the process runs, a line handed to the log thread leaves the *)
(* queue for ofs_ (whose buffer may still keep it from the disk): no       *)
(* notification is lost while the thread is between testing the predicate  *)
(* and blocking, and it never waits with a line in the queue               *)
(* (ThreadFileOutput::Write and WorkerLoop).                               *)
Waiting(t, n) == \E i \in DOMAIN queue : queue[i].by = t /\ queue[i].n = n
LineReachesFile ==
  \A t \in Threads, n \in 1..MaxLines : Waiting(t, n) ~> (~Waiting(t, n) \/ owner # "up")

(* log_module_test.cpp:118 says of the destructor that it waits for the    *)
(* log thread and that the file is then complete.                          *)
DestructorCompletesFile == owner = "notify" ~> (owner = "gone" /\ queue = <<>>)
=============================================================================
