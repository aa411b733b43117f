---------------------------- MODULE FileLogProofs ----------------------------
(***************************************************************************)
(* Proofs about FileLog, for any number of threads, lines, levels and      *)
(* configurations: with the console or the log thread, the lines of a      *)
(* thread arrive once, in the order in which it logged them, and they are  *)
(* those the user interface hears of.                                      *)
(*                                                                         *)
(* The argument: a thread numbers its lines and has one of them in hand at *)
(* a time (HandsOK).  What has been written and what waits in the queue    *)
(* are one sequence, Written, to which a line is appended at the end and   *)
(* in which moving a line from the queue to the file changes nothing       *)
(* (OrderOK); the other threads' lines in between do not matter.           *)
(*                                                                         *)
(* Then proofs about ShellConfig: which setting counts, for every file,    *)
(* every command line and every number of settings: the last one on the    *)
(* command line, else the last one in the file, else the default.          *)
(*                                                                         *)
(* The argument: LoadFromFile and ApplyArgs are the same loop over Apply,  *)
(* with the key and the value that a line or an argument gives (LineKey,   *)
(* ArgKey).  After n rounds a field has the value of the last of the first *)
(* n settings of it, or the value it had before the loop (LoopIs), and     *)
(* each style of a setting says what it is meant to (FileSays, ArgSays).   *)
(***************************************************************************)
EXTENDS MCFileLog, LoopLemmas

\* The line in hand, and who is inside an unlocked write.
HandsOK ==
  /\ \A t \in Threads : pc[t] # "idle" =>
       line[t] \in Lines /\ line[t].by = t /\ line[t].n = count[t]
  /\ \A t \in Threads : pc[t] = "writing" => output = "file"
  /\ queue # <<>> => output = "thread_file"

\* The numbers of the lines of t that were written are those up to its count,
\* without the line in hand while that has not been written; the same for what
\* was heard.
NumbersOK ==
  /\ \A l \in Range(Written) :
       /\ l.n <= count[l.by]
       /\ pc[l.by] = "write" => l.n < count[l.by]
  /\ \A l \in Range(heard) :
       /\ l.n <= count[l.by]
       /\ pc[l.by] # "idle" => l.n < count[l.by]

OrderOK ==
  output # "file" /\ opened =>
    /\ NumbersOK
    /\ InOrder(Written) /\ InOrder(heard)
    /\ \A t \in Threads : By(t, Written) = By(t, Told(t))
    /\ file \in Seq(Lines)

LogInv == TypeOK /\ HandsOK /\ OrderOK

-----------------------------------------------------------------------------
(***************************************************************************)
(* Sequences.                                                              *)
(***************************************************************************)
LEMMA RangeAppend ==
  ASSUME NEW S, NEW seq \in Seq(S), NEW x \in S
  PROVE  Range(Append(seq, x)) = Range(seq) \cup {x}
<1>1. /\ DOMAIN seq = 1 .. Len(seq) /\ Len(seq) \in Nat
      /\ DOMAIN Append(seq, x) = 1 .. Len(seq) + 1
      /\ \A i \in 1 .. Len(seq) : Append(seq, x)[i] = seq[i]
      /\ Append(seq, x)[Len(seq) + 1] = x
  OBVIOUS
<1>2. \A y \in Range(seq) : y \in Range(Append(seq, x))
  BY <1>1 DEF Range
<1>3. x \in Range(Append(seq, x))
  BY <1>1 DEF Range
<1>4. \A y \in Range(Append(seq, x)) : y \in Range(seq) \cup {x}
  BY <1>1 DEF Range
<1> QED
  BY <1>2, <1>3, <1>4

\* A line that is appended behind the lines of its thread.
LEMMA AppendInOrder ==
  ASSUME NEW S, NEW seq \in Seq(S), NEW x \in S, InOrder(seq),
         \A l \in Range(seq) : l.by = x.by => l.n < x.n
  PROVE  InOrder(Append(seq, x))
<1>1. /\ DOMAIN seq = 1 .. Len(seq) /\ Len(seq) \in Nat
      /\ DOMAIN Append(seq, x) = 1 .. Len(seq) + 1
      /\ \A i \in 1 .. Len(seq) : Append(seq, x)[i] = seq[i]
      /\ Append(seq, x)[Len(seq) + 1] = x
  OBVIOUS
<1> SUFFICES ASSUME NEW i \in 1 .. Len(seq) + 1, NEW j \in 1 .. Len(seq) + 1,
                    i < j, Append(seq, x)[i].by = Append(seq, x)[j].by
             PROVE  Append(seq, x)[i].n < Append(seq, x)[j].n
  BY <1>1 DEF InOrder
<1>2. i \in 1 .. Len(seq)
  BY <1>1
<1>3. CASE j = Len(seq) + 1
  <2>1. seq[i] \in Range(seq)
    BY <1>1, <1>2 DEF Range
  <2> QED
    BY <1>1, <1>2, <1>3, <2>1
<1>4. CASE j \in 1 .. Len(seq)
  BY <1>1, <1>2, <1>4 DEF InOrder
<1> QED
  BY <1>1, <1>3, <1>4

\* A line goes from the head of the queue to the end of the file.
LEMMA MoveHead ==
  ASSUME NEW S, NEW f \in Seq(S), NEW q \in Seq(S), q # <<>>
  PROVE  Append(f, Head(q)) \o Tail(q) = f \o q
OBVIOUS

LEMMA AppendRight ==
  ASSUME NEW S, NEW f \in Seq(S), NEW q \in Seq(S), NEW x \in S
  PROVE  /\ f \o Append(q, x) = Append(f \o q, x)
         /\ Append(f, x) \o <<>> = Append(f \o <<>>, x)
OBVIOUS

LEMMA EmptyRange == Range(<<>>) = {} /\ InOrder(<<>>) /\ <<>> \o <<>> = <<>>
BY DEF Range, InOrder

-----------------------------------------------------------------------------
(***************************************************************************)
(* Types.                                                                  *)
(***************************************************************************)
LEMMA LevelType ==
  ASSUME NEW name
  PROVE  StringToLogLevel(name) \in Levels
<1>1. CASE name = "info"
  BY <1>1 DEF StringToLogLevel, Levels
<1>2. CASE name = "error"
  BY <1>2 DEF StringToLogLevel, Levels
<1>3. CASE name = "fatal"
  BY <1>3 DEF StringToLogLevel, Levels
<1>4. CASE name \notin {"info", "error", "fatal"}
  BY <1>4 DEF StringToLogLevel, Levels
<1> QED
  BY <1>1, <1>2, <1>3, <1>4

\* A line that stands in a sequence of lines.
LEMMA LineTyped ==
  ASSUME NEW seq \in Seq(Lines), NEW l \in Range(seq)
  PROVE  l.by \in Threads /\ l.n \in Nat
<1>1. l \in Lines
  BY DEF Range
<1> QED
  BY <1>1 DEF Lines

LEMMA TypeInit ==
  ASSUME Init, LogAssumption
  PROVE  TypeOK
<1>1. output \in {"console", "file", "thread_file"}
  BY DEF Init, OutputOf
<1>2. level \in Levels
  BY LevelType DEF Init
<1>3. opened \in BOOLEAN
  BY DEF Init
<1>4. /\ pc \in [Threads -> {"idle", "write", "writing", "emit"}]
      /\ line \in [Threads -> Lines \cup {NoLine}]
      /\ count \in [Threads -> 0 .. MaxLines]
      /\ heard = <<>> /\ queue = <<>> /\ file = <<>>
      /\ overlap \subseteq Threads
      /\ owner = "up"
  BY DEF Init, LogAssumption
<1>5. /\ log \in {"none", "top", "lock", "doze", "asleep", "drain", "exit"}
      /\ held = (log \in {"doze", "drain"})
  <2>1. /\ log \in {"none", "top"}
        /\ held = FALSE
    BY DEF Init
  <2>2. (log \in {"doze", "drain"}) = FALSE
    BY <2>1
  <2> QED
    BY <2>1, <2>2
<1>6. running = (owner = "up" /\ output = "thread_file")
  BY DEF Init
<1> QED
  BY <1>1, <1>2, <1>3, <1>4, <1>5, <1>6 DEF TypeOK

\* The threads that log keep the types.
LEMMA LogTypes ==
  ASSUME TypeOK, HandsOK, LogAssumption, NEW t \in Threads,
         \/ \E lv \in LineLevels : Log(t, lv)
         \/ \E name \in LevelNames : SetLevel(t, name)
         \/ Write(t)
  PROVE  TypeOK'
<1> USE DEF TypeOK
<1>1. ASSUME NEW lv \in LineLevels, Log(t, lv)
      PROVE  TypeOK'
  <2>1. count[t] + 1 \in 1 .. MaxLines
    BY <1>1 DEF Log, LogAssumption
  <2>2. /\ count' \in [Threads -> 0 .. MaxLines]
        /\ count'[t] = count[t] + 1
    BY <1>1, <2>1 DEF Log
  <2>3. [by |-> t, n |-> count'[t], level |-> lv] \in Lines
    BY <2>1, <2>2 DEF Lines
  <2>4. line' \in [Threads -> Lines \cup {NoLine}]
    BY <1>1, <2>3 DEF Log
  <2>5. pc' \in [Threads -> {"idle", "write", "writing", "emit"}]
    BY <1>1 DEF Log
  <2> QED
    BY <1>1, <2>2, <2>4, <2>5 DEF Log, fixed
<1>2. ASSUME NEW name \in LevelNames, SetLevel(t, name)
      PROVE  TypeOK'
  BY <1>2, LevelType DEF SetLevel, fixed
<1>3. pc[t] # "idle" => line[t] \in Lines
  BY DEF HandsOK
<1>4. CASE WriteConsole(t)
  <2>1. /\ file' = Append(file, line[t]) /\ line[t] \in Lines
        /\ file \in Seq(Lines \cup {Torn})
    BY <1>3, <1>4 DEF WriteConsole
  <2>2. file' \in Seq(Lines \cup {Torn})
    BY <2>1
  <2> QED
    BY <1>4, <2>2 DEF WriteConsole, fixed
<1>5. CASE StartWrite(t)
  BY <1>5 DEF StartWrite, fixed
<1>6. CASE EndWrite(t)
  <2>1. /\ line[t] \in Lines \cup {Torn} /\ Torn \in Lines \cup {Torn}
        /\ file \in Seq(Lines \cup {Torn})
    BY <1>3, <1>6 DEF EndWrite
  <2>2. file' \in {file, Append(file, line[t]), Append(file, Torn)}
    BY <1>6 DEF EndWrite
  <2>3. file' \in Seq(Lines \cup {Torn})
    <3>1. CASE file' = file
      BY <2>1, <3>1
    <3>2. CASE file' = Append(file, line[t])
      BY <2>1, <3>2
    <3>3. CASE file' = Append(file, Torn)
      BY <2>1, <3>3
    <3> QED
      BY <2>2, <3>1, <3>2, <3>3
  <2>4. overlap' \subseteq Threads
    BY <1>6 DEF EndWrite
  <2>5. pc' \in [Threads -> {"idle", "write", "writing", "emit"}]
    BY <1>6 DEF EndWrite
  <2> QED
    BY <1>6, <2>3, <2>4, <2>5 DEF EndWrite, fixed
<1>7. CASE PushLine(t)
  BY <1>3, <1>7 DEF PushLine, Notify, fixed
<1>8. CASE EmitWritten(t)
  BY <1>3, <1>8 DEF EmitWritten, fixed
<1> QED
  BY <1>1, <1>2, <1>4, <1>5, <1>6, <1>7, <1>8 DEF Write

\* So do the log thread and the main thread.
LEMMA QuietTypes ==
  ASSUME TypeOK, WorkerLoop \/ SpuriousWakeup \/ Close \/ CloseNotify \/ Join
  PROVE  TypeOK'
<1> USE DEF TypeOK, fixed, writing
<1>1. CASE TestRunning \/ TestPredicate \/ Block \/ DrainEnd \/ SpuriousWakeup
  <2>1. UNCHANGED <<fixed, writing, file, queue, running, owner>>
    BY <1>1 DEF TestRunning, TestPredicate, Block, DrainEnd, SpuriousWakeup
  <2>2. /\ log' \in {"none", "top", "lock", "doze", "asleep", "drain", "exit"}
        /\ held' = (log' \in {"doze", "drain"})
    <3>1. CASE TestRunning
      BY <3>1 DEF TestRunning
    <3>2. CASE TestPredicate
      BY <3>2 DEF TestPredicate
    <3>3. CASE Block
      <4>1. (log' \in {"doze", "drain"}) = FALSE
        BY <3>3 DEF Block
      <4> QED
        BY <3>3, <4>1 DEF Block
    <3>4. CASE DrainEnd
      <4>1. (log' \in {"doze", "drain"}) = FALSE
        BY <3>4 DEF DrainEnd
      <4> QED
        BY <3>4, <4>1 DEF DrainEnd
    <3>5. CASE SpuriousWakeup
      BY <3>5 DEF SpuriousWakeup
    <3> QED
      BY <1>1, <3>1, <3>2, <3>3, <3>4, <3>5
  <2> QED
    BY <2>1, <2>2
<1>2. CASE DrainLine
  BY <1>2 DEF DrainLine
<1>3. CASE Close \/ CloseNotify \/ Join
  <2>1. /\ UNCHANGED <<fixed, writing, file, queue, held>>
        /\ owner' \in {"up", "notify", "join", "gone"}
    BY <1>3 DEF Close, CloseNotify, Join
  <2>a. log' = log \/ (log = "asleep" /\ log' = "lock")
    BY <1>3 DEF Close, CloseNotify, Join, Notify
  <2>2. running' = (owner' = "up" /\ output = "thread_file")
    <3>1. CASE Close
      BY <3>1 DEF Close
    <3>2. CASE CloseNotify
      BY <3>2 DEF CloseNotify
    <3>3. CASE Join
      BY <3>3 DEF Join
    <3> QED
      BY <1>3, <3>1, <3>2, <3>3
  <2>3. /\ log' \in {"none", "top", "lock", "doze", "asleep", "drain", "exit"}
        /\ held' = (log' \in {"doze", "drain"})
    <3>1. CASE log' = log
      BY <2>1, <3>1
    <3>2. CASE log = "asleep" /\ log' = "lock"
      <4>1. (log \in {"doze", "drain"}) = (log' \in {"doze", "drain"})
        BY <3>2
      <4> QED
        BY <2>1, <3>2, <4>1
    <3> QED
      BY <2>a, <3>1, <3>2
  <2> QED
    BY <2>1, <2>2, <2>3
<1> QED
  BY <1>1, <1>2, <1>3 DEF WorkerLoop

-----------------------------------------------------------------------------
(***************************************************************************)
(* Lines in hand.                                                          *)
(***************************************************************************)
LEMMA HandsStep ==
  ASSUME TypeOK, HandsOK, LogAssumption, [Next]_vars
  PROVE  HandsOK'
<1> USE DEF TypeOK, HandsOK, fixed
<1>1. ASSUME NEW t \in Threads, NEW lv \in LineLevels, Log(t, lv)
      PROVE  HandsOK'
  <2>1. /\ UNCHANGED <<output, queue>>
        /\ count'[t] = count[t] + 1 /\ count[t] + 1 \in 1 .. MaxLines
        /\ \A u \in Threads : u # t => /\ pc'[u] = pc[u]
                                       /\ line'[u] = line[u]
                                       /\ count'[u] = count[u]
    BY <1>1 DEF Log, LogAssumption
  <2>2. CASE pc'[t] = "idle"
    BY <2>1, <2>2
  <2>3. CASE pc'[t] # "idle"
    <3>1. /\ pc'[t] = "write"
          /\ line'[t] = [by |-> t, n |-> count'[t], level |-> lv]
      BY <1>1, <2>3 DEF Log
    <3>2. line'[t] \in Lines /\ line'[t].by = t /\ line'[t].n = count'[t]
      BY <2>1, <3>1 DEF Lines
    <3> QED
      BY <2>1, <3>1, <3>2
  <2> QED
    BY <2>2, <2>3
<1>2. ASSUME NEW t \in Threads,
             (\E name \in LevelNames : SetLevel(t, name)) \/ Write(t)
      PROVE  HandsOK'
  <2>1. UNCHANGED <<output, line, count>>
    BY <1>2
       DEF SetLevel, Write, WriteConsole, StartWrite, EndWrite, PushLine,
           EmitWritten
  <2>2. \A u \in Threads : /\ pc'[u] # "idle" => pc[u] # "idle"
                           /\ pc'[u] = "writing" =>
                                  pc[u] = "writing" \/ output = "file"
    BY <1>2
       DEF SetLevel, Write, WriteConsole, StartWrite, EndWrite, PushLine,
           EmitWritten
  <2>3. queue' # <<>> => queue # <<>> \/ output = "thread_file"
    BY <1>2
       DEF SetLevel, Write, WriteConsole, StartWrite, EndWrite, PushLine,
           EmitWritten
  <2> QED
    BY <2>1, <2>2, <2>3
<1>3. CASE WorkerLoop \/ SpuriousWakeup \/ Close \/ CloseNotify \/ Join
             \/ UNCHANGED vars
  <2>1. UNCHANGED <<output, line, count, pc>>
    BY <1>3
       DEF WorkerLoop, TestRunning, TestPredicate, Block, DrainLine, DrainEnd,
           SpuriousWakeup, Close, CloseNotify, Join, vars, writing
  <2>2. queue' # <<>> => queue # <<>>
    BY <1>3
       DEF WorkerLoop, TestRunning, TestPredicate, Block, DrainLine, DrainEnd,
           SpuriousWakeup, Close, CloseNotify, Join, vars, writing
  <2> QED
    BY <2>1, <2>2
<1> QED
  BY <1>1, <1>2, <1>3 DEF Next, Ended

-----------------------------------------------------------------------------
(***************************************************************************)
(* The order of the lines.                                                 *)
(***************************************************************************)
LEMMA WrittenType ==
  ASSUME TypeOK, file \in Seq(Lines)
  PROVE  Written \in Seq(Lines)
BY DEF TypeOK, Written

\* A line is logged: a number higher than all that its thread has used.
LEMMA OrderLog ==
  ASSUME LogInv, LogAssumption, output # "file", opened,
         NEW t \in Threads, NEW lv \in LineLevels, Log(t, lv)
  PROVE  OrderOK'
<1>a. TypeOK /\ HandsOK /\ OrderOK
  BY DEF LogInv
<1>1. /\ UNCHANGED <<output, opened, heard, file, queue>>
      /\ count'[t] = count[t] + 1
      /\ pc[t] = "idle" /\ pc'[t] \in {"idle", "write"}
      /\ \A u \in Threads : u # t => /\ pc'[u] = pc[u]
                                     /\ line'[u] = line[u]
                                     /\ count'[u] = count[u]
  BY <1>a DEF Log, TypeOK, fixed
<1>2. UNCHANGED Written
  BY <1>1 DEF Written
<1>3. /\ Written \in Seq(Lines) /\ heard \in Seq(Lines)
      /\ \A l \in Range(Written) \cup Range(heard) :
             l.by \in Threads /\ l.n \in Nat /\ count[l.by] \in Nat
  <2>1. Written \in Seq(Lines) /\ heard \in Seq(Lines)
    BY <1>a, WrittenType DEF OrderOK, TypeOK
  <2>2. \A l \in Range(Written) \cup Range(heard) : l \in Lines
    BY <2>1 DEF Range
  <2> QED
    BY <1>a, <2>1, <2>2 DEF Lines, TypeOK
<1>4. NumbersOK'
  <2>1. NumbersOK
    BY <1>a DEF OrderOK
  <2>2. /\ \A l \in Range(Written) :
             l.n <= count'[l.by] /\ (pc'[l.by] = "write" => l.n < count'[l.by])
        /\ \A l \in Range(heard) :
             l.n <= count'[l.by] /\ (pc'[l.by] # "idle" => l.n < count'[l.by])
    <3>1. ASSUME NEW l \in Range(Written) \cup Range(heard)
          PROVE  /\ l.n <= count[l.by] => l.n <= count'[l.by]
                 /\ l.by = t => (l.n <= count[l.by] => l.n < count'[l.by])
                 /\ l.by # t => count'[l.by] = count[l.by] /\ pc'[l.by] = pc[l.by]
      BY <1>1, <1>3
    <3> QED
      BY <2>1, <3>1 DEF NumbersOK
  <2> QED
    BY ONLY <1>1, <1>2, <2>2 DEF NumbersOK
<1>5. \A u \in Threads : Told(u)' = Told(u)
  BY <1>1 DEF Told
<1> QED
  BY <1>a, <1>1, <1>2, <1>4, <1>5 DEF OrderOK, InOrder, By

\* A line is written, to the console or into the queue.
LEMMA OrderWrite ==
  ASSUME LogInv, output # "file", opened,
         NEW t \in Threads, WriteConsole(t) \/ PushLine(t)
  PROVE  OrderOK'
<1>a. TypeOK /\ HandsOK /\ OrderOK
  BY DEF LogInv
<1>1. /\ UNCHANGED <<output, opened, line, count, heard>>
      /\ pc[t] = "write" /\ pc'[t] = "emit"
      /\ \A u \in Threads : u # t => pc'[u] = pc[u]
  BY <1>a DEF WriteConsole, PushLine, TypeOK, fixed
<1>2. /\ line[t] \in Lines /\ line[t].by = t /\ line[t].n = count[t]
      /\ line[t].n \in Nat
      /\ Written \in Seq(Lines) /\ heard \in Seq(Lines)
      /\ file \in Seq(Lines) /\ queue \in Seq(Lines)
      /\ NumbersOK /\ InOrder(Written) /\ InOrder(heard)
  BY <1>a, <1>1, WrittenType DEF HandsOK, OrderOK, TypeOK, Lines
<1>3. Written' = Append(Written, line[t]) /\ file' \in Seq(Lines)
  <2>1. CASE WriteConsole(t)
    <3>1. queue = <<>>
      BY <1>a, <2>1 DEF WriteConsole, HandsOK
    <3> QED
      BY <1>2, <2>1, <3>1, AppendRight DEF WriteConsole, Written
  <2>2. CASE PushLine(t)
    BY <1>2, <2>2, AppendRight DEF PushLine, Written
  <2> QED
    BY <2>1, <2>2
<1>4. Range(Written)' = Range(Written) \cup {line[t]}
  BY <1>2, <1>3, RangeAppend
<1>5. NumbersOK'
  <2>1. \A l \in Range(Written)' :
            l.n <= count[l.by] /\ (pc'[l.by] = "write" => l.n < count[l.by])
    <3> SUFFICES ASSUME NEW l \in Range(Written)'
                 PROVE  /\ l.n <= count[l.by]
                        /\ pc'[l.by] = "write" => l.n < count[l.by]
      OBVIOUS
    <3>1. CASE l \in Range(Written)
      <4>1. l.by \in Threads
        BY <1>2, <3>1, LineTyped
      <4> QED
        BY <1>1, <1>2, <3>1, <4>1 DEF NumbersOK
    <3>2. CASE l = line[t]
      BY <1>1, <1>2, <3>2
    <3> QED
      BY <1>4, <3>1, <3>2
  <2>2. \A l \in Range(heard) :
            l.n <= count[l.by] /\ (pc'[l.by] # "idle" => l.n < count[l.by])
    BY <1>1, <1>2, LineTyped DEF NumbersOK
  <2> QED
    BY <1>1, <2>1, <2>2 DEF NumbersOK
<1>6. InOrder(Written)'
  <2>1. \A l \in Range(Written) : l.by = line[t].by => l.n < line[t].n
    BY <1>1, <1>2 DEF NumbersOK
  <2> QED
    BY <1>2, <1>3, <2>1, AppendInOrder
<1>7. ASSUME NEW u \in Threads
      PROVE  By(u, Written)' = By(u, Told(u))'
  <2>1. By(u, Written) = By(u, Told(u))
    BY <1>a DEF OrderOK
  <2>2. CASE u = t
    <3>1. Told(t) = heard /\ Told(t)' = Append(heard, line[t])
      BY <1>1 DEF Told
    <3>2. Range(Told(t))' = Range(heard) \cup {line[t]}
      BY <1>2, <3>1, RangeAppend
    <3> QED
      BY <1>4, <2>1, <2>2, <3>1, <3>2 DEF By
  <2>3. CASE u # t
    <3>1. Told(u)' = Told(u)
      BY <1>1, <2>3 DEF Told
    <3> QED
      BY <1>2, <1>4, <2>1, <2>3, <3>1 DEF By
  <2> QED
    BY <2>2, <2>3
<1>8. InOrder(heard)'
  BY <1>1, <1>2
<1> QED
  BY <1>3, <1>5, <1>6, <1>7, <1>8 DEF OrderOK

\* The user interface hears of a line.
LEMMA OrderEmit ==
  ASSUME LogInv, output # "file", opened, NEW t \in Threads, EmitWritten(t)
  PROVE  OrderOK'
<1>a. TypeOK /\ HandsOK /\ OrderOK
  BY DEF LogInv
<1>1. /\ UNCHANGED <<output, opened, line, count, file, queue>>
      /\ pc[t] = "emit" /\ pc'[t] = "idle"
      /\ \A u \in Threads : u # t => pc'[u] = pc[u]
      /\ heard' = Append(heard, line[t])
  BY <1>a DEF EmitWritten, TypeOK, fixed
<1>2. /\ line[t] \in Lines /\ line[t].by = t /\ line[t].n = count[t]
      /\ line[t].n \in Nat
      /\ heard \in Seq(Lines) /\ Written \in Seq(Lines)
      /\ NumbersOK /\ InOrder(Written) /\ InOrder(heard)
  BY <1>a, <1>1, WrittenType DEF HandsOK, OrderOK, TypeOK, Lines
<1>3. Range(heard)' = Range(heard) \cup {line[t]}
  BY <1>1, <1>2, RangeAppend
<1>4. UNCHANGED Written
  BY <1>1 DEF Written
<1>5. NumbersOK'
  <2>1. \A l \in Range(Written) :
            l.n <= count[l.by] /\ (pc'[l.by] = "write" => l.n < count[l.by])
    BY <1>1, <1>2, LineTyped DEF NumbersOK
  <2>2. \A l \in Range(heard)' :
            l.n <= count[l.by] /\ (pc'[l.by] # "idle" => l.n < count[l.by])
    <3> SUFFICES ASSUME NEW l \in Range(heard)'
                 PROVE  /\ l.n <= count[l.by]
                        /\ pc'[l.by] # "idle" => l.n < count[l.by]
      OBVIOUS
    <3>1. CASE l \in Range(heard)
      <4>1. l.by \in Threads
        BY <1>2, <3>1, LineTyped
      <4> QED
        BY <1>1, <1>2, <3>1, <4>1 DEF NumbersOK
    <3>2. CASE l = line[t]
      BY <1>1, <1>2, <3>2
    <3> QED
      BY <1>3, <3>1, <3>2
  <2> QED
    BY <1>1, <1>4, <2>1, <2>2 DEF NumbersOK
<1>6. InOrder(heard)'
  <2>1. \A l \in Range(heard) : l.by = line[t].by => l.n < line[t].n
    BY <1>1, <1>2 DEF NumbersOK
  <2> QED
    BY <1>1, <1>2, <2>1, AppendInOrder
<1>7. ASSUME NEW u \in Threads
      PROVE  By(u, Written)' = By(u, Told(u))'
  <2>1. By(u, Written) = By(u, Told(u))
    BY <1>a DEF OrderOK
  <2>2. CASE u = t
    <3>1. Told(t)' = Told(t)
      BY <1>1 DEF Told
    <3> QED
      BY <1>4, <2>1, <2>2, <3>1
  <2>3. CASE u # t /\ pc[u] # "emit"
    <3>1. Told(u) = heard /\ Told(u)' = heard'
      BY <1>1, <2>3 DEF Told
    <3> QED
      BY <1>2, <1>3, <1>4, <2>1, <2>3, <3>1 DEF By
  <2>4. CASE u # t /\ pc[u] = "emit"
    <3>1. line[u] \in Lines
      BY <1>a, <2>4 DEF HandsOK
    <3>2. /\ Told(u) = Append(heard, line[u])
          /\ Told(u)' = Append(heard', line[u])
      BY <1>1, <2>4 DEF Told
    <3>3. heard' \in Seq(Lines)
      BY <1>1, <1>2
    <3>4. /\ Range(Told(u)) = Range(heard) \cup {line[u]}
          /\ Range(Told(u)') = Range(heard') \cup {line[u]}
      BY <1>2, <3>1, <3>2, <3>3, RangeAppend
    <3> QED
      BY <1>2, <1>3, <1>4, <2>1, <2>4, <3>4 DEF By
  <2> QED
    BY <2>2, <2>3, <2>4
<1> QED
  BY <1>a, <1>1, <1>4, <1>5, <1>6, <1>7 DEF OrderOK, InOrder

\* A line that the log thread moves to the file keeps its place.
LEMMA OrderDrain ==
  ASSUME LogInv, output # "file", opened, DrainLine
  PROVE  OrderOK'
<1>a. TypeOK /\ OrderOK
  BY DEF LogInv
<1>1. /\ UNCHANGED <<output, opened, pc, line, count, heard>>
      /\ queue # <<>> /\ queue \in Seq(Lines) /\ file \in Seq(Lines)
      /\ file' = Append(file, Head(queue)) /\ queue' = Tail(queue)
  BY <1>a DEF DrainLine, TypeOK, OrderOK, fixed, writing
<1>2. UNCHANGED Written
  BY <1>1, MoveHead DEF Written
<1>3. file' \in Seq(Lines)
  BY <1>1
<1> QED
  BY <1>a, <1>1, <1>2, <1>3 DEF OrderOK, NumbersOK, InOrder, By, Told

LEMMA OrderStep ==
  ASSUME LogInv, LogAssumption, [Next]_vars
  PROVE  OrderOK'
<1>1. UNCHANGED <<output, opened>>
  BY DEF Next, Log, SetLevel, Write, WriteConsole, StartWrite, EndWrite,
         PushLine, EmitWritten, WorkerLoop, TestRunning, TestPredicate, Block,
         DrainLine, DrainEnd, SpuriousWakeup, Close, CloseNotify, Join, Ended,
         vars, fixed
<1> SUFFICES ASSUME output # "file", opened
             PROVE  OrderOK'
  BY <1>1 DEF OrderOK
<1>2. \A t \in Threads : ~StartWrite(t) /\ ~EndWrite(t)
  BY DEF StartWrite, EndWrite, LogInv, HandsOK
<1>3. CASE UNCHANGED <<output, opened, pc, line, count, heard, file, queue>>
  BY <1>3 DEF LogInv, OrderOK, NumbersOK, InOrder, By, Told, Written
<1>4. CASE \/ \E t \in Threads, name \in LevelNames : SetLevel(t, name)
           \/ TestRunning \/ TestPredicate \/ Block \/ DrainEnd
           \/ SpuriousWakeup \/ Close \/ CloseNotify \/ Join
           \/ UNCHANGED vars
  BY <1>3, <1>4
     DEF SetLevel, TestRunning, TestPredicate, Block, DrainEnd, SpuriousWakeup,
         Close, CloseNotify, Join, vars, fixed, writing
<1> QED
  BY <1>2, <1>4, OrderLog, OrderWrite, OrderEmit, OrderDrain
     DEF Next, Write, WorkerLoop, Ended

LEMMA LogInit ==
  ASSUME Init, LogAssumption
  PROVE  LogInv
<1>1. TypeOK
  BY TypeInit
<1>2. HandsOK
  BY DEF Init, HandsOK
<1>3. Written = <<>> /\ heard = <<>> /\ \A t \in Threads : Told(t) = <<>>
  BY EmptyRange DEF Init, Written, Told
<1>4. OrderOK
  BY <1>3, EmptyRange DEF Init, OrderOK, NumbersOK, By
<1> QED
  BY <1>1, <1>2, <1>4 DEF LogInv

LEMMA LogStep ==
  ASSUME LogInv, LogAssumption, [Next]_vars
  PROVE  LogInv'
<1>1. TypeOK'
  <2>1. CASE UNCHANGED vars
    BY <2>1 DEF LogInv, TypeOK, vars, fixed, writing
  <2> QED
    BY <2>1, LogTypes, QuietTypes DEF LogInv, Next, Ended
<1>2. HandsOK' /\ OrderOK'
  BY HandsStep, OrderStep DEF LogInv
<1> QED
  BY <1>1, <1>2 DEF LogInv

LEMMA LogAlways == Spec => []LogInv
<1>1. Init => LogInv
  BY LogInit, LogAssumption
<1>2. LogInv /\ [Next]_vars => LogInv'
  BY LogStep, LogAssumption
<1> QED
  BY <1>1, <1>2, PTL DEF Spec

-----------------------------------------------------------------------------
\* What the logger, its queue and its threads keep has its type; among it that
\* mutex_ is held over a step by the log thread only, between testing its
\* predicate and sleeping or while it drains.
THEOREM LogTypesHold == Spec => []TypeOK
<1>1. LogInv => TypeOK
  BY DEF LogInv
<1> QED
  BY <1>1, LogAlways, PTL

\* With the console or the log thread, every line of a thread is written or still
\* queued, once, in the order of logging, and is heard of in that order.
THEOREM NoLineLost == Spec => []LinesInOrder
<1>1. ASSUME LogInv, output # "file", opened, NEW t \in Threads
      PROVE  InOrder(Told(t))
  <2>1. CASE pc[t] # "emit"
    BY <1>1, <2>1 DEF LogInv, OrderOK, Told
  <2>2. CASE pc[t] = "emit"
    <3>1. /\ line[t] \in Lines /\ heard \in Seq(Lines) /\ InOrder(heard)
          /\ line[t].by = t /\ line[t].n = count[t]
      BY <1>1, <2>2 DEF LogInv, OrderOK, HandsOK, TypeOK
    <3>2. \A l \in Range(heard) : l.by = line[t].by => l.n < line[t].n
      BY <1>1, <2>2, <3>1 DEF LogInv, OrderOK, NumbersOK
    <3> QED
      BY <2>2, <3>1, <3>2, AppendInOrder DEF Told
  <2> QED
    BY <2>1, <2>2
<1>2. LogInv => LinesInOrder
  BY <1>1 DEF LogInv, OrderOK, LinesInOrder
<1> QED
  BY <1>2, LogAlways, PTL

-----------------------------------------------------------------------------
\* The log thread neither sleeps nor is about to with a line in the queue: a
\* push needs the mutex, which a thread about to sleep still has, and wakes one
\* that sleeps.  What LineReachesFile adds to it is that an awake log thread is
\* scheduled.
NoLineSleeps == log \in {"doze", "asleep"} => queue = <<>>

LEMMA SleepStep ==
  ASSUME TypeOK, NoLineSleeps, [Next]_vars
  PROVE  NoLineSleeps'
<1> USE DEF NoLineSleeps, fixed, writing
<1>1. CASE UNCHANGED queue /\ (log' = log \/ log' \notin {"doze", "asleep"})
  BY <1>1
<1>2. ASSUME NEW t \in Threads, PushLine(t)
      PROVE  NoLineSleeps'
  <2>1. log # "doze"
    BY <1>2 DEF PushLine, TypeOK
  <2>2. log' \notin {"doze", "asleep"}
    BY <1>2, <2>1 DEF PushLine, Notify
  <2> QED
    BY <2>2
<1>3. CASE TestPredicate
  BY <1>3 DEF TestPredicate
<1>4. CASE Block
  BY <1>4 DEF Block
<1>5. CASE DrainLine
  BY <1>5 DEF DrainLine
<1>6. CASE \/ \E t \in Threads :
                \/ \E lv \in LineLevels : Log(t, lv)
                \/ \E name \in LevelNames : SetLevel(t, name)
                \/ WriteConsole(t) \/ StartWrite(t) \/ EndWrite(t)
                \/ EmitWritten(t)
           \/ TestRunning \/ DrainEnd \/ SpuriousWakeup
           \/ Close \/ CloseNotify \/ Join \/ UNCHANGED vars
  BY <1>1, <1>6
     DEF Log, SetLevel, WriteConsole, StartWrite, EndWrite, EmitWritten,
         TestRunning, DrainEnd, SpuriousWakeup, Close, CloseNotify, Join,
         Notify, vars
<1> QED
  BY <1>2, <1>3, <1>4, <1>5, <1>6 DEF Next, Write, WorkerLoop, Ended

\* No notification is lost between the predicate and the sleep of the log
\* thread, whatever the threads that log do.
THEOREM NoLostNotify == Spec => []NoLineSleeps
<1>1. Init => NoLineSleeps
  BY DEF Init, NoLineSleeps
<1>2. TypeOK /\ NoLineSleeps /\ [Next]_vars => NoLineSleeps'
  BY SleepStep
<1> QED
  BY <1>1, <1>2, LogTypesHold, PTL DEF Spec

-----------------------------------------------------------------------------
(* The last setting.                                                       *)

\* A set of positions that is not empty has a last one.
LEMMA MaxIs ==
    ASSUME NEW n \in Nat, NEW I \in SUBSET (1 .. n), I # {}
    PROVE  Max(I) \in I /\ \A j \in I : j <= Max(I)
<1> DEFINE T == {m \in Nat : \A J \in SUBSET (1 .. m) :
                   J # {} => \E x \in J : \A y \in J : x >= y}
<1>1. 0 \in T
  <2>1. 1 .. 0 = {}
    OBVIOUS
  <2> QED
    BY <2>1
<1>2. ASSUME NEW m \in Nat, m \in T PROVE m + 1 \in T
  <2> SUFFICES ASSUME NEW J \in SUBSET (1 .. (m + 1)), J # {}
               PROVE  \E x \in J : \A y \in J : x >= y
    OBVIOUS
  <2>1. CASE m + 1 \in J
    BY <2>1
  <2>2. CASE m + 1 \notin J
    <3>1. J \in SUBSET (1 .. m)
      BY <2>2
    <3> QED
      BY <1>2, <3>1
  <2> QED
    BY <2>1, <2>2
<1>3. Nat \subseteq T
  <2> HIDE DEF T
  <2> QED
    BY <1>1, <1>2, Induction
<1>4. \E x \in I : \A y \in I : x >= y
  BY <1>3
<1>5. Max(I) \in I /\ \A y \in I : Max(I) >= y
  BY <1>4 DEF Max
<1> QED
  BY <1>5

\* A last one that is known is the one.
LEMMA MaxUnique ==
    ASSUME NEW I \in SUBSET Nat, NEW m \in I, \A j \in I : j <= m
    PROVE  Max(I) = m
<1>1. Max(I) \in I /\ \A y \in I : Max(I) >= y
  BY DEF Max
<1>2. Max(I) \in Nat /\ m \in Nat /\ Max(I) <= m /\ m <= Max(I)
  BY <1>1
<1> QED
  BY <1>2

-----------------------------------------------------------------------------
(* The two loops.                                                          *)

Fields == DOMAIN Default
IsConfig(cfg) == cfg = [k \in Fields |-> cfg[k]]
Value(k, val) == IF k \in Numbers THEN Atoi(val) ELSE val
Sets(key, k) == Len(key) = 1 /\ key[1] = k

LEMMA ApplyIs ==
    ASSUME NEW cfg, IsConfig(cfg), NEW key, NEW val
    PROVE  Apply(cfg, key, val) = [k \in Fields |-> IF Sets(key, k) THEN Value(k, val) ELSE cfg[k]]
<1>1. DOMAIN cfg = Fields /\ cfg = [k \in Fields |-> cfg[k]]
  BY DEF IsConfig
<1> HIDE DEF Fields
<1>2. CASE Len(key) = 1 /\ key[1] \in Fields
  <2>1. Apply(cfg, key, val) = [cfg EXCEPT ![key[1]] = Value(key[1], val)]
    BY <1>1, <1>2 DEF Apply, Value
  <2> HIDE DEF Value
  <2> QED
    BY <1>1, <1>2, <2>1 DEF Sets
<1>3. CASE ~(Len(key) = 1 /\ key[1] \in Fields)
  <2>1. Apply(cfg, key, val) = cfg
    BY <1>1, <1>3 DEF Apply
  <2>2. \A k \in Fields : ~Sets(key, k)
    BY <1>3 DEF Sets
  <2> QED
    BY <1>1, <2>1, <2>2
<1> QED
  BY <1>2, <1>3

\* What the first n settings make of a field.
Final(base, keys, vals, n, k) ==
    LET I == {i \in 1 .. n : Sets(keys[i], k)}
    IN  IF I = {} THEN base[k] ELSE Value(k, vals[Max(I)])

LEMMA FinalStep ==
    ASSUME NEW base, NEW keys, NEW vals, NEW k
    PROVE  /\ Final(base, keys, vals, 0, k) = base[k]
           /\ \A n \in Nat : Final(base, keys, vals, n + 1, k)
                = IF Sets(keys[n + 1], k) THEN Value(k, vals[n + 1])
                  ELSE Final(base, keys, vals, n, k)
<1> DEFINE I(n) == {i \in 1 .. n : Sets(keys[i], k)}
<1>1. I(0) = {}
  OBVIOUS
<1>2. ASSUME NEW n \in Nat, Sets(keys[n + 1], k) PROVE I(n + 1) # {} /\ Max(I(n + 1)) = n + 1
  <2>1. /\ I(n + 1) \in SUBSET Nat /\ n + 1 \in I(n + 1)
        /\ \A j \in I(n + 1) : j <= n + 1
    BY <1>2
  <2> HIDE DEF I
  <2> QED
    BY <2>1, MaxUnique
<1>3. ASSUME NEW n \in Nat, ~Sets(keys[n + 1], k) PROVE I(n + 1) = I(n)
  <2>1. \A i \in 1 .. (n + 1) : i \in 1 .. n \/ i = n + 1
    OBVIOUS
  <2>2. 1 .. n \subseteq 1 .. (n + 1)
    OBVIOUS
  <2> QED
    BY <1>3, <2>1, <2>2
<1>4. \A n \in Nat : Final(base, keys, vals, n, k)
                       = IF I(n) = {} THEN base[k] ELSE Value(k, vals[Max(I(n))])
  BY DEF Final
<1> HIDE DEF I
<1>5. ASSUME NEW n \in Nat
      PROVE  Final(base, keys, vals, n + 1, k)
                = IF Sets(keys[n + 1], k) THEN Value(k, vals[n + 1])
                  ELSE Final(base, keys, vals, n, k)
  <2>1. n + 1 \in Nat
    OBVIOUS
  <2> QED
    BY <1>2, <1>3, <1>4, <2>1
<1> QED
  BY <1>1, <1>4, <1>5

LEMMA FinalRound ==
    ASSUME NEW base, NEW keys, NEW vals, NEW k, NEW n \in Nat
    PROVE  Final(base, keys, vals, n + 1, k)
             = IF Sets(keys[n + 1], k) THEN Value(k, vals[n + 1])
               ELSE Final(base, keys, vals, n, k)
  BY FinalStep

\* A loop of N rounds over Apply, and where it is after each.
After(base, keys, vals, n) == [k \in Fields |-> Final(base, keys, vals, n, k)]
Loop(g, base, keys, vals, N) ==
    \A n \in 0 .. N : g[n] = IF n = 0 THEN base ELSE Apply(g[n - 1], keys[n], vals[n])

LEMMA LoopIs ==
    ASSUME NEW N \in Nat, NEW keys, NEW vals, NEW base, IsConfig(base), NEW g,
           Loop(g, base, keys, vals, N)
    PROVE  g[N] = After(base, keys, vals, N)
<1> USE DEF Loop, After
<1> DEFINE c(n) == [k \in Fields |-> Final(base, keys, vals, n, k)]
           T == {n \in Nat : n <= N => g[n] = c(n)}
<1> HIDE DEF Fields
<1>1. 0 \in T
  <2>1. g[0] = base
    OBVIOUS
  <2>2. base = c(0)
    BY FinalStep DEF IsConfig
  <2> QED
    BY <2>1, <2>2
<1>2. ASSUME NEW n \in Nat, n \in T PROVE n + 1 \in T
  <2>1. SUFFICES ASSUME n + 1 <= N PROVE g[n + 1] = c(n + 1)
    OBVIOUS
  <2>2. n + 1 \in 0 .. N /\ n + 1 # 0 /\ (n + 1) - 1 = n /\ n <= N
    BY <2>1
  <2>3. g[n + 1] = Apply(c(n), keys[n + 1], vals[n + 1])
    BY <1>2, <2>2
  <2>4. IsConfig(c(n)) /\ \A k \in Fields : c(n)[k] = Final(base, keys, vals, n, k)
    BY DEF IsConfig
  <2> HIDE DEF c
  <2>5. Apply(c(n), keys[n + 1], vals[n + 1])
          = [k \in Fields |-> IF Sets(keys[n + 1], k) THEN Value(k, vals[n + 1]) ELSE c(n)[k]]
    BY <2>4, ApplyIs
  <2>6. \A k \in Fields : (IF Sets(keys[n + 1], k) THEN Value(k, vals[n + 1]) ELSE c(n)[k])
                            = Final(base, keys, vals, n + 1, k)
    BY <2>4, FinalRound
  <2>7. [k \in Fields |-> IF Sets(keys[n + 1], k) THEN Value(k, vals[n + 1]) ELSE c(n)[k]]
          = c(n + 1)
    BY <2>6 DEF c
  <2> QED
    BY <2>3, <2>5, <2>7
<1>3. Nat \subseteq T
  <2> HIDE DEF T
  <2> QED
    BY <1>1, <1>2, Induction
<1> QED
  BY <1>3

\* Such a function there is.
LEMMA LoopExists ==
    ASSUME NEW N \in Nat, NEW keys, NEW vals, NEW base, IsConfig(base)
    PROVE  Loop([n \in 0 .. N |-> After(base, keys, vals, n)], base, keys, vals, N)
<1> USE DEF Loop, After
<1> DEFINE c(n) == [k \in Fields |-> Final(base, keys, vals, n, k)]
           w == [n \in 0 .. N |-> c(n)]
<1> HIDE DEF Fields
<1>1. base = c(0)
  BY FinalStep DEF IsConfig
<1>2. ASSUME NEW n \in 0 .. N, n # 0 PROVE w[n] = Apply(w[n - 1], keys[n], vals[n])
  <2> DEFINE m == n - 1
  <2>1. m \in 0 .. N /\ m \in Nat /\ n = m + 1
    BY <1>2
  <2> HIDE DEF m
  <2>2. w[m] = c(m) /\ w[m + 1] = c(m + 1)
    BY <2>1
  <2>3. IsConfig(c(m)) /\ \A k \in Fields : c(m)[k] = Final(base, keys, vals, m, k)
    BY DEF IsConfig
  <2>4. \A k \in Fields : Final(base, keys, vals, m + 1, k)
          = IF Sets(keys[m + 1], k) THEN Value(k, vals[m + 1]) ELSE Final(base, keys, vals, m, k)
    BY <2>1, FinalRound
  <2>5. c(m + 1) = [k \in Fields |-> IF Sets(keys[m + 1], k) THEN Value(k, vals[m + 1])
                                     ELSE Final(base, keys, vals, m, k)]
    BY <2>4
  <2> HIDE DEF c, w
  <2>6. Apply(c(m), keys[m + 1], vals[m + 1])
          = [k \in Fields |-> IF Sets(keys[m + 1], k) THEN Value(k, vals[m + 1]) ELSE c(m)[k]]
    BY <2>3, ApplyIs
  <2>7. Apply(c(m), keys[m + 1], vals[m + 1]) = c(m + 1)
    BY <2>3, <2>5, <2>6
  <2>8. n - 1 = m
    BY <2>1
  <2> QED
    BY <2>1, <2>2, <2>7, <2>8
<1>3. w[0] = base
  BY <1>1
<1> HIDE DEF w
<1>4. \A n \in 0 .. N : w[n] = IF n = 0 THEN base ELSE Apply(w[n - 1], keys[n], vals[n])
  BY <1>2, <1>3
<1> QED
  BY <1>4 DEF w

-----------------------------------------------------------------------------
(* What a line and an argument set.                                        *)

\* A text that sets nothing has no key.
LineEq(raw) == Find(Trim(raw), Equals)
LineName(raw) == Trim(SubSeq(Trim(raw), 1, LineEq(raw) - 1))
LineVal(raw) == Trim(SubSeq(Trim(raw), LineEq(raw) + 1, Len(Trim(raw))))
LineKey(raw) ==
    IF \/ Trim(raw) = <<>> \/ Trim(raw)[1] = Hash \/ LineEq(raw) = 0
       \/ LineName(raw) = <<>> \/ LineVal(raw) = <<>>
    THEN <<>> ELSE LineName(raw)

ArgEq(arg) == Find(Tail(arg), Equals)
ArgVal(arg) == SubSeq(Tail(arg), ArgEq(arg) + 1, Len(Tail(arg)))
ArgKey(arg) ==
    IF arg = <<>> \/ arg[1] # Dashes \/ ArgEq(arg) = 0
    THEN <<>> ELSE SubSeq(Tail(arg), 1, ArgEq(arg) - 1)

LEMMA NoKey ==
    ASSUME NEW cfg, NEW val
    PROVE  Apply(cfg, <<>>, val) = cfg
  BY DEF Apply

LEMMA LoadLineIs ==
    ASSUME NEW cfg, NEW raw
    PROVE  LoadLine(cfg, raw) = Apply(cfg, LineKey(raw), LineVal(raw))
<1> DEFINE none == \/ Trim(raw) = <<>> \/ Trim(raw)[1] = Hash \/ LineEq(raw) = 0
                   \/ LineName(raw) = <<>> \/ LineVal(raw) = <<>>
<1>1. LoadLine(cfg, raw) = IF none THEN cfg ELSE Apply(cfg, LineName(raw), LineVal(raw))
  BY DEF LoadLine, LineEq, LineName, LineVal
<1>2. LineKey(raw) = IF none THEN <<>> ELSE LineName(raw)
  BY DEF LineKey
<1> HIDE DEF none
<1> QED
  BY <1>1, <1>2, NoKey

LEMMA ApplyArgIs ==
    ASSUME NEW cfg, NEW arg
    PROVE  ApplyArg(cfg, arg) = Apply(cfg, ArgKey(arg), ArgVal(arg))
<1> DEFINE none == arg = <<>> \/ arg[1] # Dashes \/ ArgEq(arg) = 0
           name == SubSeq(Tail(arg), 1, ArgEq(arg) - 1)
<1>1. ApplyArg(cfg, arg) = IF none THEN cfg ELSE Apply(cfg, name, ArgVal(arg))
  BY DEF ApplyArg, ArgEq, ArgVal
<1>2. ArgKey(arg) = IF none THEN <<>> ELSE name
  BY DEF ArgKey
<1> HIDE DEF none, name
<1> QED
  BY <1>1, <1>2, NoKey

\* What the lines of a file, and the arguments of a command line, make of a
\* configuration.
LineKeys(lines) == [i \in 1 .. Len(lines) |-> LineKey(lines[i])]
LineVals(lines) == [i \in 1 .. Len(lines) |-> LineVal(lines[i])]
ArgKeys(args) == [i \in 1 .. Len(args) |-> ArgKey(args[i])]
ArgVals(args) == [i \in 1 .. Len(args) |-> ArgVal(args[i])]

LEMMA LoadFromFileIs ==
    ASSUME NEW cfg, IsConfig(cfg), NEW lines, Len(lines) \in Nat
    PROVE  LoadFromFile(cfg, lines)
             = After(cfg, LineKeys(lines), LineVals(lines), Len(lines))
<1> DEFINE N == Len(lines)
           keys == LineKeys(lines)
           vals == LineVals(lines)
           Eq(f) == f = [n \in 0 .. N |-> IF n = 0 THEN cfg ELSE LoadLine(f[n - 1], lines[n])]
           g == CHOOSE f : Eq(f)
           w == [n \in 0 .. N |-> After(cfg, keys, vals, n)]
<1>1. LoadFromFile(cfg, lines) = g[N]
  BY DEF LoadFromFile
<1>2. N \in Nat
  OBVIOUS
<1>3. \A n \in 1 .. N : keys[n] = LineKey(lines[n]) /\ vals[n] = LineVal(lines[n])
  BY DEF LineKeys, LineVals
<1> HIDE DEF N, keys, vals, Fields
<1>4. Loop(w, cfg, keys, vals, N)
  BY <1>2, LoopExists
<1>5. DOMAIN w = 0 .. N /\ w = [n \in 0 .. N |-> w[n]]
  OBVIOUS
<1> HIDE DEF w
<1>6. ASSUME NEW c, NEW n \in 0 .. N, n # 0
      PROVE  LoadLine(c, lines[n]) = Apply(c, keys[n], vals[n])
  <2>1. n \in 1 .. N
    BY <1>2, <1>6
  <2> QED
    BY <1>3, <2>1, LoadLineIs
<1>7. Eq(w)
  <2>1. ASSUME NEW n \in 0 .. N
        PROVE  w[n] = IF n = 0 THEN cfg ELSE LoadLine(w[n - 1], lines[n])
    BY <1>4, <1>6 DEF Loop
  <2> QED
    BY <1>5, <2>1
<1>8. Eq(g)
  <2> HIDE DEF Eq
  <2> QED
    BY <1>7
<1>9. Loop(g, cfg, keys, vals, N)
  <2> HIDE DEF g
  <2>1. ASSUME NEW n \in 0 .. N
        PROVE  g[n] = IF n = 0 THEN cfg ELSE LoadLine(g[n - 1], lines[n])
    BY <1>8
  <2> QED
    BY <1>6, <2>1 DEF Loop
<1> HIDE DEF g
<1>10. g[N] = After(cfg, keys, vals, N)
  BY <1>2, <1>9, LoopIs
<1> QED
  BY <1>1, <1>10 DEF N, keys, vals

LEMMA ApplyArgsIs ==
    ASSUME NEW cfg, IsConfig(cfg), NEW args, Len(args) \in Nat
    PROVE  ApplyArgs(cfg, args)
             = After(cfg, ArgKeys(args), ArgVals(args), Len(args))
<1> DEFINE N == Len(args)
           keys == ArgKeys(args)
           vals == ArgVals(args)
           Eq(f) == f = [n \in 0 .. N |-> IF n = 0 THEN cfg ELSE ApplyArg(f[n - 1], args[n])]
           g == CHOOSE f : Eq(f)
           w == [n \in 0 .. N |-> After(cfg, keys, vals, n)]
<1>1. ApplyArgs(cfg, args) = g[N]
  BY DEF ApplyArgs
<1>2. N \in Nat
  OBVIOUS
<1>3. \A n \in 1 .. N : keys[n] = ArgKey(args[n]) /\ vals[n] = ArgVal(args[n])
  BY DEF ArgKeys, ArgVals
<1> HIDE DEF N, keys, vals, Fields
<1>4. Loop(w, cfg, keys, vals, N)
  BY <1>2, LoopExists
<1>5. DOMAIN w = 0 .. N /\ w = [n \in 0 .. N |-> w[n]]
  OBVIOUS
<1> HIDE DEF w
<1>6. ASSUME NEW c, NEW n \in 0 .. N, n # 0
      PROVE  ApplyArg(c, args[n]) = Apply(c, keys[n], vals[n])
  <2>1. n \in 1 .. N
    BY <1>2, <1>6
  <2> QED
    BY <1>3, <2>1, ApplyArgIs
<1>7. Eq(w)
  <2>1. ASSUME NEW n \in 0 .. N
        PROVE  w[n] = IF n = 0 THEN cfg ELSE ApplyArg(w[n - 1], args[n])
    BY <1>4, <1>6 DEF Loop
  <2> QED
    BY <1>5, <2>1
<1>8. Eq(g)
  <2> HIDE DEF Eq
  <2> QED
    BY <1>7
<1>9. Loop(g, cfg, keys, vals, N)
  <2> HIDE DEF g
  <2>1. ASSUME NEW n \in 0 .. N
        PROVE  g[n] = IF n = 0 THEN cfg ELSE ApplyArg(g[n - 1], args[n])
    BY <1>8
  <2> QED
    BY <1>6, <2>1 DEF Loop
<1> HIDE DEF g
<1>10. g[N] = After(cfg, keys, vals, N)
  BY <1>2, <1>9, LoopIs
<1> QED
  BY <1>1, <1>10 DEF N, keys, vals

(* Config.h:5, for every file and every command line, whatever their texts *)
(* are and however many: a field has the value of the last argument that   *)
(* sets it; without one, that of the last line that does; without that,    *)
(* its default (Config.h:46-124, ShellApp.h:104-110).                      *)
THEOREM Precedence ==
    ASSUME NEW lines, Len(lines) \in Nat, NEW args, Len(args) \in Nat, NEW k \in DOMAIN Default
    PROVE  LET inArgs == {i \in 1 .. Len(args) : Sets(ArgKey(args[i]), k)}
               inFile == {i \in 1 .. Len(lines) : Sets(LineKey(lines[i]), k)}
           IN  LoadConfig(lines, args)[k]
                 = IF inArgs # {} THEN Value(k, ArgVal(args[Max(inArgs)]))
                   ELSE IF inFile # {} THEN Value(k, LineVal(lines[Max(inFile)]))
                   ELSE Default[k]
<1> DEFINE A == {i \in 1 .. Len(args) : Sets(ArgKey(args[i]), k)}
           F == {i \in 1 .. Len(lines) : Sets(LineKey(lines[i]), k)}
           loaded == LoadFromFile(Default, lines)
<1>1. IsConfig(Default) /\ k \in Fields
  BY DEF IsConfig, Fields, Default
<1> HIDE DEF Fields
<1>2. loaded = [x \in Fields |-> Final(Default, LineKeys(lines), LineVals(lines), Len(lines), x)]
  BY <1>1, LoadFromFileIs DEF After
<1>3. IsConfig(loaded)
  BY <1>2 DEF IsConfig
<1>4. loaded[k] = IF F = {} THEN Default[k] ELSE Value(k, LineVal(lines[Max(F)]))
  <2>1. loaded[k] = Final(Default, LineKeys(lines), LineVals(lines), Len(lines), k)
    BY <1>1, <1>2
  <2>2. F = {i \in 1 .. Len(lines) : Sets(LineKeys(lines)[i], k)}
    BY DEF LineKeys
  <2>3. Final(Default, LineKeys(lines), LineVals(lines), Len(lines), k)
          = IF F = {} THEN Default[k] ELSE Value(k, LineVals(lines)[Max(F)])
    BY <2>2 DEF Final
  <2>4. F # {} => Max(F) \in 1 .. Len(lines)
    <3>1. F \in SUBSET (1 .. Len(lines))
      OBVIOUS
    <3> HIDE DEF F
    <3> QED
      BY <3>1, MaxIs
  <2>5. F # {} => LineVals(lines)[Max(F)] = LineVal(lines[Max(F)])
    BY <2>4 DEF LineVals
  <2> HIDE DEF F
  <2> QED
    BY <2>1, <2>3, <2>5
<1> HIDE DEF loaded
<1>5. LoadConfig(lines, args)[k]
        = Final(loaded, ArgKeys(args), ArgVals(args), Len(args), k)
  <2>1. ApplyArgs(loaded, args)
          = [x \in Fields |-> Final(loaded, ArgKeys(args), ArgVals(args), Len(args), x)]
    BY <1>3, ApplyArgsIs DEF After
  <2> QED
    BY <1>1, <2>1 DEF LoadConfig, loaded
<1>6. LoadConfig(lines, args)[k] = IF A = {} THEN loaded[k] ELSE Value(k, ArgVal(args[Max(A)]))
  <2>1. A = {i \in 1 .. Len(args) : Sets(ArgKeys(args)[i], k)}
    BY DEF ArgKeys
  <2>2. Final(loaded, ArgKeys(args), ArgVals(args), Len(args), k)
          = IF A = {} THEN loaded[k] ELSE Value(k, ArgVals(args)[Max(A)])
    BY <2>1 DEF Final
  <2>3. A # {} => Max(A) \in 1 .. Len(args)
    <3>1. A \in SUBSET (1 .. Len(args))
      OBVIOUS
    <3> HIDE DEF A
    <3> QED
      BY <3>1, MaxIs
  <2>4. A # {} => ArgVals(args)[Max(A)] = ArgVal(args[Max(A)])
    BY <2>3 DEF ArgVals
  <2> HIDE DEF A
  <2> QED
    BY <1>5, <2>2, <2>4
<1> HIDE DEF A, F
<1>7. LoadConfig(lines, args)[k]
        = IF A # {} THEN Value(k, ArgVal(args[Max(A)]))
          ELSE IF F # {} THEN Value(k, LineVal(lines[Max(F)])) ELSE Default[k]
  BY <1>4, <1>6
<1> QED
  BY <1>7 DEF A, F

-----------------------------------------------------------------------------
(* The styles in which a setting is written.                               *)

\* What may stand for a key or a value.
Plain(x) == x \notin Blanks /\ x # Equals /\ x # Hash

LEMMA InkIsNoBlank ==
    /\ Equals \notin Blanks /\ Hash \notin Blanks /\ "x" \notin Blanks /\ Dashes \notin Blanks
    /\ Space \in Blanks /\ Tab \in Blanks /\ Return \in Blanks
  BY Zenon DEF Blanks, Space, Tab, Return, Hash, Equals, Dashes

LEMMA FieldIs ==
    ASSUME NEW k \in Fields
    PROVE  Plain(k) /\ k # "x" /\ k # Dashes
<1>1. k \in {"pool_size", "workers", "plugin_dir", "log_level", "queue_warn"}
  BY DEF Fields, Default
<1> QED
  BY <1>1, Zenon DEF Plain, Blanks, Space, Tab, Return, Hash, Equals, Dashes

\* Trim keeps what stands between the first and the last character that is no blank.
LEMMA TrimIs ==
    ASSUME NEW s, Len(s) \in Nat, DOMAIN s = 1 .. Len(s),
           NEW a \in 1 .. Len(s), NEW b \in 1 .. Len(s), s[a] \notin Blanks, s[b] \notin Blanks,
           \A i \in 1 .. Len(s) : i < a \/ i > b => s[i] \in Blanks
    PROVE  Trim(s) = SubSeq(s, a, b)
<1> DEFINE inked == {i \in DOMAIN s : s[i] \notin Blanks}
           first == CHOOSE i \in inked : \A j \in inked : i <= j
           last == CHOOSE i \in inked : \A j \in inked : j <= i
<1>1. a \in inked /\ b \in inked /\ \A i \in inked : i \in Nat /\ a <= i /\ i <= b
  OBVIOUS
<1>2. Trim(s) = SubSeq(s, first, last)
  BY <1>1 DEF Trim
<1> HIDE DEF inked
<1>3. first \in inked /\ \A j \in inked : first <= j
  BY <1>1
<1>4. last \in inked /\ \A j \in inked : j <= last
  BY <1>1
<1> HIDE DEF first, last
<1>5. first = a /\ last = b
  BY <1>1, <1>3, <1>4
<1> QED
  BY <1>2, <1>5

LEMMA TrimBlanks ==
    ASSUME NEW s, \A i \in DOMAIN s : s[i] \in Blanks
    PROVE  Trim(s) = <<>>
  BY DEF Trim

LEMMA FindIs ==
    ASSUME NEW s, Len(s) \in Nat, NEW c, NEW n \in 1 .. Len(s), s[n] = c,
           \A j \in 1 .. Len(s) : j < n => s[j] # c
    PROVE  Find(s, c) = n
<1> DEFINE I == {i \in 1 .. Len(s) : s[i] = c}
<1>1. n \in I /\ \A j \in I : j \in Nat /\ n <= j
  OBVIOUS
<1>2. Find(s, c) = Min(I)
  BY <1>1 DEF Find, SelectInSeq
<1> HIDE DEF I
<1>3. Min(I) \in I /\ \A j \in I : Min(I) <= j
  BY <1>1 DEF Min
<1>4. Min(I) \in Nat /\ n \in Nat /\ Min(I) <= n /\ n <= Min(I)
  BY <1>1, <1>3
<1> QED
  BY <1>2, <1>4

LEMMA FindNone ==
    ASSUME NEW s, NEW c, \A j \in 1 .. Len(s) : s[j] # c
    PROVE  Find(s, c) = 0
<1> DEFINE I == {i \in 1 .. Len(s) : s[i] = c}
<1>1. I = {}
  OBVIOUS
<1> QED
  BY <1>1 DEF Find, SelectInSeq

\* A piece of a text.
LEMMA CutIs ==
    ASSUME NEW C, NEW s \in Seq(C), NEW t \in Seq(C), NEW a \in Nat \ {0}, NEW b \in Nat,
           b <= Len(s), a + Len(t) = b + 1, \A i \in 1 .. Len(t) : t[i] = s[a + i - 1]
    PROVE  SubSeq(s, a, b) = t
<1>1. \A i \in a .. b : s[i] \in C
  OBVIOUS
<1> DEFINE u == SubSeq(s, a, b)
<1>2. /\ u \in Seq(C) /\ Len(u) = IF a <= b THEN b - a + 1 ELSE 0
      /\ \A i \in 1 .. b - a + 1 : u[i] = s[a + i - 1]
  BY <1>1, SubSeqProperties
<1> HIDE DEF u
<1>3. Len(u) = Len(t) /\ b - a + 1 = Len(t)
  BY <1>2
<1>4. u = t
  BY <1>2, <1>3, SeqEqual
<1> QED
  BY <1>4 DEF u

\* A text without blanks at its ends, and what it is when it stands between blanks.
LEMMA TrimSame ==
    ASSUME NEW C, NEW s \in Seq(C), Len(s) # 0, s[1] \notin Blanks, s[Len(s)] \notin Blanks
    PROVE  Trim(s) = s
<1>1. DOMAIN s = 1 .. Len(s) /\ Len(s) \in Nat /\ 1 \in 1 .. Len(s) /\ Len(s) \in 1 .. Len(s)
  OBVIOUS
<1>2. Trim(s) = SubSeq(s, 1, Len(s))
  BY <1>1, TrimIs
<1> QED
  BY <1>2, SubSeqFull

LEMMA TrimOne ==
    ASSUME NEW x, x \notin Blanks
    PROVE  Trim(<<x>>) = <<x>>
<1> DEFINE s == <<x>>
<1>1. s \in Seq({x}) /\ Len(s) = 1 /\ s[1] = x
  OBVIOUS
<1> HIDE DEF s
<1>2. Trim(s) = s
  BY <1>1, TrimSame
<1> QED
  BY <1>2 DEF s

LEMMA TrimTwo ==
    ASSUME NEW x, x \notin Blanks, NEW b \in Blanks
    PROVE  Trim(<<x, b>>) = <<x>> /\ Trim(<<b, x>>) = <<x>>
<1> DEFINE C == {x, b}
           s == <<x, b>>
           t == <<b, x>>
           u == <<x>>
<1>1. /\ s \in Seq(C) /\ Len(s) = 2 /\ s[1] = x /\ s[2] = b
      /\ t \in Seq(C) /\ Len(t) = 2 /\ t[1] = b /\ t[2] = x
      /\ u \in Seq(C) /\ Len(u) = 1 /\ u[1] = x
  OBVIOUS
<1> HIDE DEF C, s, t, u
<1>2. /\ Len(s) \in Nat /\ DOMAIN s = 1 .. Len(s) /\ 1 \in 1 .. Len(s) /\ s[1] \notin Blanks
      /\ \A i \in 1 .. Len(s) : i < 1 \/ i > 1 => s[i] \in Blanks
  BY <1>1
<1>3. Trim(s) = SubSeq(s, 1, 1)
  BY <1>2, TrimIs
<1>4. /\ Len(t) \in Nat /\ DOMAIN t = 1 .. Len(t) /\ 2 \in 1 .. Len(t) /\ t[2] \notin Blanks
      /\ \A i \in 1 .. Len(t) : i < 2 \/ i > 2 => t[i] \in Blanks
  BY <1>1
<1>7. Trim(t) = SubSeq(t, 2, 2)
  BY <1>4, TrimIs
<1>5. SubSeq(s, 1, 1) = u
  BY <1>1, CutIs
<1>6. SubSeq(t, 2, 2) = u
  BY <1>1, CutIs
<1> QED
  BY <1>3, <1>5, <1>6, <1>7 DEF s, t, u

\* The text of a line that sets name to val.
Parses(text, eq, name, val) ==
    /\ text # <<>> /\ text[1] # Hash /\ eq # 0 /\ name # <<>> /\ val # <<>>
    /\ Find(text, Equals) = eq
    /\ Trim(SubSeq(text, 1, eq - 1)) = name
    /\ Trim(SubSeq(text, eq + 1, Len(text))) = val

LEMMA LineParsed ==
    ASSUME NEW raw, NEW eq, NEW name, NEW val, Parses(Trim(raw), eq, name, val)
    PROVE  LineKey(raw) = name /\ LineVal(raw) = val
<1>1. LineEq(raw) = eq
  BY DEF LineEq, Parses
<1>2. LineName(raw) = name /\ LineVal(raw) = val
  BY <1>1 DEF LineName, LineVal, Parses
<1> QED
  BY <1>1, <1>2 DEF LineKey, Parses

LEMMA PlainLine ==
    ASSUME NEW k, Plain(k), NEW v, v \notin Blanks
    PROVE  LineKey(<<k, Equals, v>>) = <<k>> /\ LineVal(<<k, Equals, v>>) = <<v>>
<1> DEFINE C == {k, Equals, v}
           s == <<k, Equals, v>>
           name == <<k>>
           val == <<v>>
<1>1. /\ s \in Seq(C) /\ Len(s) = 3 /\ s[1] = k /\ s[2] = Equals /\ s[3] = v /\ s # <<>>
      /\ name \in Seq(C) /\ Len(name) = 1 /\ name[1] = k /\ name # <<>>
      /\ val \in Seq(C) /\ Len(val) = 1 /\ val[1] = v /\ val # <<>>
  OBVIOUS
<1>2. Trim(name) = name /\ Trim(val) = val
  BY TrimOne DEF Plain
<1> HIDE DEF C, s, name, val
<1>3. Trim(s) = s
  <2>1. s \in Seq(C) /\ Len(s) # 0 /\ s[1] \notin Blanks /\ s[Len(s)] \notin Blanks
    BY <1>1 DEF Plain
  <2> QED
    BY <2>1, TrimSame
<1>4. Find(s, Equals) = 2
  <2>1. /\ Len(s) \in Nat /\ 2 \in 1 .. Len(s) /\ s[2] = Equals
        /\ \A j \in 1 .. Len(s) : j < 2 => s[j] # Equals
    BY <1>1 DEF Plain
  <2> QED
    BY <2>1, FindIs
<1>5. SubSeq(s, 1, 1) = name
  BY <1>1, CutIs
<1>6. SubSeq(s, 3, 3) = val
  BY <1>1, CutIs
<1>7. Parses(s, 2, name, val)
  <2>1. s[1] # Hash /\ 2 - 1 = 1 /\ 2 + 1 = 3 /\ 2 # 0 /\ Len(s) = 3
    BY <1>1 DEF Plain
  <2> QED
    BY <1>1, <1>2, <1>4, <1>5, <1>6, <2>1 DEF Parses
<1>8. LineKey(s) = name /\ LineVal(s) = val
  BY <1>3, <1>7, LineParsed
<1> QED
  BY <1>8 DEF s, name, val

LEMMA TwiceLine ==
    ASSUME NEW k, Plain(k), NEW v, v \notin Blanks
    PROVE  LineKey(<<k, Equals, v, Equals, v>>) = <<k>> /\ LineVal(<<k, Equals, v, Equals, v>>) = <<v, Equals, v>>
<1> DEFINE C == {k, Equals, v}
           s == <<k, Equals, v, Equals, v>>
           name == <<k>>
           val == <<v, Equals, v>>
<1>1. /\ s \in Seq(C) /\ Len(s) = 5 /\ s[1] = k /\ s[2] = Equals /\ s[3] = v /\ s[4] = Equals
      /\ s[5] = v /\ s # <<>>
      /\ name \in Seq(C) /\ Len(name) = 1 /\ name[1] = k /\ name # <<>>
      /\ val \in Seq(C) /\ Len(val) = 3 /\ val[1] = v /\ val[2] = Equals /\ val[3] = v
      /\ val # <<>>
  OBVIOUS
<1>2. Trim(name) = name
  BY TrimOne DEF Plain
<1> HIDE DEF C, s, name, val
<1>3. Trim(s) = s
  <2>1. s \in Seq(C) /\ Len(s) # 0 /\ s[1] \notin Blanks /\ s[Len(s)] \notin Blanks
    BY <1>1 DEF Plain
  <2> QED
    BY <2>1, TrimSame
<1>4. Trim(val) = val
  <2>1. val \in Seq(C) /\ Len(val) # 0 /\ val[1] \notin Blanks /\ val[Len(val)] \notin Blanks
    BY <1>1 DEF Plain
  <2> QED
    BY <2>1, TrimSame
<1>5. Find(s, Equals) = 2
  <2>1. /\ Len(s) \in Nat /\ 2 \in 1 .. Len(s) /\ s[2] = Equals
        /\ \A j \in 1 .. Len(s) : j < 2 => s[j] # Equals
    BY <1>1 DEF Plain
  <2> QED
    BY <2>1, FindIs
<1>6. SubSeq(s, 1, 1) = name
  BY <1>1, CutIs
<1>7. SubSeq(s, 3, 5) = val
  <2>1. \A i \in 1 .. Len(val) : val[i] = s[3 + i - 1]
    BY <1>1
  <2> QED
    BY <1>1, <2>1, CutIs
<1>8. Parses(s, 2, name, val)
  <2>1. s[1] # Hash /\ 2 - 1 = 1 /\ 2 + 1 = 3 /\ 2 # 0 /\ Len(s) = 5
    BY <1>1 DEF Plain
  <2> QED
    BY <1>1, <1>2, <1>4, <1>5, <1>6, <1>7, <2>1 DEF Parses
<1>9. LineKey(s) = name /\ LineVal(s) = val
  BY <1>3, <1>8, LineParsed
<1> QED
  BY <1>9 DEF s, name, val

LEMMA SpacedText ==
    ASSUME NEW k, Plain(k), NEW v, v \notin Blanks, NEW a \in Blanks, NEW b \in Blanks,
           NEW c \in Blanks, NEW d \in Blanks, NEW e, e = Equals
    PROVE  /\ LineKey(<<a, k, b, e, c, v, d>>) = <<k>>
           /\ LineVal(<<a, k, b, e, c, v, d>>) = <<v>>
<1> DEFINE C == {k, v, a, b, c, d, e}
           r == <<a, k, b, e, c, v, d>>
           s == <<k, b, e, c, v>>
           nameS == <<k, b>>
           valS == <<c, v>>
           name == <<k>>
           val == <<v>>
<1>0. b # e /\ k # e /\ k \notin Blanks /\ v \notin Blanks /\ k # Hash
  <2>1. b # e
    BY InkIsNoBlank
  <2> QED
    BY <2>1 DEF Plain
<1>1. /\ r \in Seq(C) /\ Len(r) = 7 /\ r[1] = a /\ r[2] = k /\ r[3] = b /\ r[4] = e
      /\ r[5] = c /\ r[6] = v /\ r[7] = d
  OBVIOUS
<1>a. s \in Seq(C) /\ Len(s) = 5 /\ s[1] = k /\ s[2] = b /\ s[3] = e /\ s[4] = c /\ s[5] = v
  OBVIOUS
<1>b. nameS \in Seq(C) /\ Len(nameS) = 2 /\ nameS[1] = k /\ nameS[2] = b
  OBVIOUS
<1>c. valS \in Seq(C) /\ Len(valS) = 2 /\ valS[1] = c /\ valS[2] = v
  OBVIOUS
<1>d. s # <<>> /\ name # <<>> /\ val # <<>>
  OBVIOUS
<1>2. Trim(nameS) = name /\ Trim(valS) = val
  BY <1>0, TrimTwo
<1> HIDE DEF C, r, s, nameS, valS, name, val
<1>3. Trim(r) = s
  <2>1. DOMAIN r = 1 .. Len(r) /\ Len(r) \in Nat
    BY <1>1
  <2>2. 2 \in 1 .. Len(r) /\ 6 \in 1 .. Len(r) /\ r[2] \notin Blanks /\ r[6] \notin Blanks
    BY <1>0, <1>1
  <2>3. \A i \in 1 .. Len(r) : i < 2 \/ i > 6 => r[i] \in Blanks
    <3> SUFFICES ASSUME NEW i \in 1 .. Len(r), i < 2 \/ i > 6 PROVE r[i] \in Blanks
      OBVIOUS
    <3>1. i = 1 \/ i = 7
      BY <1>1
    <3> QED
      BY <1>1, <3>1
  <2>4. Trim(r) = SubSeq(r, 2, 6)
    BY <2>1, <2>2, <2>3, TrimIs
  <2>5. \A i \in 1 .. Len(s) : s[i] = r[2 + i - 1]
    <3> SUFFICES ASSUME NEW i \in 1 .. Len(s) PROVE s[i] = r[2 + i - 1]
      OBVIOUS
    <3>1. i = 1 \/ i = 2 \/ i = 3 \/ i = 4 \/ i = 5
      BY <1>a
    <3> QED
      BY <1>1, <1>a, <3>1
  <2>6. 2 \in Nat \ {0} /\ 6 \in Nat /\ 6 <= Len(r) /\ 2 + Len(s) = 6 + 1
    BY <1>1, <1>a
  <2>7. r \in Seq(C) /\ s \in Seq(C)
    BY <1>1, <1>a
  <2>8. SubSeq(r, 2, 6) = s
    BY <2>5, <2>6, <2>7, CutIs
  <2> QED
    BY <2>4, <2>8
<1>4. Find(s, Equals) = 3
  <2>1. Len(s) \in Nat /\ 3 \in 1 .. Len(s) /\ s[3] = Equals
    BY <1>a
  <2>2. \A j \in 1 .. Len(s) : j < 3 => s[j] # Equals
    <3> SUFFICES ASSUME NEW j \in 1 .. Len(s), j < 3 PROVE s[j] # Equals
      OBVIOUS
    <3>1. j = 1 \/ j = 2
      OBVIOUS
    <3> QED
      BY <1>0, <1>a, <3>1
  <2> QED
    BY <2>1, <2>2, FindIs
<1>5. SubSeq(s, 1, 2) = nameS
  <2>1. \A i \in 1 .. Len(nameS) : nameS[i] = s[1 + i - 1]
    <3> SUFFICES ASSUME NEW i \in 1 .. Len(nameS) PROVE nameS[i] = s[1 + i - 1]
      OBVIOUS
    <3>1. i = 1 \/ i = 2
      BY <1>b
    <3> QED
      BY <1>a, <1>b, <3>1
  <2>2. 1 \in Nat \ {0} /\ 2 \in Nat /\ 2 <= Len(s) /\ 1 + Len(nameS) = 2 + 1
    BY <1>a, <1>b
  <2>3. s \in Seq(C) /\ nameS \in Seq(C)
    BY <1>a, <1>b
  <2> QED
    BY <2>1, <2>2, <2>3, CutIs
<1>6. SubSeq(s, 4, 5) = valS
  <2>1. \A i \in 1 .. Len(valS) : valS[i] = s[4 + i - 1]
    <3> SUFFICES ASSUME NEW i \in 1 .. Len(valS) PROVE valS[i] = s[4 + i - 1]
      OBVIOUS
    <3>1. i = 1 \/ i = 2
      BY <1>c
    <3> QED
      BY <1>a, <1>c, <3>1
  <2>2. 4 \in Nat \ {0} /\ 5 \in Nat /\ 5 <= Len(s) /\ 4 + Len(valS) = 5 + 1
    BY <1>a, <1>c
  <2>3. s \in Seq(C) /\ valS \in Seq(C)
    BY <1>a, <1>c
  <2> QED
    BY <2>1, <2>2, <2>3, CutIs
<1>7. Parses(s, 3, name, val)
  <2>1. s[1] # Hash /\ 3 - 1 = 2 /\ 3 + 1 = 4 /\ 3 # 0 /\ Len(s) = 5
    BY <1>0, <1>a
  <2> QED
    BY <1>2, <1>4, <1>5, <1>6, <1>d, <2>1 DEF Parses
<1>8. LineKey(r) = name /\ LineVal(r) = val
  BY <1>3, <1>7, LineParsed
<1> QED
  BY <1>8 DEF r, name, val
\* The lines that set nothing.
LEMMA CommentText ==
    ASSUME NEW k, NEW v, v \notin Blanks, NEW a \in Blanks, NEW h, h = Hash, NEW e
    PROVE  LineKey(<<a, h, k, e, v>>) = <<>>
<1> DEFINE C == {k, v, a, h, e}
           r == <<a, h, k, e, v>>
           s == <<h, k, e, v>>
<1>0. h \notin Blanks /\ v \notin Blanks
  BY InkIsNoBlank DEF Plain
<1>1. r \in Seq(C) /\ Len(r) = 5 /\ r[1] = a /\ r[2] = h /\ r[3] = k /\ r[4] = e /\ r[5] = v
  OBVIOUS
<1>2. s \in Seq(C) /\ Len(s) = 4 /\ s[1] = h /\ s[2] = k /\ s[3] = e /\ s[4] = v
  OBVIOUS
<1> HIDE DEF C, r, s
<1>3. Trim(r) = s
  <2>1. DOMAIN r = 1 .. Len(r) /\ Len(r) \in Nat
    BY <1>1
  <2>2. 2 \in 1 .. Len(r) /\ 5 \in 1 .. Len(r) /\ r[2] \notin Blanks /\ r[5] \notin Blanks
    BY <1>0, <1>1
  <2>3. \A i \in 1 .. Len(r) : i < 2 \/ i > 5 => r[i] \in Blanks
    <3> SUFFICES ASSUME NEW i \in 1 .. Len(r), i < 2 \/ i > 5 PROVE r[i] \in Blanks
      OBVIOUS
    <3>1. i = 1
      BY <1>1
    <3> QED
      BY <1>1, <3>1
  <2>4. Trim(r) = SubSeq(r, 2, 5)
    BY <2>1, <2>2, <2>3, TrimIs
  <2>5. \A i \in 1 .. Len(s) : s[i] = r[2 + i - 1]
    <3> SUFFICES ASSUME NEW i \in 1 .. Len(s) PROVE s[i] = r[2 + i - 1]
      OBVIOUS
    <3>1. i = 1 \/ i = 2 \/ i = 3 \/ i = 4
      BY <1>2
    <3> QED
      BY <1>1, <1>2, <3>1
  <2>6. 2 \in Nat \ {0} /\ 5 \in Nat /\ 5 <= Len(r) /\ 2 + Len(s) = 5 + 1
    BY <1>1, <1>2
  <2>7. r \in Seq(C) /\ s \in Seq(C)
    BY <1>1, <1>2
  <2>8. SubSeq(r, 2, 5) = s
    BY <2>5, <2>6, <2>7, CutIs
  <2> QED
    BY <2>4, <2>8
<1>4. Trim(r)[1] = Hash
  BY <1>2, <1>3
<1>5. LineKey(r) = <<>>
  BY <1>4 DEF LineKey
<1> QED
  BY <1>5 DEF r

LEMMA BareText ==
    ASSUME NEW k, Plain(k)
    PROVE  LineKey(<<k>>) = <<>>
<1> DEFINE s == <<k>>
<1>1. Len(s) = 1 /\ s[1] = k
  OBVIOUS
<1>2. Trim(s) = s
  BY TrimOne DEF Plain
<1> HIDE DEF s
<1>3. \A j \in 1 .. Len(s) : s[j] # Equals
  BY <1>1 DEF Plain
<1>4. LineEq(s) = 0
  BY <1>2, <1>3, FindNone DEF LineEq
<1>5. LineKey(s) = <<>>
  BY <1>4 DEF LineKey
<1> QED
  BY <1>5 DEF s

LEMMA BlankText ==
    ASSUME NEW k, Plain(k), NEW e, e = Equals, NEW b \in Blanks
    PROVE  LineKey(<<k, e, b>>) = <<>>
<1> DEFINE C == {k, e, b}
           r == <<k, e, b>>
           s == <<k, e>>
<1>0. k \notin Blanks /\ e \notin Blanks /\ k # e
  BY InkIsNoBlank DEF Plain
<1>1. r \in Seq(C) /\ Len(r) = 3 /\ r[1] = k /\ r[2] = e /\ r[3] = b
  OBVIOUS
<1>2. s \in Seq(C) /\ Len(s) = 2 /\ s[1] = k /\ s[2] = e
  OBVIOUS
<1> HIDE DEF C, r, s
<1>3. Trim(r) = s
  <2>1. DOMAIN r = 1 .. Len(r) /\ Len(r) \in Nat
    BY <1>1
  <2>2. 1 \in 1 .. Len(r) /\ 2 \in 1 .. Len(r) /\ r[1] \notin Blanks /\ r[2] \notin Blanks
    BY <1>0, <1>1
  <2>3. \A i \in 1 .. Len(r) : i < 1 \/ i > 2 => r[i] \in Blanks
    <3> SUFFICES ASSUME NEW i \in 1 .. Len(r), i < 1 \/ i > 2 PROVE r[i] \in Blanks
      OBVIOUS
    <3>1. i = 3
      BY <1>1
    <3> QED
      BY <1>1, <3>1
  <2>4. Trim(r) = SubSeq(r, 1, 2)
    BY <2>1, <2>2, <2>3, TrimIs
  <2>5. \A i \in 1 .. Len(s) : s[i] = r[1 + i - 1]
    <3> SUFFICES ASSUME NEW i \in 1 .. Len(s) PROVE s[i] = r[1 + i - 1]
      OBVIOUS
    <3>1. i = 1 \/ i = 2
      BY <1>2
    <3> QED
      BY <1>1, <1>2, <3>1
  <2>6. 1 \in Nat \ {0} /\ 2 \in Nat /\ 2 <= Len(r) /\ 1 + Len(s) = 2 + 1
    BY <1>1, <1>2
  <2>7. r \in Seq(C) /\ s \in Seq(C)
    BY <1>1, <1>2
  <2>8. SubSeq(r, 1, 2) = s
    BY <2>5, <2>6, <2>7, CutIs
  <2> QED
    BY <2>4, <2>8
<1>4. Find(s, Equals) = 2
  <2>1. Len(s) \in Nat /\ 2 \in 1 .. Len(s) /\ s[2] = Equals
    BY <1>2
  <2>2. \A j \in 1 .. Len(s) : j < 2 => s[j] # Equals
    BY <1>0, <1>2
  <2> QED
    BY <2>1, <2>2, FindIs
<1>5. SubSeq(s, 3, 2) = <<>>
  BY SubSeqEmpty
<1>6. LineEq(r) = 2 /\ 2 + 1 = 3 /\ Len(Trim(r)) = 2
  BY <1>2, <1>3, <1>4 DEF LineEq
<1>7. Trim(<<>>) = <<>>
  BY TrimBlanks
<1>8. LineVal(r) = <<>>
  BY <1>3, <1>5, <1>6, <1>7 DEF LineVal
<1>9. LineKey(r) = <<>>
  BY <1>8 DEF LineKey
<1> QED
  BY <1>9 DEF r

LEMMA KeylessText ==
    ASSUME NEW e, e = Equals, NEW v, v \notin Blanks
    PROVE  LineKey(<<e, v>>) = <<>>
<1> DEFINE C == {e, v}
           s == <<e, v>>
<1>0. e \notin Blanks /\ v \notin Blanks
  BY InkIsNoBlank DEF Plain
<1>1. s \in Seq(C) /\ Len(s) = 2 /\ s[1] = e /\ s[2] = v
  OBVIOUS
<1> HIDE DEF C, s
<1>2. Trim(s) = s
  <2>1. s \in Seq(C) /\ Len(s) # 0 /\ s[1] \notin Blanks /\ s[Len(s)] \notin Blanks
    BY <1>0, <1>1
  <2> QED
    BY <2>1, TrimSame
<1>3. Find(s, Equals) = 1
  <2>1. Len(s) \in Nat /\ 1 \in 1 .. Len(s) /\ s[1] = Equals
    BY <1>1
  <2>2. \A j \in 1 .. Len(s) : j < 1 => s[j] # Equals
    BY <1>1
  <2> QED
    BY <2>1, <2>2, FindIs
<1>4. LineEq(s) = 1 /\ 1 - 1 = 0
  BY <1>2, <1>3 DEF LineEq
<1>5. SubSeq(s, 1, 0) = <<>>
  BY SubSeqEmpty
<1>6. Trim(<<>>) = <<>>
  BY TrimBlanks
<1>7. LineName(s) = <<>>
  BY <1>2, <1>4, <1>5, <1>6 DEF LineName
<1>8. LineKey(s) = <<>>
  BY <1>7 DEF LineKey
<1> QED
  BY <1>8 DEF s
\* What follows the dashes of an argument.
LEMMA TailIs ==
    ASSUME NEW C, NEW s \in Seq(C), s # <<>>, NEW t \in Seq(C), Len(s) = Len(t) + 1,
           \A i \in 1 .. Len(t) : t[i] = s[i + 1]
    PROVE  Tail(s) = t
<1> DEFINE u == Tail(s)
<1>1. u \in Seq(C) /\ Len(u) = Len(t)
  BY HeadTailProperties
<1>2. \A i \in 1 .. Len(u) : u[i] = t[i]
  <2>1. \A i \in 1 .. Len(u) : u[i] = s[i + 1]
    BY HeadTailProperties
  <2> HIDE DEF u
  <2> QED
    BY <1>1, <2>1
<1> HIDE DEF u
<1>3. u = t
  BY <1>1, <1>2, SeqEqual
<1> QED
  BY <1>3 DEF u

\* An argument, cut at its first equals sign.
LEMMA ArgParsed ==
    ASSUME NEW arg, arg # <<>>, arg[1] = Dashes, NEW text, Tail(arg) = text,
           NEW eq, Find(text, Equals) = eq, eq # 0, NEW name, SubSeq(text, 1, eq - 1) = name,
           NEW val, SubSeq(text, eq + 1, Len(text)) = val
    PROVE  ArgKey(arg) = name /\ ArgVal(arg) = val
<1>1. ArgEq(arg) = eq
  BY DEF ArgEq
<1> QED
  BY <1>1 DEF ArgKey, ArgVal

LEMMA DoubleArg ==
    ASSUME NEW k, Plain(k), NEW v, NEW m, m = Dashes, NEW e, e = Equals
    PROVE  ArgKey(<<m, k, e, v>>) = <<k>> /\ ArgVal(<<m, k, e, v>>) = <<v>>
<1> DEFINE C == {m, k, e, v}
           r == <<m, k, e, v>>
           s == <<k, e, v>>
           name == <<k>>
           val == <<v>>
<1>0. k # e
  BY DEF Plain
<1>1. r \in Seq(C) /\ Len(r) = 4 /\ r[1] = m /\ r[2] = k /\ r[3] = e /\ r[4] = v /\ r # <<>>
  OBVIOUS
<1>2. s \in Seq(C) /\ Len(s) = 3 /\ s[1] = k /\ s[2] = e /\ s[3] = v
  OBVIOUS
<1>a. name \in Seq(C) /\ Len(name) = 1 /\ name[1] = k
  OBVIOUS
<1>b. val \in Seq(C) /\ Len(val) = 1 /\ val[1] = v
  OBVIOUS
<1> HIDE DEF C, r, s, name, val
<1>3. Tail(r) = s
  <2>1. \A i \in 1 .. Len(s) : s[i] = r[i + 1]
    <3> SUFFICES ASSUME NEW i \in 1 .. Len(s) PROVE s[i] = r[i + 1]
      OBVIOUS
    <3>1. i = 1 \/ i = 2 \/ i = 3
      BY <1>2
    <3> QED
      BY <1>1, <1>2, <3>1
  <2>2. r \in Seq(C) /\ r # <<>> /\ s \in Seq(C) /\ Len(r) = Len(s) + 1
    BY <1>1, <1>2
  <2> QED
    BY <2>1, <2>2, TailIs
<1>4. Find(s, Equals) = 2
  <2>1. Len(s) \in Nat /\ 2 \in 1 .. Len(s) /\ s[2] = Equals
    BY <1>2
  <2>2. \A j \in 1 .. Len(s) : j < 2 => s[j] # Equals
    BY <1>0, <1>2
  <2> QED
    BY <2>1, <2>2, FindIs
<1>5. SubSeq(s, 1, 1) = name
  BY <1>2, <1>a, CutIs
<1>6. SubSeq(s, 3, 3) = val
  BY <1>2, <1>b, CutIs
<1>7. 2 - 1 = 1 /\ 2 + 1 = 3 /\ 2 # 0 /\ Len(s) = 3 /\ r # <<>> /\ r[1] = Dashes
  BY <1>1, <1>2
<1>8. SubSeq(s, 1, 2 - 1) = name /\ SubSeq(s, 2 + 1, Len(s)) = val
  BY <1>5, <1>6, <1>7
<1>9. ArgKey(r) = name /\ ArgVal(r) = val
  BY <1>3, <1>4, <1>7, <1>8, ArgParsed
<1> QED
  BY <1>9 DEF r, name, val

LEMMA EmptyArg ==
    ASSUME NEW k, Plain(k), NEW m, m = Dashes, NEW e, e = Equals
    PROVE  ArgKey(<<m, k, e>>) = <<k>> /\ ArgVal(<<m, k, e>>) = <<>>
<1> DEFINE C == {m, k, e}
           r == <<m, k, e>>
           s == <<k, e>>
           name == <<k>>
<1>0. k # e
  BY DEF Plain
<1>1. r \in Seq(C) /\ Len(r) = 3 /\ r[1] = m /\ r[2] = k /\ r[3] = e /\ r # <<>>
  OBVIOUS
<1>2. s \in Seq(C) /\ Len(s) = 2 /\ s[1] = k /\ s[2] = e
  OBVIOUS
<1>a. name \in Seq(C) /\ Len(name) = 1 /\ name[1] = k
  OBVIOUS
<1> HIDE DEF C, r, s, name
<1>3. Tail(r) = s
  <2>1. \A i \in 1 .. Len(s) : s[i] = r[i + 1]
    <3> SUFFICES ASSUME NEW i \in 1 .. Len(s) PROVE s[i] = r[i + 1]
      OBVIOUS
    <3>1. i = 1 \/ i = 2
      BY <1>2
    <3> QED
      BY <1>1, <1>2, <3>1
  <2>2. r \in Seq(C) /\ r # <<>> /\ s \in Seq(C) /\ Len(r) = Len(s) + 1
    BY <1>1, <1>2
  <2> QED
    BY <2>1, <2>2, TailIs
<1>4. Find(s, Equals) = 2
  <2>1. Len(s) \in Nat /\ 2 \in 1 .. Len(s) /\ s[2] = Equals
    BY <1>2
  <2>2. \A j \in 1 .. Len(s) : j < 2 => s[j] # Equals
    BY <1>0, <1>2
  <2> QED
    BY <2>1, <2>2, FindIs
<1>5. SubSeq(s, 1, 1) = name
  BY <1>2, <1>a, CutIs
<1>6. SubSeq(s, 3, 2) = <<>>
  BY SubSeqEmpty
<1>7. 2 - 1 = 1 /\ 2 + 1 = 3 /\ 2 # 0 /\ Len(s) = 2 /\ r # <<>> /\ r[1] = Dashes
  BY <1>1, <1>2
<1>8. SubSeq(s, 1, 2 - 1) = name /\ SubSeq(s, 2 + 1, Len(s)) = <<>>
  BY <1>5, <1>6, <1>7
<1>9. ArgKey(r) = name /\ ArgVal(r) = <<>>
  BY <1>3, <1>4, <1>7, <1>8, ArgParsed
<1> QED
  BY <1>9 DEF r, name

\* The arguments that set nothing, or a key that is none.
LEMMA SingleArg ==
    ASSUME NEW k, k # Dashes, NEW v, NEW e
    PROVE  ArgKey(<<k, e, v>>) = <<>>
  BY DEF ArgKey

LEMMA BareArg ==
    ASSUME NEW k, Plain(k), NEW m
    PROVE  ArgKey(<<m, k>>) = <<>>
<1> DEFINE C == {m, k}
           r == <<m, k>>
           s == <<k>>
<1>1. r \in Seq(C) /\ Len(r) = 2 /\ r[1] = m /\ r[2] = k /\ r # <<>>
  OBVIOUS
<1>2. s \in Seq(C) /\ Len(s) = 1 /\ s[1] = k
  OBVIOUS
<1> HIDE DEF C, r, s
<1>3. Tail(r) = s
  <2>1. \A i \in 1 .. Len(s) : s[i] = r[i + 1]
    BY <1>1, <1>2
  <2>2. r \in Seq(C) /\ r # <<>> /\ s \in Seq(C) /\ Len(r) = Len(s) + 1
    BY <1>1, <1>2
  <2> QED
    BY <2>1, <2>2, TailIs
<1>4. \A j \in 1 .. Len(s) : s[j] # Equals
  BY <1>2 DEF Plain
<1>5. ArgEq(r) = 0
  BY <1>3, <1>4, FindNone DEF ArgEq
<1>6. ArgKey(r) = <<>>
  BY <1>5 DEF ArgKey
<1> QED
  BY <1>6 DEF r

LEMMA PaddedArg ==
    ASSUME NEW k, Plain(k), NEW v, NEW m, m = Dashes, NEW b \in Blanks, NEW e, e = Equals
    PROVE  Len(ArgKey(<<m, k, b, e, v>>)) = 2
<1> DEFINE C == {m, k, b, e, v}
           r == <<m, k, b, e, v>>
           s == <<k, b, e, v>>
           name == <<k, b>>
<1>0. k # e /\ b # e
  BY InkIsNoBlank DEF Plain
<1>1. /\ r \in Seq(C) /\ Len(r) = 5 /\ r[1] = m /\ r[2] = k /\ r[3] = b /\ r[4] = e /\ r[5] = v
      /\ r # <<>>
  OBVIOUS
<1>2. s \in Seq(C) /\ Len(s) = 4 /\ s[1] = k /\ s[2] = b /\ s[3] = e /\ s[4] = v
  OBVIOUS
<1>a. name \in Seq(C) /\ Len(name) = 2 /\ name[1] = k /\ name[2] = b
  OBVIOUS
<1> HIDE DEF C, r, s, name
<1>3. Tail(r) = s
  <2>1. \A i \in 1 .. Len(s) : s[i] = r[i + 1]
    <3> SUFFICES ASSUME NEW i \in 1 .. Len(s) PROVE s[i] = r[i + 1]
      OBVIOUS
    <3>1. i = 1 \/ i = 2 \/ i = 3 \/ i = 4
      BY <1>2
    <3> QED
      BY <1>1, <1>2, <3>1
  <2>2. r \in Seq(C) /\ r # <<>> /\ s \in Seq(C) /\ Len(r) = Len(s) + 1
    BY <1>1, <1>2
  <2> QED
    BY <2>1, <2>2, TailIs
<1>4. Find(s, Equals) = 3
  <2>1. Len(s) \in Nat /\ 3 \in 1 .. Len(s) /\ s[3] = Equals
    BY <1>2
  <2>2. \A j \in 1 .. Len(s) : j < 3 => s[j] # Equals
    <3> SUFFICES ASSUME NEW j \in 1 .. Len(s), j < 3 PROVE s[j] # Equals
      OBVIOUS
    <3>1. j = 1 \/ j = 2
      OBVIOUS
    <3> QED
      BY <1>0, <1>2, <3>1
  <2> QED
    BY <2>1, <2>2, FindIs
<1>5. SubSeq(s, 1, 2) = name
  <2>1. \A i \in 1 .. Len(name) : name[i] = s[1 + i - 1]
    <3> SUFFICES ASSUME NEW i \in 1 .. Len(name) PROVE name[i] = s[1 + i - 1]
      OBVIOUS
    <3>1. i = 1 \/ i = 2
      BY <1>a
    <3> QED
      BY <1>2, <1>a, <3>1
  <2>2. 1 \in Nat \ {0} /\ 2 \in Nat /\ 2 <= Len(s) /\ 1 + Len(name) = 2 + 1
    BY <1>2, <1>a
  <2>3. s \in Seq(C) /\ name \in Seq(C)
    BY <1>2, <1>a
  <2> QED
    BY <2>1, <2>2, <2>3, CutIs
<1>6. 3 - 1 = 2 /\ 3 # 0 /\ r # <<>> /\ r[1] = Dashes
  BY <1>1
<1>7. SubSeq(s, 1, 3 - 1) = name
  BY <1>5, <1>6
<1>8. ArgKey(r) = name
  BY <1>3, <1>4, <1>6, <1>7, ArgParsed
<1>9. Len(ArgKey(r)) = 2
  BY <1>8, <1>a
<1> QED
  BY <1>9 DEF r
\* The text of a setting in each style.
LEMMA FileTexts ==
    ASSUME NEW k, NEW v
    PROVE  /\ InFile(k, v)["plain"] = <<k, Equals, v>>
           /\ InFile(k, v)["spaced"] = <<Space, k, Space, Equals, Tab, v, Return>>
           /\ InFile(k, v)["twice"] = <<k, Equals, v, Equals, v>>
           /\ InFile(k, v)["comment"] = <<Space, Hash, k, Equals, v>>
           /\ InFile(k, v)["bare"] = <<k>>
           /\ InFile(k, v)["blank"] = <<k, Equals, Space>>
           /\ InFile(k, v)["keyless"] = <<Equals, v>>
           /\ InFile(k, v)["unknown"] = <<"x", Equals, v>>
  BY DEF InFile

LEMMA ArgTexts ==
    ASSUME NEW k, NEW v
    PROVE  /\ OnCommandLine(k, v)["double"] = <<Dashes, k, Equals, v>>
           /\ OnCommandLine(k, v)["empty"] = <<Dashes, k, Equals>>
           /\ OnCommandLine(k, v)["single"] = <<k, Equals, v>>
           /\ OnCommandLine(k, v)["bare"] = <<Dashes, k>>
           /\ OnCommandLine(k, v)["padded"] = <<Dashes, k, Space, Equals, v>>
  BY DEF OnCommandLine

\* A text gives k the value of the setting g if g counts for k, and else nothing.
Says(key, val, g, k) ==
    /\ Sets(key, k) <=> g.key = k /\ g.style \in Counts
    /\ Sets(key, k) => Value(k, val) = Meant(g)

LEMMA SaysOne ==
    ASSUME NEW g, g.style \in {"plain", "spaced", "double"}, NEW k
    PROVE  Says(<<g.key>>, <<g.val>>, g, k)
<1>1. g.style \in Counts
  BY DEF Counts
<1>2. Meant(g) = Value(g.key, <<g.val>>)
  BY DEF Meant, Value
<1> QED
  BY <1>1, <1>2 DEF Says, Sets

LEMMA SaysTwice ==
    ASSUME NEW g, g.style = "twice", NEW k
    PROVE  Says(<<g.key>>, <<g.val, Equals, g.val>>, g, k)
<1>1. g.style \in Counts
  BY DEF Counts
<1>2. Meant(g) = Value(g.key, <<g.val, Equals, g.val>>)
  BY DEF Meant, Value
<1> QED
  BY <1>1, <1>2 DEF Says, Sets

LEMMA SaysEmpty ==
    ASSUME NEW g, g.style = "empty", NEW k
    PROVE  Says(<<g.key>>, <<>>, g, k)
<1>1. g.style \in Counts
  BY DEF Counts
<1>2. Meant(g) = Value(g.key, <<>>)
  BY DEF Meant, Value
<1> QED
  BY <1>1, <1>2 DEF Says, Sets

LEMMA SaysNothing ==
    ASSUME NEW g, g.style \notin Counts, NEW key, NEW val, NEW k, ~Sets(key, k)
    PROVE  Says(key, val, g, k)
  BY DEF Says

LEMMA SaysNoKey ==
    ASSUME NEW g, g.style \in {"comment", "bare", "blank", "keyless", "single"},
           NEW val, NEW k
    PROVE  Says(<<>>, val, g, k)
<1>1. g.style \notin Counts /\ ~Sets(<<>>, k)
  BY DEF Counts, Sets
<1> QED
  BY <1>1, SaysNothing

LEMMA FileSays ==
    ASSUME NEW g, g.key \in Fields, g.val \notin Blanks, g.style \in FileStyles, NEW k \in Fields,
           NEW raw, raw = InFile(g.key, g.val)[g.style]
    PROVE  Says(LineKey(raw), LineVal(raw), g, k)
<1> DEFINE n == g.key
           v == g.val
<1>0. raw = InFile(n, v)[g.style] /\ v \notin Blanks
  OBVIOUS
<1>1. Plain(n) /\ k # "x" /\ Plain("x")
  BY FieldIs, InkIsNoBlank, Zenon DEF Plain, Equals, Hash
<1> SUFFICES ASSUME NEW key, key = LineKey(raw), NEW val, val = LineVal(raw)
             PROVE  Says(key, val, g, k)
  OBVIOUS
<1> HIDE DEF n, v
<1>2. CASE g.style = "plain"
  <2>1. raw = <<n, Equals, v>>
    BY <1>0, <1>2, FileTexts
  <2>2. key = <<n>> /\ val = <<v>>
    BY <1>0, <1>1, <2>1, PlainLine
  <2> QED
    BY <1>2, <2>2, SaysOne DEF n, v
<1>3. CASE g.style = "spaced"
  <2>1. raw = <<Space, n, Space, Equals, Tab, v, Return>>
    BY <1>0, <1>3, FileTexts
  <2>2. LineKey(<<Space, n, Space, Equals, Tab, v, Return>>) = <<n>>
    BY <1>0, <1>1, SpacedText, InkIsNoBlank
  <2>3. LineVal(<<Space, n, Space, Equals, Tab, v, Return>>) = <<v>>
    BY <1>0, <1>1, SpacedText, InkIsNoBlank
  <2>4. key = <<n>> /\ val = <<v>>
    BY <2>1, <2>2, <2>3
  <2> QED
    BY <1>3, <2>4, SaysOne DEF n, v
<1>4. CASE g.style = "twice"
  <2>1. raw = <<n, Equals, v, Equals, v>>
    BY <1>0, <1>4, FileTexts
  <2>2. key = <<n>> /\ val = <<v, Equals, v>>
    BY <1>0, <1>1, <2>1, TwiceLine
  <2> QED
    BY <1>4, <2>2, SaysTwice DEF n, v
<1>5. CASE g.style = "unknown"
  <2>1. raw = <<"x", Equals, v>>
    BY <1>0, <1>5, FileTexts
  <2>2. key = <<"x">>
    BY <1>0, <1>1, <2>1, PlainLine
  <2>3. ~Sets(key, k)
    BY <1>1, <2>2 DEF Sets
  <2>4. g.style \notin Counts
    BY <1>5 DEF Counts
  <2> QED
    BY <2>3, <2>4, SaysNothing
<1>6. CASE g.style \in {"comment", "bare", "blank", "keyless"}
  <2>1. CASE g.style = "comment"
    <3>1. raw = <<Space, Hash, n, Equals, v>>
      BY <1>0, <2>1, FileTexts
    <3>2. LineKey(<<Space, Hash, n, Equals, v>>) = <<>>
      BY <1>0, <1>1, CommentText, InkIsNoBlank
    <3> QED
      BY <3>1, <3>2, <2>1, SaysNoKey
  <2>2. CASE g.style = "bare"
    <3>1. raw = <<n>>
      BY <1>0, <2>2, FileTexts
    <3>2. LineKey(<<n>>) = <<>>
      BY <1>1, BareText
    <3> QED
      BY <3>1, <3>2, <2>2, SaysNoKey
  <2>3. CASE g.style = "blank"
    <3>1. raw = <<n, Equals, Space>>
      BY <1>0, <2>3, FileTexts
    <3>2. LineKey(<<n, Equals, Space>>) = <<>>
      BY <1>1, BlankText, InkIsNoBlank
    <3> QED
      BY <3>1, <3>2, <2>3, SaysNoKey
  <2>4. CASE g.style = "keyless"
    <3>1. raw = <<Equals, v>>
      BY <1>0, <2>4, FileTexts
    <3>2. LineKey(<<Equals, v>>) = <<>>
      BY <1>0, KeylessText
    <3> QED
      BY <3>1, <3>2, <2>4, SaysNoKey
  <2> QED
    BY <1>6, <2>1, <2>2, <2>3, <2>4
<1> QED
  BY <1>2, <1>3, <1>4, <1>5, <1>6 DEF FileStyles

LEMMA ArgSays ==
    ASSUME NEW g, g.key \in Fields, g.style \in ArgStyles, NEW k \in Fields,
           NEW arg, arg = OnCommandLine(g.key, g.val)[g.style]
    PROVE  Says(ArgKey(arg), ArgVal(arg), g, k)
<1> DEFINE n == g.key
           v == g.val
<1>0. arg = OnCommandLine(n, v)[g.style]
  OBVIOUS
<1>1. Plain(n) /\ n # Dashes
  BY FieldIs
<1> SUFFICES ASSUME NEW key, key = ArgKey(arg), NEW val, val = ArgVal(arg)
             PROVE  Says(key, val, g, k)
  OBVIOUS
<1> HIDE DEF n, v
<1>2. CASE g.style = "double"
  <2>1. arg = <<Dashes, n, Equals, v>>
    BY <1>0, <1>2, ArgTexts
  <2>2. key = <<n>> /\ val = <<v>>
    BY <1>1, <2>1, DoubleArg
  <2> QED
    BY <1>2, <2>2, SaysOne DEF n, v
<1>3. CASE g.style = "empty"
  <2>1. arg = <<Dashes, n, Equals>>
    BY <1>0, <1>3, ArgTexts
  <2>2. key = <<n>> /\ val = <<>>
    BY <1>1, <2>1, EmptyArg
  <2> QED
    BY <1>3, <2>2, SaysEmpty DEF n
<1>4. CASE g.style = "single"
  <2>1. arg = <<n, Equals, v>>
    BY <1>0, <1>4, ArgTexts
  <2>2. ArgKey(<<n, Equals, v>>) = <<>>
    BY <1>1, SingleArg
  <2> QED
    BY <1>4, <2>1, <2>2, SaysNoKey
<1>5. CASE g.style = "bare"
  <2>1. arg = <<Dashes, n>>
    BY <1>0, <1>5, ArgTexts
  <2>2. ArgKey(<<Dashes, n>>) = <<>>
    BY <1>1, BareArg
  <2> QED
    BY <1>5, <2>1, <2>2, SaysNoKey
<1>6. CASE g.style = "padded"
  <2>1. arg = <<Dashes, n, Space, Equals, v>>
    BY <1>0, <1>6, ArgTexts
  <2>2. Len(ArgKey(<<Dashes, n, Space, Equals, v>>)) = 2
    BY <1>1, PaddedArg, InkIsNoBlank
  <2>3. ~Sets(key, k)
    BY <2>1, <2>2 DEF Sets
  <2>4. g.style \notin Counts
    BY <1>6 DEF Counts
  <2> QED
    BY <2>3, <2>4, SaysNothing
<1> QED
  BY <1>2, <1>3, <1>4, <1>5, <1>6 DEF ArgStyles
-----------------------------------------------------------------------------
(* Which setting counts.                                                   *)

\* The last element of two sequences, one after the other, that is in P.
Those(P, s) == {i \in DOMAIN s : s[i] \in P}
LastIn(P, s, t) ==
    /\ Those(P, s \o t) = {} <=> Those(P, s) = {} /\ Those(P, t) = {}
    /\ Those(P, t) # {} => (s \o t)[Max(Those(P, s \o t))] = t[Max(Those(P, t))]
    /\ Those(P, t) = {} /\ Those(P, s) # {} =>
         (s \o t)[Max(Those(P, s \o t))] = s[Max(Those(P, s))]

LEMMA LastOfTwo ==
    ASSUME NEW S, NEW s \in Seq(S), NEW t \in Seq(S), NEW P
    PROVE  LastIn(P, s, t)
<1> DEFINE n == Len(s)
           u == s \o t
           F == Those(P, s)
           A == Those(P, t)
           B == Those(P, u)
<1>1. n \in Nat /\ Len(t) \in Nat
  OBVIOUS
<1>2. /\ DOMAIN u = 1 .. n + Len(t)
      /\ \A i \in 1 .. n : u[i] = s[i]
      /\ \A i \in 1 .. Len(t) : u[n + i] = t[i]
  OBVIOUS
<1>3. F \in SUBSET (1 .. n) /\ A \in SUBSET (1 .. Len(t)) /\ B \in SUBSET Nat
  BY <1>2 DEF Those
<1>4. \A i \in Nat : i \in F <=> i \in 1 .. n /\ s[i] \in P
  BY DEF Those
<1>5. \A i \in Nat : i \in A <=> i \in 1 .. Len(t) /\ t[i] \in P
  BY DEF Those
<1>6. \A i \in Nat : i \in B <=> i \in 1 .. n + Len(t) /\ u[i] \in P
  BY <1>2 DEF Those
<1> HIDE DEF n, u, F, A, B
<1>7. \A i \in F : i \in B
  BY <1>1, <1>2, <1>3, <1>4, <1>6
<1>8. \A i \in A : n + i \in B
  <2> SUFFICES ASSUME NEW i \in A PROVE n + i \in B
    OBVIOUS
  <2>1. i \in Nat /\ i \in 1 .. Len(t) /\ t[i] \in P
    BY <1>3, <1>5
  <2>2. n + i \in Nat /\ n + i \in 1 .. n + Len(t) /\ u[n + i] = t[i]
    BY <1>1, <1>2, <2>1
  <2> QED
    BY <1>6, <2>1, <2>2
<1>9. \A i \in B : i \in F \/ (i - n \in A /\ i > n)
  <2> SUFFICES ASSUME NEW i \in B PROVE i \in F \/ (i - n \in A /\ i > n)
    OBVIOUS
  <2>1. i \in Nat /\ i \in 1 .. n + Len(t) /\ u[i] \in P
    BY <1>3, <1>6
  <2>2. CASE i <= n
    <3>1. i \in 1 .. n /\ u[i] = s[i]
      BY <1>1, <1>2, <2>1, <2>2
    <3> QED
      BY <1>4, <2>1, <3>1
  <2>3. CASE i > n
    <3> DEFINE j == i - n
    <3>1. j \in Nat /\ j \in 1 .. Len(t) /\ n + j = i
      BY <1>1, <2>1, <2>3
    <3> HIDE DEF j
    <3>2. j \in A
      BY <1>2, <1>5, <2>1, <3>1
    <3> QED
      BY <2>3, <3>2 DEF j
  <2> QED
    BY <1>1, <2>1, <2>2, <2>3
<1>10. B = {} <=> F = {} /\ A = {}
  BY <1>7, <1>8, <1>9
<1>11. ASSUME A # {} PROVE u[Max(B)] = t[Max(A)]
  <2> DEFINE m == Max(A)
  <2>1. m \in A /\ \A j \in A : j <= m
    BY <1>1, <1>3, <1>11, MaxIs
  <2> HIDE DEF m
  <2>2. m \in 1 .. Len(t) /\ n + m \in B /\ n + m \in Nat
    BY <1>1, <1>3, <1>8, <2>1
  <2>3. \A j \in B : j <= n + m
    <3> SUFFICES ASSUME NEW j \in B PROVE j <= n + m
      OBVIOUS
    <3>1. j \in Nat
      BY <1>3
    <3>2. CASE j \in F
      BY <1>1, <1>3, <2>2, <3>2
    <3>3. CASE j - n \in A /\ j > n
      BY <1>1, <2>1, <2>2, <3>1, <3>3
    <3> QED
      BY <1>9, <3>2, <3>3
  <2>4. Max(B) = n + m
    BY <1>3, <2>2, <2>3, MaxUnique
  <2> QED
    BY <1>2, <2>2, <2>4 DEF m
<1>12. ASSUME A = {}, F # {} PROVE u[Max(B)] = s[Max(F)]
  <2> DEFINE m == Max(F)
  <2>1. m \in F /\ \A j \in F : j <= m
    BY <1>1, <1>3, <1>12, MaxIs
  <2> HIDE DEF m
  <2>2. m \in 1 .. n /\ m \in B
    BY <1>3, <1>7, <2>1
  <2>3. \A j \in B : j <= m
    BY <1>9, <1>12, <2>1
  <2>4. Max(B) = m
    BY <1>3, <2>2, <2>3, MaxUnique
  <2> QED
    BY <1>2, <2>2, <2>4 DEF m
<1> QED
  BY <1>10, <1>11, <1>12 DEF LastIn, u, F, A, B

\* What counts for k.
For(k, S) == {g \in S : g.key = k /\ g.style \in Counts}

LEMMA FileCounts ==
    ASSUME NEW keys \in SUBSET Fields, NEW vals, vals \cap Blanks = {},
           NEW inFile \in Seq(Settings(keys, vals, FileStyles)), NEW k \in Fields,
           NEW S, Settings(keys, vals, FileStyles) \subseteq S
    PROVE  LET lines == InLines(inFile) IN
           /\ Len(lines) = Len(inFile)
           /\ {i \in 1 .. Len(lines) : Sets(LineKey(lines[i]), k)} = Those(For(k, S), inFile)
           /\ \A i \in Those(For(k, S), inFile) : Value(k, LineVal(lines[i])) = Meant(inFile[i])
<1> DEFINE lines == InLines(inFile)
<1>1. Len(inFile) \in Nat /\ DOMAIN inFile = 1 .. Len(inFile)
  OBVIOUS
<1>2. Len(lines) = Len(inFile)
  BY <1>1 DEF InLines
<1>3. ASSUME NEW i \in 1 .. Len(inFile)
      PROVE  /\ inFile[i] \in S
             /\ Says(LineKey(lines[i]), LineVal(lines[i]), inFile[i], k)
  <2> DEFINE g == inFile[i]
  <2>1. g \in Settings(keys, vals, FileStyles)
    OBVIOUS
  <2>2. lines[i] = InFile(g.key, g.val)[g.style]
    BY <1>1 DEF InLines
  <2> HIDE DEF g, lines
  <2>3. g.key \in Fields /\ g.val \notin Blanks /\ g.style \in FileStyles
    BY <2>1 DEF Settings
  <2>4. Says(LineKey(lines[i]), LineVal(lines[i]), g, k)
    BY <2>2, <2>3, FileSays
  <2> QED
    BY <2>1, <2>4 DEF g
<1> HIDE DEF lines
<1>4. \A i \in 1 .. Len(inFile) : Sets(LineKey(lines[i]), k) <=> inFile[i] \in For(k, S)
  BY <1>3 DEF For, Says
<1>5. {i \in 1 .. Len(lines) : Sets(LineKey(lines[i]), k)} = Those(For(k, S), inFile)
  BY <1>1, <1>2, <1>4 DEF Those
<1>6. ASSUME NEW i \in Those(For(k, S), inFile)
      PROVE  Value(k, LineVal(lines[i])) = Meant(inFile[i])
  <2>1. i \in 1 .. Len(inFile) /\ Sets(LineKey(lines[i]), k)
    BY <1>1, <1>2, <1>5
  <2> QED
    BY <1>3, <2>1 DEF Says
<1> QED
  BY <1>2, <1>5, <1>6 DEF lines

LEMMA ArgsCount ==
    ASSUME NEW keys \in SUBSET Fields, NEW vals,
           NEW onLine \in Seq(Settings(keys, vals, ArgStyles)), NEW k \in Fields,
           NEW S, Settings(keys, vals, ArgStyles) \subseteq S
    PROVE  LET args == InArgs(onLine) IN
           /\ Len(args) = Len(onLine)
           /\ {i \in 1 .. Len(args) : Sets(ArgKey(args[i]), k)} = Those(For(k, S), onLine)
           /\ \A i \in Those(For(k, S), onLine) : Value(k, ArgVal(args[i])) = Meant(onLine[i])
<1> DEFINE args == InArgs(onLine)
<1>1. Len(onLine) \in Nat /\ DOMAIN onLine = 1 .. Len(onLine)
  OBVIOUS
<1>2. Len(args) = Len(onLine)
  BY <1>1 DEF InArgs
<1>3. ASSUME NEW i \in 1 .. Len(onLine)
      PROVE  /\ onLine[i] \in S
             /\ Says(ArgKey(args[i]), ArgVal(args[i]), onLine[i], k)
  <2> DEFINE g == onLine[i]
  <2>1. g \in Settings(keys, vals, ArgStyles)
    OBVIOUS
  <2>2. args[i] = OnCommandLine(g.key, g.val)[g.style]
    BY <1>1 DEF InArgs
  <2> HIDE DEF g, args
  <2>3. g.key \in Fields /\ g.style \in ArgStyles
    BY <2>1 DEF Settings
  <2>4. Says(ArgKey(args[i]), ArgVal(args[i]), g, k)
    BY <2>2, <2>3, ArgSays
  <2> QED
    BY <2>1, <2>4 DEF g
<1> HIDE DEF args
<1>4. \A i \in 1 .. Len(onLine) : Sets(ArgKey(args[i]), k) <=> onLine[i] \in For(k, S)
  BY <1>3 DEF For, Says
<1>5. {i \in 1 .. Len(args) : Sets(ArgKey(args[i]), k)} = Those(For(k, S), onLine)
  BY <1>1, <1>2, <1>4 DEF Those
<1>6. ASSUME NEW i \in Those(For(k, S), onLine)
      PROVE  Value(k, ArgVal(args[i])) = Meant(onLine[i])
  <2>1. i \in 1 .. Len(onLine) /\ Sets(ArgKey(args[i]), k)
    BY <1>1, <1>2, <1>5
  <2> QED
    BY <1>3, <2>1 DEF Says
<1> QED
  BY <1>2, <1>5, <1>6 DEF args

(* For every file and every command line of settings, in any number, in   *)
(* any order and in all the styles: the last counting one on the command   *)
(* line is the value of its key, else the last counting one in the file,   *)
(* else the default; the styles that are ignored change nothing            *)
(* (Config.h:46-124, ShellApp.h:104-110).                                  *)
THEOREM AnyNumberOfSettings ==
    ASSUME NEW keys \in SUBSET DOMAIN Default, NEW vals, vals \cap Blanks = {},
           NEW inFile \in Seq(Settings(keys, vals, FileStyles)),
           NEW onLine \in Seq(Settings(keys, vals, ArgStyles))
    PROVE  LastOneCounts(inFile, onLine)
<1> DEFINE given == inFile \o onLine
           lines == InLines(inFile)
           args == InArgs(onLine)
           cfg == LoadConfig(lines, args)
           S == Settings(keys, vals, FileStyles) \cup Settings(keys, vals, ArgStyles)
<1>1. inFile \in Seq(S) /\ onLine \in Seq(S)
  <2>1. Settings(keys, vals, FileStyles) \subseteq S /\ Settings(keys, vals, ArgStyles) \subseteq S
    OBVIOUS
  <2> HIDE DEF S
  <2> QED
    BY <2>1
<1>2. keys \in SUBSET Fields
  BY DEF Fields
<1>3. Settings(keys, vals, FileStyles) \subseteq S /\ Settings(keys, vals, ArgStyles) \subseteq S
  OBVIOUS
<1>4. ASSUME NEW k \in Fields
      PROVE  cfg[k] = IF Those(For(k, S), given) = {} THEN Default[k]
                      ELSE Meant(given[Max(Those(For(k, S), given))])
  <2> DEFINE P == For(k, S)
             F == Those(P, inFile)
             A == Those(P, onLine)
             B == Those(P, given)
  <2>1. /\ Len(lines) = Len(inFile)
        /\ {i \in 1 .. Len(lines) : Sets(LineKey(lines[i]), k)} = F
        /\ \A i \in F : Value(k, LineVal(lines[i])) = Meant(inFile[i])
    <3> HIDE DEF S
    <3> QED
      BY <1>2, <1>3, FileCounts
  <2>2. /\ Len(args) = Len(onLine)
        /\ {i \in 1 .. Len(args) : Sets(ArgKey(args[i]), k)} = A
        /\ \A i \in A : Value(k, ArgVal(args[i])) = Meant(onLine[i])
    <3> HIDE DEF S
    <3> QED
      BY <1>2, <1>3, ArgsCount
  <2>3. Len(lines) \in Nat /\ Len(args) \in Nat
    BY <2>1, <2>2
  <2>4. k \in DOMAIN Default
    BY DEF Fields
  <2> HIDE DEF lines, args, S
  <2>5. cfg[k] = IF A # {} THEN Value(k, ArgVal(args[Max(A)]))
                 ELSE IF F # {} THEN Value(k, LineVal(lines[Max(F)]))
                 ELSE Default[k]
    <3> DEFINE LA == {i \in 1 .. Len(args) : Sets(ArgKey(args[i]), k)}
               LF == {i \in 1 .. Len(lines) : Sets(LineKey(lines[i]), k)}
    <3>1. cfg[k] = IF LA # {} THEN Value(k, ArgVal(args[Max(LA)]))
                   ELSE IF LF # {} THEN Value(k, LineVal(lines[Max(LF)]))
                   ELSE Default[k]
      BY <2>3, <2>4, Precedence
    <3>2. LA = A /\ LF = F
      BY <2>1, <2>2
    <3> HIDE DEF LA, LF, A, F, cfg
    <3> QED
      BY <3>1, <3>2
  <2>6. (A # {} => Max(A) \in A) /\ (F # {} => Max(F) \in F)
    <3>1. A \in SUBSET (1 .. Len(onLine)) /\ F \in SUBSET (1 .. Len(inFile))
      BY DEF Those
    <3>2. Len(onLine) \in Nat /\ Len(inFile) \in Nat
      OBVIOUS
    <3> HIDE DEF A, F
    <3> QED
      BY <3>1, <3>2, MaxIs
  <2> HIDE DEF P
  <2>7. /\ B = {} <=> F = {} /\ A = {}
        /\ A # {} => given[Max(B)] = onLine[Max(A)]
        /\ A = {} /\ F # {} => given[Max(B)] = inFile[Max(F)]
    <3>1. LastIn(P, inFile, onLine)
      BY <1>1, LastOfTwo
    <3> QED
      BY <3>1 DEF LastIn
  <2> HIDE DEF A, F, B, given, cfg
  <2>8. cfg[k] = IF B = {} THEN Default[k] ELSE Meant(given[Max(B)])
    <3>1. A # {} => B # {} /\ cfg[k] = Meant(given[Max(B)])
      BY <2>2, <2>5, <2>6, <2>7
    <3>2. A = {} /\ F # {} => B # {} /\ cfg[k] = Meant(given[Max(B)])
      BY <2>1, <2>5, <2>6, <2>7
    <3>3. A = {} /\ F = {} => B = {} /\ cfg[k] = Default[k]
      BY <2>5, <2>7
    <3> QED
      BY <3>1, <3>2, <3>3
  <2> QED
    BY <2>8 DEF B, P
<1>5. ASSUME NEW k \in Fields
      PROVE  Those(For(k, S), given)
               = {i \in DOMAIN given : given[i].key = k /\ given[i].style \in Counts}
  <2> HIDE DEF S
  <2>1. \A i \in DOMAIN given : given[i] \in S
    BY <1>1
  <2> HIDE DEF given
  <2> QED
    BY <2>1 DEF Those, For
<1> HIDE DEF S
<1>6. \A k \in Fields :
        cfg[k] = IF {i \in DOMAIN given : given[i].key = k /\ given[i].style \in Counts} = {}
                 THEN Default[k]
                 ELSE Meant(given[Max({i \in DOMAIN given :
                                         given[i].key = k /\ given[i].style \in Counts})])
  BY <1>4, <1>5
<1> QED
  BY <1>6 DEF LastOneCounts, Fields

\* The sequences of the run.
LEMMA Short ==
    ASSUME NEW S, NEW s \in {<<>>} \cup {<<a>> : a \in S} \cup {<<a, b>> : a, b \in S}
    PROVE  s \in Seq(S)
<1>1. CASE s = <<>>
  BY <1>1
<1>2. CASE \E a \in S : s = <<a>>
  BY <1>2
<1>3. CASE \E a, b \in S : s = <<a, b>>
  BY <1>3
<1>4. s = <<>> \/ (\E a \in S : s = <<a>>) \/ (\E a, b \in S : s = <<a, b>>)
  OBVIOUS
<1> QED
  BY <1>1, <1>2, <1>3, <1>4

\* The files and the command lines that the run enumerates are some of them.
LEMMA CommandLineFirst == CommandLineWins
<1> DEFINE FileSet == Settings(Keys, Vals, FileStyles)
           ArgSet == Settings(Keys, Vals, ArgStyles)
           Some == Settings({"workers"}, {"2", "16"}, {"double", "empty", "padded"})
<1>1. Keys \in SUBSET DOMAIN Default
  BY DEF Keys, Default
<1>2. Vals \cap Blanks = {}
  BY Zenon DEF Vals, Blanks, Space, Tab, Return
<1>3. Some \subseteq ArgSet
  BY DEF Settings, Keys, Vals, ArgStyles
<1> HIDE DEF FileSet, ArgSet, Some
<1>4. ASSUME NEW inFile \in UpTo2(FileSet)
      PROVE  inFile \in Seq(FileSet)
  BY Short DEF UpTo2
<1>5. ASSUME NEW onLine \in {<<>>} \cup {<<a>> : a \in ArgSet} \cup {<<a, b>> : a, b \in Some}
      PROVE  onLine \in Seq(ArgSet)
  <2>1. onLine \in {<<>>} \cup {<<a>> : a \in ArgSet} \cup {<<a, b>> : a, b \in ArgSet}
    BY <1>3
  <2> QED
    BY <2>1, Short
<1>6. ASSUME NEW inFile \in Seq(FileSet), NEW onLine \in Seq(ArgSet)
      PROVE  LastOneCounts(inFile, onLine)
  BY <1>1, <1>2, AnyNumberOfSettings DEF FileSet, ArgSet
<1>7. \A inFile \in UpTo2(FileSet),
         onLine \in {<<>>} \cup {<<a>> : a \in ArgSet} \cup {<<a, b>> : a, b \in Some} :
        LastOneCounts(inFile, onLine)
  BY <1>4, <1>5, <1>6
<1> QED
  BY <1>7 DEF CommandLineWins, FileSet, ArgSet, Some

(* The process runs with the configuration that Config.h:5 promises:       *)
(* command line before file before default.                                *)
THEOREM ConfiguredAsPromised == Spec => []RunsAsConfigured
<1>1. RunsAsConfigured
  BY CommandLineFirst DEF RunsAsConfigured
<1> QED
  BY <1>1, PTL
=============================================================================
