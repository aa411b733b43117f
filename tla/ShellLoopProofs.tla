--------------------------- MODULE ShellLoopProofs ---------------------------
(***************************************************************************)
(* ShellLoop, proved for any number of lines, packs, tasks and workers:    *)
(* types, the pack that is there for every line, and the gate.  Then       *)
(* CommandLine, for texts of any length over any characters: a typed line  *)
(* gives back its words, and a typed pack is read as meant.                *)
(*                                                                         *)
(* CommandLine's operators are loops, written as recursive functions of    *)
(* the number of rounds, so what they compute is proved by induction on    *)
(* that number (Induction and Iteration of LoopLemmas).                    *)
(***************************************************************************)
EXTENDS MCShellLoop, LoopLemmas, FunctionTheorems

\* The line a thread works on is there while it works on it.
LineInv ==
    /\ line = "stdin" <=> input \in {"check", "close", "push"}
    /\ text # NoLine <=> main \in {"execute", "pop"}

\* The typed lines that can still come before the main thread finds its queue
\* empty: the one on its way, the one the gate lets pass or has let pass, and
\* the one the late store(true) of ProcessInput will.
One(condition) == IF condition THEN 1 ELSE 0
Passed == input \in {"prompt", "read", "check", "close"}
Coming == One(input = "push") + One(promptReady \/ Passed) + One(main = "open")

Inv ==
    /\ TypeOK
    /\ LineInv
    /\ OnePackPerLine
    /\ Backlog + Coming <= 3

-----------------------------------------------------------------------------
(***************************************************************************)
(* How many lines of a queue were typed.                                   *)
(***************************************************************************)
TypedIn(q) == {i \in DOMAIN q : q[i] = "stdin"}

\* A queue is finite, and so is its number of typed lines.
LEMMA TypedFinite ==
  ASSUME NEW q \in Seq(Lines)
  PROVE  IsFiniteSet(TypedIn(q)) /\ Cardinality(TypedIn(q)) \in Nat
<1>1. IsFiniteSet(DOMAIN q)
  <2>1. DOMAIN q = 1 .. Len(q) /\ Len(q) \in Nat
    OBVIOUS
  <2>2. QED
    BY <2>1, FS_Interval
<1>2. TypedIn(q) \in SUBSET DOMAIN q
  BY DEF TypedIn
<1>3. IsFiniteSet(TypedIn(q))
  BY <1>1, <1>2, FS_Subset
<1>4. QED
  BY <1>3, FS_CardinalityType

\* LockQueue::Push adds the line it is given and no other.
LEMMA TypedAfterPush ==
  ASSUME NEW q \in Seq(Lines), NEW l \in Lines
  PROVE  Cardinality(TypedIn(Append(q, l))) =
           Cardinality(TypedIn(q)) + One(l = "stdin")
<1>1. /\ DOMAIN q = 1 .. Len(q) /\ Len(q) \in Nat
      /\ DOMAIN Append(q, l) = 1 .. Len(q) + 1
      /\ \A i \in 1 .. Len(q) : Append(q, l)[i] = q[i]
      /\ Append(q, l)[Len(q) + 1] = l
  OBVIOUS
<1>2. CASE l = "stdin"
  <2>1. TypedIn(Append(q, l)) = TypedIn(q) \cup {Len(q) + 1}
    BY <1>1, <1>2 DEF TypedIn
  <2>2. Len(q) + 1 \notin TypedIn(q)
    BY <1>1 DEF TypedIn
  <2>3. QED
    BY <1>2, <2>1, <2>2, TypedFinite, FS_AddElement DEF One
<1>3. CASE l # "stdin"
  <2>1. TypedIn(Append(q, l)) = TypedIn(q)
    BY <1>1, <1>3 DEF TypedIn
  <2>2. QED
    BY <1>3, <2>1, TypedFinite DEF One
<1>4. QED
  BY <1>2, <1>3

\* LockQueue::TryPop takes the oldest line out and no other.
LEMMA TypedAfterPop ==
  ASSUME NEW q \in Seq(Lines), q # <<>>
  PROVE  Cardinality(TypedIn(q)) =
           Cardinality(TypedIn(Tail(q))) + One(Head(q) = "stdin")
<1> DEFINE shift == [i \in TypedIn(Tail(q)) |-> i + 1]
           rest == TypedIn(q) \ {1}
<1>1. /\ DOMAIN q = 1 .. Len(q) /\ Len(q) \in Nat \ {0}
      /\ DOMAIN Tail(q) = 1 .. Len(q) - 1
      /\ \A i \in 1 .. Len(q) - 1 : Tail(q)[i] = q[i + 1]
      /\ Head(q) = q[1]
      /\ Tail(q) \in Seq(Lines)
  BY HeadTailProperties
<1>2. \A i \in TypedIn(Tail(q)) : i + 1 \in rest
  BY <1>1 DEF TypedIn
<1>3. \A a, b \in TypedIn(Tail(q)) : shift[a] = shift[b] => a = b
  <2>1. TypedIn(Tail(q)) \subseteq Nat
    BY <1>1 DEF TypedIn
  <2>2. QED
    BY <2>1
<1>4. ASSUME NEW t \in rest
      PROVE  \E i \in TypedIn(Tail(q)) : shift[i] = t
  <2>1. t - 1 \in 1 .. Len(q) - 1 /\ (t - 1) + 1 = t /\ q[t] = "stdin"
    BY <1>1 DEF TypedIn
  <2>2. t - 1 \in TypedIn(Tail(q))
    BY <1>1, <2>1 DEF TypedIn
  <2>3. QED
    BY <2>1, <2>2
<1>5. shift \in Bijection(TypedIn(Tail(q)), rest)
  <2>1. shift \in [TypedIn(Tail(q)) -> rest]
    BY <1>2
  <2> HIDE DEF shift
  <2>2. QED
    BY <1>3, <1>4, <2>1, Fun_IsBij
<1>6. Cardinality(rest) = Cardinality(TypedIn(Tail(q)))
  <2>1. ExistsBijection(TypedIn(Tail(q)), rest)
    BY <1>5 DEF ExistsBijection
  <2>2. QED
    BY <1>1, <2>1, TypedFinite, FS_Bijection
<1>7. Cardinality(rest) = Cardinality(TypedIn(q)) - One(1 \in TypedIn(q))
  <2>1. IsFiniteSet(TypedIn(q)) /\ Cardinality(TypedIn(q)) \in Nat
    BY TypedFinite
  <2>2. Cardinality(rest) = IF 1 \in TypedIn(q) THEN Cardinality(TypedIn(q)) - 1
                                               ELSE Cardinality(TypedIn(q))
    BY <2>1, FS_RemoveElement
  <2>3. QED
    BY <2>1, <2>2 DEF One
<1>8. 1 \in TypedIn(q) <=> Head(q) = "stdin"
  BY <1>1 DEF TypedIn
<1>9. QED
  BY <1>1, <1>6, <1>7, <1>8, TypedFinite DEF One

-----------------------------------------------------------------------------
(***************************************************************************)
(* The invariant.                                                          *)
(***************************************************************************)
\* Nothing typed, the gate open: one line may come.
LEMMA InitInv == Init => Inv
<1> SUFFICES ASSUME Init PROVE Inv
  OBVIOUS
<1> USE DEF Init
<1>1. TypeOK
  <2>1. inputQueue \in Seq(Lines) /\ packs \in Seq(Packs)
    OBVIOUS
  <2>2. /\ line \in Lines \cup {NoLine} /\ text \in Lines \cup {NoLine}
        /\ running \in BOOLEAN /\ promptReady \in BOOLEAN /\ results \in BOOLEAN
    OBVIOUS
  <2>3. /\ input \in InputPCs /\ main \in MainPCs /\ ui \in {"idle", "notify"}
        /\ jobs \in Nat /\ bells \in Nat
    BY DEF InputPCs, MainPCs
  <2>4. /\ typed \in 0 .. MaxTyped /\ injected \in 0 .. MaxInjected
        /\ sent \in 0 .. MaxSent
    BY ShellAssumption
  <2>5. QED
    BY <2>1, <2>2, <2>3, <2>4 DEF TypeOK
<1>2. LineInv
  BY DEF LineInv, NoLine
<1>3. OnePackPerLine
  BY DEF OnePackPerLine
<1>4. Backlog + Coming <= 3
  <2>1. {i \in DOMAIN inputQueue : inputQueue[i] = "stdin"} = {}
    OBVIOUS
  <2>2. Backlog = 0
    BY <2>1, FS_EmptySet DEF Backlog, NoLine
  <2>3. Coming = 1
    BY DEF Coming, Passed, One
  <2>4. QED
    BY <2>2, <2>3
<1>5. QED
  BY <1>1, <1>2, <1>3, <1>4 DEF Inv

\* Every step keeps the types, and the lines with the threads that work on them.
LEMMA TypeStep ==
  ASSUME Inv, [Next]_vars
  PROVE  TypeOK' /\ LineInv'
<1> USE ShellAssumption DEF Inv, TypeOK, LineInv, InputPCs, MainPCs, Lines,
        Packs, NoLine, Notify, packVars, inputVars, workerVars, uiVars
<1>1. CASE InputLoop \/ InputGate \/ Prompt \/ InputCheck \/ CloseGate
  BY <1>1 DEF InputLoop, InputGate, Prompt, InputCheck, CloseGate
<1>2. CASE PushLine
  <2>1. Append(inputQueue, line) \in Seq(Lines)
    BY <1>2, AppendProperties DEF PushLine
  <2>2. QED
    BY <1>2, <2>1 DEF PushLine
<1>3. CASE NotifyLine \/ StoreEof \/ NotifyEof
  BY <1>3 DEF NotifyLine, StoreEof, NotifyEof
<1>4. CASE ReadLine \/ ReadEof
  BY <1>4 DEF ReadLine, ReadEof
<1>5. CASE MainLoop \/ DrainResults \/ WaitForWork \/ FallAsleep \/ WaitTimeout
             \/ SpuriousWakeup
  <2>1. CASE MainLoop \/ DrainResults \/ WaitForWork
    BY <2>1 DEF MainLoop, DrainResults, WaitForWork
  <2>2. CASE FallAsleep \/ WaitTimeout \/ SpuriousWakeup
    BY <2>2 DEF FallAsleep, WaitTimeout, SpuriousWakeup
  <2>3. QED
    BY <1>5, <2>1, <2>2
<1>6. CASE PopLine
  <2>1. Head(inputQueue) \in Lines /\ Tail(inputQueue) \in Seq(Lines)
    BY <1>6, HeadTailProperties DEF PopLine
  <2>2. QED
    BY <1>6, <2>1 DEF PopLine
<1>7. CASE PopNothing \/ ExecuteExit \/ ExecuteNothing \/ OpenGate
  BY <1>7 DEF PopNothing, ExecuteExit, ExecuteNothing, OpenGate
<1>8. CASE ParseLine
  <2>1. Append(packs, text) \in Seq(Packs)
    BY <1>8, AppendProperties DEF ParseLine
  <2>2. QED
    BY <1>8, <2>1 DEF ParseLine
<1>9. CASE ExecutePack
  <2>1. Tail(packs) \in Seq(Packs)
    BY <1>9, HeadTailProperties DEF ExecutePack
  <2>2. QED
    BY <1>9, <2>1 DEF ExecutePack
<1>10. CASE PushResult \/ NotifyResult \/ RequestStop \/ NotifyUI
  <2>1. CASE PushResult
    BY <2>1 DEF PushResult
  <2>2. CASE NotifyResult
    BY <2>2 DEF NotifyResult
  <2>3. CASE RequestStop
    BY <2>3 DEF RequestStop
  <2>4. CASE NotifyUI
    BY <2>4 DEF NotifyUI
  <2>5. QED
    BY <1>10, <2>1, <2>2, <2>3, <2>4
<1>11. CASE InjectCommand
  <2>1. Append(inputQueue, "ui") \in Seq(Lines)
    BY AppendProperties
  <2>2. QED
    BY <1>11, <2>1 DEF InjectCommand
<1>12. CASE SendPack
  <2>1. Append(packs, "sent") \in Seq(Packs)
    BY AppendProperties
  <2>2. QED
    BY <1>12, <2>1 DEF SendPack
<1>13. CASE UNCHANGED vars
  BY <1>13 DEF vars
<1>14. QED
  BY <1>1, <1>2, <1>3, <1>4, <1>5, <1>6, <1>7, <1>8, <1>9, <1>10, <1>11,
     <1>12, <1>13 DEF Next, InputThread, MainThread, Ended

\* Every step keeps the balance of the parser's queue: only ParseLine and
\* SendPack put packs in, only ExecutePack takes one out.
LEMMA PackStep ==
  ASSUME Inv, [Next]_vars
  PROVE  OnePackPerLine'
<1> USE ShellAssumption DEF Inv, TypeOK, OnePackPerLine, packVars, Notify
<1>1. CASE ParseLine
  <2>1. text \in Packs
    BY <1>1 DEF ParseLine, LineInv, Packs
  <2>2. Len(packs') = Len(packs) + 1
    BY <1>1, <2>1, AppendProperties DEF ParseLine
  <2>3. QED
    BY <1>1, <2>2 DEF ParseLine
<1>2. CASE ExecutePack
  <2>1. Len(packs') = Len(packs) - 1
    BY <1>2, HeadTailProperties DEF ExecutePack
  <2>2. QED
    BY <1>2, <2>1 DEF ExecutePack
<1>3. CASE SendPack
  <2>1. Len(packs') = Len(packs) + 1
    BY <1>3, AppendProperties DEF SendPack, Packs
  <2>2. QED
    BY <1>3, <2>1 DEF SendPack
<1>4. CASE InputLoop \/ InputGate \/ Prompt \/ InputCheck \/ CloseGate
             \/ PushLine \/ NotifyLine \/ StoreEof \/ NotifyEof
             \/ ReadLine \/ ReadEof
  BY <1>4 DEF InputLoop, InputGate, Prompt, InputCheck, CloseGate, PushLine,
              NotifyLine, StoreEof, NotifyEof, ReadLine, ReadEof
<1>5. CASE MainLoop \/ DrainResults \/ WaitForWork \/ FallAsleep \/ WaitTimeout
             \/ SpuriousWakeup \/ PopLine \/ PopNothing \/ ExecuteExit
             \/ ExecuteNothing \/ OpenGate
  BY <1>5 DEF MainLoop, DrainResults, WaitForWork, FallAsleep, WaitTimeout,
              SpuriousWakeup, PopLine, PopNothing, ExecuteExit, ExecuteNothing,
              OpenGate
<1>6. CASE PushResult \/ NotifyResult \/ InjectCommand \/ RequestStop \/ NotifyUI
  BY <1>6 DEF PushResult, NotifyResult, InjectCommand, RequestStop, NotifyUI
<1>7. CASE UNCHANGED vars
  BY <1>7 DEF vars
<1>8. QED
  BY <1>1, <1>2, <1>3, <1>4, <1>5, <1>6, <1>7
     DEF Next, InputThread, MainThread, Ended

\* Every step keeps the sum of the typed lines that wait and those to come: a
\* line that arrives was one to come, and the gate is opened for another only
\* after the main thread saw the queue empty.
LEMMA GateStep ==
  ASSUME Inv, [Next]_vars
  PROVE  Backlog' + Coming' <= 3
<1> DEFINE n == Cardinality(TypedIn(inputQueue))
           m == Cardinality(TypedIn(inputQueue'))
<1>1. /\ inputQueue \in Seq(Lines) /\ n \in Nat
      /\ Backlog = n + One(text = "stdin")
      /\ Backlog' = m + One(text' = "stdin")
  BY TypedFinite DEF Inv, TypeOK, Backlog, TypedIn, One
<1>2. inputQueue' = inputQueue => m = n
  OBVIOUS
<1> HIDE DEF n, m
<1> USE DEF Inv, TypeOK, LineInv, Coming, One, Passed, NoLine, packVars, inputVars,
        workerVars, uiVars, Notify
<1>3. CASE InputLoop \/ InputGate \/ Prompt \/ InputCheck \/ CloseGate
             \/ NotifyLine \/ StoreEof \/ NotifyEof \/ ReadLine \/ ReadEof
  <2>1. CASE InputLoop \/ InputGate \/ Prompt
    BY <1>1, <1>2, <2>1 DEF InputLoop, InputGate, Prompt
  <2>2. CASE InputCheck \/ CloseGate
    BY <1>1, <1>2, <2>2 DEF InputCheck, CloseGate
  <2>3. CASE NotifyLine \/ NotifyEof
    <3>1. main' = "open" => main = "open"
      BY <2>3 DEF NotifyLine, NotifyEof
    <3>2. QED
      BY <1>1, <1>2, <2>3, <3>1 DEF NotifyLine, NotifyEof
  <2>4. CASE StoreEof \/ ReadLine \/ ReadEof
    BY <1>1, <1>2, <2>4 DEF StoreEof, ReadLine, ReadEof
  <2>5. QED
    BY <1>3, <2>1, <2>2, <2>3, <2>4
<1>4. CASE PushLine
  <2>1. m = n + 1
    BY <1>4, TypedAfterPush DEF PushLine, n, m, Lines
  <2>2. QED
    BY <1>1, <1>4, <2>1 DEF PushLine
<1>5. CASE MainLoop \/ DrainResults \/ WaitForWork \/ FallAsleep \/ WaitTimeout
             \/ SpuriousWakeup \/ ExecuteExit \/ ExecuteNothing \/ ParseLine
             \/ ExecutePack \/ OpenGate
  BY <1>1, <1>2, <1>5 DEF MainLoop, DrainResults, WaitForWork, FallAsleep,
     WaitTimeout, SpuriousWakeup, ExecuteExit, ExecuteNothing, ParseLine,
     ExecutePack, OpenGate, MainPCs
<1>6. CASE PopLine
  <2>1. n = m + One(text' = "stdin")
    BY <1>6, TypedAfterPop DEF PopLine, n, m
  <2>2. m \in Nat
    BY <1>6, HeadTailProperties, TypedFinite DEF PopLine, m
  <2>3. text = NoLine /\ main' = "execute" /\ main = "process"
    BY <1>6 DEF PopLine
  <2>4. Coming' = Coming
    BY <1>6, <2>3 DEF PopLine
  <2>5. QED
    BY <1>1, <2>1, <2>2, <2>3, <2>4
<1>7. CASE PopNothing
  <2>1. n = 0
    <3>1. TypedIn(inputQueue) = {}
      BY <1>7 DEF PopNothing, TypedIn
    <3>2. QED
      BY <3>1, FS_EmptySet DEF n
  <2>2. QED
    BY <1>1, <1>2, <1>7, <2>1 DEF PopNothing
<1>8. CASE InjectCommand
  <2>1. m = n
    BY <1>1, <1>8, TypedAfterPush DEF InjectCommand, n, m, Lines
  <2>2. QED
    BY <1>1, <1>8, <2>1 DEF InjectCommand
<1>9. CASE PushResult \/ NotifyResult \/ SendPack \/ RequestStop \/ NotifyUI
  BY <1>1, <1>2, <1>9 DEF PushResult, NotifyResult, SendPack, RequestStop, NotifyUI
<1>10. CASE UNCHANGED vars
  BY <1>1, <1>2, <1>10 DEF vars
<1>11. QED
  BY <1>3, <1>4, <1>5, <1>6, <1>7, <1>8, <1>9, <1>10
     DEF Next, InputThread, MainThread, Ended

\* The invariant holds in every reachable state.
LEMMA Invariance == Spec => []Inv
<1>1. Inv /\ [Next]_vars => Inv'
  BY TypeStep, PackStep, GateStep DEF Inv
<1>2. QED
  BY InitInv, <1>1, PTL DEF Spec

-----------------------------------------------------------------------------
(***************************************************************************)
(* The theorems.                                                           *)
(***************************************************************************)
\* The variables of the shell's threads keep their types.
THEOREM TypeCorrect == Spec => []TypeOK
<1>1. Inv => TypeOK
  BY DEF Inv
<1>2. QED
  BY Invariance, <1>1, PTL

\* The prompt may come before its time (see BacklogBounded), but however
\* often the main thread's store(true) comes late, never more than three typed
\* lines wait, for any number of lines, tasks and packs.
THEOREM GateHolds == Spec => []BacklogBounded
<1>1. Inv => BacklogBounded
  <2> SUFFICES ASSUME Inv PROVE Backlog <= 3
    BY DEF BacklogBounded
  <2>1. Backlog \in Nat
    <3>1. Cardinality(TypedIn(inputQueue)) \in Nat
      BY TypedFinite DEF Inv, TypeOK
    <3>2. Backlog = Cardinality(TypedIn(inputQueue)) + One(text = "stdin")
      BY DEF Backlog, TypedIn, One
    <3>3. QED
      BY <3>1, <3>2 DEF One
  <2>2. Coming \in Nat
    BY DEF Coming, One
  <2>3. QED
    BY <2>1, <2>2 DEF Inv
<1>2. QED
  BY Invariance, <1>1, PTL

\* The blocking PopPack of the main thread always finds a pack, for any number of
\* lines and packs sent; the price is that every pack sent directly leaves one
\* behind for good (CommandParser::PopPack, SendPack, ProcessInput).
THEOREM PackForEveryLine == Spec => []OnePackPerLine
<1>1. Inv => OnePackPerLine
  BY DEF Inv
<1>2. QED
  BY Invariance, <1>1, PTL

-----------------------------------------------------------------------------
(* The loop of TokenizeCommand.                                            *)

States(C) == [pos : Nat \ {0}, mode : Modes, current : Seq(C), tokens : Seq(Seq(C))]

\* r[n] is the state after n rounds.
Reading(cmd, C, r) ==
    /\ cmd \in Seq(C)
    /\ r \in [Nat -> States(C)]
    /\ r[0] = Start
    /\ \A n \in Nat : r[n + 1] = Step(cmd, r[n])
At(r, t) == \E n \in Nat : r[n] = t

LEMMA StateIs ==
    ASSUME NEW C, NEW t \in States(C)
    PROVE  /\ t = State(t.pos, t.mode, t.current, t.tokens)
           /\ t.pos \in Nat \ {0} /\ t.mode \in Modes
           /\ t.current \in Seq(C) /\ t.tokens \in Seq(Seq(C))
  BY DEF States, State

LEMMA IsState ==
    ASSUME NEW C, NEW p \in Nat \ {0}, NEW m \in Modes, NEW c \in Seq(C), NEW ts \in Seq(Seq(C))
    PROVE  /\ State(p, m, c, ts) \in States(C)
           /\ State(p, m, c, ts).pos = p /\ State(p, m, c, ts).mode = m
           /\ State(p, m, c, ts).current = c /\ State(p, m, c, ts).tokens = ts
  BY DEF States, State

\* A round leaves the variables in their types and moves on.
LEMMA StepMoves ==
    ASSUME NEW C, NEW cmd \in Seq(C), NEW t \in States(C)
    PROVE  /\ Step(cmd, t) \in States(C)
           /\ t.pos <= Len(cmd) => Step(cmd, t).pos > t.pos
           /\ t.pos > Len(cmd) => Step(cmd, t) = t
<1>0. /\ t.pos \in Nat \ {0} /\ t.mode \in Modes /\ Len(cmd) \in Nat
      /\ t.current \in Seq(C) /\ t.tokens \in Seq(Seq(C))
  BY StateIs
<1>1. CASE t.pos > Len(cmd)
  BY <1>0, <1>1 DEF Step
<1>2. CASE t.pos <= Len(cmd)
  <2>1. cmd[t.pos] \in C /\ (t.pos < Len(cmd) => cmd[t.pos + 1] \in C)
    BY <1>0, <1>2
  <2>2. Step(cmd, t) = ReadChar(cmd, t)
    BY <1>0, <1>2 DEF Step
  <2>3. \A c \in C : \A n \in {1, 2} :
          Keep(t, c, n) \in States(C) /\ Keep(t, c, n).pos > t.pos
    <3> SUFFICES ASSUME NEW c \in C, NEW n \in {1, 2}
                 PROVE  Keep(t, c, n) \in States(C) /\ Keep(t, c, n).pos > t.pos
      OBVIOUS
    <3> DEFINE p2 == t.pos + n
               c2 == Append(t.current, c)
    <3>1. p2 \in Nat \ {0} /\ p2 > t.pos /\ c2 \in Seq(C)
      BY <1>0
    <3>2. Keep(t, c, n) = State(p2, t.mode, c2, t.tokens)
      BY DEF Keep
    <3> HIDE DEF p2, c2
    <3> QED
      BY <1>0, <3>1, <3>2, IsState
  <2>4. \A m \in Modes : Turn(t, m) \in States(C) /\ Turn(t, m).pos > t.pos
    <3>1. t.pos + 1 \in Nat \ {0} /\ t.pos + 1 > t.pos
      BY <1>0
    <3> QED
      BY <1>0, <3>1, IsState DEF Turn
  <2>5. Split(t) \in States(C) /\ Split(t).pos > t.pos
    <3> DEFINE p2 == t.pos + 1
               c2 == <<>>
    <3>1. p2 \in Nat \ {0} /\ p2 > t.pos
      BY <1>0
    <3>2. Cut(t) \in Seq(Seq(C)) /\ c2 \in Seq(C)
      BY <1>0 DEF Cut
    <3>3. Split(t) = State(p2, t.mode, c2, Cut(t))
      BY DEF Split
    <3> HIDE DEF p2, c2
    <3> QED
      BY <1>0, <3>1, <3>2, <3>3, IsState
  <2>6. ReadChar(cmd, t) \in States(C) /\ ReadChar(cmd, t).pos > t.pos
    <3> DEFINE ch == cmd[t.pos]
    <3>1. "NORMAL" \in Modes /\ (ch \in DOMAIN Opens => Opens[ch] \in Modes)
      BY DEF Modes, Escapable, Opens
    <3>2. \/ t.pos < Len(cmd) /\ ReadChar(cmd, t) = Keep(t, cmd[t.pos + 1], 2)
          \/ ReadChar(cmd, t) = Turn(t, "NORMAL")
          \/ ch \in DOMAIN Opens /\ ReadChar(cmd, t) = Turn(t, Opens[ch])
          \/ ReadChar(cmd, t) = Split(t)
          \/ ReadChar(cmd, t) = Keep(t, ch, 1)
      BY DEF ReadChar
    <3> HIDE DEF ch
    <3> QED
      BY <2>1, <2>3, <2>4, <2>5, <3>1, <3>2 DEF ch
  <2> QED
    BY <1>0, <1>2, <2>2, <2>6
<1> QED
  BY <1>0, <1>1, <1>2

\* There is a reading of every line, and its last state holds the tokens.
LEMMA Tokenized ==
    ASSUME NEW C, NEW cmd \in Seq(C)
    PROVE  \E r : Reading(cmd, C, r) /\ TokenizeCommand(cmd) = Cut(r[Len(cmd)])
<1> DEFINE Eq(f) == f = [n \in Nat |-> IF n = 0 THEN Start ELSE Step(cmd, f[n - 1])]
           step == [n \in Nat |-> [t \in States(C) |-> Step(cmd, t)]]
<1>1. Start \in States(C)
  <2> DEFINE e == <<>>
  <2>1. 1 \in Nat \ {0} /\ "NORMAL" \in Modes /\ e \in Seq(C) /\ e \in Seq(Seq(C))
    BY DEF Modes, Escapable
  <2>2. Start = State(1, "NORMAL", e, e)
    BY DEF Start
  <2> HIDE DEF e
  <2> QED
    BY <2>1, <2>2, IsState
<1>2. step \in Steps(States(C))
  BY StepMoves DEF Steps
<1>3. PICK g : Repeats(g, States(C), Start, step)
  <2> HIDE DEF step
  <2> QED
    BY <1>1, <1>2, Iteration
<1>4. /\ g \in [Nat -> States(C)] /\ g[0] = Start
      /\ \A n \in Nat : g[n + 1] = Step(cmd, g[n])
  BY <1>3 DEF Repeats
<1>5. Eq(g)
  <2>1. \A n \in Nat : g[n] = IF n = 0 THEN Start ELSE Step(cmd, g[n - 1])
    <3> SUFFICES ASSUME NEW n \in Nat, n # 0 PROVE g[n] = Step(cmd, g[n - 1])
      BY <1>4
    <3>1. n - 1 \in Nat /\ (n - 1) + 1 = n
      OBVIOUS
    <3>2. g[(n - 1) + 1] = Step(cmd, g[n - 1])
      BY <1>4, <3>1
    <3> QED
      BY <3>1, <3>2
  <2> QED
    BY <1>4, <2>1
<1> DEFINE r == CHOOSE f : Eq(f)
<1>6. Eq(r)
  <2> HIDE DEF Eq
  <2> QED
    BY <1>5
<1>7. r = g
  <2>1. /\ r = [n \in Nat |-> r[n]]
        /\ \A n \in Nat : r[n] = IF n = 0 THEN Start ELSE Step(cmd, r[n - 1])
    BY <1>6
  <2> HIDE DEF r
  <2> DEFINE T == {n \in Nat : r[n] = g[n]}
  <2>2. 0 \in T
    BY <1>4, <2>1
  <2>3. ASSUME NEW n \in Nat, n \in T PROVE n + 1 \in T
    <3>1. n + 1 \in Nat /\ n + 1 # 0 /\ (n + 1) - 1 = n
      OBVIOUS
    <3>2. r[n + 1] = Step(cmd, r[n])
      BY <2>1, <3>1
    <3> QED
      BY <1>4, <2>3, <3>1, <3>2
  <2>4. Nat \subseteq T
    <3> HIDE DEF T
    <3> QED
      BY <2>2, <2>3, Induction
  <2>5. \A n \in Nat : r[n] = g[n]
    BY <2>4
  <2>6. g = [n \in Nat |-> g[n]]
    BY <1>4
  <2> HIDE DEF T
  <2> QED
    BY <2>1, <2>5, <2>6
<1>8. Reading(cmd, C, r)
  BY <1>4, <1>7 DEF Reading
<1>9. TokenizeCommand(cmd) = Cut(r[Len(cmd)])
  BY DEF TokenizeCommand
<1> QED
  BY <1>8, <1>9

\* From a state it comes to the reading goes on with its next one.
LEMMA GoesOn ==
    ASSUME NEW C, NEW cmd, NEW r, Reading(cmd, C, r), NEW t, At(r, t)
    PROVE  t \in States(C) /\ At(r, Step(cmd, t))
<1>1. PICK n \in Nat : r[n] = t
  BY DEF At
<1> QED
  BY <1>1 DEF Reading, At

\* Behind the end of the line it stays, and it is there after as many rounds as
\* there are characters: each round reads one at least.
LEMMA Ends ==
    ASSUME NEW C, NEW cmd, NEW r, Reading(cmd, C, r), NEW t, At(r, t), t.pos > Len(cmd)
    PROVE  r[Len(cmd)] = t
<1> DEFINE L == Len(cmd)
<1>1. cmd \in Seq(C) /\ L \in Nat
  BY LenProperties DEF Reading
<1>2. /\ \A n \in Nat : r[n] \in States(C) /\ r[n + 1] = Step(cmd, r[n])
      /\ r[0] = Start
  BY DEF Reading
<1>3. \A n \in Nat : r[n].pos \in Nat \ {0}
  BY <1>2, StateIs
<1>4. \A n \in Nat : /\ r[n].pos <= L => r[n + 1].pos > r[n].pos
                     /\ r[n].pos > L => r[n + 1] = r[n]
  BY <1>1, <1>2, StepMoves
<1> HIDE DEF L
<1>5. ASSUME NEW n \in Nat, r[n].pos > L, NEW k \in Nat PROVE r[n + k] = r[n]
  <2> DEFINE T == {j \in Nat : r[n + j] = r[n]}
  <2>1. 0 \in T
    OBVIOUS
  <2>2. ASSUME NEW j \in Nat, j \in T PROVE j + 1 \in T
    <3>1. n + j \in Nat /\ (n + j) + 1 = n + (j + 1)
      OBVIOUS
    <3> QED
      BY <1>4, <1>5, <2>2, <3>1
  <2>3. Nat \subseteq T
    <3> HIDE DEF T
    <3> QED
      BY <2>1, <2>2, Induction
  <2> QED
    BY <2>3
<1>6. r[L].pos > L
  <2> DEFINE T == {n \in Nat : r[n].pos > n \/ r[n].pos > L}
  <2>1. 0 \in T
    BY <1>3
  <2>2. ASSUME NEW n \in Nat, n \in T PROVE n + 1 \in T
    <3>1. CASE r[n].pos > L
      BY <1>4, <3>1
    <3>2. CASE r[n].pos <= L
      BY <1>1, <1>3, <1>4, <2>2, <3>2
    <3> QED
      BY <1>1, <1>3, <3>1, <3>2
  <2>3. Nat \subseteq T
    <3> HIDE DEF T
    <3> QED
      BY <2>1, <2>2, Induction
  <2> QED
    BY <1>1, <2>3
<1>7. PICK n \in Nat : r[n] = t
  BY DEF At
<1>8. CASE n <= L
  <2>1. L - n \in Nat /\ n + (L - n) = L
    BY <1>1, <1>8
  <2> QED
    BY <1>5, <1>7, <2>1 DEF L
<1>9. CASE n > L
  <2>1. n - L \in Nat /\ L + (n - L) = n
    BY <1>1, <1>9
  <2> QED
    BY <1>1, <1>5, <1>6, <1>7, <2>1 DEF L
<1> QED
  BY <1>1, <1>8, <1>9

\* The tokens when the token c ends, and the token that is read then.
EndedWord(c, ts) == IF c = <<>> THEN ts ELSE Append(ts, c)
None == <<>>
LEMMA EndedWordType ==
    ASSUME NEW C, NEW c \in Seq(C), NEW ts \in Seq(Seq(C))
    PROVE  /\ EndedWord(c, ts) \in Seq(Seq(C)) /\ None \in Seq(C)
           /\ EndedWord(None, ts) = ts
           /\ c # None => EndedWord(c, ts) = Append(ts, c)
  BY DEF EndedWord, None

\* What a round does, by the character it is at.
LEMMA Reads ==
    ASSUME NEW C, NEW cmd \in Seq(C), NEW p \in Nat \ {0}, p <= Len(cmd),
           NEW m \in Modes, NEW c \in Seq(C), NEW ts \in Seq(Seq(C))
    PROVE  LET escape == /\ cmd[p] = BackSlash
                         /\ p < Len(cmd) /\ cmd[p + 1] \in Escapable[m]
           IN  /\ escape =>
                    Step(cmd, State(p, m, c, ts)) = State(p + 2, m, Append(c, cmd[p + 1]), ts)
               /\ ~escape /\ cmd[p] \notin Escapable[m] \ {BackSlash} =>
                    Step(cmd, State(p, m, c, ts)) = State(p + 1, m, Append(c, cmd[p]), ts)
               /\ m # "NORMAL" /\ cmd[p] = Closes[m] =>
                    Step(cmd, State(p, m, c, ts)) = State(p + 1, "NORMAL", c, ts)
               /\ m = "NORMAL" /\ cmd[p] \in {DQuote, SQuote} =>
                    Step(cmd, State(p, m, c, ts)) = State(p + 1, Opens[cmd[p]], c, ts)
               /\ m = "NORMAL" /\ cmd[p] \in Blanks =>
                    Step(cmd, State(p, m, c, ts)) = State(p + 1, m, None, EndedWord(c, ts))
<1> DEFINE t == State(p, m, c, ts)
           ch == cmd[p]
           escape == ch = BackSlash /\ p < Len(cmd) /\ cmd[p + 1] \in Escapable[m]
<1>1. t.pos = p /\ t.mode = m /\ t.current = c /\ t.tokens = ts
  BY DEF State
<1>2. Len(cmd) \in Nat
  BY LenProperties
<1> HIDE DEF t
<1>3. Step(cmd, t) = ReadChar(cmd, t)
  BY <1>1, <1>2 DEF Step
<1>4. /\ \A x, n : Keep(t, x, n) = State(p + n, m, Append(c, x), ts)
      /\ \A k : Turn(t, k) = State(p + 1, k, c, ts)
      /\ Split(t) = State(p + 1, m, None, EndedWord(c, ts))
  BY <1>1 DEF Keep, Turn, Split, Cut, EndedWord, None
<1>5. /\ DQuote # SQuote /\ DQuote # BackSlash /\ SQuote # BackSlash
      /\ DQuote \notin Blanks /\ SQuote \notin Blanks /\ BackSlash \notin Blanks
  BY DEF DQuote, SQuote, BackSlash, Blanks
<1>6. /\ Modes = {"NORMAL", "IN_DQUOTE", "IN_SQUOTE"}
      /\ Escapable["NORMAL"] = {DQuote, SQuote, BackSlash} \cup Blanks
      /\ Escapable["IN_DQUOTE"] = {DQuote, BackSlash}
      /\ Escapable["IN_SQUOTE"] = {SQuote, BackSlash}
      /\ Closes["IN_DQUOTE"] = DQuote /\ Closes["IN_SQUOTE"] = SQuote
      /\ DOMAIN Opens = {DQuote, SQuote}
  BY DEF Modes, Escapable, Closes, Opens
<1>7. /\ escape => ReadChar(cmd, t) = Keep(t, cmd[p + 1], 2)
      /\ ~escape => ReadChar(cmd, t) =
           IF m # "NORMAL"
           THEN IF ch = Closes[m] THEN Turn(t, "NORMAL") ELSE Keep(t, ch, 1)
           ELSE IF ch \in DOMAIN Opens THEN Turn(t, Opens[ch])
           ELSE IF ch \in Blanks THEN Split(t) ELSE Keep(t, ch, 1)
  <2> HIDE DEF escape, ch
  <2>1. CASE escape
    <3>1. ReadChar(cmd, t) = Keep(t, cmd[p + 1], 2)
      BY <1>1, <1>5, <1>6, <2>1 DEF ReadChar, escape, ch
    <3> QED
      BY <2>1, <3>1
  <2> QED
    BY <1>1, <1>5, <1>6, <2>1 DEF ReadChar, escape, ch
<1> HIDE DEF ch
<1>8. escape => Step(cmd, t) = State(p + 2, m, Append(c, cmd[p + 1]), ts)
  BY <1>3, <1>4, <1>7
<1>9. ~escape /\ ch \notin Escapable[m] \ {BackSlash} =>
        Step(cmd, t) = State(p + 1, m, Append(c, ch), ts)
  <2> HIDE DEF escape
  <2>1. SUFFICES ASSUME ~escape, ch \notin Escapable[m] \ {BackSlash}
                 PROVE  ReadChar(cmd, t) = Keep(t, ch, 1)
    BY <1>3, <1>4
  <2>2. m # "NORMAL" => ch # Closes[m]
    BY <1>5, <1>6, <2>1
  <2>3. m = "NORMAL" => ch \notin DOMAIN Opens /\ ch \notin Blanks
    BY <1>5, <1>6, <2>1
  <2> QED
    BY <1>7, <2>1, <2>2, <2>3
<1>10. m # "NORMAL" /\ ch = Closes[m] =>
         Step(cmd, t) = State(p + 1, "NORMAL", c, ts)
  <2>1. m # "NORMAL" /\ ch = Closes[m] => ~escape
    BY <1>5, <1>6
  <2> HIDE DEF escape
  <2> QED
    BY <1>3, <1>4, <1>7, <2>1
<1>11. m = "NORMAL" /\ ch \in {DQuote, SQuote} =>
         Step(cmd, t) = State(p + 1, Opens[ch], c, ts)
  <2>1. ch \in {DQuote, SQuote} => ~escape
    BY <1>5
  <2> HIDE DEF escape
  <2> QED
    BY <1>3, <1>4, <1>6, <1>7, <2>1
<1>12. m = "NORMAL" /\ ch \in Blanks =>
         Step(cmd, t) = State(p + 1, m, None, EndedWord(c, ts))
  <2>1. ch \in Blanks => ~escape /\ ch \notin DOMAIN Opens
    BY <1>5, <1>6
  <2> HIDE DEF escape
  <2> QED
    BY <1>3, <1>4, <1>7, <2>1
<1> QED
  BY <1>8, <1>9, <1>10, <1>11, <1>12 DEF t, ch

-----------------------------------------------------------------------------
(* Reading what was typed.                                                 *)

\* A character behind a backslash that protects it, and one that stands bare.
LEMMA ReadEscaped ==
    ASSUME NEW C, NEW cmd, NEW r, Reading(cmd, C, r), NEW p \in Nat \ {0}, NEW m \in Modes,
           NEW c \in Seq(C), NEW ts \in Seq(Seq(C)), At(r, State(p, m, c, ts)),
           NEW x \in Escapable[m], Has(cmd, p, <<BackSlash, x>>)
    PROVE  At(r, State(p + 2, m, Append(c, x), ts))
<1>1. cmd \in Seq(C) /\ Len(cmd) \in Nat
  BY LenProperties DEF Reading
<1>2. p + 2 <= Len(cmd) + 1 /\ cmd[p + 1 - 1] = BackSlash /\ cmd[p + 2 - 1] = x
  BY DEF Has
<1>3. p <= Len(cmd) /\ p < Len(cmd) /\ cmd[p] = BackSlash /\ cmd[p + 1] = x
  <2>1. p + 1 - 1 = p /\ p + 2 - 1 = p + 1
    OBVIOUS
  <2> QED
    BY <1>1, <1>2, <2>1
<1>4. Step(cmd, State(p, m, c, ts)) = State(p + 2, m, Append(c, x), ts)
  BY <1>1, <1>3, Reads, SMTT(40)
<1> QED
  BY <1>4, GoesOn

LEMMA ReadBare ==
    ASSUME NEW C, NEW cmd, NEW r, Reading(cmd, C, r), NEW p \in Nat \ {0}, NEW m \in Modes,
           NEW c \in Seq(C), NEW ts \in Seq(Seq(C)), At(r, State(p, m, c, ts)),
           NEW x, Has(cmd, p, <<x>>),
           \/ x \notin Escapable[m]
           \/ x = BackSlash /\ p < Len(cmd) /\ cmd[p + 1] \notin Escapable[m]
    PROVE  At(r, State(p + 1, m, Append(c, x), ts))
<1>1. cmd \in Seq(C) /\ Len(cmd) \in Nat
  BY LenProperties DEF Reading
<1>3. p <= Len(cmd) /\ cmd[p] = x
  BY <1>1, HasOne
<1>4. BackSlash \in Escapable[m]
  BY DEF Modes, Escapable
<1>5. Step(cmd, State(p, m, c, ts)) = State(p + 1, m, Append(c, x), ts)
  <2>1. ~(cmd[p] = BackSlash /\ p < Len(cmd) /\ cmd[p + 1] \in Escapable[m])
    BY <1>3, <1>4
  <2>2. cmd[p] \notin Escapable[m] \ {BackSlash}
    BY <1>3
  <2> QED
    BY <1>1, <1>3, <2>1, <2>2, Reads
<1> QED
  BY <1>5, GoesOn

\* A protected text is a text.
LEMMA ProtectType ==
    ASSUME NEW C, BackSlash \in C, NEW word \in Seq(C), NEW m, NEW lazy \in BOOLEAN
    PROVE  Protect(word, m, lazy) \in Seq(C)
<1> DEFINE N == Len(word)
           bare(i) == \/ word[i] \notin Escapable[m]
                      \/ /\ lazy
                         /\ word[i] = BackSlash
                         /\ i < N /\ word[i + 1] \notin Escapable[m]
           piece(i) == IF bare(i) THEN <<word[i]>> ELSE <<BackSlash, word[i]>>
           pieces == [i \in 1 .. N |-> piece(i)]
<1>1. N \in Nat /\ DOMAIN word = 1 .. N /\ \A i \in 1 .. N : word[i] \in C
  BY LenProperties, ElementOfSeq
<1>2. Protect(word, m, lazy) = FlattenSeq(pieces)
  BY <1>1 DEF Protect
<1>3. \A i \in 1 .. N : piece(i) \in Seq(C)
  <2> SUFFICES ASSUME NEW i \in 1 .. N PROVE piece(i) \in Seq(C)
    OBVIOUS
  <2>1. <<word[i]>> \in Seq(C) /\ <<BackSlash, word[i]>> \in Seq(C)
    BY <1>1
  <2> HIDE DEF bare
  <2> QED
    BY <2>1
<1>4. pieces \in Seq(Seq(C))
  <2> HIDE DEF piece, N
  <2> QED
    BY <1>1, <1>3
<1> HIDE DEF pieces
<1> QED
  BY <1>2, <1>4, FlattenType

\* A protected text is read as the text.
LEMMA ReadText ==
    ASSUME NEW C, NEW cmd, NEW r, Reading(cmd, C, r), NEW p \in Nat \ {0}, NEW m \in Modes,
           NEW c \in Seq(C), NEW ts \in Seq(Seq(C)), At(r, State(p, m, c, ts)),
           BackSlash \in C, NEW word \in Seq(C), NEW lazy \in BOOLEAN,
           Has(cmd, p, Protect(word, m, lazy))
    PROVE  /\ Protect(word, m, lazy) \in Seq(C)
           /\ At(r, State(p + Len(Protect(word, m, lazy)), m, c \o word, ts))
<1> DEFINE N == Len(word)
           bare(i) == \/ word[i] \notin Escapable[m]
                      \/ /\ lazy
                         /\ word[i] = BackSlash
                         /\ i < N /\ word[i + 1] \notin Escapable[m]
           piece(i) == IF bare(i) THEN <<word[i]>> ELSE <<BackSlash, word[i]>>
           pieces == [i \in 1 .. N |-> piece(i)]
           body == Protect(word, m, lazy)
           txt(i) == SubSeq(word, 1, i)
<1>1. N \in Nat /\ DOMAIN word = 1 .. N /\ \A i \in 1 .. N : word[i] \in C
  BY LenProperties, ElementOfSeq
<1>2. body = FlattenSeq(pieces)
  BY <1>1 DEF Protect
<1>3. \A i \in 1 .. N : piece(i) \in Seq(C)
  <2> SUFFICES ASSUME NEW i \in 1 .. N PROVE piece(i) \in Seq(C)
    OBVIOUS
  <2>1. <<word[i]>> \in Seq(C) /\ <<BackSlash, word[i]>> \in Seq(C)
    BY <1>1
  <2> HIDE DEF bare
  <2> QED
    BY <2>1
<1>4. pieces \in Seq(Seq(C)) /\ Len(pieces) = N
  <2> HIDE DEF piece, N
  <2> QED
    BY <1>1, <1>3
<1> HIDE DEF N, body
<1>5. cmd \in Seq(C) /\ Len(cmd) \in Nat
  BY LenProperties DEF Reading
<1>6. body \in Seq(C) /\ \E off : Lies(cmd, p, pieces, off)
  <2> HIDE DEF pieces
  <2>1. Has(cmd, p, FlattenSeq(pieces))
    BY <1>2 DEF body
  <2> QED
    BY <1>2, <1>4, <1>5, <2>1, HasEach
<1>7. PICK off \in [Nat -> Nat] :
        /\ off[0] = p
        /\ off[N] = p + Len(body)
        /\ \A i \in 1 .. N : /\ off[i] = off[i - 1] + Len(pieces[i])
                             /\ Has(cmd, off[i - 1], pieces[i])
  BY <1>2, <1>4, <1>6 DEF Lies
<1>8. \A i \in 1 .. N : /\ off[i] = off[i - 1] + Len(piece(i))
                       /\ Has(cmd, off[i - 1], piece(i))
  <2> HIDE DEF piece
  <2> QED
    BY <1>7
<1>9. /\ txt(0) = <<>> /\ txt(N) = word
      /\ \A i \in 0 .. N : txt(i) \in Seq(C)
      /\ \A i \in 1 .. N : txt(i) = Append(txt(i - 1), word[i])
  BY TextTo DEF N
<1> HIDE DEF txt
<1>10. /\ c \o txt(0) = c
       /\ \A i \in 0 .. N : c \o txt(i) \in Seq(C)
       /\ \A i \in 1 .. N : c \o txt(i) = Append(c \o txt(i - 1), word[i])
  BY TextBehind, ZenonT(60) DEF txt, N
<1>11. ASSUME NEW i \in 1 .. N, off[i - 1] \in Nat \ {0}, NEW d \in Seq(C),
              At(r, State(off[i - 1], m, d, ts))
       PROVE  At(r, State(off[i], m, Append(d, word[i]), ts))
  <2> DEFINE q == off[i - 1]
             x == word[i]
  <2>1. CASE bare(i)
    <3>1. Has(cmd, q, <<x>>) /\ off[i] = q + 1
      BY <1>8, <2>1
    <3>2. CASE x \notin Escapable[m]
      <4> HIDE DEF q, x
      <4>1. At(r, State(q + 1, m, Append(d, x), ts))
        BY <1>11, <3>1, <3>2, ReadBare DEF q
      <4> QED
        BY <3>1, <4>1 DEF x
    <3>3. CASE x = BackSlash /\ i < N /\ word[i + 1] \notin Escapable[m]
      <4>1. i + 1 \in 1 .. N /\ (i + 1) - 1 = i
        BY <1>1, <3>3
      <4>2. piece(i + 1) = <<word[i + 1]>>
        BY <3>3
      <4>3. Has(cmd, q + 1, <<word[i + 1]>>)
        BY <1>8, <3>1, <4>1, <4>2
      <4> DEFINE y == word[i + 1]
      <4>4. y \notin Escapable[m]
        BY <3>3
      <4> HIDE DEF q, x, y
      <4>5. q \in Nat \ {0} /\ q + 1 \in Nat
        <5>1. q \in Nat \ {0}
          BY <1>11 DEF q
        <5> QED
          BY <5>1
      <4>6. q < Len(cmd) /\ cmd[q + 1] \notin Escapable[m]
        <5>1. q + 1 <= Len(cmd) /\ cmd[q + 1] = y
          BY <1>5, <4>3, <4>5, HasOne DEF y
        <5> QED
          BY <1>5, <4>4, <4>5, <5>1
      <4>7. At(r, State(q + 1, m, Append(d, x), ts))
        BY <1>11, <3>1, <3>3, <4>5, <4>6, ReadBare DEF q
      <4> QED
        BY <3>1, <4>7 DEF x
    <3> QED
      BY <2>1, <3>2, <3>3
  <2>2. CASE ~bare(i)
    <3>1. x \in Escapable[m] /\ Has(cmd, q, <<BackSlash, x>>) /\ off[i] = q + 2
      BY <1>8, <2>2
    <3> HIDE DEF q, x
    <3>2. At(r, State(q + 2, m, Append(d, x), ts))
      BY <1>11, <3>1, ReadEscaped DEF q
    <3> QED
      BY <3>1, <3>2 DEF x
  <2> QED
    BY <2>1, <2>2
<1> DEFINE T == {i \in Nat : i <= N => /\ off[i] # 0
                                      /\ At(r, State(off[i], m, c \o txt(i), ts))}
<1> HIDE DEF pieces, bare
<1>12. 0 \in T
  BY <1>7, <1>10
<1>13. ASSUME NEW i \in Nat, i \in T PROVE i + 1 \in T
  <2>1. SUFFICES ASSUME i + 1 <= N
                 PROVE  /\ off[i + 1] # 0
                        /\ At(r, State(off[i + 1], m, c \o txt(i + 1), ts))
    OBVIOUS
  <2> DEFINE k == i + 1
  <2>2. k \in 1 .. N /\ k - 1 = i /\ i <= N /\ i \in 0 .. N
    BY <1>1, <2>1
  <2>3. off[i] \in Nat \ {0} /\ At(r, State(off[i], m, c \o txt(i), ts))
    BY <1>13, <2>2
  <2> HIDE DEF k
  <2>4. off[k] # 0
    <3>1. Len(piece(k)) \in Nat
      BY <1>3, <2>2, LenProperties
    <3> HIDE DEF piece
    <3> QED
      BY <1>8, <2>2, <2>3, <3>1
  <2>5. At(r, State(off[k], m, Append(c \o txt(i), word[k]), ts))
    BY <1>10, <1>11, <2>2, <2>3
  <2>6. Append(c \o txt(i), word[k]) = c \o txt(k)
    BY <1>10, <2>2
  <2> QED
    BY <2>4, <2>5, <2>6 DEF k
<1>14. Nat \subseteq T
  <2> HIDE DEF T
  <2> QED
    BY <1>12, <1>13, Induction
<1>15. At(r, State(off[N], m, c \o txt(N), ts))
  BY <1>1, <1>14
<1> QED
  BY <1>6, <1>7, <1>9, <1>15 DEF body

\* So is a text in quotes.
LEMMA ReadTyped ==
    ASSUME NEW C, NEW cmd, NEW r, Reading(cmd, C, r), NEW p \in Nat \ {0}, NEW m \in Modes,
           NEW c \in Seq(C), NEW ts \in Seq(Seq(C)), At(r, State(p, "NORMAL", c, ts)),
           {BackSlash, DQuote, SQuote} \subseteq C, NEW word \in Seq(C), NEW lazy \in BOOLEAN,
           Has(cmd, p, Typed(word, m, lazy))
    PROVE  At(r, State(p + Len(Typed(word, m, lazy)), "NORMAL", c \o word, ts))
<1> DEFINE body == Protect(word, m, lazy)
           mark == <<Closes[m]>>
           q == Closes[m]
<1>1. cmd \in Seq(C) /\ Len(cmd) \in Nat
  BY LenProperties DEF Reading
<1>2. BackSlash \in C
  OBVIOUS
<1>3. CASE m = "NORMAL"
  <2>1. Typed(word, m, lazy) = Protect(word, m, lazy)
    BY <1>3 DEF Typed
  <2>2. Has(cmd, p, Protect(word, m, lazy)) /\ At(r, State(p, m, c, ts))
    BY <1>3, <2>1
  <2>3. At(r, State(p + Len(Protect(word, m, lazy)), m, c \o word, ts))
    BY <1>2, <2>2, ReadText
  <2> QED
    BY <1>3, <2>1, <2>3
<1>4. CASE m # "NORMAL"
  <2>1. Typed(word, m, lazy) = (mark \o body) \o mark
    BY <1>4 DEF Typed
  <2>2. q \in {DQuote, SQuote} /\ Opens[q] = m /\ q \in C
    <3>1. m \in {"IN_DQUOTE", "IN_SQUOTE"}
      BY <1>4 DEF Modes, Escapable
    <3>2. DQuote # SQuote
      BY DEF DQuote, SQuote
    <3>3. Closes["IN_DQUOTE"] = DQuote /\ Closes["IN_SQUOTE"] = SQuote
      BY DEF Closes
    <3>4. Opens[DQuote] = "IN_DQUOTE" /\ Opens[SQuote] = "IN_SQUOTE"
      BY <3>2 DEF Opens
    <3> QED
      BY <3>1, <3>3, <3>4
  <2>3. body \in Seq(C)
    BY ProtectType
  <2> HIDE DEF body, q
  <2>4. mark \in Seq(C) /\ Len(mark) = 1
    BY <2>2 DEF q
  <2>5. mark \o body \in Seq(C) /\ Len(mark \o body) = 1 + Len(body) /\ Len(body) \in Nat
    <3> HIDE DEF mark
    <3> QED
      BY <2>3, <2>4, ConcatProperties, LenProperties
  <2>6. Len(Typed(word, m, lazy)) = 1 + Len(body) + 1
    <3> HIDE DEF mark
    <3> QED
      BY <2>1, <2>4, <2>5, ConcatProperties
  <2>7. Has(cmd, p, mark) /\ Has(cmd, p + 1, body) /\ Has(cmd, p + (1 + Len(body)), mark)
    <3> HIDE DEF mark
    <3>1. Has(cmd, p, mark \o body) /\ Has(cmd, p + (1 + Len(body)), mark)
      BY <1>1, <2>1, <2>4, <2>5, HasBoth
    <3>2. Has(cmd, p, mark) /\ Has(cmd, p + 1, body)
      BY <1>1, <2>3, <2>4, <3>1, HasBoth
    <3> QED
      BY <3>1, <3>2
  <2>8. At(r, State(p + 1, m, c, ts))
    <3>1. p <= Len(cmd) /\ cmd[p] = q
      BY <1>1, <2>7, HasOne DEF q
    <3>2. "NORMAL" \in Modes
      BY DEF Modes, Escapable
    <3>3. Step(cmd, State(p, "NORMAL", c, ts)) = State(p + 1, m, c, ts)
      BY <1>1, <2>2, <3>1, <3>2, Reads
    <3> QED
      BY <3>3, GoesOn
  <2> DEFINE e == p + (1 + Len(body))
             cw == c \o word
  <2>9. At(r, State(e, m, cw, ts)) /\ e \in Nat \ {0} /\ cw \in Seq(C)
    <3>1. p + 1 \in Nat \ {0} /\ (p + 1) + Len(body) = e
      BY <2>5
    <3> HIDE DEF e
    <3>2. At(r, State((p + 1) + Len(body), m, cw, ts))
      BY <1>2, <2>7, <2>8, <3>1, ReadText DEF body
    <3>3. cw \in Seq(C)
      BY ConcatProperties
    <3> HIDE DEF cw
    <3>4. e \in Nat \ {0}
      BY <2>5, <3>1
    <3> QED
      BY <3>1, <3>2, <3>3, <3>4
  <2>10. e + 1 = p + Len(Typed(word, m, lazy))
    BY <2>5, <2>6
  <2>11. Has(cmd, e, <<q>>)
    BY <2>7 DEF q
  <2> HIDE DEF e, cw
  <2>12. At(r, State(e + 1, "NORMAL", cw, ts))
    <3>1. e <= Len(cmd) /\ cmd[e] = q
      BY <1>1, <2>9, <2>11, HasOne
    <3>2. cmd[e] = Closes[m]
      BY <3>1 DEF q
    <3>3. Step(cmd, State(e, m, cw, ts)) = State(e + 1, "NORMAL", cw, ts)
      BY <1>1, <1>4, <2>9, <3>1, <3>2, Reads
    <3> QED
      BY <2>9, <3>3, GoesOn
  <2> QED
    BY <2>10, <2>12 DEF cw
<1> QED
  BY <1>3, <1>4

\* A blank outside quotes ends a word.
LEMMA ReadBlank ==
    ASSUME NEW C, NEW cmd \in Seq(C), NEW p \in Nat \ {0}, p <= Len(cmd),
           NEW c \in Seq(C), NEW ts \in Seq(Seq(C)), cmd[p] \in Blanks
    PROVE  Step(cmd, State(p, "NORMAL", c, ts)) = State(p + 1, "NORMAL", None, EndedWord(c, ts))
<1>1. "NORMAL" \in Modes
  BY DEF Modes, Escapable
<1> QED
  BY <1>1, Reads, SMTT(40)

\* Blanks end the word before them, if there is one.
LEMMA ReadGap ==
    ASSUME NEW C, NEW cmd, NEW r, Reading(cmd, C, r), NEW p \in Nat \ {0},
           NEW c \in Seq(C), NEW ts \in Seq(Seq(C)), At(r, State(p, "NORMAL", c, ts)),
           NEW gap \in Seq(Blanks), gap # <<>>, Has(cmd, p, gap)
    PROVE  At(r, State(p + Len(gap), "NORMAL", None, EndedWord(c, ts)))
<1> DEFINE N == Len(gap)
           cut == EndedWord(c, ts)
<1>1. cmd \in Seq(C) /\ Len(cmd) \in Nat
  BY LenProperties DEF Reading
<1>2. N \in Nat \ {0} /\ \A i \in 1 .. N : gap[i] \in Blanks
  BY EmptySeq, ElementOfSeq
<1>3. cut \in Seq(Seq(C)) /\ None \in Seq(C)
  BY EndedWordType
<1>4. \A i \in 1 .. N : p + i - 1 <= Len(cmd) /\ cmd[p + i - 1] \in Blanks
  <2>1. p + N <= Len(cmd) + 1 /\ \A i \in 1 .. N : cmd[p + i - 1] = gap[i]
    BY DEF Has
  <2> HIDE DEF N
  <2>2. ASSUME NEW i \in 1 .. N PROVE p + i - 1 <= Len(cmd)
    BY <1>1, <1>2, <2>1
  <2> QED
    BY <1>2, <2>1, <2>2
<1> HIDE DEF N, cut
<1>6. At(r, State(p + 1, "NORMAL", None, cut))
  <2>1. p + 1 - 1 = p /\ 1 \in 1 .. N
    BY <1>2
  <2>2. p <= Len(cmd) /\ cmd[p] \in Blanks
    BY <1>4, <2>1
  <2>3. Step(cmd, State(p, "NORMAL", c, ts)) = State(p + 1, "NORMAL", None, cut)
    BY <1>1, <2>2, ReadBlank DEF cut
  <2> QED
    BY <2>3, GoesOn
<1> DEFINE T == {i \in Nat : i + 1 <= N =>
                   At(r, State(p + (i + 1), "NORMAL", None, cut))}
<1>7. 0 \in T
  <2>1. p + (0 + 1) = p + 1
    OBVIOUS
  <2> QED
    BY <1>6, <2>1
<1>8. ASSUME NEW i \in Nat, i \in T PROVE i + 1 \in T
  <2>1. SUFFICES ASSUME (i + 1) + 1 <= N
                 PROVE  At(r, State(p + ((i + 1) + 1), "NORMAL", None, cut))
    OBVIOUS
  <2> DEFINE q == p + (i + 1)
  <2>2. q \in Nat \ {0} /\ q + 1 = p + ((i + 1) + 1)
    OBVIOUS
  <2>3. q <= Len(cmd) /\ cmd[q] \in Blanks
    <3>1. i + 2 \in 1 .. N /\ p + (i + 2) - 1 = q
      BY <1>2, <2>1
    <3> QED
      BY <1>4, <3>1
  <2>4. At(r, State(q, "NORMAL", None, cut))
    <3>1. i + 1 <= N
      BY <1>2, <2>1
    <3> QED
      BY <1>8, <3>1
  <2> HIDE DEF q
  <2>5. Step(cmd, State(q, "NORMAL", None, cut)) = State(q + 1, "NORMAL", None, cut)
    <3>1. Step(cmd, State(q, "NORMAL", None, cut)) = State(q + 1, "NORMAL", None, EndedWord(None, cut))
      BY <1>1, <1>3, <2>2, <2>3, ReadBlank
    <3>2. EndedWord(None, cut) = cut
      BY <1>3, EndedWordType
    <3> QED
      BY <3>1, <3>2
  <2> QED
    BY <2>2, <2>4, <2>5, GoesOn
<1>9. Nat \subseteq T
  <2> HIDE DEF T
  <2> QED
    BY <1>7, <1>8, Induction
<1>10. At(r, State(p + N, "NORMAL", None, cut))
  <2>1. N - 1 \in Nat /\ (N - 1) + 1 = N
    BY <1>2
  <2>2. N - 1 \in T
    BY <1>9, <2>1
  <2> QED
    BY <1>2, <2>1, <2>2
<1> QED
  BY <1>10 DEF N, cut

LEMMA TypedType ==
    ASSUME NEW C, {BackSlash, DQuote, SQuote} \subseteq C, NEW word \in Seq(C),
           NEW m \in Modes, NEW lazy \in BOOLEAN
    PROVE  Typed(word, m, lazy) \in Seq(C)
<1> DEFINE body == Protect(word, m, lazy)
           mark == <<Closes[m]>>
<1>1. body \in Seq(C)
  BY ProtectType
<1>2. CASE m = "NORMAL"
  BY <1>1, <1>2 DEF Typed
<1>3. CASE m # "NORMAL"
  <2>1. Typed(word, m, lazy) = (mark \o body) \o mark
    BY <1>3 DEF Typed
  <2>2. Closes[m] \in C
    BY <1>3 DEF Modes, Escapable, Closes
  <2>3. mark \in Seq(C)
    BY <2>2
  <2> HIDE DEF mark, body
  <2> QED
    BY <1>1, <2>1, <2>3, ConcatProperties
<1> QED
  BY <1>2, <1>3

\* A word in parts is read as the texts of its parts, one behind the other.
Pieces(parts) == [i \in DOMAIN parts |-> Typed(parts[i].text, parts[i].mode, parts[i].lazy)]
Texts(parts) == [i \in DOMAIN parts |-> parts[i].text]
LEMMA PartsType ==
    ASSUME NEW C, {BackSlash, DQuote, SQuote} \subseteq C, NEW parts \in Seq(Parts(C))
    PROVE  /\ Pieces(parts) \in Seq(Seq(C)) /\ Len(Pieces(parts)) = Len(parts)
           /\ Texts(parts) \in Seq(Seq(C)) /\ Len(Texts(parts)) = Len(parts)
<1> DEFINE N == Len(parts)
<1>1. N \in Nat /\ DOMAIN parts = 1 .. N /\ \A i \in 1 .. N : parts[i] \in Parts(C)
  BY LenProperties, ElementOfSeq
<1>2. \A i \in 1 .. N : /\ parts[i].text \in Seq(C) /\ parts[i].mode \in Modes
                       /\ parts[i].lazy \in BOOLEAN
  BY <1>1 DEF Parts
<1> DEFINE typing(i) == Typed(parts[i].text, parts[i].mode, parts[i].lazy)
           txt(i) == parts[i].text
<1>3. \A i \in 1 .. N : typing(i) \in Seq(C) /\ txt(i) \in Seq(C)
  BY <1>2, TypedType
<1>4. Pieces(parts) = [i \in 1 .. N |-> typing(i)] /\ Texts(parts) = [i \in 1 .. N |-> txt(i)]
  BY <1>1 DEF Pieces, Texts
<1> HIDE DEF N, typing, txt
<1> QED
  BY <1>1, <1>3, <1>4 DEF N

LEMMA ReadParts ==
    ASSUME NEW C, NEW cmd, NEW r, Reading(cmd, C, r), NEW p \in Nat \ {0},
           NEW ts \in Seq(Seq(C)), At(r, State(p, "NORMAL", <<>>, ts)),
           {BackSlash, DQuote, SQuote} \subseteq C, NEW parts \in Seq(Parts(C)),
           Has(cmd, p, FlattenSeq(Pieces(parts)))
    PROVE  At(r, State(p + Len(FlattenSeq(Pieces(parts))), "NORMAL",
                       FlattenSeq(Texts(parts)), ts))
<1> DEFINE N == Len(parts)
           pieces == Pieces(parts)
           texts == Texts(parts)
<1>1. cmd \in Seq(C) /\ Len(cmd) \in Nat
  BY LenProperties DEF Reading
<1>2. N \in Nat /\ DOMAIN parts = 1 .. N /\ \A i \in 1 .. N : parts[i] \in Parts(C)
  BY LenProperties, ElementOfSeq
<1>3. /\ pieces \in Seq(Seq(C)) /\ Len(pieces) = N
      /\ texts \in Seq(Seq(C)) /\ Len(texts) = N
  BY PartsType
<1>4. \A i \in 1 .. N : /\ parts[i].text \in Seq(C) /\ parts[i].mode \in Modes
                       /\ parts[i].lazy \in BOOLEAN /\ texts[i] = parts[i].text
                       /\ pieces[i] = Typed(parts[i].text, parts[i].mode, parts[i].lazy)
                       /\ texts[i] \in Seq(C) /\ pieces[i] \in Seq(C)
  <2>1. \A i \in 1 .. N : texts[i] \in Seq(C) /\ pieces[i] \in Seq(C)
    <3> HIDE DEF texts, pieces
    <3> QED
      BY <1>3, ElementOfSeq
  <2> QED
    BY <1>2, <2>1 DEF Parts, Pieces, Texts
<1> HIDE DEF N, pieces, texts
<1>5. PICK off : Lies(cmd, p, pieces, off)
  <2>1. Has(cmd, p, FlattenSeq(pieces))
    BY DEF pieces
  <2> QED
    BY <1>1, <1>3, <2>1, HasEach
<1>6. PICK pre \in [Nat -> Seq(C)] :
        /\ pre[0] = <<>>
        /\ \A i \in 1 .. Len(texts) : pre[i] = pre[i - 1] \o texts[i]
        /\ FlattenSeq(texts) = pre[Len(texts)]
  BY <1>3, Flattened
<1>7. /\ off \in [Nat -> Nat] /\ off[0] = p /\ off[N] = p + Len(FlattenSeq(pieces))
      /\ \A i \in 1 .. N : /\ off[i] = off[i - 1] + Len(pieces[i])
                           /\ Has(cmd, off[i - 1], pieces[i])
  BY <1>3, <1>5 DEF Lies
<1> DEFINE T == {i \in Nat : i <= N => off[i] # 0 /\ At(r, State(off[i], "NORMAL", pre[i], ts))}
<1>8. 0 \in T
  BY <1>6, <1>7
<1>9. ASSUME NEW i \in Nat, i \in T PROVE i + 1 \in T
  <2>1. SUFFICES ASSUME i + 1 <= N
                 PROVE  off[i + 1] # 0 /\ At(r, State(off[i + 1], "NORMAL", pre[i + 1], ts))
    OBVIOUS
  <2> DEFINE k == i + 1
             q == off[i]
             txt == parts[k].text
             mode == parts[k].mode
             lazy == parts[k].lazy
             old == pre[i]
  <2>2. k \in 1 .. N /\ k - 1 = i /\ i <= N
    BY <1>2, <2>1
  <2>3. q \in Nat \ {0} /\ At(r, State(q, "NORMAL", old, ts)) /\ old \in Seq(C)
    BY <1>6, <1>7, <1>9, <2>2
  <2> HIDE DEF k
  <2>4. txt \in Seq(C) /\ mode \in Modes /\ lazy \in BOOLEAN
    BY <1>4, <2>2
  <2>5. Has(cmd, q, Typed(txt, mode, lazy)) /\ off[k] = q + Len(Typed(txt, mode, lazy))
    BY <1>4, <1>7, <2>2
  <2>6. Len(Typed(txt, mode, lazy)) \in Nat
    <3> HIDE DEF txt, mode, lazy
    <3> QED
      BY <2>4, TypedType, LenProperties
  <2>7. pre[k] = old \o txt
    BY <1>3, <1>4, <1>6, <2>2
  <2> HIDE DEF q, txt, mode, lazy, old
  <2>8. At(r, State(q + Len(Typed(txt, mode, lazy)), "NORMAL", old \o txt, ts))
    BY <2>3, <2>4, <2>5, ReadTyped
  <2>9. off[k] # 0
    BY <2>3, <2>5, <2>6
  <2> QED
    BY <2>5, <2>7, <2>8, <2>9 DEF k
<1>10. Nat \subseteq T
  <2> HIDE DEF T
  <2> QED
    BY <1>8, <1>9, Induction
<1>11. At(r, State(off[N], "NORMAL", pre[N], ts))
  BY <1>2, <1>10
<1> QED
  BY <1>3, <1>6, <1>7, <1>11 DEF pieces, texts

\* A word with the blanks before it.
LEMMA WordType ==
    ASSUME NEW C, {BackSlash, DQuote, SQuote} \subseteq C, Blanks \subseteq C,
           NEW word \in Words(C)
    PROVE  /\ word.gap \in Seq(Blanks) /\ word.gap \in Seq(C) /\ word.parts \in Seq(Parts(C))
           /\ TypedWord(word) = word.gap \o FlattenSeq(Pieces(word.parts))
           /\ TextOf(word) = FlattenSeq(Texts(word.parts))
           /\ FlattenSeq(Pieces(word.parts)) \in Seq(C) /\ TypedWord(word) \in Seq(C)
           /\ TextOf(word) \in Seq(C) /\ TextOf(word) # None
<1> DEFINE gap == word.gap
           parts == word.parts
           body == FlattenSeq(Pieces(parts))
<1>1. gap \in Seq(Blanks) /\ parts \in Seq(Parts(C)) /\ TextOf(word) # <<>>
  BY DEF Words
<1>2. /\ TypedWord(word) = gap \o FlattenSeq(Pieces(parts))
      /\ TextOf(word) = FlattenSeq(Texts(parts))
  BY DEF TypedWord, TextOf, Pieces, Texts
<1> HIDE DEF gap, parts
<1>3. gap \in Seq(C)
  BY <1>1, SeqMonotonic
<1>4. body \in Seq(C) /\ FlattenSeq(Texts(parts)) \in Seq(C)
  BY <1>1, PartsType, FlattenType
<1> HIDE DEF body
<1>5. gap \o body \in Seq(C)
  BY <1>3, <1>4, ConcatProperties
<1> QED
  BY <1>1, <1>2, <1>3, <1>4, <1>5 DEF gap, parts, body, None

LEMMA ReadWord ==
    ASSUME NEW C, NEW cmd, NEW r, Reading(cmd, C, r), NEW p \in Nat \ {0},
           NEW c \in Seq(C), NEW ts \in Seq(Seq(C)), At(r, State(p, "NORMAL", c, ts)),
           {BackSlash, DQuote, SQuote} \subseteq C, Blanks \subseteq C,
           NEW word \in Words(C), c = None \/ word.gap # <<>>, Has(cmd, p, TypedWord(word))
    PROVE  At(r, State(p + Len(TypedWord(word)), "NORMAL", TextOf(word), EndedWord(c, ts)))
<1> DEFINE gap == word.gap
           parts == word.parts
           body == FlattenSeq(Pieces(parts))
<1>1. /\ gap \in Seq(Blanks) /\ gap \in Seq(C) /\ parts \in Seq(Parts(C))
      /\ TypedWord(word) = gap \o body
      /\ TextOf(word) = FlattenSeq(Texts(parts))
      /\ body \in Seq(C)
  BY WordType
<1>2. cmd \in Seq(C)
  BY DEF Reading
<1>3. EndedWord(c, ts) \in Seq(Seq(C)) /\ None \in Seq(C) /\ EndedWord(None, ts) = ts
  BY EndedWordType
<1>4. c = None \/ gap # <<>>
  OBVIOUS
<1> DEFINE cut == EndedWord(c, ts)
<1> HIDE DEF gap, parts, body, cut
<1>5. Has(cmd, p, gap) /\ Has(cmd, p + Len(gap), body)
  BY <1>1, <1>2, HasBoth
<1>6. Len(TypedWord(word)) = Len(gap) + Len(body) /\ Len(gap) \in Nat /\ Len(body) \in Nat
  BY <1>1, ConcatProperties, LenProperties
<1> DEFINE q == p + Len(gap)
<1>7. q \in Nat \ {0} /\ q + Len(body) = p + Len(TypedWord(word))
  BY <1>6
<1>8. At(r, State(q, "NORMAL", None, cut))
  <2>1. CASE gap # <<>>
    BY <1>1, <1>5, <2>1, ReadGap DEF cut
  <2>2. CASE gap = <<>>
    <3>1. c = None
      BY <1>4, <2>2
    <3>2. cut = ts
      BY <1>3, <3>1 DEF cut
    <3>3. q = p
      BY <2>2
    <3> QED
      BY <3>1, <3>2, <3>3
  <2> QED
    BY <2>1, <2>2
<1> HIDE DEF q
<1>9. At(r, State(q + Len(FlattenSeq(Pieces(parts))), "NORMAL", FlattenSeq(Texts(parts)), cut))
  <2>1. Has(cmd, q, FlattenSeq(Pieces(parts)))
    BY <1>5 DEF q, body
  <2>2. cut \in Seq(Seq(C))
    BY <1>3 DEF cut
  <2>3. At(r, State(q, "NORMAL", <<>>, cut))
    BY <1>8 DEF None
  <2> QED
    BY <1>1, <1>7, <2>1, <2>2, <2>3, ReadParts
<1>10. State(q + Len(FlattenSeq(Pieces(parts))), "NORMAL", FlattenSeq(Texts(parts)), cut)
         = State(p + Len(TypedWord(word)), "NORMAL", TextOf(word), EndedWord(c, ts))
  BY <1>1, <1>7 DEF body, cut
<1> QED
  BY <1>9, <1>10

\* The words of a line.
Typeds(words) == [i \in DOMAIN words |-> TypedWord(words[i])]
Meant(words) == [i \in DOMAIN words |-> TextOf(words[i])]
LEMMA LineType ==
    ASSUME NEW C, {BackSlash, DQuote, SQuote} \subseteq C, Blanks \subseteq C,
           NEW words \in LinesOver(C)
    PROVE  /\ Typeds(words) \in Seq(Seq(C)) /\ Len(Typeds(words)) = Len(words)
           /\ Meant(words) \in Seq(Seq(C)) /\ Len(Meant(words)) = Len(words)
<1> DEFINE N == Len(words)
<1>1. N \in Nat /\ DOMAIN words = 1 .. N /\ \A i \in 1 .. N : words[i] \in Words(C)
  BY LenProperties, ElementOfSeq DEF LinesOver
<1> DEFINE typing(i) == TypedWord(words[i])
           txt(i) == TextOf(words[i])
<1>2. \A i \in 1 .. N : typing(i) \in Seq(C) /\ txt(i) \in Seq(C)
  BY <1>1, WordType
<1>3. Typeds(words) = [i \in 1 .. N |-> typing(i)] /\ Meant(words) = [i \in 1 .. N |-> txt(i)]
  BY <1>1 DEF Typeds, Meant
<1> HIDE DEF N, typing, txt
<1> QED
  BY <1>1, <1>2, <1>3 DEF N

\* The reading comes to position e, and the words up to there are list.
Reached(r, C, e, list) ==
    \E c \in Seq(C), ts \in Seq(Seq(C)) : At(r, State(e, "NORMAL", c, ts)) /\ EndedWord(c, ts) = list
LEMMA ReadWords ==
    ASSUME NEW C, NEW cmd, NEW r, Reading(cmd, C, r),
           {BackSlash, DQuote, SQuote} \subseteq C, Blanks \subseteq C,
           NEW words \in LinesOver(C), Has(cmd, 1, FlattenSeq(Typeds(words)))
    PROVE  Reached(r, C, 1 + Len(FlattenSeq(Typeds(words))), Meant(words))
<1> DEFINE N == Len(words)
           typing == Typeds(words)
           texts == Meant(words)
           upto(i) == SubSeq(texts, 1, i)
<1>1. cmd \in Seq(C)
  BY DEF Reading
<1>2. /\ N \in Nat /\ DOMAIN words = 1 .. N /\ \A i \in 1 .. N : words[i] \in Words(C)
      /\ \A i \in 1 .. N : i > 1 => words[i].gap # <<>>
  BY LenProperties, ElementOfSeq DEF LinesOver
<1>3. /\ typing \in Seq(Seq(C)) /\ Len(typing) = N
      /\ texts \in Seq(Seq(C)) /\ Len(texts) = N
  BY LineType
<1>4. \A i \in 1 .. N : typing[i] = TypedWord(words[i]) /\ texts[i] = TextOf(words[i])
  BY <1>2 DEF Typeds, Meant
<1> HIDE DEF N, typing, texts
<1>5. /\ upto(0) = <<>> /\ upto(N) = texts
      /\ \A i \in 1 .. N : upto(i) = Append(upto(i - 1), texts[i])
  <2> DEFINE S == Seq(C)
  <2>1. texts \in Seq(S)
    BY <1>3
  <2> HIDE DEF S
  <2> QED
    BY <1>3, <2>1, TextTo
<1> HIDE DEF upto
<1>6. PICK off : Lies(cmd, 1, typing, off)
  <2>1. Has(cmd, 1, FlattenSeq(typing)) /\ 1 \in Nat
    BY DEF typing
  <2> QED
    BY <1>1, <1>3, <2>1, HasEach
<1>7. /\ off \in [Nat -> Nat] /\ off[0] = 1 /\ off[N] = 1 + Len(FlattenSeq(typing))
      /\ \A i \in 1 .. N : /\ off[i] = off[i - 1] + Len(typing[i])
                           /\ Has(cmd, off[i - 1], typing[i])
  BY <1>3, <1>6 DEF Lies
<1> DEFINE Good(i, c, ts) == /\ At(r, State(off[i], "NORMAL", c, ts))
                             /\ EndedWord(c, ts) = upto(i)
                             /\ i = 0 => c = None
           T == {i \in Nat : i <= N => /\ off[i] # 0
                                     /\ \E c \in Seq(C), ts \in Seq(Seq(C)) : Good(i, c, ts)}
<1>8. 0 \in T
  <2>1. None \in Seq(C) /\ <<>> \in Seq(Seq(C))
    BY DEF None
  <2>2. EndedWord(None, <<>>) = <<>>
    BY DEF EndedWord, None
  <2>3. At(r, State(1, "NORMAL", None, <<>>))
    BY DEF Reading, At, Start, None
  <2>4. Good(0, None, <<>>)
    BY <1>5, <1>7, <2>2, <2>3
  <2>5. \E c \in Seq(C), ts \in Seq(Seq(C)) : Good(0, c, ts)
    <3> DEFINE e == <<>>
    <3>1. e \in Seq(Seq(C)) /\ Good(0, None, e)
      BY <2>1, <2>4
    <3> HIDE DEF e, Good
    <3> QED
      BY <2>1, <3>1
  <2> HIDE DEF Good
  <2> QED
    BY <1>7, <2>5
<1>9. ASSUME NEW i \in Nat, i \in T PROVE i + 1 \in T
  <2> DEFINE k == i + 1
             q == off[i]
             word == words[k]
  <2>1. SUFFICES ASSUME k <= N
                 PROVE  off[k] # 0 /\ \E c \in Seq(C), ts \in Seq(Seq(C)) : Good(k, c, ts)
    OBVIOUS
  <2>2. k \in 1 .. N /\ k - 1 = i /\ i <= N /\ k # 0 /\ (k > 1 \/ i = 0)
    BY <1>2, <2>1
  <2>3. PICK c \in Seq(C), ts \in Seq(Seq(C)) : Good(i, c, ts)
    <3> HIDE DEF Good, k
    <3> QED
      BY <1>9, <2>2
  <2>4. q \in Nat \ {0}
    BY <1>7, <1>9, <2>2
  <2> HIDE DEF k
  <2>5. word \in Words(C) /\ (c = None \/ word.gap # <<>>)
    BY <1>2, <2>2, <2>3
  <2>6. Has(cmd, q, TypedWord(word)) /\ off[k] = q + Len(TypedWord(word))
    BY <1>4, <1>7, <2>2
  <2>7. At(r, State(q, "NORMAL", c, ts)) /\ EndedWord(c, ts) = upto(i)
    BY <2>3
  <2>8. upto(k) = Append(upto(i), TextOf(word))
    BY <1>4, <1>5, <2>2
  <2> HIDE DEF q, word
  <2>9. TypedWord(word) \in Seq(C) /\ TextOf(word) \in Seq(C) /\ TextOf(word) # None
    BY <2>5, WordType
  <2> DEFINE cut == EndedWord(c, ts)
             txt == TextOf(word)
  <2>10. cut \in Seq(Seq(C))
    BY EndedWordType
  <2>11. At(r, State(off[k], "NORMAL", txt, cut))
    BY <2>4, <2>5, <2>6, <2>7, ReadWord
  <2>12. txt \in Seq(C) /\ txt # None /\ upto(k) = Append(cut, txt)
    BY <2>7, <2>8, <2>9
  <2> HIDE DEF cut, txt
  <2>13. EndedWord(txt, cut) = upto(k)
    BY <2>10, <2>12, EndedWordType
  <2>14. Good(k, txt, cut)
    BY <2>2, <2>11, <2>13
  <2>15. off[k] # 0
    <3>1. Len(TypedWord(word)) \in Nat
      BY <2>9, LenProperties
    <3> QED
      BY <2>4, <2>6, <3>1
  <2> HIDE DEF Good
  <2> QED
    BY <2>10, <2>12, <2>14, <2>15
<1>10. Nat \subseteq T
  <2> HIDE DEF T
  <2> QED
    BY <1>8, <1>9, Induction
<1>11. PICK c \in Seq(C), ts \in Seq(Seq(C)) : Good(N, c, ts)
  <2> HIDE DEF Good
  <2> QED
    BY <1>2, <1>10
<1> QED
  BY <1>5, <1>7, <1>11 DEF Reached, typing, texts

\* The line is the words and the blanks at its end.
LEMMA RoundTripOver ==
    ASSUME NEW C, {BackSlash, DQuote, SQuote} \subseteq C, Blanks \subseteq C,
           NEW words \in LinesOver(C), NEW end \in Seq(Blanks)
    PROVE  TypedLine(words, end) \in Seq(C) /\ ComesBack(words, end)
<1> DEFINE body == FlattenSeq(Typeds(words))
           cmd == body \o end
           texts == Meant(words)
<1>1. TypedLine(words, end) = cmd
  BY DEF TypedLine, Typeds
<1>2. body \in Seq(C)
  BY LineType, FlattenType
<1>3. end \in Seq(C)
  BY SeqMonotonic
<1> HIDE DEF body
<1>4. cmd \in Seq(C) /\ Len(cmd) = Len(body) + Len(end) /\ Len(body) \in Nat /\ Len(end) \in Nat
  BY <1>2, <1>3, ConcatProperties, LenProperties
<1>5. Has(cmd, 1, cmd)
  <2> HIDE DEF cmd
  <2>1. Len(cmd) \in Nat
    BY <1>4, LenProperties
  <2>2. \A j \in 1 .. Len(cmd) : 1 + j - 1 = j
    BY <2>1
  <2> QED
    BY <2>1, <2>2 DEF Has
<1>6. Has(cmd, 1, body) /\ Has(cmd, 1 + Len(body), end)
  <2>1. Has(cmd, 1, body \o end) /\ 1 \in Nat
    BY <1>5
  <2> HIDE DEF cmd
  <2> QED
    BY <1>2, <1>3, <1>4, <2>1, HasBoth
<1> HIDE DEF cmd
<1>7. PICK r : Reading(cmd, C, r) /\ TokenizeCommand(cmd) = Cut(r[Len(cmd)])
  BY <1>4, Tokenized
<1>8. Reached(r, C, 1 + Len(body), texts)
  <2>1. Has(cmd, 1, FlattenSeq(Typeds(words)))
    BY <1>6 DEF body
  <2> QED
    BY <1>7, <2>1, ReadWords DEF body
<1>9. PICK c \in Seq(C), ts \in Seq(Seq(C)) :
        At(r, State(1 + Len(body), "NORMAL", c, ts)) /\ EndedWord(c, ts) = texts
  BY <1>8 DEF Reached
<1>10. Reached(r, C, 1 + Len(cmd), texts)
  <2> DEFINE p == 1 + Len(body)
  <2>1. p \in Nat \ {0} /\ p + Len(end) = 1 + Len(cmd)
    BY <1>4
  <2>2. At(r, State(p, "NORMAL", c, ts)) /\ Has(cmd, p, end)
    BY <1>6, <1>9
  <2> HIDE DEF p
  <2>3. CASE end # <<>>
    <3>1. At(r, State(p + Len(end), "NORMAL", None, EndedWord(c, ts)))
      BY <1>7, <2>1, <2>2, <2>3, ReadGap
    <3> DEFINE cut == EndedWord(c, ts)
    <3>2. None \in Seq(C) /\ cut \in Seq(Seq(C)) /\ cut = texts
      BY <1>9, EndedWordType
    <3> HIDE DEF cut
    <3>3. EndedWord(None, cut) = cut
      BY <3>2, EndedWordType
    <3>4. At(r, State(1 + Len(cmd), "NORMAL", None, cut)) /\ EndedWord(None, cut) = texts
      BY <2>1, <3>1, <3>2, <3>3 DEF cut
    <3> HIDE DEF texts
    <3> QED
      BY <3>2, <3>4 DEF Reached
  <2>4. CASE end = <<>>
    <3>1. p = 1 + Len(cmd)
      <4>1. Len(end) = 0
        BY <2>4
      <4> QED
        BY <2>1, <4>1
    <3> HIDE DEF texts
    <3> QED
      BY <1>9, <2>2, <3>1 DEF Reached
  <2> QED
    BY <2>3, <2>4
<1>11. PICK c2 \in Seq(C), ts2 \in Seq(Seq(C)) :
         At(r, State(1 + Len(cmd), "NORMAL", c2, ts2)) /\ EndedWord(c2, ts2) = texts
  BY <1>10 DEF Reached
<1>12. r[Len(cmd)] = State(1 + Len(cmd), "NORMAL", c2, ts2)
  <2> DEFINE t == State(1 + Len(cmd), "NORMAL", c2, ts2)
  <2>1. t.pos = 1 + Len(cmd) /\ Len(cmd) \in Nat
    BY <1>4, LenProperties DEF State
  <2>2. t.pos > Len(cmd)
    BY <2>1
  <2> HIDE DEF t
  <2>3. At(r, t)
    BY <1>11 DEF t
  <2>4. r[Len(cmd)] = t
    BY <1>7, <2>2, <2>3, Ends
  <2> QED
    BY <2>4 DEF t
<1>13. Cut(r[Len(cmd)]) = texts
  <2>1. Cut(State(1 + Len(cmd), "NORMAL", c2, ts2)) = EndedWord(c2, ts2)
    BY DEF Cut, State, EndedWord
  <2> QED
    BY <1>11, <1>12, <2>1
<1> QED
  BY <1>1, <1>4, <1>7, <1>13 DEF ComesBack, Meant

\* More characters allow more lines.
LEMMA LinesMonotonic ==
    ASSUME NEW A, NEW C, A \subseteq C
    PROVE  LinesOver(A) \subseteq LinesOver(C)
<1>1. Parts(A) \subseteq Parts(C)
  <2>1. Seq(A) \subseteq Seq(C)
    BY SeqMonotonic
  <2> QED
    BY <2>1 DEF Parts
<1>2. Words(A) \subseteq Words(C)
  <2>1. Seq(Parts(A)) \subseteq Seq(Parts(C))
    BY <1>1, SeqMonotonic
  <2> QED
    BY <2>1 DEF Words
<1>3. Seq(Words(A)) \subseteq Seq(Words(C))
  BY <1>2, SeqMonotonic
<1> QED
  BY <1>3 DEF LinesOver

(* A line typed word by word gives back its words: for every set of        *)
(* characters, any number of words of any length, each typed in any number *)
(* of parts bare or quoted, and any number of blanks between them          *)
(* (CommandParser.cpp:40-155).                                             *)
THEOREM RoundTrip ==
    ASSUME NEW Chars, NEW words \in LinesOver(Chars), NEW end \in Seq(Blanks)
    PROVE  ComesBack(words, end)
<1> DEFINE C == Chars \cup Blanks \cup {BackSlash, DQuote, SQuote}
<1>1. {BackSlash, DQuote, SQuote} \subseteq C /\ Blanks \subseteq C /\ Chars \subseteq C
  OBVIOUS
<1> HIDE DEF C
<1>2. words \in LinesOver(C)
  BY <1>1, LinesMonotonic
<1> QED
  BY <1>1, <1>2, RoundTripOver

LEMMA FlattenFew ==
    ASSUME NEW S, NEW s \in Seq(S), NEW t \in Seq(S)
    PROVE  FlattenSeq(<<s>>) = s /\ FlattenSeq(<<s, t>>) = s \o t
<1>1. FlattenSeq(<<s>>) = s
  <2> DEFINE seqs == <<s>>
  <2>1. seqs \in Seq(Seq(S)) /\ Len(seqs) = 1 /\ seqs[1] = s
    OBVIOUS
  <2> HIDE DEF seqs
  <2>2. PICK pre \in [Nat -> Seq(S)] :
          /\ pre[0] = <<>>
          /\ \A i \in 1 .. Len(seqs) : pre[i] = pre[i - 1] \o seqs[i]
          /\ FlattenSeq(seqs) = pre[Len(seqs)]
    BY <2>1, Flattened
  <2>3. pre[1] = pre[1 - 1] \o s /\ pre[1 - 1] = <<>>
    BY <2>1, <2>2, SMTT(40)
  <2>4. <<>> \o s = s
    BY ConcatEmptySeq
  <2> QED
    BY <2>1, <2>2, <2>3, <2>4 DEF seqs
<1>2. FlattenSeq(<<s, t>>) = s \o t
  <2> DEFINE seqs == <<s, t>>
  <2>1. seqs \in Seq(Seq(S)) /\ Len(seqs) = 2 /\ seqs[1] = s /\ seqs[2] = t
    OBVIOUS
  <2> HIDE DEF seqs
  <2>2. PICK pre \in [Nat -> Seq(S)] :
          /\ pre[0] = <<>>
          /\ \A i \in 1 .. Len(seqs) : pre[i] = pre[i - 1] \o seqs[i]
          /\ FlattenSeq(seqs) = pre[Len(seqs)]
    BY <2>1, Flattened
  <2>3. pre[1] = pre[1 - 1] \o s /\ pre[1 - 1] = <<>>
    <3>1. 1 \in 1 .. Len(seqs) /\ 1 - 1 = 0
      BY <2>1
    <3>2. pre[1] = pre[1 - 1] \o seqs[1]
      BY <2>2, <3>1
    <3>3. pre[1 - 1] = <<>>
      BY <2>2, <3>1
    <3> QED
      BY <2>1, <3>2, <3>3
  <2>4. pre[1] = s
    BY <2>3, ConcatEmptySeq
  <2>5. pre[2] = pre[1] \o t
    <3>1. 2 \in 1 .. Len(seqs) /\ 2 - 1 = 1
      BY <2>1
    <3>2. pre[2] = pre[2 - 1] \o seqs[2]
      BY <2>2, <3>1
    <3> QED
      BY <2>1, <3>1, <3>2
  <2> QED
    BY <2>1, <2>2, <2>4, <2>5 DEF seqs
<1> QED
  BY <1>1, <1>2

\* Words in one part and in two.
LEMMA OnePart ==
    ASSUME NEW A, NEW gap \in Seq(Blanks), NEW p \in Parts(A), p.text # <<>>
    PROVE  /\ [gap |-> gap, parts |-> <<p>>] \in Words(A)
           /\ TextOf([gap |-> gap, parts |-> <<p>>]) = p.text
<1> DEFINE w == [gap |-> gap, parts |-> <<p>>]
<1>1. <<p>> \in Seq(Parts(A)) /\ DOMAIN <<p>> = 1 .. 1
  OBVIOUS
<1>2. p.text \in Seq(A)
  BY DEF Parts
<1>3. TextOf(w) = p.text
  <2>1. [i \in DOMAIN w.parts |-> w.parts[i].text] = <<p.text>>
    BY <1>1
  <2>2. FlattenSeq(<<p.text>>) = p.text
    BY <1>2, FlattenFew
  <2> HIDE DEF w
  <2> QED
    BY <2>1, <2>2 DEF TextOf
<1>4. w \in [gap : Seq(Blanks), parts : Seq(Parts(A))]
  BY <1>1
<1> HIDE DEF w
<1>5. w \in Words(A)
  BY <1>3, <1>4 DEF Words
<1> QED
  BY <1>3, <1>5 DEF w

LEMMA TwoParts ==
    ASSUME NEW A, NEW gap \in Seq(Blanks), NEW p \in Parts(A), NEW q \in Parts(A),
           p.text # <<>>
    PROVE  /\ [gap |-> gap, parts |-> <<p, q>>] \in Words(A)
           /\ TextOf([gap |-> gap, parts |-> <<p, q>>]) = p.text \o q.text
<1> DEFINE w == [gap |-> gap, parts |-> <<p, q>>]
<1>1. <<p, q>> \in Seq(Parts(A)) /\ DOMAIN <<p, q>> = 1 .. 2
  OBVIOUS
<1>2. p.text \in Seq(A) /\ q.text \in Seq(A)
  BY DEF Parts
<1>3. TextOf(w) = p.text \o q.text
  <2>1. [i \in DOMAIN w.parts |-> w.parts[i].text] = <<p.text, q.text>>
    BY <1>1
  <2>2. FlattenSeq(<<p.text, q.text>>) = p.text \o q.text
    BY <1>2, FlattenFew
  <2> HIDE DEF w
  <2> QED
    BY <2>1, <2>2 DEF TextOf
<1>4. w \in [gap : Seq(Blanks), parts : Seq(Parts(A))]
  BY <1>1
<1>5. p.text \o q.text # <<>>
  <2> DEFINE s == p.text
             t == q.text
  <2>1. s \in Seq(A) /\ t \in Seq(A) /\ s # <<>>
    BY <1>2
  <2> HIDE DEF s, t
  <2>2. s \o t # <<>>
    BY <2>1, ConcatEqualIffEmpty
  <2> QED
    BY <2>2 DEF s, t
<1> HIDE DEF w
<1>6. w \in Words(A)
  BY <1>3, <1>4, <1>5 DEF Words
<1> QED
  BY <1>3, <1>6 DEF w

LEMMA ShortText ==
    ASSUME NEW n \in Nat, NEW w \in TextsUpTo(n)
    PROVE  w \in Seq(Alphabet) /\ w # <<>>
<1>1. PICK k \in 1 .. n : w \in [1 .. k -> Alphabet]
  BY DEF TextsUpTo
<1>2. w \in Seq(Alphabet) /\ Len(w) = k
  BY <1>1
<1> QED
  BY <1>2

\* The lines that TLC reads one by one are such lines.
LEMMA WordsComeBack == TokensAreWords
<1>1. ASSUME NEW w \in TextsUpTo(3), NEW m \in Modes, NEW lazy \in BOOLEAN
      PROVE  ComesBack(<<Alone([text |-> w, mode |-> m, lazy |-> lazy])>>, <<>>)
  <2> DEFINE part == [text |-> w, mode |-> m, lazy |-> lazy]
             e == <<>>
             word == Alone(part)
             few == <<word>>
  <2>1. part \in Parts(Alphabet) /\ part.text # <<>> /\ e \in Seq(Blanks)
    BY ShortText DEF Parts
  <2>2. word = [gap |-> e, parts |-> <<part>>]
    BY DEF Alone
  <2> HIDE DEF part, e, word
  <2>3. word \in Words(Alphabet)
    BY <2>1, <2>2, OnePart
  <2>4. few \in LinesOver(Alphabet)
    BY <2>3 DEF LinesOver
  <2> HIDE DEF few
  <2>5. ComesBack(few, e)
    BY <2>1, <2>4, RoundTrip
  <2> QED
    BY <2>5 DEF few, word, part, e
<1>2. ASSUME NEW p \in PartsUpTo(2), NEW q \in PartsUpTo(2)
      PROVE  /\ ComesBack(<<Apart(p), Apart(q)>>, <<" ">>)
             /\ ComesBack(<<[gap |-> <<>>, parts |-> <<p, q>>]>>, <<>>)
  <2>1. /\ p \in Parts(Alphabet) /\ q \in Parts(Alphabet)
        /\ p.text # <<>> /\ q.text # <<>>
    BY ShortText DEF PartsUpTo, Parts
  <2>2. ComesBack(<<Apart(p), Apart(q)>>, <<" ">>)
    <3> DEFINE gap == <<" ", " ">>
               end == <<" ">>
               u == Apart(p)
               v == Apart(q)
               few == <<u, v>>
    <3>1. gap \in Seq(Blanks) /\ end \in Seq(Blanks) /\ gap # <<>>
      BY DEF Blanks
    <3>2. u = [gap |-> gap, parts |-> <<p>>] /\ v = [gap |-> gap, parts |-> <<q>>]
      BY DEF Apart
    <3> HIDE DEF gap, end, u, v
    <3>3. u \in Words(Alphabet) /\ v \in Words(Alphabet) /\ v.gap # <<>>
      BY <2>1, <3>1, <3>2, OnePart
    <3>4. few \in LinesOver(Alphabet)
      BY <3>3 DEF LinesOver
    <3> HIDE DEF few
    <3>5. ComesBack(few, end)
      BY <3>1, <3>4, RoundTrip
    <3> QED
      BY <3>5 DEF few, u, v, end
  <2>3. ComesBack(<<[gap |-> <<>>, parts |-> <<p, q>>]>>, <<>>)
    <3> DEFINE e == <<>>
               u == [gap |-> e, parts |-> <<p, q>>]
               few == <<u>>
    <3>1. e \in Seq(Blanks)
      OBVIOUS
    <3> HIDE DEF e
    <3>2. u \in Words(Alphabet)
      BY <2>1, <3>1, TwoParts
    <3> HIDE DEF u
    <3>3. few \in LinesOver(Alphabet)
      BY <3>2 DEF LinesOver
    <3> HIDE DEF few
    <3>4. ComesBack(few, e)
      BY <3>1, <3>3, RoundTrip
    <3> QED
      BY <3>4 DEF few, u, e
  <2> QED
    BY <2>2, <2>3
<1> QED
  BY <1>1, <1>2 DEF TokensAreWords

-----------------------------------------------------------------------------
(* The writers of the heads.                                               *)

\* Where a character is found, and the two sides of it.
LEMMA FindIs ==
    ASSUME NEW C, NEW s \in Seq(C), NEW c, NEW i \in 1 .. Len(s), s[i] = c,
           \A j \in 1 .. Len(s) : j < i => s[j] # c
    PROVE  Find(s, c) = i
<1> DEFINE I == {j \in 1 .. Len(s) : s[j] = c}
<1>1. Find(s, c) = IF I # {} THEN Min(I) ELSE 0
  BY DEF Find, SelectInSeq
<1>2. Min(I) = CHOOSE x \in I : \A y \in I : x <= y
  BY DEF Min
<1>3. i \in I /\ \A y \in I : i <= y
  OBVIOUS
<1>4. \A x \in I : (\A y \in I : x <= y) => x = i
  BY <1>3
<1> HIDE DEF I
<1> QED
  BY <1>1, <1>2, <1>3, <1>4

LEMMA FindNone ==
    ASSUME NEW C, NEW s \in Seq(C), NEW c, \A j \in 1 .. Len(s) : s[j] # c
    PROVE  Find(s, c) = 0
<1> DEFINE I == {j \in 1 .. Len(s) : s[j] = c}
<1>1. Find(s, c) = IF I # {} THEN Min(I) ELSE 0
  BY DEF Find, SelectInSeq
<1>2. I = {}
  OBVIOUS
<1> QED
  BY <1>1, <1>2

LEMMA BothSides ==
    ASSUME NEW C, NEW s \in Seq(C), NEW x \in C, NEW t \in Seq(C), \A j \in 1 .. Len(s) : s[j] # x
    PROVE  /\ s \o <<x>> \o t \in Seq(C)
           /\ Len(s) \in Nat /\ Len(t) \in Nat /\ Len(s \o <<x>> \o t) = Len(s) + 1 + Len(t)
           /\ Find(s \o <<x>> \o t, x) = Len(s) + 1
           /\ SubSeq(s \o <<x>> \o t, 1, Len(s)) = s
           /\ SubSeq(s \o <<x>> \o t, Len(s) + 2, Len(s \o <<x>> \o t)) = t
<1> DEFINE u == s \o <<x>> \o t
<1>1. u \in Seq(C) /\ Len(u) = Len(s) + 1 + Len(t) /\ Len(s) \in Nat /\ Len(t) \in Nat
  OBVIOUS
<1>2. /\ \A j \in 1 .. Len(s) : u[j] = s[j]
      /\ u[Len(s) + 1] = x
      /\ \A j \in 1 .. Len(t) : u[Len(s) + 1 + j] = t[j]
  OBVIOUS
<1> HIDE DEF u
<1>3. Find(u, x) = Len(s) + 1
  <2>1. Len(s) + 1 \in 1 .. Len(u)
    BY <1>1
  <2>2. \A j \in 1 .. Len(u) : j < Len(s) + 1 => u[j] # x
    BY <1>1, <1>2
  <2> QED
    BY <1>1, <1>2, <2>1, <2>2, FindIs
<1>4. SubSeq(u, 1, Len(s)) = s
  <2> DEFINE v == SubSeq(u, 1, Len(s))
  <2>1. v \in Seq(C) /\ Len(v) = Len(s) /\ \A j \in 1 .. Len(s) : v[j] = u[j]
    BY <1>1
  <2> HIDE DEF v
  <2>2. v = s
    BY <1>2, <2>1, SeqEqual
  <2> QED
    BY <2>2 DEF v
<1>5. SubSeq(u, Len(s) + 2, Len(u)) = t
  <2> DEFINE v == SubSeq(u, Len(s) + 2, Len(u))
  <2>1. v \in Seq(C) /\ Len(v) = Len(t) /\ \A j \in 1 .. Len(t) : v[j] = u[Len(s) + 1 + j]
    BY <1>1
  <2> HIDE DEF v
  <2>2. v = t
    BY <1>2, <2>1, SeqEqual
  <2> QED
    BY <2>2 DEF v
<1> QED
  BY <1>1, <1>3, <1>4, <1>5 DEF u

\* A pair gives its key its value.
LEMMA Marks == Comma # Pipe
  BY Zenon DEF Comma, Pipe

LEMMA PackFields ==
    ASSUME NEW m, NEW f, NEW ps
    PROVE  /\ Pack(m, f, ps).mod = m /\ Pack(m, f, ps).params = ps
           /\ \A x : [Pack(m, f, ps) EXCEPT !.mod = x] = Pack(x, f, ps)
           /\ \A x : [Pack(m, f, ps) EXCEPT !.func = x] = Pack(m, x, ps)
           /\ \A x : [Pack(m, f, ps) EXCEPT !.params = x] = Pack(m, f, x)
  BY DEF Pack

LEMMA ValueIs ==
    ASSUME NEW C, NEW v \in Values(C)
    PROVE  v \in Seq(C) /\ Trim(v) = v /\ \A j \in 1 .. Len(v) : v[j] # Comma
<1>1. v \in Seq(C) /\ Trim(v) = v /\ Comma \notin Range(v)
  BY DEF Values, Names
<1>2. \A j \in 1 .. Len(v) : v[j] \in Range(v)
  BY <1>1 DEF Range
<1> QED
  BY <1>1, <1>2

LEMMA KeyIs ==
    ASSUME NEW C, NEW k \in Keys(C)
    PROVE  k \in Values(C) /\ \A j \in 1 .. Len(k) : k[j] # Pipe
<1>1. k \in Values(C) /\ Pipe \notin Range(k)
  BY DEF Keys
<1>2. k \in Seq(C)
  BY <1>1, ValueIs
<1>3. \A j \in 1 .. Len(k) : k[j] \in Range(k)
  BY <1>2 DEF Range
<1> QED
  BY <1>1, <1>3

LEMMA PairWritten ==
    ASSUME NEW C, Pipe \in C, NEW k \in Keys(C), NEW v \in Values(C), NEW m, NEW f, NEW ps
    PROVE  WritePair(Pack(m, f, ps), Pair(k, v)) = Pack(m, f, PushParam(ps, k, v))
<1> DEFINE pair == k \o <<Pipe>> \o v
           pack == Pack(m, f, ps)
<1>1. /\ k \in Seq(C) /\ v \in Seq(C) /\ Trim(k) = k /\ Trim(v) = v
      /\ \A j \in 1 .. Len(k) : k[j] # Pipe
  BY ValueIs, KeyIs
<1>2. /\ pair \in Seq(C) /\ Len(k) \in Nat
      /\ Find(pair, Pipe) = Len(k) + 1
      /\ SubSeq(pair, 1, Len(k)) = k
      /\ SubSeq(pair, Len(k) + 2, Len(pair)) = v
  BY <1>1, BothSides
<1>3. Pair(k, v) = pair
  BY DEF Pair
<1> HIDE DEF pair
<1>4. Find(pair, Pipe) # 0 /\ Find(pair, Pipe) - 1 = Len(k) /\ Find(pair, Pipe) + 1 = Len(k) + 2
  BY <1>2
<1>5. WritePair(pack, pair) =
        [pack EXCEPT !.params =
           PushParam(pack.params, Trim(SubSeq(pair, 1, Len(k))),
                     Trim(SubSeq(pair, Len(k) + 2, Len(pair))))]
  <2> HIDE DEF pack
  <2> QED
    BY <1>4 DEF WritePair
<1>6. WritePair(pack, pair) = [pack EXCEPT !.params = PushParam(ps, k, v)]
  <2>1. pack.params = ps
    BY PackFields
  <2> HIDE DEF pack
  <2> QED
    BY <1>1, <1>2, <1>5, <2>1
<1> QED
  BY <1>3, <1>6, PackFields

\* WritePairs is the only function that goes from piece to piece.
LEMMA WritePairsIs ==
    ASSUME NEW C, NEW val \in Seq(C), NEW pack, NEW w,
           w = [n \in 0 .. Len(val) |-> IF n = 0 THEN PairState(1, pack) ELSE NextPair(val, w[n - 1])]
    PROVE  WritePairs(pack, val) = w[Len(val)].pack
<1> DEFINE N == Len(val)
           Eq(f) == f = [n \in 0 .. N |->
                           IF n = 0 THEN PairState(1, pack) ELSE NextPair(val, f[n - 1])]
           g == CHOOSE f : Eq(f)
<1>1. N \in Nat
  OBVIOUS
<1>2. WritePairs(pack, val) = g[N].pack
  BY DEF WritePairs
<1> HIDE DEF N
<1>3. Eq(w)
  BY DEF N
<1>4. Eq(g)
  <2> HIDE DEF Eq
  <2> QED
    BY <1>3
<1>5. \A n \in 0 .. N : /\ w[n] = IF n = 0 THEN PairState(1, pack) ELSE NextPair(val, w[n - 1])
                       /\ g[n] = IF n = 0 THEN PairState(1, pack) ELSE NextPair(val, g[n - 1])
  <2> HIDE DEF g
  <2> QED
    BY <1>3, <1>4
<1> HIDE DEF g, Eq
<1> DEFINE T == {n \in Nat : n <= N => g[n] = w[n]}
<1>6. 0 \in T
  <2>1. 0 \in 0 .. N
    BY <1>1
  <2>2. g[0] = PairState(1, pack) /\ w[0] = PairState(1, pack)
    BY <1>5, <2>1
  <2> QED
    BY <2>2
<1>7. ASSUME NEW n \in Nat, n \in T PROVE n + 1 \in T
  <2>1. SUFFICES ASSUME n + 1 <= N PROVE g[n + 1] = w[n + 1]
    OBVIOUS
  <2>2. n + 1 \in 0 .. N /\ n + 1 # 0 /\ (n + 1) - 1 = n /\ n <= N
    BY <1>1, <2>1
  <2>3. g[n] = w[n]
    BY <1>7, <2>2
  <2> QED
    BY <1>5, <2>2, <2>3
<1>8. Nat \subseteq T
  <2> HIDE DEF T
  <2> QED
    BY <1>6, <1>7, Induction
<1>9. g[N] = w[N]
  BY <1>1, <1>8
<1> QED
  BY <1>2, <1>9 DEF N

\* The last piece of a value, and the piece before a comma.
LEMMA NextPairIs ==
    ASSUME NEW val, NEW p, NEW pack, ~(p > Len(val))
    PROVE  NextPair(val, PairState(p, pack))
             = PairState(p + PieceEnd(SubSeq(val, p, Len(val))),
                         WritePair(pack, SubSeq(SubSeq(val, p, Len(val)), 1,
                                                PieceEnd(SubSeq(val, p, Len(val))) - 1)))
<1> DEFINE t == PairState(p, pack)
<1>1. t.pos = p /\ t.pack = pack
  BY DEF PairState
<1> HIDE DEF t
<1>2. NextPair(val, t) = PairState(t.pos + PieceEnd(SubSeq(val, t.pos, Len(val))),
                         WritePair(t.pack, SubSeq(SubSeq(val, t.pos, Len(val)), 1,
                                                PieceEnd(SubSeq(val, t.pos, Len(val))) - 1)))
  BY <1>1 DEF NextPair
<1> QED
  BY <1>1, <1>2 DEF t

LEMMA LastPiece ==
    ASSUME NEW C, NEW val \in Seq(C), NEW p \in 1 .. Len(val), NEW pack,
           NEW piece \in Seq(C), SubSeq(val, p, Len(val)) = piece, p + Len(piece) = Len(val) + 1,
           \A j \in 1 .. Len(piece) : piece[j] # Comma
    PROVE  NextPair(val, PairState(p, pack)) = PairState(Len(val) + 2, WritePair(pack, piece))
<1>1. PieceEnd(piece) = Len(piece) + 1
  BY FindNone DEF PieceEnd
<1>2. SubSeq(piece, 1, Len(piece)) = piece
  BY SubSeqFull
<1> DEFINE a == Len(piece)
           b == Len(val)
           rest == SubSeq(val, p, Len(val))
<1>3. a \in Nat /\ b \in Nat /\ p \in 1 .. b /\ p + a = b + 1 /\ rest = piece
  OBVIOUS
<1> HIDE DEF a, b, rest
<1>4. p + (a + 1) = b + 2 /\ (a + 1) - 1 = a /\ ~(p > b)
  BY <1>3
<1>5. NextPair(val, PairState(p, pack))
        = PairState(p + PieceEnd(rest), WritePair(pack, SubSeq(rest, 1, PieceEnd(rest) - 1)))
  BY <1>4, NextPairIs DEF b, rest
<1> QED
  BY <1>1, <1>2, <1>3, <1>4, <1>5 DEF a, b

LEMMA FirstPiece ==
    ASSUME NEW C, Comma \in C, NEW pack, NEW piece \in Seq(C), NEW other \in Seq(C),
           \A j \in 1 .. Len(piece) : piece[j] # Comma
    PROVE  LET val == piece \o <<Comma>> \o other
           IN  NextPair(val, PairState(1, pack)) = PairState(Len(piece) + 2, WritePair(pack, piece))
<1>0. /\ piece \o <<Comma>> \o other \in Seq(C)
      /\ Len(piece) \in Nat /\ Len(other) \in Nat
      /\ Len(piece \o <<Comma>> \o other) = Len(piece) + 1 + Len(other)
      /\ Find(piece \o <<Comma>> \o other, Comma) = Len(piece) + 1
      /\ SubSeq(piece \o <<Comma>> \o other, 1, Len(piece)) = piece
      /\ SubSeq(piece \o <<Comma>> \o other, Len(piece) + 2, Len(piece \o <<Comma>> \o other)) = other
  BY BothSides
<1> DEFINE val == piece \o <<Comma>> \o other
           a == Len(piece)
<1>1. /\ val \in Seq(C) /\ a \in Nat /\ Len(other) \in Nat
      /\ Len(val) = a + 1 + Len(other)
      /\ Find(val, Comma) = a + 1 /\ SubSeq(val, 1, a) = piece
  BY <1>0
<1> HIDE DEF val, a
<1>2. SubSeq(val, 1, Len(val)) = val
  BY <1>1, SubSeqFull
<1>3. PieceEnd(val) = a + 1
  BY <1>1 DEF PieceEnd
<1>4. 1 + (a + 1) = a + 2 /\ (a + 1) - 1 = a /\ ~(1 > Len(val))
  BY <1>1
<1>5. NextPair(val, PairState(1, pack))
        = PairState(1 + PieceEnd(val), WritePair(pack, SubSeq(val, 1, PieceEnd(val) - 1)))
  BY <1>2, <1>4, NextPairIs
<1>6. NextPair(val, PairState(1, pack)) = PairState(a + 2, WritePair(pack, piece))
  BY <1>1, <1>3, <1>4, <1>5
<1> QED
  BY <1>6 DEF a, val

\* A value with one pair, and one with two.
LEMMA OnePair ==
    ASSUME NEW C, Pipe \in C, NEW k \in Keys(C), NEW v \in Values(C), NEW m, NEW f, NEW ps
    PROVE  /\ Pair(k, v) \in Seq(C) /\ \A j \in 1 .. Len(Pair(k, v)) : Pair(k, v)[j] # Comma
           /\ Len(Pair(k, v)) \in Nat \ {0}
           /\ WritePairs(Pack(m, f, ps), Pair(k, v)) = Pack(m, f, PushParam(ps, k, v))
<1> DEFINE val == Pair(k, v)
           N == Len(val)
           p0 == Pack(m, f, ps)
           p1 == Pack(m, f, PushParam(ps, k, v))
           w == [n \in 0 .. N |-> IF n = 0 THEN PairState(1, p0) ELSE PairState(N + 2, p1)]
<1>1. /\ k \in Seq(C) /\ v \in Seq(C)
      /\ \A j \in 1 .. Len(k) : k[j] # Comma
      /\ \A j \in 1 .. Len(v) : v[j] # Comma
  BY ValueIs, KeyIs
<1>2. val \in Seq(C) /\ N \in Nat \ {0} /\ \A j \in 1 .. N : val[j] # Comma
  <2> DEFINE u == k \o <<Pipe>> \o v
  <2>1. /\ u \in Seq(C) /\ Len(u) = Len(k) + 1 + Len(v) /\ Len(k) \in Nat /\ Len(v) \in Nat
        /\ \A j \in 1 .. Len(k) : u[j] = k[j]
        /\ u[Len(k) + 1] = Pipe
        /\ \A j \in 1 .. Len(v) : u[Len(k) + 1 + j] = v[j]
    BY <1>1
  <2> HIDE DEF u
  <2>2. ASSUME NEW j \in 1 .. Len(u) PROVE u[j] # Comma
    <3>1. CASE j <= Len(k)
      BY <1>1, <2>1, <3>1
    <3>2. CASE j = Len(k) + 1
      BY <2>1, <3>2, Marks
    <3>3. CASE j > Len(k) + 1
      <4>1. j - (Len(k) + 1) \in 1 .. Len(v) /\ Len(k) + 1 + (j - (Len(k) + 1)) = j
        BY <2>1, <3>3
      <4> QED
        BY <1>1, <2>1, <4>1
    <3> QED
      BY <2>1, <3>1, <3>2, <3>3
  <2> QED
    BY <2>1, <2>2 DEF Pair, u
<1>3. WritePair(p0, val) = p1
  BY PairWritten
<1> HIDE DEF val, p0, p1
<1>4. NextPair(val, PairState(1, p0)) = PairState(N + 2, p1)
  <2>1. SubSeq(val, 1, N) = val /\ 1 \in 1 .. N /\ 1 + Len(val) = Len(val) + 1
    BY <1>2, SubSeqFull
  <2> QED
    BY <1>2, <1>3, <2>1, LastPiece
<1>5. NextPair(val, PairState(N + 2, p1)) = PairState(N + 2, p1)
  BY <1>2 DEF NextPair, PairState
<1> HIDE DEF N
<1>6. w = [n \in 0 .. N |-> IF n = 0 THEN PairState(1, p0) ELSE NextPair(val, w[n - 1])]
  <2>1. ASSUME NEW n \in 0 .. N, n # 0 PROVE w[n] = NextPair(val, w[n - 1])
    <3>1. n - 1 \in 0 .. N
      BY <1>2, <2>1
    <3> QED
      BY <1>4, <1>5, <2>1, <3>1
  <2> QED
    BY <2>1
<1>7. WritePairs(p0, val) = w[N].pack
  <2> HIDE DEF w
  <2> QED
    BY <1>2, <1>6, WritePairsIs DEF N
<1>8. w[N] = PairState(N + 2, p1)
  BY <1>2
<1>9. WritePairs(p0, val) = p1
  BY <1>7, <1>8 DEF PairState
<1> QED
  BY <1>2, <1>9 DEF val, p0, p1, N

LEMMA TwoPairs ==
    ASSUME NEW C, Pipe \in C, Comma \in C, NEW k \in Keys(C), NEW v \in Values(C),
           NEW k2 \in Keys(C), NEW v2 \in Values(C), NEW m, NEW f, NEW ps
    PROVE  /\ Pair(k, v) \o <<Comma>> \o Pair(k2, v2) \in Seq(C)
           /\ WritePairs(Pack(m, f, ps), Pair(k, v) \o <<Comma>> \o Pair(k2, v2))
                = Pack(m, f, PushParam(PushParam(ps, k, v), k2, v2))
<1> DEFINE a == Pair(k, v)
           b == Pair(k2, v2)
           val == a \o <<Comma>> \o b
           N == Len(val)
           p0 == Pack(m, f, ps)
           p1 == Pack(m, f, PushParam(ps, k, v))
           p2 == Pack(m, f, PushParam(PushParam(ps, k, v), k2, v2))
           w == [n \in 0 .. N |-> IF n = 0 THEN PairState(1, p0)
                                 ELSE IF n = 1 THEN PairState(Len(a) + 2, p1)
                                 ELSE PairState(N + 2, p2)]
<1>1. /\ a \in Seq(C) /\ \A j \in 1 .. Len(a) : a[j] # Comma
      /\ b \in Seq(C) /\ \A j \in 1 .. Len(b) : b[j] # Comma
      /\ Len(a) \in Nat \ {0} /\ Len(b) \in Nat \ {0}
  BY OnePair
<1>2. WritePair(p0, a) = p1 /\ WritePair(p1, b) = p2
  BY PairWritten
<1> HIDE DEF a, b
<1>3. /\ val \in Seq(C) /\ N = Len(a) + 1 + Len(b)
      /\ SubSeq(val, Len(a) + 2, N) = b
  BY <1>1, BothSides
<1>4. NextPair(val, PairState(1, p0)) = PairState(Len(a) + 2, p1)
  BY <1>1, <1>2, FirstPiece
<1> HIDE DEF val, p0, p1, p2
<1>5. NextPair(val, PairState(Len(a) + 2, p1)) = PairState(N + 2, p2)
  <2> DEFINE p == Len(a) + 2
  <2>1. p \in 1 .. Len(val) /\ p + Len(b) = Len(val) + 1 /\ SubSeq(val, p, Len(val)) = b
    BY <1>1, <1>3
  <2> HIDE DEF p
  <2>2. NextPair(val, PairState(p, p1)) = PairState(Len(val) + 2, WritePair(p1, b))
    <3> HIDE DEF N, w
    <3>1. b \in Seq(C) /\ val \in Seq(C) /\ \A j \in 1 .. Len(b) : b[j] # Comma
      BY <1>1, <1>3
    <3> QED
      BY <2>1, <3>1, LastPiece
  <2> QED
    BY <1>2, <2>2 DEF p
<1>6. NextPair(val, PairState(N + 2, p2)) = PairState(N + 2, p2)
  <2>1. N + 2 > N
    BY <1>1, <1>3
  <2> QED
    BY <2>1 DEF NextPair, PairState
<1>7. N \in Nat /\ N >= 2
  BY <1>1, <1>3
<1> HIDE DEF N
<1>8. w = [n \in 0 .. N |-> IF n = 0 THEN PairState(1, p0) ELSE NextPair(val, w[n - 1])]
  <2>1. ASSUME NEW n \in 0 .. N, n # 0 PROVE w[n] = NextPair(val, w[n - 1])
    <3>1. n - 1 \in 0 .. N
      BY <1>7, <2>1
    <3> QED
      BY <1>4, <1>5, <1>6, <2>1, <3>1
  <2> QED
    BY <2>1
<1>9. WritePairs(p0, val) = w[N].pack
  <2> HIDE DEF w
  <2> QED
    BY <1>3, <1>8, WritePairsIs DEF N
<1>10. w[N] = PairState(N + 2, p2)
  BY <1>7
<1>11. WritePairs(p0, val) = p2
  BY <1>9, <1>10 DEF PairState
<1> QED
  BY <1>3, <1>11 DEF val, p0, p2, a, b

\* A token goes to the writer of its head.
Token(head, val) == <<head, Colon>> \o val
LEMMA TokenWritten ==
    ASSUME NEW C, NEW head \in C, Colon \in C, head # Colon, NEW val \in Seq(C), NEW pack
    PROVE  WriteToken(pack, Token(head, val))
             = IF head \in Heads THEN CmdWriter(head, pack, val) ELSE pack
<1> DEFINE s == <<head>>
<1>0. s \in Seq(C)
  OBVIOUS
<1>1. Len(s) = 1 /\ s[1] = head
  OBVIOUS
<1>2. Token(head, val) = s \o <<Colon>> \o val
  BY DEF Token
<1>3. (s \o <<Colon>> \o val)[1] = head
  OBVIOUS
<1> HIDE DEF s
<1>4. \A j \in 1 .. Len(s) : s[j] # Colon
  BY <1>1
<1> DEFINE token == s \o <<Colon>> \o val
<1>6. Find(token, Colon) = Len(s) + 1 /\ SubSeq(token, Len(s) + 2, Len(token)) = val
  BY <1>0, <1>4, BothSides
<1>7. token[1] = head
  BY <1>3
<1> HIDE DEF token
<1>8. Find(token, Colon) = 2 /\ SubSeq(token, 2 + 1, Len(token)) = val
  BY <1>1, <1>6
<1>9. WriteToken(pack, token)
        = IF head \in Heads THEN CmdWriter(head, pack, val) ELSE pack
  BY <1>7, <1>8 DEF WriteToken
<1> QED
  BY <1>2, <1>9 DEF token

LEMMA HeadWritten ==
    ASSUME NEW m, NEW f, NEW ps, NEW val
    PROVE  /\ CmdWriter("-m", Pack(m, f, ps), val) = Pack(Trim(val), f, ps)
           /\ CmdWriter("-f", Pack(m, f, ps), val) = Pack(m, Trim(val), ps)
           /\ CmdWriter("-v", Pack(m, f, ps), val) = WritePairs(Pack(m, f, ps), val)
<1> DEFINE pack == Pack(m, f, ps)
<1>1. "-m" # "-f" /\ "-m" # "-v" /\ "-f" # "-v"
  OBVIOUS
<1>2. CmdWriter("-m", pack, val) = [pack EXCEPT !.mod = Trim(val)]
  BY <1>1 DEF CmdWriter
<1>3. CmdWriter("-f", pack, val) = [pack EXCEPT !.func = Trim(val)]
  BY <1>1 DEF CmdWriter
<1>4. CmdWriter("-v", pack, val) = WritePairs(pack, val)
  BY <1>1 DEF CmdWriter
<1> QED
  BY <1>2, <1>3, <1>4, PackFields

\* PackOf is the only function that goes from token to token.
LEMMA PackOfIs ==
    ASSUME NEW tokens, Len(tokens) \in Nat, NEW w,
           w = [n \in 0 .. Len(tokens) |-> IF n = 0 THEN NewPack ELSE WriteToken(w[n - 1], tokens[n])]
    PROVE  PackOf(tokens) = w[Len(tokens)]
<1> DEFINE N == Len(tokens)
           Eq(f) == f = [n \in 0 .. N |->
                           IF n = 0 THEN NewPack ELSE WriteToken(f[n - 1], tokens[n])]
           g == CHOOSE f : Eq(f)
<1>1. N \in Nat
  OBVIOUS
<1>2. PackOf(tokens) = g[N]
  BY DEF PackOf
<1> HIDE DEF N
<1>3. Eq(w)
  BY DEF N
<1>4. Eq(g)
  <2> HIDE DEF Eq
  <2> QED
    BY <1>3
<1>5. \A n \in 0 .. N : /\ w[n] = IF n = 0 THEN NewPack ELSE WriteToken(w[n - 1], tokens[n])
                       /\ g[n] = IF n = 0 THEN NewPack ELSE WriteToken(g[n - 1], tokens[n])
  <2> HIDE DEF g
  <2> QED
    BY <1>3, <1>4
<1> HIDE DEF g, Eq
<1> DEFINE T == {n \in Nat : n <= N => g[n] = w[n]}
<1>6. 0 \in T
  <2>1. 0 \in 0 .. N
    BY <1>1
  <2>2. g[0] = NewPack /\ w[0] = NewPack
    BY <1>5, <2>1
  <2> QED
    BY <2>2
<1>7. ASSUME NEW n \in Nat, n \in T PROVE n + 1 \in T
  <2>1. SUFFICES ASSUME n + 1 <= N PROVE g[n + 1] = w[n + 1]
    OBVIOUS
  <2>2. n + 1 \in 0 .. N /\ n + 1 # 0 /\ (n + 1) - 1 = n /\ n <= N
    BY <1>1, <2>1
  <2>3. g[n] = w[n]
    BY <1>7, <2>2
  <2> QED
    BY <1>5, <2>2, <2>3
<1>8. Nat \subseteq T
  <2> HIDE DEF T
  <2> QED
    BY <1>6, <1>7, Induction
<1>9. g[N] = w[N]
  BY <1>1, <1>8
<1> QED
  BY <1>2, <1>9 DEF N

\* Three tokens, and five.
LEMMA PackOfThree ==
    ASSUME NEW a, NEW b, NEW c, NEW p1, NEW p2, NEW p3,
           p1 = WriteToken(NewPack, a), p2 = WriteToken(p1, b), p3 = WriteToken(p2, c)
    PROVE  PackOf(<<a, b, c>>) = p3
<1> DEFINE tokens == <<a, b, c>>
           w == [n \in 0 .. 3 |-> IF n = 0 THEN NewPack ELSE IF n = 1 THEN p1
                                 ELSE IF n = 2 THEN p2 ELSE p3]
<1>1. Len(tokens) = 3 /\ tokens[1] = a /\ tokens[2] = b /\ tokens[3] = c
  OBVIOUS
<1> HIDE DEF tokens
<1>2. w = [n \in 0 .. 3 |-> IF n = 0 THEN NewPack ELSE WriteToken(w[n - 1], tokens[n])]
  <2>1. ASSUME NEW n \in 0 .. 3, n # 0 PROVE w[n] = WriteToken(w[n - 1], tokens[n])
    <3>1. w[0] = NewPack /\ w[1] = p1 /\ w[2] = p2 /\ w[3] = p3
      OBVIOUS
    <3> HIDE DEF w
    <3>2. CASE n = 1
      <4>1. n - 1 = 0
        BY <3>2
      <4> QED
        BY <1>1, <3>1, <3>2, <4>1
    <3>3. CASE n = 2
      <4>1. n - 1 = 1
        BY <3>3
      <4> QED
        BY <1>1, <3>1, <3>3, <4>1
    <3>4. CASE n = 3
      <4>1. n - 1 = 2
        BY <3>4
      <4> QED
        BY <1>1, <3>1, <3>4, <4>1
    <3> QED
      BY <2>1, <3>2, <3>3, <3>4
  <2> QED
    BY <2>1
<1>3. w[3] = p3
  OBVIOUS
<1> HIDE DEF w
<1>4. PackOf(tokens) = w[3]
  BY <1>1, <1>2, PackOfIs
<1> QED
  BY <1>3, <1>4 DEF tokens

LEMMA PackOfFive ==
    ASSUME NEW a, NEW b, NEW c, NEW d, NEW e, NEW p1, NEW p2, NEW p3, NEW p4, NEW p5,
           p1 = WriteToken(NewPack, a), p2 = WriteToken(p1, b), p3 = WriteToken(p2, c),
           p4 = WriteToken(p3, d), p5 = WriteToken(p4, e)
    PROVE  PackOf(<<a, b, c, d, e>>) = p5
<1> DEFINE tokens == <<a, b, c, d, e>>
           w == [n \in 0 .. 5 |-> IF n = 0 THEN NewPack ELSE IF n = 1 THEN p1
                                 ELSE IF n = 2 THEN p2 ELSE IF n = 3 THEN p3
                                 ELSE IF n = 4 THEN p4 ELSE p5]
<1>1. /\ Len(tokens) = 5 /\ tokens[1] = a /\ tokens[2] = b /\ tokens[3] = c
      /\ tokens[4] = d /\ tokens[5] = e
  OBVIOUS
<1> HIDE DEF tokens
<1>2. w = [n \in 0 .. 5 |-> IF n = 0 THEN NewPack ELSE WriteToken(w[n - 1], tokens[n])]
  <2>1. ASSUME NEW n \in 0 .. 5, n # 0 PROVE w[n] = WriteToken(w[n - 1], tokens[n])
    <3>1. /\ w[0] = NewPack /\ w[1] = p1 /\ w[2] = p2 /\ w[3] = p3
          /\ w[4] = p4 /\ w[5] = p5
      OBVIOUS
    <3> HIDE DEF w
    <3>2. CASE n = 1
      <4>1. n - 1 = 0
        BY <3>2
      <4> QED
        BY <1>1, <3>1, <3>2, <4>1
    <3>3. CASE n = 2
      <4>1. n - 1 = 1
        BY <3>3
      <4> QED
        BY <1>1, <3>1, <3>3, <4>1
    <3>4. CASE n = 3
      <4>1. n - 1 = 2
        BY <3>4
      <4> QED
        BY <1>1, <3>1, <3>4, <4>1
    <3>5. CASE n = 4
      <4>1. n - 1 = 3
        BY <3>5
      <4> QED
        BY <1>1, <3>1, <3>5, <4>1
    <3>6. CASE n = 5
      <4>1. n - 1 = 4
        BY <3>6
      <4> QED
        BY <1>1, <3>1, <3>6, <4>1
    <3> QED
      BY <2>1, <3>2, <3>3, <3>4, <3>5, <3>6
  <2> QED
    BY <2>1
<1>3. w[5] = p5
  OBVIOUS
<1> HIDE DEF w
<1>4. PackOf(tokens) = w[5]
  BY <1>1, <1>2, PackOfIs, SMTT(40)
<1> QED
  BY <1>3, <1>4 DEF tokens

LEMMA HeadWordIs ==
    ASSUME NEW C, NEW head \in C, Colon \in C, NEW val \in Seq(C), NEW mode \in Modes
    PROVE  /\ HeadWord(head, val, mode) \in Words(C) /\ HeadWord(head, val, mode).gap # <<>>
           /\ TextOf(HeadWord(head, val, mode)) = Token(head, val)
<1> DEFINE gap == <<" ">>
           p == [text |-> <<head, Colon>>, mode |-> "NORMAL", lazy |-> TRUE]
           q == [text |-> val, mode |-> mode, lazy |-> TRUE]
<1>1. p \in Parts(C) /\ q \in Parts(C) /\ p.text # <<>>
  <2>1. "NORMAL" \in Modes
    BY DEF Modes, Escapable
  <2> QED
    BY <2>1 DEF Parts
<1>2. gap \in Seq(Blanks) /\ gap # <<>>
  BY DEF Blanks
<1>3. HeadWord(head, val, mode) = [gap |-> gap, parts |-> <<p, q>>]
  BY DEF HeadWord
<1>4. p.text \o q.text = Token(head, val)
  BY DEF Token
<1> HIDE DEF gap, p, q
<1>5. [gap |-> gap, parts |-> <<p, q>>].gap = gap
  OBVIOUS
<1> QED
  BY <1>1, <1>2, <1>3, <1>4, <1>5, TwoParts

\* What each head leaves in the pack; the head nobody registered leaves nothing.
LEMMA HeadsWritten ==
    ASSUME NEW C, Colon \in C, Heads \subseteq C, "-x" \in C,
           NEW m, NEW f, NEW ps, NEW val \in Seq(C)
    PROVE  /\ WriteToken(Pack(m, f, ps), Token("-m", val)) = Pack(Trim(val), f, ps)
           /\ WriteToken(Pack(m, f, ps), Token("-f", val)) = Pack(m, Trim(val), ps)
           /\ WriteToken(Pack(m, f, ps), Token("-v", val)) = WritePairs(Pack(m, f, ps), val)
           /\ WriteToken(Pack(m, f, ps), Token("-x", val)) = Pack(m, f, ps)
<1> DEFINE pack == Pack(m, f, ps)
<1>1. "-m" \in C /\ "-f" \in C /\ "-v" \in C
  BY DEF Heads
<1>2. "-m" \in Heads /\ "-f" \in Heads /\ "-v" \in Heads /\ "-x" \notin Heads
  BY DEF Heads
<1>3. "-m" # Colon /\ "-f" # Colon /\ "-v" # Colon /\ "-x" # Colon
  BY DEF Colon
<1>4. /\ CmdWriter("-m", pack, val) = Pack(Trim(val), f, ps)
      /\ CmdWriter("-f", pack, val) = Pack(m, Trim(val), ps)
      /\ CmdWriter("-v", pack, val) = WritePairs(pack, val)
  BY HeadWritten
<1> HIDE DEF pack
<1>5. WriteToken(pack, Token("-m", val)) = CmdWriter("-m", pack, val)
  BY <1>1, <1>2, <1>3, TokenWritten
<1>6. WriteToken(pack, Token("-f", val)) = CmdWriter("-f", pack, val)
  BY <1>1, <1>2, <1>3, TokenWritten
<1>7. WriteToken(pack, Token("-v", val)) = CmdWriter("-v", pack, val)
  BY <1>1, <1>2, <1>3, TokenWritten
<1>8. WriteToken(pack, Token("-x", val)) = pack
  BY <1>2, <1>3, TokenWritten
<1> QED
  BY <1>4, <1>5, <1>6, <1>7, <1>8 DEF pack

\* A line that is read as it was meant gives its pack, and is accepted when the
\* pack names a module.
LEMMA CommandRead ==
    ASSUME NEW C, {BackSlash, DQuote, SQuote} \subseteq C, Blanks \subseteq C,
           NEW words \in LinesOver(C), Len(words) # 0, NEW pack, PackOf(Meant(words)) = pack,
           pack.mod # None
    PROVE  HandleTXT(TypedLine(words, None)) = [accepted |-> TRUE, pack |-> pack]
<1> DEFINE cmd == TypedLine(words, None)
<1>1. None \in Seq(Blanks)
  BY DEF None
<1>2. cmd \in Seq(C) /\ ComesBack(words, None)
  BY <1>1, RoundTripOver
<1>3. TokenizeCommand(cmd) = Meant(words)
  BY <1>2 DEF ComesBack, Meant
<1> HIDE DEF cmd
<1>4. cmd # None
  <2>1. SUFFICES ASSUME cmd = None PROVE FALSE
    OBVIOUS
  <2>2. PICK r : Reading(cmd, C, r) /\ TokenizeCommand(cmd) = Cut(r[Len(cmd)])
    BY <1>2, Tokenized
  <2>3. Len(cmd) = 0
    BY <2>1 DEF None
  <2>4. r[Len(cmd)] = Start
    BY <2>2, <2>3 DEF Reading
  <2>5. Cut(Start) = None /\ Len(None) = 0
    BY DEF Cut, Start, State, None
  <2>6. Len(Meant(words)) = 0
    BY <1>3, <2>2, <2>4, <2>5
  <2>7. Len(Meant(words)) = Len(words)
    BY LineType
  <2> QED
    BY <2>6, <2>7
<1>5. HandleTXT(cmd) = [accepted |-> cmd # None /\ pack.mod # None, pack |-> pack]
  BY <1>3 DEF HandleTXT, None
<1> QED
  BY <1>4, <1>5 DEF cmd

\* Three words with blanks before them, and five.
LEMMA ThreeWords ==
    ASSUME NEW C, NEW a \in Words(C), NEW b \in Words(C), NEW c \in Words(C),
           a.gap # <<>>, b.gap # <<>>, c.gap # <<>>
    PROVE  /\ <<a, b, c>> \in LinesOver(C) /\ Len(<<a, b, c>>) = 3
           /\ Meant(<<a, b, c>>) = <<TextOf(a), TextOf(b), TextOf(c)>>
<1>1. <<a, b, c>> \in LinesOver(C)
  BY DEF LinesOver
<1> DEFINE ws == <<a, b, c>>
           x == TextOf(a)
           y == TextOf(b)
           z == TextOf(c)
<1>2. /\ DOMAIN ws = 1 .. 3 /\ Len(ws) = 3
      /\ ws[1] = a /\ ws[2] = b /\ ws[3] = c
  OBVIOUS
<1> HIDE DEF ws
<1>3. TextOf(ws[1]) = x /\ TextOf(ws[2]) = y /\ TextOf(ws[3]) = z
  BY <1>2
<1> DEFINE t(i) == TextOf(ws[i])
<1>4. Meant(ws) = [i \in 1 .. 3 |-> t(i)] /\ t(1) = x /\ t(2) = y /\ t(3) = z
  BY <1>2, <1>3 DEF Meant
<1> HIDE DEF t, x, y, z
<1>5. [i \in 1 .. 3 |-> t(i)] = <<x, y, z>>
  BY <1>4
<1> QED
  BY <1>1, <1>2, <1>4, <1>5 DEF ws, x, y, z

LEMMA FiveWords ==
    ASSUME NEW C, NEW a \in Words(C), NEW b \in Words(C), NEW c \in Words(C),
           NEW d \in Words(C), NEW e \in Words(C),
           a.gap # <<>>, b.gap # <<>>, c.gap # <<>>, d.gap # <<>>, e.gap # <<>>
    PROVE  /\ <<a, b, c, d, e>> \in LinesOver(C) /\ Len(<<a, b, c, d, e>>) = 5
           /\ Meant(<<a, b, c, d, e>>)
                = <<TextOf(a), TextOf(b), TextOf(c), TextOf(d), TextOf(e)>>
<1>1. <<a, b, c, d, e>> \in LinesOver(C)
  BY DEF LinesOver
<1> DEFINE ws == <<a, b, c, d, e>>
           x == TextOf(a)
           y == TextOf(b)
           z == TextOf(c)
           u == TextOf(d)
           v == TextOf(e)
<1>2. /\ DOMAIN ws = 1 .. 5 /\ Len(ws) = 5
      /\ ws[1] = a /\ ws[2] = b /\ ws[3] = c /\ ws[4] = d /\ ws[5] = e
  OBVIOUS
<1> HIDE DEF ws
<1>3. /\ TextOf(ws[1]) = x /\ TextOf(ws[2]) = y /\ TextOf(ws[3]) = z
      /\ TextOf(ws[4]) = u /\ TextOf(ws[5]) = v
  BY <1>2
<1> DEFINE t(i) == TextOf(ws[i])
<1>4. /\ Meant(ws) = [i \in 1 .. 5 |-> t(i)]
      /\ t(1) = x /\ t(2) = y /\ t(3) = z /\ t(4) = u /\ t(5) = v
  BY <1>2, <1>3 DEF Meant
<1> HIDE DEF t, x, y, z, u, v
<1>5. [i \in 1 .. 5 |-> t(i)] = <<x, y, z, u, v>>
  BY <1>4
<1> QED
  BY <1>1, <1>2, <1>4, <1>5 DEF ws, x, y, z, u, v

\* The characters of a line with heads.
MarksIn(C) ==
    /\ {BackSlash, DQuote, SQuote} \subseteq C /\ Blanks \subseteq C
    /\ Colon \in C /\ Comma \in C /\ Pipe \in C
    /\ Heads \subseteq C /\ "-x" \in C

LEMMA NameIs ==
    ASSUME NEW C, NEW v \in Names(C)
    PROVE  v \in Seq(C) /\ Trim(v) = v
  BY DEF Names

LEMMA GivenFields ==
    ASSUME NEW mod, NEW func, NEW k1, NEW v1, NEW k2, NEW v2
    PROVE  Given(mod, func, k1, v1, k2, v2).mod = mod
  BY PackFields DEF Given

\* One -v: for both pairs.
LEMMA JoinedRead ==
    ASSUME NEW C, MarksIn(C), NEW mod \in Names(C), mod # None, NEW func \in Names(C),
           NEW k1 \in Keys(C), NEW k2 \in Keys(C), NEW v1 \in Values(C), NEW v2 \in Values(C),
           NEW mode \in Modes
    PROVE  HandleTXT(TypedLine(Joined(mod, func, k1, v1, k2, v2, mode), None))
             = [accepted |-> TRUE, pack |-> Given(mod, func, k1, v1, k2, v2)]
<1> DEFINE val == Pair(k1, v1) \o <<Comma>> \o Pair(k2, v2)
           a == HeadWord("-m", mod, mode)
           b == HeadWord("-f", func, mode)
           c == HeadWord("-v", val, mode)
           p1 == Pack(mod, None, NoParams)
           p2 == Pack(mod, func, NoParams)
           p3 == Given(mod, func, k1, v1, k2, v2)
<1>1. /\ mod \in Seq(C) /\ Trim(mod) = mod /\ func \in Seq(C) /\ Trim(func) = func
  BY NameIs
<1>2. val \in Seq(C) /\ WritePairs(p2, val) = p3
  BY TwoPairs DEF MarksIn, Given
<1>3. Joined(mod, func, k1, v1, k2, v2, mode) = <<a, b, c>>
  BY DEF Joined
<1>4. NewPack = Pack(None, None, NoParams)
  BY DEF NewPack, None
<1>5. "-m" \in C /\ "-f" \in C /\ "-v" \in C /\ Colon \in C
  BY DEF MarksIn, Heads
<1> HIDE DEF val
<1>6. /\ a \in Words(C) /\ b \in Words(C) /\ c \in Words(C)
      /\ a.gap # <<>> /\ b.gap # <<>> /\ c.gap # <<>>
      /\ TextOf(a) = Token("-m", mod) /\ TextOf(b) = Token("-f", func)
      /\ TextOf(c) = Token("-v", val)
  BY <1>1, <1>2, <1>5, HeadWordIs
<1> HIDE DEF a, b, c
<1>7. /\ WriteToken(NewPack, Token("-m", mod)) = p1
      /\ WriteToken(p1, Token("-f", func)) = p2
      /\ WriteToken(p2, Token("-v", val)) = p3
  BY <1>1, <1>2, <1>4, HeadsWritten DEF MarksIn
<1> HIDE DEF p1, p2
<1>8. PackOf(<<Token("-m", mod), Token("-f", func), Token("-v", val)>>) = p3
  <2> HIDE DEF p3
  <2> QED
    BY <1>7, PackOfThree
<1> DEFINE words == <<a, b, c>>
<1>9. words \in LinesOver(C) /\ Len(words) = 3 /\ PackOf(Meant(words)) = p3
  BY <1>6, <1>8, ThreeWords
<1>10. p3.mod # None
  BY GivenFields
<1> HIDE DEF words, p3
<1>11. HandleTXT(TypedLine(words, None)) = [accepted |-> TRUE, pack |-> p3]
  BY <1>9, <1>10, CommandRead, SMTT(40) DEF MarksIn
<1> QED
  BY <1>3, <1>11 DEF words, p3

\* One -v: for each pair, the heads in another order, a word with an unknown head.
LEMMA SpreadRead ==
    ASSUME NEW C, MarksIn(C), NEW mod \in Names(C), mod # None, NEW func \in Names(C),
           NEW k1 \in Keys(C), NEW k2 \in Keys(C), NEW v1 \in Values(C), NEW v2 \in Values(C),
           NEW mode \in Modes
    PROVE  HandleTXT(TypedLine(Spread(mod, func, k1, v1, k2, v2, mode), None))
             = [accepted |-> TRUE, pack |-> Given(mod, func, k1, v1, k2, v2)]
<1> DEFINE x1 == Pair(k1, v1)
           x2 == Pair(k2, v2)
           a == HeadWord("-v", x1, mode)
           b == HeadWord("-x", v1, mode)
           c == HeadWord("-f", func, mode)
           d == HeadWord("-v", x2, mode)
           e == HeadWord("-m", mod, mode)
           one == PushParam(NoParams, k1, v1)
           two == PushParam(one, k2, v2)
           p1 == Pack(None, None, one)
           p3 == Pack(None, func, one)
           p4 == Pack(None, func, two)
           p5 == Given(mod, func, k1, v1, k2, v2)
<1>1. /\ mod \in Seq(C) /\ Trim(mod) = mod /\ func \in Seq(C) /\ Trim(func) = func
      /\ v1 \in Seq(C)
  BY NameIs, ValueIs
<1>2. x1 \in Seq(C) /\ WritePairs(Pack(None, None, NoParams), x1) = p1
  BY OnePair DEF MarksIn
<1>3. x2 \in Seq(C) /\ WritePairs(p3, x2) = p4
  <2> HIDE DEF one
  <2> QED
    BY OnePair DEF MarksIn
<1>4. Spread(mod, func, k1, v1, k2, v2, mode) = <<a, b, c, d, e>>
  BY DEF Spread
<1>5. NewPack = Pack(None, None, NoParams)
  BY DEF NewPack, None
<1>6. /\ "-m" \in C /\ "-f" \in C /\ "-v" \in C /\ "-x" \in C /\ Colon \in C
  BY DEF MarksIn, Heads
<1>7. p5 = Pack(mod, func, two)
  BY DEF Given
<1> HIDE DEF x1, x2, p5
<1>8. /\ a \in Words(C) /\ b \in Words(C) /\ c \in Words(C) /\ d \in Words(C) /\ e \in Words(C)
      /\ a.gap # <<>> /\ b.gap # <<>> /\ c.gap # <<>> /\ d.gap # <<>> /\ e.gap # <<>>
      /\ TextOf(a) = Token("-v", x1) /\ TextOf(b) = Token("-x", v1)
      /\ TextOf(c) = Token("-f", func) /\ TextOf(d) = Token("-v", x2)
      /\ TextOf(e) = Token("-m", mod)
  BY <1>1, <1>2, <1>3, <1>6, HeadWordIs
<1> HIDE DEF a, b, c, d, e
<1>9. /\ WriteToken(NewPack, Token("-v", x1)) = p1
      /\ WriteToken(p1, Token("-x", v1)) = p1
      /\ WriteToken(p1, Token("-f", func)) = p3
      /\ WriteToken(p3, Token("-v", x2)) = p4
      /\ WriteToken(p4, Token("-m", mod)) = p5
  <2> HIDE DEF one, two
  <2>0. Colon \in C /\ Heads \subseteq C /\ "-x" \in C
    BY DEF MarksIn
  <2>1. WriteToken(NewPack, Token("-v", x1)) = p1
    BY <1>2, <1>5, <2>0, HeadsWritten
  <2>2. WriteToken(p1, Token("-x", v1)) = p1
    BY <1>1, <2>0, HeadsWritten
  <2>3. WriteToken(p1, Token("-f", func)) = p3
    BY <1>1, <2>0, HeadsWritten
  <2>4. WriteToken(p3, Token("-v", x2)) = p4
    BY <1>3, <2>0, HeadsWritten
  <2>5. WriteToken(p4, Token("-m", mod)) = p5
    BY <1>1, <1>7, <2>0, HeadsWritten
  <2> QED
    BY <2>1, <2>2, <2>3, <2>4, <2>5
<1> HIDE DEF p1, p3, p4
<1>10. PackOf(<<Token("-v", x1), Token("-x", v1), Token("-f", func),
                Token("-v", x2), Token("-m", mod)>>) = p5
  BY <1>9, PackOfFive
<1> DEFINE words == <<a, b, c, d, e>>
<1>11. words \in LinesOver(C) /\ Len(words) = 5 /\ PackOf(Meant(words)) = p5
  <2>1. /\ words \in LinesOver(C) /\ Len(words) = 5
        /\ Meant(words) = <<TextOf(a), TextOf(b), TextOf(c), TextOf(d), TextOf(e)>>
    <3>1. /\ a \in Words(C) /\ b \in Words(C) /\ c \in Words(C) /\ d \in Words(C)
          /\ e \in Words(C)
          /\ a.gap # <<>> /\ b.gap # <<>> /\ c.gap # <<>> /\ d.gap # <<>> /\ e.gap # <<>>
      BY <1>8
    <3> QED
      BY <3>1, FiveWords
  <2>2. Meant(words) = <<Token("-v", x1), Token("-x", v1), Token("-f", func),
                         Token("-v", x2), Token("-m", mod)>>
    BY <1>8, <2>1
  <2> QED
    BY <1>10, <2>1, <2>2
<1>12. p5.mod # None
  BY GivenFields DEF p5
<1>13. {BackSlash, DQuote, SQuote} \subseteq C /\ Blanks \subseteq C
  BY DEF MarksIn
<1> HIDE DEF words, one, two
<1>14. Len(words) # 0
  BY <1>11
<1>15. HandleTXT(TypedLine(words, None)) = [accepted |-> TRUE, pack |-> p5]
  BY <1>11, <1>12, <1>13, <1>14, CommandRead
<1> QED
  BY <1>4, <1>15 DEF words, p5

\* A name, a value and a key are one over more characters too.
LEMMA NamesMonotonic ==
    ASSUME NEW A, NEW C, A \subseteq C
    PROVE  Names(A) \subseteq Names(C) /\ Values(A) \subseteq Values(C) /\ Keys(A) \subseteq Keys(C)
<1>1. Seq(A) \subseteq Seq(C)
  BY SeqMonotonic
<1>2. Names(A) \subseteq Names(C)
  BY <1>1 DEF Names
<1>3. Values(A) \subseteq Values(C)
  BY <1>2 DEF Values
<1> QED
  BY <1>2, <1>3 DEF Keys

(* A pack is read as it was typed, for every module name that is not       *)
(* empty, every function name, every two keys and every two values, in     *)
(* whatever characters and of whatever length, as long as none begins or   *)
(* ends in a blank, no value holds a comma and no key a comma or a pipe:   *)
(* the same key twice keeps both values, in the order they were typed, the *)
(* order of the heads does not matter, one -v: for both pairs is two -v:   *)
(* for one each, and the head nobody registered changes nothing            *)
(* (CommandParser.cpp:160-277).                                            *)
THEOREM PackReadAsMeant ==
    ASSUME NEW Chars, NEW mod \in Names(Chars), mod # <<>>, NEW func \in Names(Chars),
           NEW k1 \in Keys(Chars), NEW k2 \in Keys(Chars),
           NEW v1 \in Values(Chars), NEW v2 \in Values(Chars), NEW mode \in Modes
    PROVE  ReadAsMeant(mod, func, k1, v1, k2, v2, mode)
<1> DEFINE C == Chars \cup Blanks \cup {BackSlash, DQuote, SQuote} \cup {Colon, Comma, Pipe}
                  \cup Heads \cup {"-x"}
<1>1. MarksIn(C) /\ Chars \subseteq C
  BY DEF MarksIn
<1> HIDE DEF C
<1>2. /\ mod \in Names(C) /\ func \in Names(C) /\ k1 \in Keys(C) /\ k2 \in Keys(C)
      /\ v1 \in Values(C) /\ v2 \in Values(C)
  BY <1>1, NamesMonotonic
<1>3. mod # None
  BY DEF None
<1>4. HandleTXT(TypedLine(Joined(mod, func, k1, v1, k2, v2, mode), None))
        = [accepted |-> TRUE, pack |-> Given(mod, func, k1, v1, k2, v2)]
  BY <1>1, <1>2, <1>3, JoinedRead
<1>5. HandleTXT(TypedLine(Spread(mod, func, k1, v1, k2, v2, mode), None))
        = [accepted |-> TRUE, pack |-> Given(mod, func, k1, v1, k2, v2)]
  BY <1>1, <1>2, <1>3, SpreadRead
<1> QED
  BY <1>4, <1>5 DEF ReadAsMeant, None

\* A word of one letter has nothing to trim.
LEMMA TrimLetter ==
    ASSUME NEW c, c \notin Blanks
    PROVE  Trim(<<c>>) = <<c>>
<1> DEFINE s == <<c>>
           inked == {i \in DOMAIN s : s[i] \notin Blanks}
<1>1. s \in Seq({c}) /\ Len(s) = 1 /\ DOMAIN s = {1} /\ s[1] = c
  OBVIOUS
<1>2. SubSeq(s, 1, 1) = s
  BY <1>1, SubSeqFull
<1> HIDE DEF s
<1>3. inked = {1}
  BY <1>1
<1>4. /\ (CHOOSE i \in inked : \A j \in inked : i <= j) = 1
      /\ (CHOOSE i \in inked : \A j \in inked : j <= i) = 1
  BY <1>3
<1>5. inked # {}
  BY <1>3
<1> QED
  BY <1>2, <1>4, <1>5 DEF Trim, s

\* The keys and names of PackAsTyped.
LEMMA Letter ==
    ASSUME NEW C, NEW c \in C, c \notin Blanks, c # Comma, c # Pipe
    PROVE  <<c>> \in Names(C) /\ <<c>> \in Keys(C)
<1> DEFINE s == <<c>>
<1>1. s \in Seq(C) /\ Range(s) = {c}
  BY DEF Range
<1>2. Trim(s) = s
  BY TrimLetter
<1> HIDE DEF s
<1>3. s \in Names(C) /\ s \in Keys(C)
  BY <1>1, <1>2 DEF Names, Values, Keys
<1> QED
  BY <1>3 DEF s

\* The packs that TLC reads one by one are such packs.
LEMMA PackIsAsTyped == PackAsTyped
<1> DEFINE Chars == Inked \cup {"M", "f", "k", "l"}
<1>1. /\ "M" \in Chars /\ "f" \in Chars /\ "k" \in Chars /\ "l" \in Chars
      /\ Inked \subseteq Chars
  OBVIOUS
<1>2. /\ "M" \notin Blanks /\ "f" \notin Blanks /\ "k" \notin Blanks /\ "l" \notin Blanks
  BY DEF Blanks
<1>3. /\ "M" # Comma /\ "f" # Comma /\ "k" # Comma /\ "l" # Comma
      /\ "M" # Pipe /\ "f" # Pipe /\ "k" # Pipe /\ "l" # Pipe
  BY Zenon DEF Comma, Pipe
<1> HIDE DEF Chars
<1> DEFINE M == <<"M">>
           f == <<"f">>
           k == <<"k">>
           l == <<"l">>
<1>4. M \in Names(Chars) /\ f \in Names(Chars) /\ k \in Keys(Chars) /\ l \in Keys(Chars)
  BY <1>1, <1>2, <1>3, Letter
<1>5. M # <<>>
  OBVIOUS
<1>6. ShortValues \subseteq Values(Chars)
  BY <1>1, NamesMonotonic DEF ShortValues
<1> HIDE DEF M, f, k, l
<1>7. ASSUME NEW v1 \in ShortValues, NEW v2 \in ShortValues, NEW k2 \in {k, l},
             NEW mode \in Modes
      PROVE  ReadAsMeant(M, f, k, v1, k2, v2, mode)
  <2>1. v1 \in Values(Chars) /\ v2 \in Values(Chars) /\ k2 \in Keys(Chars)
    BY <1>4, <1>6
  <2> QED
    BY <1>4, <1>5, <2>1, PackReadAsMeant
<1> QED
  BY <1>7 DEF PackAsTyped, M, f, k, l

(* A line that SendCommand has queued a pack for has been cut into the     *)
(* words that were typed (CommandParser.cpp:40-155).                       *)
THEOREM WordsKept == Spec => []WordsAsTyped
<1>1. WordsAsTyped
  BY WordsComeBack DEF WordsAsTyped
<1> QED
  BY <1>1, PTL

(* The pack that SendCommand has queued for a line holds what was typed,   *)
(* whether or not the main thread takes that pack for that line            *)
(* (CommandParser.cpp:160-277).                                            *)
THEOREM LineKept == Spec => []LineAsTyped
<1>1. LineAsTyped
  BY PackIsAsTyped DEF LineAsTyped
<1> QED
  BY <1>1, PTL
=============================================================================
