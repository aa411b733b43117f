------------------------------ MODULE SeqLock ------------------------------
(***************************************************************************)
(* The page of shared memory in which test_shell shows its figures, the    *)
(* threads that write it (MetricsCollector::Flush and PushEvent, and       *)
(* simulate_load, between BeginWrite and EndWrite) and the process that    *)
(* reads it (shell_monitor: TryRead and the retries of its render loop).   *)
(*                                                                         *)
(* Every access to a word of the page is a step: seq++ is a load and a     *)
(* store, and between two fences words are written or copied in any order. *)
(* Two words stand for the fields of Flush, which writes the number of the *)
(* write into them; the ring of PushEvent has its head and one word per    *)
(* entry, which holds the number of the event.  view.taken is history: the *)
(* monitor does not keep it.                                               *)
(***************************************************************************)
EXTENDS Naturals, Sequences

CONSTANTS
    Flushers,     \* threads that call Flush: the main loop
    Pushers,      \* threads that call PushEvent
    Ring,         \* the words of events[kMaxEvents], in their order
    SeqModulus,   \* 2^32, what seq is counted modulo
    Retries,      \* TryReads of one render
    StaleLimit,   \* renders without fresh data until NO SIGNAL
    MagicLimit,   \* renders without magic until NO SIGNAL
    Before,       \* events pushed before the monitor is started
    MaxWrites,    \* bound: writes begun, those included
    MaxRestarts   \* bound: new processes that open the page again

\* Words of their own, each once.
ASSUME RingAssumption ==
    /\ Ring \in Seq(STRING) /\ Ring # <<>>
    /\ \A i, j \in DOMAIN Ring : Ring[i] = Ring[j] => i = j
    /\ \A i \in DOMAIN Ring :
           Ring[i] \notin {"magic", "seq", "head", "uptime", "tasks"}

\* Within the life of a page seq does not come round: 2^31 writes.
ASSUME SeqLockAssumption ==
    /\ SeqModulus \in Nat /\ SeqModulus % 2 = 0
    /\ MaxWrites \in Nat /\ 2 * MaxWrites < SeqModulus
    /\ Before \in 0 .. Len(Ring) /\ Before <= MaxWrites
    /\ Retries \in Nat \ {0}
    /\ StaleLimit \in Nat \ {0}
    /\ MagicLimit \in Nat \ {0}
    /\ MaxRestarts \in Nat

Writers == Flushers \cup Pushers

FlushWords == {"uptime", "tasks"}

MaxEvents == Len(Ring)
Words == {"magic", "seq", "head"} \cup FlushWords \cup {Ring[i] : i \in 1 .. MaxEvents}

\* events[n % kMaxEvents].
Entry(n) == Ring[1 + (n % MaxEvents)]

Blank == [x \in Words |-> 0]

\* The page of a shell that has pushed so many events, no more than there are
\* entries.
PageBefore ==
    [x \in Words |->
        CASE x = "magic" -> 1
          [] x = "seq"   -> 2 * Before
          [] x = "head"  -> Before
          [] OTHER -> IF \E n \in 1 .. Before : x = Ring[n]
                      THEN CHOOSE n \in 1 .. Before : x = Ring[n] ELSE 0]

AtRest == [pc |-> "idle", seq |-> 0, call |-> "Flush", todo |-> {}, mark |-> 0]
NextRender ==
    [pc |-> "render", s1 |-> 0, out |-> Blank, todo |-> {}, tries |-> Retries]

VARIABLES
    page,      \* the words of the page; magic is 1 where it is kMagic
    life,      \* the process that owns the page: in OnInit, up, or gone
    writer,    \* per writer: where it stands, seq, words to write, its number
    reader,    \* TryRead: where it stands, s1, out, words to copy, tries left
    view,      \* the monitor's snap, snap_valid, last_seq and counters;
               \* taken: the page it took over last
    booted,    \* ghost: OnInit wrote to the page since s1 was read
    writes,    \* bound counter
    restarts   \* bound counter

vars == <<page, life, writer, reader, view, booted, writes, restarts>>

Seqs == 0 .. SeqModulus - 1
Pages == [Words -> Nat]

TypeOK ==
    /\ page \in Pages
    /\ page["seq"] \in Seqs
    /\ life \in {"boot", "up", "down"}
    /\ writer \in [Writers -> [pc : {"idle", "begin", "data", "end"}, seq : Seqs,
                               call : {"Flush", "PushEvent"},
                               todo : SUBSET Words, mark : 0 .. MaxWrites]]
    /\ reader \in [pc : {"render", "spin", "copy"}, s1 : Seqs, out : Pages,
                   todo : SUBSET Words, tries : 0 .. Retries]
    /\ view \in [valid : BOOLEAN, snap : Pages, taken : Pages, last : Nat,
                 stale : 0 .. StaleLimit, nosig : 0 .. MagicLimit]
    /\ booted \in BOOLEAN
    /\ writes \in 0 .. MaxWrites
    /\ restarts \in 0 .. MaxRestarts

Init ==
    /\ page = PageBefore
    /\ life = "up"
    /\ writer = [w \in Writers |-> AtRest]
    /\ reader = NextRender
    /\ view = [valid |-> FALSE, snap |-> Blank, taken |-> Blank, last |-> 0,
               stale |-> 0, nosig |-> 0]
    /\ booted = FALSE
    /\ writes = Before
    /\ restarts = 0

Odd(s) == s % 2 = 1
Next1(s) == (s + 1) % SeqModulus

writeVars == <<life, booted, restarts, reader, view>>
readVars  == <<page, life, writer, writes, restarts>>

-----------------------------------------------------------------------------
(***************************************************************************)
(* The writers.                                                            *)
(***************************************************************************)
\* BeginWrite of Flush or of PushEvent: seq is loaded.
BeginLoad(w, call) ==
    /\ life = "up"
    /\ writer[w].pc = "idle"
    /\ w \in IF call = "Flush" THEN Flushers ELSE Pushers
    /\ writes < MaxWrites
    /\ writes' = writes + 1
    /\ writer' = [writer EXCEPT ![w].pc = "begin", ![w].seq = page["seq"],
                               ![w].call = call]
    /\ UNCHANGED <<page, writeVars>>

\* seq is stored: odd, while nobody else writes.  PushEvent reads event_head.
BeginStore(w) ==
    /\ writer[w].pc = "begin"
    /\ page' = [page EXCEPT !["seq"] = Next1(writer[w].seq)]
    /\ \/ /\ writer[w].call = "Flush"
          /\ writer' = [writer EXCEPT ![w].pc = "data", ![w].todo = FlushWords,
                                     ![w].mark = writes]
       \/ /\ writer[w].call = "PushEvent"
          /\ writer' = [writer EXCEPT
                 ![w].pc = "data", ![w].mark = page["head"] + 1,
                 ![w].todo = {"head", Entry(page["head"])}]
    /\ UNCHANGED <<writes, writeVars>>

WriteWord(w, x) ==
    /\ writer[w].pc = "data"
    /\ x \in writer[w].todo
    /\ page' = [page EXCEPT ![x] = writer[w].mark]
    /\ writer' = [writer EXCEPT ![w].todo = @ \ {x}]
    /\ UNCHANGED <<writes, writeVars>>

\* Mutant of EndLoad: a store passes the fence of EndWrite.
EndLoadEarly(w) ==
    /\ writer[w].pc = "data"
    /\ writer' = [writer EXCEPT ![w].pc = "end", ![w].seq = page["seq"]]
    /\ UNCHANGED <<page, writes, writeVars>>

\* EndWrite: every store is done before seq is touched.
EndLoad(w) ==
    /\ writer[w].pc = "data"
    /\ writer[w].todo = {}
    /\ writer' = [writer EXCEPT ![w].pc = "end", ![w].seq = page["seq"]]
    /\ UNCHANGED <<page, writes, writeVars>>

EndStore(w) ==
    /\ writer[w].pc = "end"
    /\ page' = [page EXCEPT !["seq"] = Next1(writer[w].seq)]
    /\ writer' = [writer EXCEPT ![w] = AtRest]
    /\ UNCHANGED <<writes, writeVars>>

-----------------------------------------------------------------------------
(***************************************************************************)
(* The process that owns the page.                                         *)
(***************************************************************************)
Halt ==
    /\ life = "up"
    /\ life' = "down"
    /\ writer' = [w \in Writers |-> AtRest]
    /\ UNCHANGED <<reader, view, booted, writes, restarts>>

\* It ends or crashes at any moment.  At a normal end nobody calls OnShutdown,
\* so that looks the same.  The monitor's mapping keeps the page.
Crash == Halt /\ UNCHANGED page

\* OnShutdown, of an UnloadModule between two writes: the page loses its
\* magic, outside BeginWrite and EndWrite.
OnShutdown ==
    /\ \A w \in Writers : writer[w].pc = "idle"
    /\ page' = [page EXCEPT !["magic"] = 0]
    /\ Halt

\* OnInit of the next process, on a page that is still there: memset, outside
\* BeginWrite and EndWrite too.  It is one step, because what a TryRead makes
\* of a page that is being cleared is left open in any case (booted).
OnInit ==
    /\ life = "down"
    /\ restarts < MaxRestarts
    /\ restarts' = restarts + 1
    /\ life' = "boot"
    /\ page' = Blank
    /\ booted' = (reader.pc = "copy")
    /\ UNCHANGED <<writer, reader, view, writes>>

\* magic = kMagic; the store of 0 to seq changes nothing any more.
InitHeader ==
    /\ life = "boot"
    /\ page' = [page EXCEPT !["magic"] = 1]
    /\ life' = "up"
    /\ UNCHANGED <<writer, reader, view, booted, writes, restarts>>

-----------------------------------------------------------------------------
(***************************************************************************)
(* The monitor.                                                            *)
(***************************************************************************)
Rendered == reader' = NextRender

\* no_sig_cnt or stale_cnt has come to n: snap is cleared at the limit.
NoSignal(v, n, limit) ==
    IF n >= limit THEN [v EXCEPT !.valid = FALSE, !.snap = Blank] ELSE v

\* Mutant of Capped: one too far.
CappedLate(n, limit) == IF n <= limit THEN n + 1 ELSE n

\* The counters go on in the code; past the limit that makes no difference.
Capped(n, limit) == IF n < limit THEN n + 1 ELSE n

\* The raw magic, read outside TryRead.
CheckMagic ==
    /\ reader.pc = "render"
    /\ \/ /\ page["magic"] = 1
          /\ view' = [view EXCEPT !.nosig = 0]
          /\ reader' = [reader EXCEPT !.pc = "spin"]
       \/ /\ page["magic"] # 1
          /\ LET n == Capped(view.nosig, MagicLimit) IN
             view' = NoSignal([view EXCEPT !.nosig = n], n, MagicLimit)
          /\ UNCHANGED reader
    /\ UNCHANGED <<readVars, booted>>

\* TryRead: s1 is even.
ReadS1 ==
    /\ reader.pc = "spin"
    /\ ~Odd(page["seq"])
    /\ reader' = [reader EXCEPT !.pc = "copy", !.s1 = page["seq"],
                                !.out = Blank, !.todo = Words]
    /\ booted' = (life = "boot")
    /\ UNCHANGED <<readVars, view>>

CopyWord(x) ==
    /\ reader.pc = "copy"
    /\ x \in reader.todo
    /\ reader' = [reader EXCEPT !.out[x] = page[x], !.todo = @ \ {x}]
    /\ UNCHANGED <<readVars, view, booted>>

\* Mutant of Fresh: the seq of fresh data is a greater one.
FreshIfGreater ==
    /\ page["seq"] = reader.s1
    /\ reader.out["magic"] = 1
    /\ reader.out["seq"] > view.last

\* s2 = s1, the copied magic is good, and seq is not that of the last snap.
Fresh ==
    /\ page["seq"] = reader.s1
    /\ reader.out["magic"] = 1
    /\ reader.out["seq"] # view.last

\* Mutant of ReadS2: s2 is not compared.
ReadS2Unchecked ==
    /\ reader.pc = "copy"
    /\ reader.todo = {}
    /\ reader.out["magic"] = 1
    /\ reader.out["seq"] # view.last
    /\ view' = [view EXCEPT !.valid = TRUE, !.snap = reader.out,
                            !.taken = reader.out,
                            !.last = reader.out["seq"], !.stale = 0]
    /\ Rendered
    /\ booted' = FALSE
    /\ UNCHANGED readVars

\* The snapshot is shown.
ReadS2 ==
    /\ reader.pc = "copy"
    /\ reader.todo = {}
    /\ Fresh
    /\ view' = [view EXCEPT !.valid = TRUE, !.snap = reader.out,
                            !.taken = reader.out,
                            !.last = reader.out["seq"], !.stale = 0]
    /\ Rendered
    /\ booted' = FALSE
    /\ UNCHANGED readVars

\* Mutant of Failed: a failure is forgotten when the next render begins.
FailedForgets ==
    /\ \/ /\ reader.tries > 1
          /\ reader' = [NextRender EXCEPT !.pc = "spin", !.tries = reader.tries - 1]
          /\ UNCHANGED view
       \/ /\ reader.tries <= 1
          /\ Rendered
          /\ view' = NoSignal([view EXCEPT !.stale = 1], 1, StaleLimit)
    /\ booted' = FALSE
    /\ UNCHANGED readVars

\* A TryRead that gave nothing new: the next of the render, or stale_cnt++.
Failed ==
    /\ \/ /\ reader.tries > 1
          /\ reader' = [NextRender EXCEPT !.pc = "spin", !.tries = reader.tries - 1]
          /\ UNCHANGED view
       \/ /\ reader.tries <= 1
          /\ Rendered
          /\ LET n == Capped(view.stale, StaleLimit) IN
             view' = NoSignal([view EXCEPT !.stale = n], n, StaleLimit)
    /\ booted' = FALSE
    /\ UNCHANGED readVars

\* seq was odd a thousand times.
GiveUp ==
    /\ reader.pc = "spin"
    /\ Odd(page["seq"])
    /\ Failed

\* seq has moved, or nothing is new.
Discard ==
    /\ reader.pc = "copy"
    /\ reader.todo = {}
    /\ ~Fresh
    /\ Failed

-----------------------------------------------------------------------------
Write(w) ==
    \/ BeginLoad(w, "Flush") \/ BeginLoad(w, "PushEvent") \/ BeginStore(w)
    \/ \E x \in Words : WriteWord(w, x)
    \/ EndLoad(w) \/ EndStore(w)

Restart == OnInit \/ InitHeader

Monitor ==
    \/ CheckMagic \/ ReadS1 \/ (\E x \in Words : CopyWord(x))
    \/ ReadS2 \/ GiveUp \/ Discard

Next ==
    \/ \E w \in Writers : Write(w)
    \/ Crash \/ OnShutdown \/ Restart
    \/ Monitor

\* The refresh thread of the monitor posts a tick for ever, as long as the user
\* has not paused it; nobody has to write.
Spec == Init /\ [][Next]_vars
FairSpec == Spec /\ WF_vars(Monitor)

-----------------------------------------------------------------------------
(***************************************************************************)
(* Properties.                                                             *)
(***************************************************************************)
\* The event list of the monitor, from the newest event on; 0 is a blank entry,
\* which is not drawn.  Before the first event every index is that of entry 0.
Shown(p) ==
    [i \in 1 .. MaxEvents |->
        p[Entry(IF p["head"] > 0 THEN p["head"] + MaxEvents - i ELSE 0)]]

\* The last events, newest first, and blanks behind them.
Newest(p) ==
    [i \in 1 .. MaxEvents |-> IF i <= p["head"] THEN p["head"] + 1 - i ELSE 0]

Whole(p) == p["uptime"] = p["tasks"] /\ Shown(p) = Newest(p)

\* What the monitor takes over was on the page at one moment: no write shows
\* in part, and its event list is the last events in their order.  A process
\* that starts on the old page clears it without the protocol; a TryRead that
\* overlaps with that is left out.
NoTornRead ==
    [][view'.valid /\ view'.snap # view.snap /\ ~booted => Whole(view'.snap)]_vars

\* Somebody has written since the page was opened, and nobody writes.
Quiet ==
    /\ life # "boot"
    /\ page["magic"] = 1
    /\ page["seq"] # 0
    /\ \A w \in Writers : writer[w].pc = "idle"
    /\ ~Odd(page["seq"])

\* What is on the page when the writing stops is taken over, word for word, by a
\* monitor that goes on refreshing, unless the page changes first.  Left out is
\* a page of a new process that has come to the very seq the monitor saw last:
\* the code compares nothing else (main.cpp:108), and never takes that one over.
LastWriteIsSeen ==
    (Quiet /\ ~booted /\ (restarts = 0 \/ page["seq"] # view.last))
        ~> (~Quiet \/ view.taken = page)

\* Once the framework is gone for good the monitor says so, wherever in a
\* write it was (docs/en/06-monitoring.md).
DeadIsNoSignal == <>[](life = "down") => <>[](~view.valid)
=============================================================================
