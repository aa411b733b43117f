---------------------------- MODULE SeqLockProofs ----------------------------
(***************************************************************************)
(* Proofs about SeqLock, for every size of the event ring and every        *)
(* modulus, limit and number of writes and restarts: types, and that one   *)
(* writer at a time is enough for the monitor to show whole pages only.    *)
(* Two at a time are not (run metrics_two): seq++ is a load and a store,   *)
(* and two of them may leave seq even in the middle of a write.            *)
(*                                                                         *)
(* The argument of NoTornRead: seq is odd while the writer is between its  *)
(* two stores to it (WriterOK), grows with each, and comes round only      *)
(* after more writes than a page lives through.  So a reader that finds    *)
(* the even seq it started from has copied from a page on which nobody     *)
(* wrote (CopyOK), unless OnInit cleared the page under it, which is what  *)
(* booted remembers.                                                       *)
(***************************************************************************)
EXTENDS SeqLock, Integers, FiniteSets, FiniteSetTheorems, TLAPS

(***************************************************************************)
(* Types, for any number of writers.                                       *)
(***************************************************************************)
\* Writes that are counted and have not chosen a mark.
Beginners == {w \in Writers : writer[w].pc = "begin"}

\* event_head counts events, each of which is a write.
HeadOK ==
    /\ IsFiniteSet(Beginners)
    /\ page["head"] + Cardinality(Beginners) <= writes
    /\ \A w \in Writers :
           writer[w].pc = "data" /\ "head" \in writer[w].todo =>
               writer[w].mark + Cardinality(Beginners) <= writes

\* No word that is written between BeginWrite and EndWrite is magic or seq.
TodoOK == \A w \in Writers : writer[w].todo \cap {"magic", "seq"} = {}

PageInv == TypeOK /\ HeadOK /\ TodoOK

(***************************************************************************)
(* One writer.                                                             *)
(***************************************************************************)
OneWriter == \A v, w \in Writers : v = w

Even(s) == ~Odd(s)

\* The ring after h events: the last MaxEvents of them where they belong, and
\* blanks.
Ordered(p, h) ==
    \A n \in Nat : /\ n < h /\ h <= n + MaxEvents => p[Entry(n)] = n + 1
                   /\ h <= n /\ n < MaxEvents => p[Entry(n)] = 0

\* What of it is kept when the next event overwrites an entry.
Kept(p, h) ==
    \A n \in Nat : /\ n < h /\ h < n + MaxEvents => p[Entry(n)] = n + 1
                   /\ h < n /\ n < MaxEvents => p[Entry(n)] = 0

Good(p) == p["uptime"] = p["tasks"] /\ Ordered(p, p["head"])

FlushWritten(w) ==
    /\ writer[w].todo \subseteq FlushWords
    /\ \A x \in FlushWords \ writer[w].todo : page[x] = writer[w].mark
    /\ Ordered(page, page["head"])

\* h: event_head before the event.
PushWritten(w, h) ==
    /\ writer[w].mark = h + 1
    /\ writer[w].todo \subseteq {"head", Entry(h)}
    /\ page["head"] = IF "head" \in writer[w].todo THEN h ELSE h + 1
    /\ Entry(h) \notin writer[w].todo => page[Entry(h)] = h + 1
    /\ Kept(page, h)
    /\ page["uptime"] = page["tasks"]

Written(w) ==
    \/ writer[w].call = "Flush" /\ FlushWritten(w)
    \/ writer[w].call = "PushEvent" /\ \E h \in Nat : PushWritten(w, h)

WriterOK(w) ==
    CASE writer[w].pc = "idle" ->
           /\ page["seq"] <= 2 * writes
           /\ life = "up" => Even(page["seq"])
      [] writer[w].pc = "begin" ->
           /\ page["seq"] + 2 <= 2 * writes
           /\ Even(page["seq"])
           /\ writer[w].seq = page["seq"]
      [] writer[w].pc = "data" ->
           /\ page["seq"] + 1 <= 2 * writes
           /\ Odd(page["seq"])
           /\ Written(w)
      [] OTHER ->
           /\ page["seq"] + 1 <= 2 * writes
           /\ Odd(page["seq"])
           /\ writer[w].seq = page["seq"]
           /\ Good(page)

LifeOK ==
    /\ life # "up" => \A w \in Writers : writer[w].pc = "idle"
    /\ life = "boot" => page["seq"] = 0
    /\ Even(page["seq"]) => Good(page)

CopyOK ==
    reader.pc = "copy" /\ ~booted =>
        /\ Even(reader.s1)
        /\ reader.s1 <= page["seq"]
        /\ page["seq"] = reader.s1 =>
               \A x \in Words \ (reader.todo \cup {"magic"}) :
                   reader.out[x] = page[x]

SoloInv == PageInv /\ (\A w \in Writers : WriterOK(w)) /\ LifeOK /\ CopyOK

-----------------------------------------------------------------------------
(***************************************************************************)
(* The page's words, and counting modulo SeqModulus.                       *)
(***************************************************************************)
\* The remainder and the quotient.
LEMMA DivMod ==
    ASSUME NEW n \in Nat, NEW m \in Nat \ {0}
    PROVE  /\ n % m \in 0 .. m - 1
           /\ n \div m \in Int
           /\ n = m * (n \div m) + (n % m)
<1>1. n % m \in 0 .. m - 1
  OBVIOUS
<1>2. n \div m \in Int
  OBVIOUS
<1>3. n = m * (n \div m) + (n % m)
  OBVIOUS
<1> QED
  BY <1>1, <1>2, <1>3

\* Multiples of m are m apart.
LEMMA Multiples ==
    ASSUME NEW m \in Nat \ {0}, NEW q \in Int, NEW k \in Int, q < k
    PROVE  /\ m * q \in Int /\ m * k \in Int
           /\ m * q + m <= m * k
<1>1. m * q \in Int /\ m * k \in Int
  OBVIOUS
<1>2. PICK d \in Nat : k = q + 1 + d
  <2>1. k - q - 1 \in Nat /\ k = q + 1 + (k - q - 1)
    OBVIOUS
  <2> QED
    BY <2>1
<1>3. m * k = m * q + m + m * d
  BY <1>2
<1>4. m * d \in Nat
  BY <1>2
<1> QED
  BY <1>1, <1>3, <1>4

\* There is one remainder.
LEMMA ModUnique ==
    ASSUME NEW m \in Nat \ {0}, NEW q \in Int, NEW k \in Int,
           NEW r \in 0 .. m - 1, NEW s \in 0 .. m - 1,
           m * q + r = m * k + s
    PROVE  q = k /\ r = s
<1> DEFINE a == m * q
           b == m * k
<1>1. a \in Int /\ b \in Int /\ a + r = b + s
  OBVIOUS
<1>2. q < k => a + m <= b
  BY Multiples
<1>3. k < q => b + m <= a
  BY Multiples
<1>4. q = k => a = b
  OBVIOUS
<1> HIDE DEF a, b
<1>5. ~(q < k) /\ ~(k < q)
  BY <1>1, <1>2, <1>3
<1> QED
  BY <1>1, <1>4, <1>5

\* An entry comes round after m steps,
LEMMA ModAdd ==
    ASSUME NEW n \in Nat, NEW m \in Nat \ {0}
    PROVE  (n + m) % m = n % m
<1> DEFINE q == n \div m
           k == (n + m) \div m
           r == n % m
           s == (n + m) % m
<1>1. q \in Int /\ r \in 0 .. m - 1 /\ n = m * q + r
  BY DivMod
<1>2. n + m \in Nat
  OBVIOUS
<1>3. k \in Int /\ s \in 0 .. m - 1 /\ n + m = m * k + s
  BY <1>2, DivMod
<1>4. m * (q + 1) = m * q + m
  BY <1>1
<1>5. m * q \in Int
  BY <1>1
<1> HIDE DEF q, k, r, s
<1>6. m * (q + 1) + r = m * k + s
  BY <1>1, <1>3, <1>4, <1>5
<1>7. q + 1 \in Int
  BY <1>1
<1>8. r = s
  BY <1>1, <1>3, <1>6, <1>7, ModUnique
<1> QED
  BY <1>8 DEF r, s

\* and not before.
LEMMA ModApart ==
    ASSUME NEW a \in Nat, NEW b \in Nat, NEW m \in Nat \ {0},
           a < b, b < a + m
    PROVE  a % m # b % m
<1> DEFINE q == a \div m
           k == b \div m
           r == a % m
<1> SUFFICES ASSUME a % m = b % m
             PROVE  FALSE
  OBVIOUS
<1>1. q \in Int /\ r \in 0 .. m - 1 /\ a = m * q + r
  BY DivMod
<1>2. k \in Int /\ b = m * k + r
  BY DivMod
<1>3. m * q \in Int /\ m * k \in Int
  BY <1>1, <1>2
<1> HIDE DEF q, k, r
<1>4. q < k => m * q + m <= m * k
  BY <1>1, <1>2, Multiples
<1>5. k < q => m * k + m <= m * q
  BY <1>1, <1>2, Multiples
<1>6. CASE q < k
  BY <1>1, <1>2, <1>3, <1>4, <1>6
<1>7. CASE k < q
  BY <1>1, <1>2, <1>3, <1>5, <1>7
<1>8. CASE k = q
  BY <1>1, <1>2, <1>3, <1>8
<1> QED
  BY <1>1, <1>2, <1>6, <1>7, <1>8

Fixed == {"magic", "seq", "head", "uptime", "tasks"}

\* The entries are words of their own.
LEMMA TheEntries ==
    /\ MaxEvents \in Nat \ {0}
    /\ \A n \in Nat : Entry(n) \in Words \ Fixed
<1>1. /\ MaxEvents \in Nat \ {0} /\ DOMAIN Ring = 1 .. MaxEvents
      /\ \A i \in 1 .. MaxEvents : Ring[i] \notin Fixed
  BY RingAssumption DEF RingAssumption, MaxEvents, Fixed
<1>2. \A n \in Nat : n % MaxEvents \in 0 .. MaxEvents - 1
  BY <1>1, DivMod
<1>3. ASSUME NEW n \in Nat
      PROVE  Entry(n) \in Words \ Fixed
  <2>1. PICK i \in 0 .. MaxEvents - 1 : i = n % MaxEvents
    BY <1>2
  <2>2. 1 + i \in 1 .. MaxEvents
    BY <1>1
  <2> QED
    BY <1>1, <2>1, <2>2 DEF Entry, Words
<1> QED
  BY <1>1, <1>3

LEMMA TheWords ==
    /\ Fixed \subseteq Words /\ FlushWords \subseteq Fixed
    /\ "magic" \in Words /\ "seq" \in Words /\ "head" \in Words
    /\ "uptime" \in Words /\ "tasks" \in Words
    /\ "seq" # "magic" /\ "head" # "magic" /\ "head" # "seq"
    /\ FlushWords \cap {"magic", "seq", "head"} = {}
BY DEF Words, FlushWords, Fixed

\* Events less than a round apart have entries of their own.
LEMMA EntriesApart ==
    ASSUME NEW a \in Nat, NEW b \in Nat,
           a < b, b < a + MaxEvents
    PROVE  Entry(a) # Entry(b)
<1>1. MaxEvents \in Nat \ {0}
  BY TheEntries
<1>2. a % MaxEvents # b % MaxEvents
  BY <1>1, ModApart
<1>3. /\ a % MaxEvents \in 0 .. MaxEvents - 1
      /\ b % MaxEvents \in 0 .. MaxEvents - 1
  BY <1>1, DivMod
<1>4. \A i, j \in 1 .. MaxEvents : Ring[i] = Ring[j] => i = j
  BY <1>1, RingAssumption DEF RingAssumption, MaxEvents
<1>5. /\ 1 + (a % MaxEvents) \in 1 .. MaxEvents
      /\ 1 + (b % MaxEvents) \in 1 .. MaxEvents
      /\ 1 + (a % MaxEvents) # 1 + (b % MaxEvents)
  BY <1>1, <1>2, <1>3
<1> QED
  BY <1>4, <1>5 DEF Entry

LEMMA EntryRound ==
    ASSUME NEW n \in Nat
    PROVE  Entry(n + MaxEvents) = Entry(n)
BY TheEntries, ModAdd DEF Entry

LEMMA BlankPage == Blank \in Pages /\ \A x \in Words : Blank[x] = 0
BY DEF Blank, Pages

\* What the monitor draws of such a ring is the last events in their order.
LEMMA GoodIsWhole ==
    ASSUME NEW p \in Pages, Good(p)
    PROVE  Whole(p)
<1> DEFINE h == p["head"]
           from(i) == IF h > 0 THEN h + MaxEvents - i ELSE 0
           event(i) == IF i <= h THEN h + 1 - i ELSE 0
<1>1. h \in Nat /\ MaxEvents \in Nat \ {0} /\ Ordered(p, h)
  BY TheWords, TheEntries DEF Pages, Good
<1>2. ASSUME NEW i \in 1 .. MaxEvents
      PROVE  p[Entry(from(i))] = event(i)
  <2>1. CASE h = 0
    <3>1. p[Entry(0)] = 0
      BY <1>1, <2>1 DEF Ordered
    <3> QED
      BY <1>1, <2>1, <3>1
  <2>2. CASE h > 0 /\ i <= h
    <3>1. /\ h - i \in Nat /\ h - i < h /\ h <= h - i + MaxEvents
          /\ from(i) = h - i + MaxEvents /\ event(i) = h - i + 1
      BY <1>1, <2>2
    <3>2. p[Entry(h - i)] = h - i + 1
      <4>1. PICK n \in Nat : n = h - i
        BY <3>1
      <4>2. n < h /\ h <= n + MaxEvents => p[Entry(n)] = n + 1
        BY <1>1 DEF Ordered
      <4> QED
        BY <3>1, <4>1, <4>2
    <3>3. Entry(h - i + MaxEvents) = Entry(h - i)
      BY <3>1, EntryRound
    <3> QED
      BY <3>1, <3>2, <3>3
  <2>3. CASE h > 0 /\ i > h
    <3>1. /\ h + MaxEvents - i \in Nat /\ h <= h + MaxEvents - i
          /\ h + MaxEvents - i < MaxEvents
          /\ from(i) = h + MaxEvents - i /\ event(i) = 0
      BY <1>1, <2>3
    <3> QED
      BY <1>1, <3>1 DEF Ordered
  <2> QED
    BY <1>1, <2>1, <2>2, <2>3
<1>3. Shown(p) = [i \in 1 .. MaxEvents |-> p[Entry(from(i))]]
  BY DEF Shown
<1>4. Newest(p) = [i \in 1 .. MaxEvents |-> event(i)]
  BY DEF Newest
<1> HIDE DEF from, event
<1>5. Shown(p) = Newest(p)
  BY <1>2, <1>3, <1>4
<1> QED
  BY <1>5 DEF Whole, Good

\* Pages that agree but for magic and seq are alike.
LEMMA GoodAlike ==
    ASSUME NEW p \in Pages, NEW q, Good(p),
           \A x \in Words \ {"magic", "seq"} : q[x] = p[x]
    PROVE  Good(q)
<1>1. \A n \in Nat : q[Entry(n)] = p[Entry(n)]
  BY TheEntries DEF Fixed
<1>2. q["head"] = p["head"] /\ q["uptime"] = p["uptime"]
      /\ q["tasks"] = p["tasks"]
  BY TheWords DEF FlushWords
<1> QED
  BY <1>1, <1>2 DEF Good, Ordered

LEMMA GoodBlank ==
    ASSUME NEW p, \A x \in Words : p[x] = 0
    PROVE  Good(p)
<1>1. p["head"] = 0 /\ p["uptime"] = p["tasks"]
  BY TheWords
<1>2. \A n \in Nat : p[Entry(n)] = 0 /\ ~(n < 0)
  BY TheEntries
<1> QED
  BY <1>1, <1>2 DEF Good, Ordered

\* One event overwrites the oldest entry, and the rest is as it was.
LEMMA KeptAndAdded ==
    ASSUME NEW p, NEW h \in Nat
    PROVE  /\ Ordered(p, h) => Kept(p, h)
           /\ Kept(p, h) /\ p[Entry(h)] = h + 1 => Ordered(p, h + 1)
<1>1. MaxEvents \in Nat \ {0}
  BY TheEntries
<1>2. Ordered(p, h) => Kept(p, h)
  BY <1>1 DEF Ordered, Kept
<1>3. ASSUME Kept(p, h), p[Entry(h)] = h + 1
      PROVE  Ordered(p, h + 1)
  <2> SUFFICES ASSUME NEW n \in Nat
               PROVE  /\ n < h + 1 /\ h + 1 <= n + MaxEvents =>
                             p[Entry(n)] = n + 1
                      /\ h + 1 <= n /\ n < MaxEvents => p[Entry(n)] = 0
    BY DEF Ordered
  <2>1. CASE n = h
    BY <1>1, <1>3, <2>1
  <2>2. CASE n # h
    <3>1. /\ n < h /\ h < n + MaxEvents => p[Entry(n)] = n + 1
          /\ h < n /\ n < MaxEvents => p[Entry(n)] = 0
      BY <1>3 DEF Kept
    <3> QED
      BY <1>1, <2>2, <3>1
  <2> QED
    BY <2>1, <2>2
<1> QED
  BY <1>2, <1>3

\* The entry that is overwritten is none of those that are kept.
LEMMA KeptApart ==
    ASSUME NEW p, NEW q, NEW h \in Nat, Kept(p, h),
           \A x \in Words \ (Fixed \cup {Entry(h)}) : q[x] = p[x]
    PROVE  Kept(q, h)
<1>1. MaxEvents \in Nat \ {0}
  BY TheEntries
<1> SUFFICES ASSUME NEW n \in Nat
             PROVE  /\ n < h /\ h < n + MaxEvents => q[Entry(n)] = n + 1
                    /\ h < n /\ n < MaxEvents => q[Entry(n)] = 0
  BY DEF Kept
<1>2. Entry(n) # Entry(h) => q[Entry(n)] = p[Entry(n)]
  BY TheEntries
<1>3. n < h /\ h < n + MaxEvents => Entry(n) # Entry(h)
  BY <1>1, EntriesApart
<1>4. h < n /\ n < MaxEvents => n < h + MaxEvents
  BY <1>1
<1>5. h < n /\ n < MaxEvents => Entry(n) # Entry(h)
  BY <1>1, <1>4, EntriesApart
<1>6. /\ n < h /\ h < n + MaxEvents => p[Entry(n)] = n + 1
      /\ h < n /\ n < MaxEvents => p[Entry(n)] = 0
  BY DEF Kept
<1> QED
  BY <1>2, <1>3, <1>5, <1>6

LEMMA NextSeq ==
    ASSUME SeqLockAssumption, NEW s \in Nat
    PROVE  /\ Next1(s) \in Seqs
           /\ s + 1 < SeqModulus => Next1(s) = s + 1
BY DEF SeqLockAssumption, Next1, Seqs

-----------------------------------------------------------------------------
(***************************************************************************)
(* Types.                                                                  *)
(***************************************************************************)
WriterRec == [pc : {"idle", "begin", "data", "end"}, seq : Seqs,
              call : {"Flush", "PushEvent"}, todo : SUBSET Words,
              mark : 0 .. MaxWrites]
ReaderRec == [pc : {"render", "spin", "copy"}, s1 : Seqs, out : Pages,
              todo : SUBSET Words, tries : 0 .. Retries]
ViewRec == [valid : BOOLEAN, snap : Pages, taken : Pages, last : Nat,
            stale : 0 .. StaleLimit, nosig : 0 .. MagicLimit]

\* TypeOK in two parts: what the framework changes, and the monitor.
OwnerTypes ==
    /\ page \in Pages
    /\ page["seq"] \in Seqs
    /\ life \in {"boot", "up", "down"}
    /\ writer \in [Writers -> WriterRec]
    /\ writes \in 0 .. MaxWrites
    /\ restarts \in 0 .. MaxRestarts

MonitorTypes ==
    /\ reader \in ReaderRec
    /\ view \in ViewRec
    /\ booted \in BOOLEAN

LEMMA TypeParts == TypeOK <=> OwnerTypes /\ MonitorTypes
BY DEF TypeOK, OwnerTypes, MonitorTypes, WriterRec, ReaderRec, ViewRec

LEMMA Numbers ==
    ASSUME SeqLockAssumption
    PROVE  /\ SeqModulus \in Nat /\ SeqModulus > 0 /\ 0 \in Seqs
           /\ Seqs \subseteq Nat
           /\ MaxWrites \in Nat /\ Retries \in Nat /\ MaxRestarts \in Nat
           /\ StaleLimit \in Nat /\ StaleLimit > 0
           /\ MagicLimit \in Nat /\ MagicLimit > 0
BY DEF SeqLockAssumption, Seqs

LEMMA RestTypes ==
    ASSUME SeqLockAssumption
    PROVE  AtRest \in WriterRec /\ NextRender \in ReaderRec
BY Numbers, BlankPage DEF AtRest, NextRender, WriterRec, ReaderRec

\* What a writer writes into its record.
LEMMA WriterEdit ==
    ASSUME NEW t \in [Writers -> WriterRec], NEW w \in Writers,
           NEW p \in {"idle", "begin", "data", "end"}, NEW n \in Seqs,
           NEW c \in {"Flush", "PushEvent"}, NEW d \in SUBSET Words
    PROVE  /\ [t EXCEPT ![w].pc = p, ![w].seq = n, ![w].call = c]
                \in [Writers -> WriterRec]
           /\ [t EXCEPT ![w].pc = p, ![w].seq = n] \in [Writers -> WriterRec]
           /\ [t EXCEPT ![w].todo = d] \in [Writers -> WriterRec]
<1>1. [t EXCEPT ![w].pc = p, ![w].seq = n, ![w].call = c]
          \in [Writers -> WriterRec]
  BY DEF WriterRec
<1>2. [t EXCEPT ![w].pc = p, ![w].seq = n] \in [Writers -> WriterRec]
  BY DEF WriterRec
<1>3. [t EXCEPT ![w].todo = d] \in [Writers -> WriterRec]
  BY DEF WriterRec
<1> QED
  BY <1>1, <1>2, <1>3

\* One more beginner, or one fewer.
LEMMA BeginnersChange ==
    ASSUME IsFiniteSet(Beginners), NEW w \in Writers,
           \A v \in Writers \ {w} : writer'[v].pc = writer[v].pc
    PROVE  /\ IsFiniteSet(Beginners') /\ Cardinality(Beginners) \in Nat
           /\ Cardinality(Beginners') \in Nat
           /\ writer[w].pc # "begin" /\ writer'[w].pc = "begin" =>
                  Cardinality(Beginners') = Cardinality(Beginners) + 1
           /\ writer[w].pc = "begin" /\ writer'[w].pc # "begin" =>
                  Cardinality(Beginners') = Cardinality(Beginners) - 1
           /\ (writer[w].pc = "begin") = (writer'[w].pc = "begin") =>
                  Beginners' = Beginners
<1>1. CASE writer[w].pc # "begin" /\ writer'[w].pc = "begin"
  <2>1. Beginners' = Beginners \cup {w} /\ w \notin Beginners
    BY <1>1 DEF Beginners
  <2> QED
    BY <1>1, <2>1, FS_AddElement, FS_CardinalityType
<1>2. CASE writer[w].pc = "begin" /\ writer'[w].pc # "begin"
  <2>1. Beginners' = Beginners \ {w} /\ w \in Beginners
    BY <1>2 DEF Beginners
  <2> QED
    BY <1>2, <2>1, FS_RemoveElement, FS_CardinalityType
<1>3. CASE (writer[w].pc = "begin") = (writer'[w].pc = "begin")
  <2>1. Beginners' = Beginners
    BY <1>3 DEF Beginners
  <2> QED
    BY <1>3, <2>1, FS_CardinalityType
<1> QED
  BY <1>1, <1>2, <1>3

\* A writer keeps the types, and the numbers of its writes within the bound.
LEMMA WriteTypes ==
    ASSUME SeqLockAssumption, OwnerTypes, HeadOK, TodoOK,
           NEW w \in Writers, Write(w)
    PROVE  OwnerTypes' /\ HeadOK' /\ TodoOK'
<1> DEFINE n == Cardinality(Beginners)
<1>a. /\ writer \in [Writers -> WriterRec] /\ writer[w] \in WriterRec
      /\ page \in [Words -> Nat] /\ page["seq"] \in Seqs
      /\ page["head"] \in Nat
      /\ writes \in 0 .. MaxWrites
      /\ \A v \in Writers : writer[v].mark \in 0 .. MaxWrites
      /\ n \in Nat /\ IsFiniteSet(Beginners)
  BY FS_CardinalityType, TheWords DEF OwnerTypes, HeadOK, Pages, WriterRec
<1>b. /\ writer[w].seq \in Seqs /\ writer[w].todo \subseteq Words
      /\ writer[w].call \in {"Flush", "PushEvent"}
  BY <1>a DEF WriterRec
<1>1. ASSUME NEW c \in {"Flush", "PushEvent"}, BeginLoad(w, c)
      PROVE  OwnerTypes' /\ HeadOK' /\ TodoOK'
  <2>1. /\ UNCHANGED <<page, life, restarts>> /\ writes' = writes + 1
        /\ writes' \in 0 .. MaxWrites
        /\ writer' = [writer EXCEPT ![w].pc = "begin", ![w].seq = page["seq"],
                                    ![w].call = c]
    BY <1>1, <1>a, Numbers DEF BeginLoad, writeVars
  <2>2. writer' \in [Writers -> WriterRec]
    BY <1>1, <1>a, <2>1, WriterEdit
  <2>3. /\ writer[w].pc = "idle" /\ writer'[w].pc = "begin"
        /\ writer'[w].todo = writer[w].todo
        /\ \A v \in Writers \ {w} : writer'[v] = writer[v]
    BY <1>1, <1>a DEF BeginLoad, WriterRec
  <2>4. /\ Cardinality(Beginners)' = n + 1 /\ IsFiniteSet(Beginners)'
    BY <1>a, <2>3, BeginnersChange
  <2>5. HeadOK'
    <3>1. page'["head"] + n + 1 <= writes'
      BY <1>a, <2>1 DEF HeadOK
    <3>2. ASSUME NEW v \in Writers, writer'[v].pc = "data",
                 "head" \in writer'[v].todo
          PROVE  writer'[v].mark + n + 1 <= writes'
      <4>1. v # w /\ writer'[v] = writer[v]
        BY <2>3, <3>2
      <4>2. writer[v].mark + n <= writes
        BY <3>2, <4>1 DEF HeadOK
      <4> QED
        BY <1>a, <2>1, <4>1, <4>2
    <3>3. ASSUME NEW v \in Writers
          PROVE  writer'[v].pc = "data" /\ "head" \in writer'[v].todo =>
                     writer'[v].mark + Cardinality(Beginners)' <= writes'
      <4>1. CASE v = w
        BY <2>3, <4>1
      <4>2. CASE v # w
        <5>1. writer'[v] = writer[v] /\ writer[v].mark \in Nat
          BY <1>a, <2>3, <4>2
        <5> QED
          BY <1>a, <2>1, <2>4, <3>2, <5>1
      <4> QED
        BY <4>1, <4>2
    <3>4. IsFiniteSet(Beginners)' /\ page'["head"] + Cardinality(Beginners)' <= writes'
      BY <1>a, <2>1, <2>4, <3>1
    <3> QED
      BY <3>3, <3>4 DEF HeadOK
  <2> QED
    BY <2>1, <2>2, <2>3, <2>5 DEF OwnerTypes, TodoOK
<1>2. CASE BeginStore(w)
  <2>1. /\ UNCHANGED <<life, restarts, writes>>
        /\ page' \in [Words -> Nat] /\ page'["seq"] \in Seqs
        /\ page'["head"] = page["head"]
    BY <1>2, <1>a, <1>b, NextSeq, Numbers, TheWords DEF BeginStore, writeVars
  <2>2. writer[w].pc = "begin" /\ w \in Beginners
    BY <1>2 DEF BeginStore, Beginners
  <2>3. n > 0
    BY <1>a, <2>2, FS_EmptySet
  <2>4. PICK d \in SUBSET Words, m \in 0 .. MaxWrites :
            /\ d \cap {"magic", "seq"} = {}
            /\ "head" \in d => m = page["head"] + 1
            /\ \/ writer' = [writer EXCEPT ![w].pc = "data", ![w].todo = d,
                                           ![w].mark = m]
               \/ writer' = [writer EXCEPT ![w].pc = "data", ![w].mark = m,
                                           ![w].todo = d]
    <3>1. CASE /\ writer[w].call = "Flush"
               /\ writer' = [writer EXCEPT ![w].pc = "data",
                                ![w].todo = FlushWords, ![w].mark = writes]
      <4>1. /\ FlushWords \in SUBSET Words /\ "head" \notin FlushWords
            /\ FlushWords \cap {"magic", "seq"} = {}
        BY TheWords DEF FlushWords
      <4> QED
        BY <1>a, <3>1, <4>1
    <3>2. CASE /\ writer[w].call = "PushEvent"
               /\ writer' = [writer EXCEPT ![w].pc = "data",
                                ![w].mark = page["head"] + 1,
                                ![w].todo = {"head", Entry(page["head"])}]
      <4>1. /\ {"head", Entry(page["head"])} \in SUBSET Words
            /\ {"head", Entry(page["head"])} \cap {"magic", "seq"} = {}
        BY <1>a, TheWords, TheEntries DEF Fixed
      <4>2. page["head"] + 1 \in 0 .. MaxWrites
        BY <1>a, <2>3 DEF HeadOK
      <4> QED
        BY <3>2, <4>1, <4>2
    <3> QED
      BY <1>2, <3>1, <3>2 DEF BeginStore
  <2>5. writer' \in [Writers -> WriterRec]
    <3>1. CASE writer' = [writer EXCEPT ![w].pc = "data", ![w].todo = d,
                                        ![w].mark = m]
      BY <1>a, <3>1, ZenonT(30) DEF WriterRec
    <3>2. CASE writer' = [writer EXCEPT ![w].pc = "data", ![w].mark = m,
                                        ![w].todo = d]
      BY <1>a, <3>2, ZenonT(30) DEF WriterRec
    <3> QED
      BY <2>4, <3>1, <3>2
  <2>6. /\ writer'[w].pc = "data" /\ writer'[w].todo = d
        /\ writer'[w].mark = m
        /\ \A v \in Writers \ {w} : writer'[v] = writer[v]
    BY <1>a, <2>4 DEF WriterRec
  <2>7. Cardinality(Beginners)' = n - 1 /\ IsFiniteSet(Beginners)'
    BY <1>a, <2>2, <2>6, BeginnersChange
  <2>8. HeadOK'
    <3>1. page'["head"] + (n - 1) <= writes'
      BY <1>a, <2>1 DEF HeadOK
    <3>2. ASSUME NEW v \in Writers, writer'[v].pc = "data",
                 "head" \in writer'[v].todo
          PROVE  writer'[v].mark + (n - 1) <= writes'
      <4>1. CASE v = w
        BY <1>a, <2>1, <2>4, <2>6, <3>2, <4>1 DEF HeadOK
      <4>2. CASE v # w
        <5>1. writer'[v] = writer[v]
          BY <2>6, <4>2
        <5>2. writer[v].mark + n <= writes
          BY <3>2, <5>1 DEF HeadOK
        <5> QED
          BY <1>a, <2>1, <5>1, <5>2
      <4> QED
        BY <4>1, <4>2
    <3> QED
      BY <1>a, <2>7, <3>1, <3>2 DEF HeadOK
  <2>9. TodoOK'
    BY <2>4, <2>6 DEF TodoOK
  <2> QED
    BY <2>1, <2>5, <2>8, <2>9, <1>2 DEF OwnerTypes, Pages
<1>3. ASSUME NEW x \in Words, WriteWord(w, x)
      PROVE  OwnerTypes' /\ HeadOK' /\ TodoOK'
  <2>1. /\ UNCHANGED <<life, restarts, writes>>
        /\ writer[w].pc = "data" /\ x \in writer[w].todo
        /\ page' = [page EXCEPT ![x] = writer[w].mark]
        /\ writer' = [writer EXCEPT ![w].todo = writer[w].todo \ {x}]
    BY <1>3 DEF WriteWord, writeVars
  <2>2. x # "seq" /\ x # "magic"
    BY <2>1 DEF TodoOK
  <2>3. /\ page' \in [Words -> Nat] /\ page'["seq"] = page["seq"]
        /\ page'["head"] = IF x = "head" THEN writer[w].mark ELSE page["head"]
    BY <1>a, <2>1, <2>2, TheWords
  <2>4. writer' \in [Writers -> WriterRec]
    BY <1>a, <1>b, <2>1, Numbers, WriterEdit
  <2>5. /\ writer'[w].pc = "data" /\ writer'[w].mark = writer[w].mark
        /\ writer'[w].todo = writer[w].todo \ {x}
        /\ \A v \in Writers \ {w} : writer'[v] = writer[v]
    BY <1>a, <2>1 DEF WriterRec
  <2>6. Beginners' = Beginners
    BY <2>1, <2>5 DEF Beginners
  <2>7. HeadOK'
    BY <1>a, <2>1, <2>3, <2>5, <2>6 DEF HeadOK
  <2>8. TodoOK'
    BY <2>5 DEF TodoOK
  <2> QED
    BY <1>a, <2>1, <2>3, <2>4, <2>7, <2>8 DEF OwnerTypes, Pages
<1>4. CASE EndLoad(w)
  <2>1. /\ UNCHANGED <<page, life, restarts, writes>>
        /\ writer[w].pc = "data"
        /\ writer' = [writer EXCEPT ![w].pc = "end", ![w].seq = page["seq"]]
    BY <1>4 DEF EndLoad, writeVars
  <2>2. writer' \in [Writers -> WriterRec]
    BY <1>a, <1>b, <2>1, WriterEdit, Numbers
  <2>3. /\ writer'[w].pc = "end" /\ writer'[w].todo = writer[w].todo
        /\ \A v \in Writers \ {w} : writer'[v] = writer[v]
    BY <1>a, <2>1 DEF WriterRec
  <2>4. Beginners' = Beginners
    BY <2>1, <2>3 DEF Beginners
  <2> QED
    BY <2>1, <2>2, <2>3, <2>4 DEF OwnerTypes, HeadOK, TodoOK
<1>5. CASE EndStore(w)
  <2>1. /\ UNCHANGED <<life, restarts, writes>>
        /\ writer[w].pc = "end"
        /\ page' \in [Words -> Nat] /\ page'["seq"] \in Seqs
        /\ page'["head"] = page["head"]
        /\ writer' = [writer EXCEPT ![w] = AtRest]
    BY <1>5, <1>a, <1>b, NextSeq, Numbers, TheWords DEF EndStore, writeVars
  <2>2. writer' \in [Writers -> WriterRec]
    BY <1>a, <2>1, RestTypes
  <2>3. /\ writer'[w].pc = "idle" /\ writer'[w].todo = {}
        /\ \A v \in Writers \ {w} : writer'[v] = writer[v]
    BY <1>a, <2>1 DEF AtRest
  <2>4. Beginners' = Beginners
    BY <2>1, <2>3 DEF Beginners
  <2> QED
    BY <2>1, <2>2, <2>3, <2>4 DEF OwnerTypes, HeadOK, TodoOK, Pages
<1> QED
  BY <1>1, <1>2, <1>3, <1>4, <1>5 DEF Write

\* So does the process that owns the page.
LEMMA LifeTypes ==
    ASSUME SeqLockAssumption, OwnerTypes, HeadOK, TodoOK,
           Crash \/ OnShutdown \/ Restart
    PROVE  OwnerTypes' /\ HeadOK' /\ TodoOK'
<1>a. /\ page \in [Words -> Nat] /\ page["head"] <= writes
      /\ page["head"] \in Nat /\ writes \in Nat
  BY FS_CardinalityType, TheWords, Numbers DEF OwnerTypes, HeadOK, Pages
<1>1. CASE Halt /\ page' \in [Words -> Nat] /\ page'["seq"] = page["seq"]
                /\ page'["head"] = page["head"]
  <2>1. /\ UNCHANGED <<restarts, writes>> /\ life' = "down"
        /\ writer' = [w \in Writers |-> AtRest]
    BY <1>1 DEF Halt
  <2>2. /\ \A w \in Writers : writer'[w].pc = "idle" /\ writer'[w].todo = {}
        /\ writer' \in [Writers -> WriterRec]
    BY <2>1, RestTypes DEF AtRest
  <2>3. Beginners' = {}
    BY <2>2 DEF Beginners
  <2> QED
    BY <1>1, <1>a, <2>1, <2>2, <2>3, FS_EmptySet
       DEF OwnerTypes, HeadOK, TodoOK, Pages
<1>2. CASE Crash
  BY <1>1, <1>2, <1>a DEF Crash
<1>3. CASE OnShutdown
  <2>1. /\ page' \in [Words -> Nat] /\ page'["seq"] = page["seq"]
        /\ page'["head"] = page["head"]
    BY <1>3, <1>a, TheWords DEF OnShutdown
  <2> QED
    BY <1>1, <1>3, <2>1 DEF OnShutdown
<1>4. CASE OnInit
  <2>1. /\ UNCHANGED <<writer, writes>> /\ page' = Blank /\ life' = "boot"
        /\ restarts' \in 0 .. MaxRestarts
    BY <1>4, Numbers DEF OnInit, OwnerTypes
  <2>2. page' \in Pages /\ page'["seq"] = 0 /\ page'["head"] = 0
    BY <2>1, BlankPage, TheWords
  <2>3. Cardinality(Beginners) <= writes /\ Cardinality(Beginners) \in Nat
    BY <1>a, FS_CardinalityType DEF HeadOK
  <2>4. Beginners' = Beginners
    BY <2>1 DEF Beginners
  <2> QED
    BY <2>1, <2>2, <2>3, <2>4, Numbers DEF OwnerTypes, HeadOK, TodoOK
<1>5. CASE InitHeader
  <2>1. /\ page' \in [Words -> Nat] /\ page'["seq"] = page["seq"]
        /\ page'["head"] = page["head"]
        /\ UNCHANGED <<writer, writes, restarts>> /\ life' = "up"
    BY <1>5, <1>a, TheWords DEF InitHeader
  <2>2. Beginners' = Beginners
    BY <2>1 DEF Beginners
  <2> QED
    BY <2>1, <2>2 DEF OwnerTypes, HeadOK, TodoOK, Pages
<1> QED
  BY <1>2, <1>3, <1>4, <1>5 DEF Restart

\* NO SIGNAL changes the view and keeps its type.
LEMMA NoSignalType ==
    ASSUME NEW v \in ViewRec, NEW n, NEW limit
    PROVE  NoSignal(v, n, limit) \in ViewRec
BY BlankPage DEF NoSignal, ViewRec

LEMMA CappedType ==
    ASSUME NEW limit \in Nat, NEW n \in 0 .. limit
    PROVE  Capped(n, limit) \in 0 .. limit
BY DEF Capped

\* And the monitor.
LEMMA MonitorKeepsTypes ==
    ASSUME SeqLockAssumption, OwnerTypes, MonitorTypes, Monitor
    PROVE  MonitorTypes'
<1>a. /\ reader \in ReaderRec /\ view \in ViewRec /\ page \in Pages
      /\ page["seq"] \in Seqs /\ reader.out \in Pages
      /\ reader.out["seq"] \in Nat
      /\ NextRender \in ReaderRec
      /\ 0 \in 0 .. StaleLimit /\ 0 \in 0 .. MagicLimit
  <2>1. /\ reader \in ReaderRec /\ view \in ViewRec /\ page \in Pages
        /\ page["seq"] \in Seqs /\ NextRender \in ReaderRec
    BY RestTypes DEF OwnerTypes, MonitorTypes
  <2>2. reader.out \in Pages
    BY <2>1 DEF ReaderRec
  <2>3. reader.out["seq"] \in Nat
    BY <2>2, TheWords DEF Pages
  <2> QED
    BY <2>1, <2>2, <2>3, Numbers
<1>1. CASE CheckMagic
  <2>1. booted' = booted
    BY <1>1 DEF CheckMagic
  <2>2. CASE /\ view' = [view EXCEPT !.nosig = 0]
             /\ reader' = [reader EXCEPT !.pc = "spin"]
    BY <1>a, <2>1, <2>2 DEF MonitorTypes, ViewRec, ReaderRec
  <2>3. CASE /\ LET n == Capped(view.nosig, MagicLimit) IN
                view' = NoSignal([view EXCEPT !.nosig = n], n, MagicLimit)
             /\ UNCHANGED reader
    <3>1. Capped(view.nosig, MagicLimit) \in 0 .. MagicLimit
      BY <1>a, Numbers, CappedType DEF ViewRec
    <3>2. [view EXCEPT !.nosig = Capped(view.nosig, MagicLimit)] \in ViewRec
      BY <1>a, <3>1 DEF ViewRec
    <3> QED
      BY <2>1, <2>3, <3>2, NoSignalType DEF MonitorTypes
  <2> QED
    BY <1>1, <2>2, <2>3 DEF CheckMagic
<1>2. CASE ReadS1
  BY <1>2, <1>a, BlankPage DEF ReadS1, MonitorTypes, ReaderRec
<1>3. ASSUME NEW x \in Words, CopyWord(x)
      PROVE  MonitorTypes'
  BY <1>3, <1>a DEF CopyWord, MonitorTypes, ReaderRec, Pages
<1>4. CASE ReadS2
  BY <1>4, <1>a DEF ReadS2, Rendered, MonitorTypes, ViewRec
<1>5. CASE Failed
  <2>1. booted' = FALSE
    BY <1>5 DEF Failed
  <2>2. CASE /\ reader.tries > 1 /\ UNCHANGED view
             /\ reader' = [NextRender EXCEPT !.pc = "spin",
                                             !.tries = reader.tries - 1]
    <3>1. reader.tries - 1 \in 0 .. Retries
      BY <1>a, <2>2, Numbers DEF ReaderRec
    <3> QED
      BY <1>a, <2>1, <2>2, <3>1 DEF MonitorTypes, ReaderRec
  <2>3. CASE /\ Rendered
             /\ LET n == Capped(view.stale, StaleLimit) IN
                view' = NoSignal([view EXCEPT !.stale = n], n, StaleLimit)
    <3>1. Capped(view.stale, StaleLimit) \in 0 .. StaleLimit
      BY <1>a, Numbers, CappedType DEF ViewRec
    <3>2. [view EXCEPT !.stale = Capped(view.stale, StaleLimit)] \in ViewRec
      BY <1>a, <3>1 DEF ViewRec
    <3> QED
      BY <1>a, <2>1, <2>3, <3>2, NoSignalType DEF MonitorTypes, Rendered
  <2> QED
    BY <1>5, <2>2, <2>3 DEF Failed
<1> QED
  BY <1>1, <1>2, <1>3, <1>4, <1>5 DEF Monitor, GiveUp, Discard

\* The first events go to the first entries, in their order.
LEMMA FirstPage ==
    ASSUME SeqLockAssumption
    PROVE  /\ Before \in Nat /\ Before <= MaxWrites
           /\ PageBefore \in Pages
           /\ PageBefore["seq"] = 2 * Before /\ PageBefore["seq"] \in Seqs
           /\ PageBefore["head"] = Before
           /\ Good(PageBefore)
<1>1. /\ MaxEvents \in Nat \ {0} /\ MaxEvents = Len(Ring)
      /\ DOMAIN Ring = 1 .. MaxEvents
      /\ \A i \in 1 .. MaxEvents : Ring[i] \notin Fixed
      /\ \A i, j \in 1 .. MaxEvents : Ring[i] = Ring[j] => i = j
  BY RingAssumption DEF RingAssumption, MaxEvents, Fixed
<1>2. Before \in 0 .. MaxEvents /\ Before <= MaxWrites /\ MaxWrites \in Nat
  BY <1>1 DEF SeqLockAssumption
<1>3. /\ PageBefore["seq"] = 2 * Before
      /\ PageBefore["head"] = Before
      /\ PageBefore["magic"] = 1
  BY TheWords DEF PageBefore
<1>4. \A x \in Words \ {"magic", "seq", "head"} :
          /\ \A n \in 1 .. Before : x = Ring[n] => PageBefore[x] = n
          /\ (\A n \in 1 .. Before : x # Ring[n]) => PageBefore[x] = 0
  <2>1. ASSUME NEW x \in Words \ {"magic", "seq", "head"},
               NEW n \in 1 .. Before, x = Ring[n]
        PROVE  PageBefore[x] = n
    <3>1. ASSUME NEW m \in 1 .. Before, x = Ring[m]
          PROVE  m = n
      <4>1. m \in 1 .. MaxEvents /\ n \in 1 .. MaxEvents
        BY <1>1, <1>2
      <4> QED
        BY <1>1, <2>1, <3>1, <4>1
    <3>2. (CHOOSE m \in 1 .. Before : x = Ring[m]) = n
      BY <2>1, <3>1
    <3>3. PageBefore[x] = CHOOSE m \in 1 .. Before : x = Ring[m]
      BY <2>1 DEF PageBefore
    <3> QED
      BY <3>2, <3>3
  <2>2. ASSUME NEW x \in Words \ {"magic", "seq", "head"},
               \A n \in 1 .. Before : x # Ring[n]
        PROVE  PageBefore[x] = 0
    BY <2>2 DEF PageBefore
  <2> QED
    BY <2>1, <2>2
<1>5. PageBefore \in Pages
  <2>1. \A x \in Words : PageBefore[x] \in Nat
    <3>1. CASE Before = 0
      BY <1>2, <1>3, <1>4, <3>1
    <3>2. \A x \in Words \ {"magic", "seq", "head"} :
              \/ \E n \in 1 .. Before : x = Ring[n]
              \/ \A n \in 1 .. Before : x # Ring[n]
      OBVIOUS
    <3> QED
      BY <1>2, <1>3, <1>4, <3>2
  <2> QED
    BY <2>1 DEF Pages, PageBefore
<1>6. \A n \in Nat : n < MaxEvents => Entry(n) = Ring[n + 1]
  <2>1. ASSUME NEW n \in Nat, n < MaxEvents
        PROVE  n % MaxEvents = n
    <3>1. /\ n % MaxEvents \in 0 .. MaxEvents - 1
          /\ n \div MaxEvents \in Int
          /\ n = MaxEvents * (n \div MaxEvents) + (n % MaxEvents)
      BY <1>1, DivMod
    <3>2. n \in 0 .. MaxEvents - 1 /\ MaxEvents * 0 + n = n
      BY <1>1, <2>1
    <3> QED
      BY <1>1, <3>1, <3>2, ModUnique
  <2> QED
    BY <1>1, <2>1 DEF Entry
<1>7. Ordered(PageBefore, Before)
  <2>1. ASSUME NEW n \in Nat, n < Before
        PROVE  PageBefore[Entry(n)] = n + 1
    <3>1. n + 1 \in 1 .. Before /\ Entry(n) = Ring[n + 1]
      BY <1>1, <1>2, <1>6, <2>1
    <3> QED
      BY <1>4, <3>1, TheEntries DEF Fixed
  <2>2. ASSUME NEW n \in Nat, Before <= n, n < MaxEvents
        PROVE  PageBefore[Entry(n)] = 0
    <3>1. Entry(n) = Ring[n + 1] /\ n + 1 \in 1 .. MaxEvents
      BY <1>1, <1>6, <2>2
    <3>2. \A m \in 1 .. Before : m \in 1 .. MaxEvents /\ m # n + 1
      BY <1>1, <1>2, <2>2
    <3>3. \A m \in 1 .. Before : Entry(n) # Ring[m]
      BY <1>1, <3>1, <3>2
    <3> QED
      BY <1>4, <3>3, TheEntries DEF Fixed
  <2> QED
    BY <2>1, <2>2, <1>2 DEF Ordered
<1>8. PageBefore["uptime"] = 0 /\ PageBefore["tasks"] = 0
  <2>1. \A n \in 1 .. Before : Ring[n] # "uptime" /\ Ring[n] # "tasks"
    BY <1>1, <1>2 DEF Fixed
  <2>2. /\ "uptime" \in Words \ {"magic", "seq", "head"}
        /\ "tasks" \in Words \ {"magic", "seq", "head"}
    BY DEF Words, FlushWords
  <2> QED
    BY <1>4, <2>1, <2>2
<1>9. PageBefore["seq"] \in Seqs
  BY <1>2, <1>3 DEF SeqLockAssumption, Seqs
<1> QED
  BY <1>2, <1>3, <1>5, <1>7, <1>8, <1>9 DEF Good

LEMMA PageInit ==
    ASSUME SeqLockAssumption, Init
    PROVE  PageInv
<1>1. /\ page \in Pages /\ page["seq"] \in Seqs /\ page["head"] = Before
      /\ Before \in Nat /\ Before <= MaxWrites
  BY FirstPage DEF Init
<1>2. OwnerTypes
  BY <1>1, Numbers, RestTypes DEF Init, OwnerTypes
<1>3. MonitorTypes
  <2>1. view \in ViewRec
    BY Numbers, BlankPage DEF Init, ViewRec
  <2>2. reader \in ReaderRec /\ booted \in BOOLEAN
    BY RestTypes DEF Init
  <2> QED
    BY <2>1, <2>2 DEF MonitorTypes
<1>4. \A w \in Writers : writer[w].pc = "idle" /\ writer[w].todo = {}
  BY DEF Init, AtRest
<1>5. Beginners = {}
  BY <1>4 DEF Beginners
<1>6. writes = Before
  BY DEF Init
<1>7. HeadOK /\ TodoOK
  BY <1>1, <1>4, <1>5, <1>6, FS_EmptySet DEF HeadOK, TodoOK
<1> QED
  BY <1>2, <1>3, <1>7, TypeParts DEF PageInv

LEMMA PageStep ==
    ASSUME SeqLockAssumption, PageInv, [Next]_vars
    PROVE  PageInv'
<1>1. OwnerTypes /\ MonitorTypes /\ HeadOK /\ TodoOK
  BY TypeParts DEF PageInv
<1>2. OwnerTypes' /\ MonitorTypes' => TypeOK'
  BY DEF TypeOK, OwnerTypes, MonitorTypes, WriterRec, ReaderRec, ViewRec
<1>3. ASSUME NEW w \in Writers, Write(w)
      PROVE  MonitorTypes'
  BY <1>1, <1>3
     DEF Write, BeginLoad, BeginStore, WriteWord, EndLoad, EndStore, writeVars,
         MonitorTypes
<1>4. CASE Crash \/ OnShutdown \/ Restart
  <2>1. UNCHANGED <<reader, view>> /\ booted' \in BOOLEAN
    BY <1>1, <1>4
       DEF Crash, OnShutdown, Halt, Restart, OnInit, InitHeader, MonitorTypes
  <2>2. MonitorTypes'
    BY <1>1, <2>1 DEF MonitorTypes
  <2> QED
    BY <1>1, <1>2, <1>4, <2>2, LifeTypes DEF PageInv
<1>5. CASE Monitor
  <2>1. UNCHANGED readVars
    BY <1>5
       DEF Monitor, CheckMagic, ReadS1, CopyWord, ReadS2, GiveUp, Discard,
           Failed
  <2>2. OwnerTypes' /\ HeadOK' /\ TodoOK'
    BY <1>1, <2>1 DEF readVars, OwnerTypes, HeadOK, TodoOK, Beginners
  <2> QED
    BY <1>1, <1>2, <1>5, <2>2, MonitorKeepsTypes DEF PageInv
<1>6. CASE UNCHANGED vars
  BY <1>1, <1>2, <1>6
     DEF vars, OwnerTypes, MonitorTypes, HeadOK, TodoOK, Beginners, PageInv
<1> QED
  BY <1>1, <1>2, <1>3, <1>4, <1>5, <1>6, WriteTypes DEF Next, PageInv

LEMMA PageAlways == Spec => []PageInv
<1>1. Init => PageInv
  BY PageInit, SeqLockAssumption
<1>2. PageInv /\ [Next]_vars => PageInv'
  BY PageStep, SeqLockAssumption
<1> QED
  BY <1>1, <1>2, PTL DEF Spec

\* Whoever writes, in whatever order, the page and what the monitor makes of it
\* are well typed: seq stays below its modulus, event_head and every entry of
\* the ring are numbers of writes.
THEOREM PageTypes == Spec => []TypeOK
<1>1. PageInv => TypeOK
  BY DEF PageInv
<1> QED
  BY <1>1, PageAlways, PTL

-----------------------------------------------------------------------------
(***************************************************************************)
(* One writer at a time.                                                   *)
(***************************************************************************)
LEMMA Parity ==
    /\ \A s \in Nat : Odd(s + 1) <=> Even(s)
    /\ Even(0)
BY DEF Odd, Even

\* What is written changes neither the words of the other call nor seq.
LEMMA SoloWrite ==
    ASSUME SeqLockAssumption, OneWriter, SoloInv, NEW w \in Writers, Write(w)
    PROVE  WriterOK(w)' /\ LifeOK' /\ CopyOK'
<1>a. /\ PageInv /\ OwnerTypes /\ MonitorTypes /\ HeadOK /\ TodoOK
      /\ WriterOK(w) /\ LifeOK /\ CopyOK
  BY TypeParts DEF SoloInv, PageInv
<1>b. /\ \A v \in Writers : v = w
      /\ page \in [Words -> Nat] /\ page["seq"] \in Nat
      /\ writer[w] \in WriterRec /\ writer \in [Writers -> WriterRec]
      /\ writes \in 0 .. MaxWrites /\ 2 * MaxWrites < SeqModulus
      /\ MaxWrites \in Nat /\ SeqModulus \in Nat
      /\ reader.s1 \in Nat
  BY <1>a, Numbers, TheWords
     DEF OneWriter, OwnerTypes, MonitorTypes, Pages, ReaderRec,
         SeqLockAssumption
<1>c. UNCHANGED <<life, reader, booted>>
  BY DEF Write, BeginLoad, BeginStore, WriteWord, EndLoad, EndStore, writeVars
<1>1. ASSUME NEW c \in {"Flush", "PushEvent"}, BeginLoad(w, c)
      PROVE  WriterOK(w)' /\ LifeOK' /\ CopyOK'
  <2>1. /\ UNCHANGED page /\ writes' = writes + 1
        /\ writer[w].pc = "idle" /\ writer'[w].pc = "begin"
        /\ writer'[w].seq = page["seq"] /\ life = "up"
    BY <1>1, <1>b DEF BeginLoad, WriterRec
  <2>2. page["seq"] <= 2 * writes /\ Even(page["seq"])
    BY <1>a, <2>1 DEF WriterOK
  <2>3. WriterOK(w)'
    BY <1>b, <2>1, <2>2 DEF WriterOK
  <2>4. LifeOK' /\ CopyOK'
    BY <1>a, <1>c, <2>1 DEF LifeOK, CopyOK
  <2> QED
    BY <2>3, <2>4
<1>2. CASE BeginStore(w)
  <2>1. writer[w].pc = "begin" /\ writes' = writes
    BY <1>2 DEF BeginStore
  <2>2. /\ page["seq"] + 2 <= 2 * writes /\ Even(page["seq"])
        /\ writer[w].seq = page["seq"]
    BY <1>a, <2>1 DEF WriterOK
  <2>3. /\ page' = [page EXCEPT !["seq"] = page["seq"] + 1]
        /\ page'["seq"] = page["seq"] + 1
        /\ \A x \in Words \ {"seq"} : page'[x] = page[x]
    <3>1. Next1(page["seq"]) = page["seq"] + 1
      BY <1>b, <2>2, NextSeq
    <3> QED
      BY <1>2, <1>b, <2>2, <3>1, TheWords DEF BeginStore
  <2>4. Odd(page'["seq"])
    BY <1>b, <2>2, <2>3, Parity
  <2>5. Good(page) /\ Good(page')
    <3>1. Good(page) /\ page \in Pages
      BY <1>a, <2>2 DEF LifeOK, OwnerTypes
    <3>2. \A x \in Words \ {"magic", "seq"} : page'[x] = page[x]
      BY <2>3
    <3> QED
      BY <3>1, <3>2, GoodAlike
  <2>6. page["head"] \in Nat
    BY <1>b, TheWords
  <2>7. /\ writer'[w].pc = "data" /\ writer'[w].call = writer[w].call
        /\ \/ writer[w].call = "Flush" /\ writer'[w].todo = FlushWords
           \/ /\ writer[w].call = "PushEvent"
              /\ writer'[w].todo = {"head", Entry(page["head"])}
              /\ writer'[w].mark = page["head"] + 1
    BY <1>2, <1>b DEF BeginStore, WriterRec
  <2>8. Written(w)'
    <3>1. CASE writer[w].call = "Flush" /\ writer'[w].todo = FlushWords
      <4>1. Ordered(page', page'["head"])
        BY <2>5 DEF Good
      <4> QED
        BY <2>7, <3>1, <4>1 DEF Written, FlushWritten
    <3>2. CASE /\ writer[w].call = "PushEvent"
               /\ writer'[w].todo = {"head", Entry(page["head"])}
               /\ writer'[w].mark = page["head"] + 1
      <4>1. PICK h \in Nat : h = page["head"]
        BY <2>6
      <4>2. page'["head"] = h /\ page'["uptime"] = page'["tasks"]
        BY <2>3, <2>5, <4>1, TheWords DEF Good
      <4>3. Kept(page', h)
        BY <2>5, <4>2, KeptAndAdded DEF Good
      <4>4. PushWritten(w, h)'
        BY <3>2, <4>1, <4>2, <4>3 DEF PushWritten
      <4>5. \E k \in Nat : PushWritten(w, k)'
        BY <4>4
      <4> QED
        BY <2>7, <3>2, <4>5 DEF Written
    <3> QED
      BY <2>7, <3>1, <3>2
  <2>9. WriterOK(w)'
    BY <1>b, <2>1, <2>2, <2>3, <2>4, <2>7, <2>8 DEF WriterOK
  <2>10. LifeOK'
    BY <1>a, <1>b, <1>c, <2>1, <2>4 DEF LifeOK, Even
  <2>11. CopyOK'
    BY <1>a, <1>b, <1>c, <2>3 DEF CopyOK
  <2> QED
    BY <2>9, <2>10, <2>11
<1>3. ASSUME NEW x \in Words, WriteWord(w, x)
      PROVE  WriterOK(w)' /\ LifeOK' /\ CopyOK'
  <2>1. /\ writer[w].pc = "data" /\ writer'[w].pc = "data" /\ writes' = writes
        /\ x \in writer[w].todo /\ writer'[w].todo = writer[w].todo \ {x}
        /\ writer'[w].call = writer[w].call
        /\ writer'[w].mark = writer[w].mark
        /\ page'[x] = writer[w].mark
        /\ \A y \in Words \ {x} : page'[y] = page[y]
    BY <1>3, <1>b DEF WriteWord, WriterRec
  <2>2. /\ page["seq"] + 1 <= 2 * writes /\ Odd(page["seq"]) /\ Written(w)
    BY <1>a, <2>1 DEF WriterOK
  <2>3. page'["seq"] = page["seq"]
    BY <1>a, <2>1, TheWords DEF TodoOK
  <2>4. Written(w)'
    <3>1. CASE writer[w].call = "Flush" /\ FlushWritten(w)
      <4>1. /\ x \in FlushWords /\ x \in Fixed /\ x # "head"
            /\ page'["head"] = page["head"]
        BY <2>1, <3>1, TheWords DEF FlushWritten
      <4>2. \A n \in Nat : page'[Entry(n)] = page[Entry(n)]
        BY <2>1, <4>1, TheEntries
      <4>3. Ordered(page', page'["head"])
        BY <3>1, <4>1, <4>2 DEF FlushWritten, Ordered
      <4>4. FlushWritten(w)'
        <5>1. /\ writer'[w].todo \subseteq FlushWords
              /\ FlushWords \subseteq Words
          BY <2>1, <3>1, TheWords DEF FlushWritten
        <5>2. ASSUME NEW y \in FlushWords \ writer'[w].todo
              PROVE  page'[y] = writer'[w].mark
          BY <2>1, <3>1, <5>1, <5>2 DEF FlushWritten
        <5> QED
          BY <4>3, <5>1, <5>2 DEF FlushWritten
      <4> QED
        BY <2>1, <3>1, <4>4 DEF Written
    <3>2. ASSUME writer[w].call = "PushEvent", NEW h \in Nat,
                 PushWritten(w, h)
          PROVE  Written(w)'
      <4>1. /\ Entry(h) \in Words \ Fixed /\ "head" \in Fixed
            /\ "uptime" \in Fixed /\ "tasks" \in Fixed
            /\ "uptime" # "head" /\ "tasks" # "head"
        BY TheEntries DEF Fixed
      <4>2. /\ x \in {"head", Entry(h)} /\ writer[w].mark = h + 1
            /\ writer'[w].todo \subseteq {"head", Entry(h)}
        BY <2>1, <3>2 DEF PushWritten
      <4>3. page'["uptime"] = page'["tasks"]
        BY <2>1, <3>2, <4>1, <4>2, TheWords DEF PushWritten
      <4>4. page'["head"] = IF "head" \in writer'[w].todo THEN h ELSE h + 1
        BY <2>1, <3>2, <4>1, <4>2, TheWords DEF PushWritten
      <4>5. Entry(h) \notin writer'[w].todo => page'[Entry(h)] = h + 1
        BY <2>1, <3>2, <4>1, <4>2 DEF PushWritten
      <4>6. \A y \in Words \ (Fixed \cup {Entry(h)}) : page'[y] = page[y]
        BY <2>1, <4>1, <4>2
      <4>7. Kept(page', h)
        BY <3>2, <4>6, KeptApart DEF PushWritten
      <4>8. PushWritten(w, h)'
        BY <2>1, <4>2, <4>3, <4>4, <4>5, <4>7 DEF PushWritten
      <4> QED
        BY <2>1, <3>2, <4>8 DEF Written
    <3> QED
      BY <2>2, <3>1, <3>2 DEF Written
  <2>5. WriterOK(w)'
    BY <2>1, <2>2, <2>3, <2>4 DEF WriterOK
  <2>6. LifeOK'
    BY <1>a, <1>b, <1>c, <2>1, <2>2, <2>3 DEF LifeOK, Even
  <2>7. CopyOK'
    BY <1>a, <1>c, <2>2, <2>3 DEF CopyOK, Even
  <2> QED
    BY <2>5, <2>6, <2>7
<1>4. CASE EndLoad(w)
  <2>1. /\ UNCHANGED <<page, writes>>
        /\ writer[w].pc = "data" /\ writer[w].todo = {}
        /\ writer'[w].pc = "end" /\ writer'[w].seq = page["seq"]
    BY <1>4, <1>b DEF EndLoad, WriterRec
  <2>2. /\ page["seq"] + 1 <= 2 * writes /\ Odd(page["seq"]) /\ Written(w)
    BY <1>a, <2>1 DEF WriterOK
  <2>4. ASSUME NEW h \in Nat, PushWritten(w, h)
        PROVE  Good(page)
    <3>1. /\ page["head"] = h + 1 /\ page["uptime"] = page["tasks"]
          /\ Kept(page, h) /\ page[Entry(h)] = h + 1
      BY <2>1, <2>4 DEF PushWritten
    <3>2. Ordered(page, h + 1)
      BY <3>1, KeptAndAdded
    <3> QED
      BY <3>1, <3>2 DEF Good
  <2>7. Good(page)
    <3>1. CASE FlushWritten(w)
      BY <2>1, <3>1, TheWords DEF FlushWritten, FlushWords, Good
    <3> QED
      BY <2>2, <2>4, <3>1 DEF Written
  <2>5. WriterOK(w)'
    BY <2>1, <2>2, <2>7 DEF WriterOK
  <2>6. LifeOK' /\ CopyOK'
    BY <1>a, <1>b, <1>c, <2>1, <2>2 DEF LifeOK, CopyOK
  <2> QED
    BY <2>5, <2>6
<1>5. CASE EndStore(w)
  <2>1. /\ writer[w].pc = "end" /\ writer'[w].pc = "idle" /\ writes' = writes
    BY <1>5, <1>b DEF EndStore, AtRest
  <2>2. /\ page["seq"] + 1 <= 2 * writes /\ Odd(page["seq"])
        /\ writer[w].seq = page["seq"] /\ Good(page)
    BY <1>a, <1>b, <2>1 DEF WriterOK, WriterRec
  <2>3. /\ page'["seq"] = page["seq"] + 1
        /\ \A x \in Words \ {"seq"} : page'[x] = page[x]
    <3>1. Next1(page["seq"]) = page["seq"] + 1
      BY <1>b, <2>2, NextSeq
    <3> QED
      BY <1>5, <1>b, <2>2, <3>1, TheWords DEF EndStore
  <2>4. Even(page'["seq"])
    BY <1>b, <2>2, <2>3, Parity DEF Even
  <2>5. Good(page')
    BY <1>a, <2>2, <2>3, GoodAlike DEF OwnerTypes
  <2>6. WriterOK(w)'
    BY <1>b, <2>1, <2>2, <2>3, <2>4 DEF WriterOK
  <2>7. LifeOK'
    BY <1>a, <1>b, <1>c, <2>1, <2>5 DEF LifeOK
  <2>8. CopyOK'
    BY <1>a, <1>b, <1>c, <2>3 DEF CopyOK
  <2> QED
    BY <2>6, <2>7, <2>8
<1> QED
  BY <1>1, <1>2, <1>3, <1>4, <1>5 DEF Write

\* A process that ends, in a write too, leaves a page whose seq is odd or that
\* is whole; one that starts does so with an empty page.
LEMMA SoloLife ==
    ASSUME SeqLockAssumption, SoloInv, Crash \/ OnShutdown \/ Restart
    PROVE  (\A w \in Writers : WriterOK(w)') /\ LifeOK' /\ CopyOK'
<1>a. /\ PageInv /\ OwnerTypes /\ MonitorTypes /\ HeadOK /\ TodoOK
      /\ (\A w \in Writers : WriterOK(w)) /\ LifeOK /\ CopyOK
  BY TypeParts DEF SoloInv, PageInv
<1>b. /\ page \in [Words -> Nat] /\ page["seq"] \in Nat /\ writes \in Nat
      /\ writer \in [Writers -> WriterRec]
  BY <1>a, TheWords, Numbers DEF OwnerTypes, Pages
<1>1. CASE Halt /\ \A x \in Words \ {"magic"} : page'[x] = page[x]
  <2>1. /\ life' = "down" /\ \A w \in Writers : writer'[w].pc = "idle"
        /\ UNCHANGED <<reader, booted, writes>>
        /\ page'["seq"] = page["seq"]
    BY <1>1, TheWords DEF Halt, AtRest
  <2>2. \A w \in Writers : page["seq"] <= 2 * writes
    <3> SUFFICES ASSUME NEW w \in Writers
                 PROVE  page["seq"] <= 2 * writes
      OBVIOUS
    <3>1. writer[w].pc \in {"idle", "begin", "data", "end"}
      BY <1>b DEF WriterRec
    <3> QED
      BY <1>a, <1>b, <3>1 DEF WriterOK
  <2>3. \A w \in Writers : WriterOK(w)'
    BY <2>1, <2>2 DEF WriterOK
  <2>4. LifeOK'
    BY <1>1, <1>a, <2>1, GoodAlike DEF LifeOK, OwnerTypes
  <2>5. CopyOK'
    BY <1>1, <1>a, <2>1 DEF CopyOK
  <2> QED
    BY <2>3, <2>4, <2>5
<1>2. CASE Crash
  BY <1>1, <1>2 DEF Crash
<1>3. CASE OnShutdown
  <2>1. \A x \in Words \ {"magic"} : page'[x] = page[x]
    BY <1>3, <1>b DEF OnShutdown
  <2> QED
    BY <1>1, <1>3, <2>1 DEF OnShutdown
<1>4. CASE OnInit
  <2>1. /\ UNCHANGED <<writer, reader, writes>> /\ page' = Blank
        /\ life = "down" /\ life' = "boot"
        /\ booted' = (reader.pc = "copy")
    BY <1>4 DEF OnInit
  <2>2. \A x \in Words : page'[x] = 0
    BY <2>1, BlankPage
  <2>3. page'["seq"] = 0 /\ Good(page')
    BY <2>2, GoodBlank, TheWords
  <2>4. \A w \in Writers : writer[w].pc = "idle"
    BY <1>a, <2>1 DEF LifeOK
  <2>5. \A w \in Writers : WriterOK(w)'
    BY <1>b, <2>1, <2>3, <2>4 DEF WriterOK
  <2>6. LifeOK'
    BY <2>1, <2>3, <2>4 DEF LifeOK
  <2>7. CopyOK'
    BY <2>1 DEF CopyOK
  <2> QED
    BY <2>5, <2>6, <2>7
<1>5. CASE InitHeader
  <2>1. /\ UNCHANGED <<writer, reader, booted, writes>>
        /\ life = "boot" /\ life' = "up"
        /\ \A x \in Words \ {"magic"} : page'[x] = page[x]
        /\ page'["seq"] = page["seq"]
    BY <1>5, <1>b, TheWords DEF InitHeader
  <2>2. \A w \in Writers : writer[w].pc = "idle"
    BY <1>a, <2>1 DEF LifeOK
  <2>3. Even(page["seq"])
    BY <1>a, <2>1, Parity DEF LifeOK
  <2>4. \A w \in Writers : WriterOK(w)'
    BY <1>a, <2>1, <2>2, <2>3 DEF WriterOK
  <2>5. LifeOK'
    BY <1>a, <2>1, GoodAlike DEF LifeOK, OwnerTypes
  <2>6. CopyOK'
    BY <1>a, <2>1 DEF CopyOK
  <2> QED
    BY <2>4, <2>5, <2>6
<1> QED
  BY <1>2, <1>3, <1>4, <1>5 DEF Restart

\* The monitor starts from an even seq and copies word by word.
LEMMA SoloMonitor ==
    ASSUME SeqLockAssumption, SoloInv, Monitor
    PROVE  (\A w \in Writers : WriterOK(w)') /\ LifeOK' /\ CopyOK'
<1>a. /\ OwnerTypes /\ MonitorTypes
      /\ (\A w \in Writers : WriterOK(w)) /\ LifeOK /\ CopyOK
  BY TypeParts DEF SoloInv, PageInv
<1>b. UNCHANGED <<page, life, writer, writes>>
  BY DEF Monitor, CheckMagic, ReadS1, CopyWord, ReadS2, GiveUp, Discard, Failed,
         readVars
<1>1. (\A w \in Writers : WriterOK(w)') /\ LifeOK'
  BY <1>a, <1>b DEF WriterOK, Written, FlushWritten, PushWritten, LifeOK
<1>2. CASE ReadS1
  <2>1. /\ Even(page["seq"]) /\ reader'.s1 = page["seq"]
        /\ reader'.todo = Words
    BY <1>2, <1>a DEF ReadS1, Even, MonitorTypes, ReaderRec
  <2>2. page["seq"] \in Nat
    BY <1>a, Numbers DEF OwnerTypes
  <2> QED
    BY <1>1, <1>b, <2>1, <2>2 DEF CopyOK
<1>3. ASSUME NEW x \in Words, CopyWord(x)
      PROVE  CopyOK'
  <2>1. /\ reader.pc = "copy" /\ booted' = booted /\ reader'.s1 = reader.s1
        /\ reader'.todo = reader.todo \ {x}
        /\ reader'.out[x] = page[x]
        /\ \A y \in Words \ {x} : reader'.out[y] = reader.out[y]
    BY <1>3, <1>a DEF CopyWord, MonitorTypes, ReaderRec, Pages
  <2> QED
    BY <1>a, <1>b, <2>1 DEF CopyOK
<1>4. CASE CheckMagic \/ ReadS2 \/ Failed
  <2>1. NextRender.pc = "render" /\ NextRender \in ReaderRec
    BY RestTypes DEF NextRender
  <2>2. CheckMagic => reader'.pc # "copy"
    BY <1>a DEF CheckMagic, MonitorTypes, ReaderRec
  <2>3. ReadS2 => reader'.pc # "copy"
    BY <2>1 DEF ReadS2, Rendered
  <2>4. Failed => reader'.pc # "copy"
    BY <2>1 DEF Failed, Rendered, ReaderRec
  <2>5. reader'.pc # "copy"
    BY <1>4, <2>2, <2>3, <2>4
  <2> QED
    BY <1>1, <2>5 DEF CopyOK
<1> QED
  BY <1>1, <1>2, <1>3, <1>4 DEF Monitor, GiveUp, Discard

LEMMA SoloStep ==
    ASSUME SeqLockAssumption, OneWriter, SoloInv, [Next]_vars
    PROVE  SoloInv'
<1>1. PageInv'
  BY PageStep DEF SoloInv
<1>2. ASSUME NEW w \in Writers, Write(w)
      PROVE  SoloInv'
  BY <1>1, <1>2, SoloWrite DEF SoloInv, OneWriter
<1>3. CASE UNCHANGED vars
  BY <1>1, <1>3
     DEF vars, SoloInv, WriterOK, Written, FlushWritten, PushWritten, LifeOK,
         CopyOK
<1> QED
  BY <1>1, <1>2, <1>3, SoloLife, SoloMonitor DEF Next, SoloInv

LEMMA SoloInit ==
    ASSUME SeqLockAssumption, Init
    PROVE  SoloInv
<1>1. PageInv
  BY PageInit
<1>2. /\ page["seq"] = 2 * Before /\ Before \in Nat /\ Good(page)
      /\ life = "up" /\ writes = Before
  BY FirstPage DEF Init
<1>3. /\ \A w \in Writers : writer[w].pc = "idle"
      /\ reader.pc = "render"
  BY DEF Init, AtRest, NextRender
<1>4. Even(page["seq"])
  BY <1>2 DEF Even, Odd
<1>5. (\A w \in Writers : WriterOK(w)) /\ LifeOK /\ CopyOK
  BY <1>2, <1>3, <1>4 DEF WriterOK, LifeOK, CopyOK
<1> QED
  BY <1>1, <1>5 DEF SoloInv

\* What NoTornRead says of one step.
NotTorn == view'.valid /\ view'.snap # view.snap /\ ~booted => Whole(view'.snap)

LEMMA NotTornStep ==
    ASSUME SoloInv, [Next]_vars
    PROVE  [NotTorn]_vars
<1>a. OwnerTypes /\ MonitorTypes /\ LifeOK /\ CopyOK
  BY TypeParts DEF SoloInv, PageInv
<1>b. view \in ViewRec /\ reader \in ReaderRec /\ page \in Pages
  BY <1>a DEF OwnerTypes, MonitorTypes
<1>1. CASE ReadS2
  <2> SUFFICES ASSUME ~booted
               PROVE  Whole(view'.snap)
    BY DEF NotTorn
  <2>1. /\ reader.pc = "copy" /\ reader.todo = {} /\ page["seq"] = reader.s1
        /\ view'.snap = reader.out /\ reader.out \in Pages
    BY <1>1, <1>b DEF ReadS2, Fresh, ViewRec, ReaderRec
  <2>2. /\ Even(page["seq"])
        /\ \A x \in Words \ {"magic"} : reader.out[x] = page[x]
    BY <1>a, <2>1 DEF CopyOK
  <2>3. Good(page)
    BY <1>a, <2>2 DEF LifeOK
  <2>4. Good(reader.out)
    BY <1>b, <2>2, <2>3, GoodAlike
  <2> QED
    BY <2>1, <2>4, GoodIsWhole
<1>2. CASE CheckMagic \/ Failed
  <2>1. view'.snap = view.snap \/ ~view'.valid
    BY <1>2, <1>b DEF CheckMagic, Failed, NoSignal, ViewRec
  <2> QED
    BY <2>1 DEF NotTorn
<1>3. CASE UNCHANGED view
  BY <1>3 DEF NotTorn
<1> QED
  BY <1>1, <1>2, <1>3
     DEF Next, Write, BeginLoad, BeginStore, WriteWord, EndLoad, EndStore,
         Crash, OnShutdown, Halt, Restart, OnInit, InitHeader, Monitor, ReadS1,
         CopyWord, GiveUp, Discard, writeVars, vars

\* With one writer at a time, what the monitor takes over was on the page at one
\* moment and its event list is the last events in their order, across crashes and restarts and for any number of writes.
THEOREM WholePagesOnly == OneWriter => (Spec => NoTornRead)
<1> SUFFICES ASSUME OneWriter
             PROVE  Spec => NoTornRead
  OBVIOUS
<1>1. Init => SoloInv
  BY SoloInit, SeqLockAssumption
<1>2. SoloInv /\ [Next]_vars => SoloInv'
  BY SoloStep, SeqLockAssumption
<1>3. SoloInv /\ [Next]_vars => [NotTorn]_vars
  BY NotTornStep
<1> QED
  BY <1>1, <1>2, <1>3, PTL DEF Spec, NoTornRead, NotTorn
=============================================================================
