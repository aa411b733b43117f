----------------------------- MODULE LoopLemmas -----------------------------
(***************************************************************************)
(* What the proofs about texts and loops share.  The operators that read   *)
(* and write texts are loops, written as recursive functions of the number *)
(* of rounds or of the place in the text, so what they compute is proved   *)
(* by induction on the natural numbers.  The induction principle is        *)
(* Induction below.  It rests on FS_Injection, that a finite set has no    *)
(* injection onto a part of it.                                            *)
(***************************************************************************)
EXTENDS Integers, Sequences, SequencesExt, FiniteSetTheorems, SequenceTheorems, TLAPS

-----------------------------------------------------------------------------
(* Induction and recursion on the natural numbers.                         *)

\* A set with 0 that has n + 1 whenever it has n has every natural number.  If
\* k were missing, x |-> x + 1 would map its members below k into themselves and
\* leave 0 out.
LEMMA Induction ==
    ASSUME NEW T, 0 \in T, \A n \in Nat : n \in T => n + 1 \in T
    PROVE  Nat \subseteq T
<1> SUFFICES ASSUME NEW k \in Nat, k \notin T PROVE FALSE
  OBVIOUS
<1> DEFINE D == {x \in 0 .. k : x \in T}
           up == [x \in D |-> x + 1]
<1>1. IsFiniteSet(D)
  <2>1. IsFiniteSet(0 .. k)
    BY FS_Interval
  <2>2. D \in SUBSET (0 .. k)
    OBVIOUS
  <2> HIDE DEF D
  <2> QED
    BY <2>1, <2>2, FS_Subset
<1>2. \A x \in D : x + 1 \in D
  OBVIOUS
<1>3. up \in Injection(D, D)
  BY <1>2 DEF Injection, IsInjective
<1>4. up \in Surjection(D, D)
  BY <1>1, <1>3, FS_Injection
<1>5. 0 \in D
  OBVIOUS
<1>6. \E x \in D : up[x] = 0
  BY <1>4, <1>5 DEF Surjection
<1> QED
  BY <1>6

\* A step that may depend on the number of the round can be repeated for ever:
\* the functions on 0 .. n that do so for n rounds are unique and fit together.
Steps(S) == [Nat -> [S -> S]]
Repeats(g, S, x0, step) ==
    g \in [Nat -> S] /\ g[0] = x0 /\ \A n \in Nat : g[n + 1] = step[n][g[n]]
LEMMA Iteration ==
    ASSUME NEW S, NEW x0 \in S, NEW step \in Steps(S)
    PROVE  \E g : Repeats(g, S, x0, step)
<1> USE DEF Steps
<1> DEFINE Good(n, h) == /\ h \in [0 .. n -> S]
                         /\ h[0] = x0
                         /\ \A m \in 0 .. (n - 1) : h[m + 1] = step[m][h[m]]
           T == {n \in Nat : \E h : Good(n, h) /\ \A h2 : Good(n, h2) => h2 = h}
<1>1. 0 \in T
  <2>1. Good(0, [m \in 0 .. 0 |-> x0])
    OBVIOUS
  <2>2. ASSUME NEW h2, Good(0, h2) PROVE h2 = [m \in 0 .. 0 |-> x0]
    BY <2>2
  <2> HIDE DEF Good
  <2> QED
    BY <2>1, <2>2
<1>2. ASSUME NEW n \in Nat, n \in T PROVE n + 1 \in T
  <2>1. PICK h : Good(n, h) /\ \A h2 : Good(n, h2) => h2 = h
    BY <1>2
  <2> DEFINE k == [m \in 0 .. (n + 1) |-> IF m <= n THEN h[m] ELSE step[n][h[n]]]
  <2>2. Good(n + 1, k)
    <3>1. h[n] \in S /\ step[n][h[n]] \in S
      BY <2>1
    <3>2. k \in [0 .. (n + 1) -> S]
      BY <2>1, <3>1
    <3>3. k[0] = x0
      BY <2>1
    <3>4. ASSUME NEW m \in 0 .. n PROVE k[m + 1] = step[m][k[m]]
      <4>1. CASE m = n
        BY <4>1
      <4>2. CASE m < n
        BY <2>1, <4>2
      <4> QED
        BY <4>1, <4>2
    <3> HIDE DEF k
    <3> QED
      BY <3>2, <3>3, <3>4
  <2>3. ASSUME NEW h2, Good(n + 1, h2) PROVE h2 = k
    <3> DEFINE r == [m \in 0 .. n |-> h2[m]]
    <3>1. Good(n, r)
      BY <2>3
    <3>2. r = h
      BY <3>1, <2>1
    <3>3. \A m \in 0 .. n : h2[m] = h[m]
      BY <3>2
    <3>4. h2[n + 1] = step[n][h2[n]]
      BY <2>3
    <3> QED
      BY <3>3, <3>4, <2>3
  <2> HIDE DEF Good, k
  <2> QED
    BY <2>2, <2>3
<1>3. Nat \subseteq T
  <2> HIDE DEF T
  <2> QED
    BY <1>1, <1>2, Induction
<1> DEFINE H(n) == CHOOSE h : Good(n, h)
           g == [n \in Nat |-> H(n)[n]]
<1>4. \A n \in Nat : Good(n, H(n)) /\ \A h2 : Good(n, h2) => h2 = H(n)
  <2> SUFFICES ASSUME NEW n \in Nat
               PROVE  Good(n, H(n)) /\ \A h2 : Good(n, h2) => h2 = H(n)
    OBVIOUS
  <2>1. \E h : Good(n, h) /\ \A h2 : Good(n, h2) => h2 = h
    BY <1>3
  <2> HIDE DEF Good
  <2> QED
    BY <2>1
<1>5. ASSUME NEW n \in Nat
      PROVE  H(n + 1)[n] = H(n)[n] /\ H(n + 1)[n + 1] = step[n][H(n + 1)[n]]
  <2> DEFINE r == [m \in 0 .. n |-> H(n + 1)[m]]
  <2> HIDE DEF H
  <2>1. Good(n + 1, H(n + 1))
    BY <1>4
  <2>2. Good(n, r)
    BY <2>1
  <2>3. r = H(n)
    BY <2>2, <1>4
  <2>4. r[n] = H(n + 1)[n]
    OBVIOUS
  <2>5. n \in 0 .. ((n + 1) - 1)
    OBVIOUS
  <2>6. H(n + 1)[n + 1] = step[n][H(n + 1)[n]]
    BY <2>1, <2>5
  <2> HIDE DEF r
  <2> QED
    BY <2>3, <2>4, <2>6
<1>6. g \in [Nat -> S] /\ g[0] = x0
  <2> HIDE DEF H
  <2> QED
    BY <1>4
<1>7. \A n \in Nat : g[n + 1] = step[n][g[n]]
  <2> HIDE DEF H
  <2> QED
    BY <1>5
<1> QED
  BY <1>6, <1>7 DEF Repeats

-----------------------------------------------------------------------------
(* Texts that are put together.                                            *)

\* FlattenSeq appends the texts from the first to the last.
LEMMA Flattened ==
    ASSUME NEW S, NEW seqs \in Seq(Seq(S))
    PROVE  \E pre \in [Nat -> Seq(S)] :
             /\ pre[0] = <<>>
             /\ \A i \in 1 .. Len(seqs) : pre[i] = pre[i - 1] \o seqs[i]
             /\ FlattenSeq(seqs) = pre[Len(seqs)]
<1> DEFINE N == Len(seqs)
<1>1. N \in Nat /\ \A i \in 1 .. N : seqs[i] \in Seq(S)
  OBVIOUS
<1>2. PICK pre \in [Nat -> Seq(S)] :
        pre[0] = <<>> /\ \A i \in 1 .. N : pre[i] = pre[i - 1] \o seqs[i]
  <2> HIDE DEF N
  <2> DEFINE step == [n \in Nat |-> [x \in Seq(S) |->
                        IF n < N THEN x \o seqs[n + 1] ELSE x]]
  <2>1. \A n \in Nat, x \in Seq(S) : n < N => x \o seqs[n + 1] \in Seq(S)
    <3> SUFFICES ASSUME NEW n \in Nat, NEW x \in Seq(S), n < N
                 PROVE  x \o seqs[n + 1] \in Seq(S)
      OBVIOUS
    <3>1. seqs[n + 1] \in Seq(S)
      BY <1>1
    <3> QED
      BY <3>1
  <2>2. step \in [Nat -> [Seq(S) -> Seq(S)]]
    BY <2>1
  <2>3. <<>> \in Seq(S)
    OBVIOUS
  <2>4. PICK pre \in [Nat -> Seq(S)] :
          pre[0] = <<>> /\ \A n \in Nat : pre[n + 1] = step[n][pre[n]]
    <3>1. step \in Steps(Seq(S))
      BY <2>2 DEF Steps
    <3> HIDE DEF step
    <3>2. PICK g : Repeats(g, Seq(S), <<>>, step)
      BY <2>3, <3>1, Iteration
    <3> QED
      BY <3>2 DEF Repeats
  <2>5. ASSUME NEW i \in 1 .. N PROVE pre[i] = pre[i - 1] \o seqs[i]
    <3>1. i - 1 \in Nat /\ i - 1 < N /\ (i - 1) + 1 = i
      BY <1>1
    <3>2. pre[i] = step[i - 1][pre[i - 1]]
      BY <2>4, <3>1
    <3> QED
      BY <3>1, <3>2
  <2> HIDE DEF step
  <2> QED
    BY <2>4, <2>5
<1>3. CASE N = 0
  <2>1. seqs = <<>>
    BY <1>3
  <2>2. FlattenSeq(seqs) = seqs
    BY <1>3 DEF FlattenSeq
  <2> QED
    BY <2>1, <2>2, <1>2, <1>3
<1>4. CASE N # 0
  <2> DEFINE Eq(f) == f = [i \in 1 .. N |->
                             IF i = 1 THEN seqs[i] ELSE f[i - 1] \o seqs[i]]
             f0 == [i \in 1 .. N |-> pre[i]]
  <2>1. FlattenSeq(seqs) = (CHOOSE f : Eq(f))[N]
    BY <1>4 DEF FlattenSeq
  <2> HIDE DEF N
  <2>2. pre[1] = seqs[1]
    <3>1. 1 \in 1 .. N
      BY <1>1, <1>4
    <3>2. pre[1] = pre[1 - 1] \o seqs[1]
      BY <1>2, <3>1
    <3>3. pre[1 - 1] = <<>>
      BY <1>2
    <3>4. seqs[1] \in Seq(S)
      BY <1>1, <3>1
    <3> QED
      BY <3>2, <3>3, <3>4
  <2>3. \A i \in 1 .. N : i # 1 => i - 1 \in 1 .. N
    BY <1>1
  <2>4. Eq(f0)
    BY <1>2, <2>2, <2>3
  <2>5. PICK f1 : f1 = (CHOOSE f : Eq(f)) /\ Eq(f1)
    <3> HIDE DEF Eq, f0
    <3> QED
      BY <2>4
  <2> DEFINE T == {n \in Nat : n + 1 \in 1 .. N => f1[n + 1] = pre[n + 1]}
  <2>6. f1[1] = seqs[1] /\ \A i \in 1 .. N : i # 1 => f1[i] = f1[i - 1] \o seqs[i]
    <3>1. \A i \in 1 .. N : f1[i] = IF i = 1 THEN seqs[i] ELSE f1[i - 1] \o seqs[i]
      BY <2>5
    <3>2. 1 \in 1 .. N
      BY <1>1, <1>4
    <3> QED
      BY <3>1, <3>2
  <2> HIDE DEF Eq
  <2>7. 0 \in T
    BY <2>2, <2>6
  <2>8. ASSUME NEW n \in Nat, n \in T PROVE n + 1 \in T
    <3>1. SUFFICES ASSUME n + 2 \in 1 .. N PROVE f1[n + 2] = pre[n + 2]
      <4>1. (n + 1) + 1 = n + 2 /\ n + 1 \in Nat
        OBVIOUS
      <4> QED
        BY <4>1
    <3>2. n + 1 \in 1 .. N /\ n + 2 # 1 /\ (n + 2) - 1 = n + 1
      BY <1>1, <3>1
    <3>3. f1[n + 2] = f1[n + 1] \o seqs[n + 2]
      BY <2>6, <3>1, <3>2
    <3>4. pre[n + 2] = pre[n + 1] \o seqs[n + 2]
      BY <1>2, <3>1, <3>2
    <3> QED
      BY <2>8, <3>2, <3>3, <3>4
  <2>9. Nat \subseteq T
    <3> HIDE DEF T
    <3> QED
      BY <2>7, <2>8, Induction
  <2>10. f1[N] = pre[N]
    <3>1. N - 1 \in Nat /\ (N - 1) + 1 = N /\ N \in 1 .. N
      BY <1>1, <1>4
    <3>2. N - 1 \in T
      BY <2>9, <3>1
    <3> QED
      BY <3>1, <3>2
  <2> QED
    BY <2>1, <2>5, <2>10, <1>2 DEF N
<1> QED
  BY <1>3, <1>4

LEMMA FlattenType ==
    ASSUME NEW S, NEW seqs \in Seq(Seq(S))
    PROVE  FlattenSeq(seqs) \in Seq(S)
<1>1. PICK pre \in [Nat -> Seq(S)] :
        /\ pre[0] = <<>>
        /\ \A i \in 1 .. Len(seqs) : pre[i] = pre[i - 1] \o seqs[i]
        /\ FlattenSeq(seqs) = pre[Len(seqs)]
  BY Flattened
<1>2. Len(seqs) \in Nat
  OBVIOUS
<1> QED
  BY <1>1, <1>2

\* cmd has the text s at position p.
Has(cmd, p, s) ==
    p + Len(s) <= Len(cmd) + 1 /\ \A j \in 1 .. Len(s) : cmd[p + j - 1] = s[j]

LEMMA HasBoth ==
    ASSUME NEW S, NEW cmd \in Seq(S), NEW p \in Nat, NEW s \in Seq(S), NEW t \in Seq(S),
           Has(cmd, p, s \o t)
    PROVE  Has(cmd, p, s) /\ Has(cmd, p + Len(s), t)
<1>1. Len(s \o t) = Len(s) + Len(t) /\ Len(s) \in Nat /\ Len(t) \in Nat /\ Len(cmd) \in Nat
  OBVIOUS
<1>2. ASSUME NEW j \in 1 .. Len(s) PROVE cmd[p + j - 1] = s[j]
  <2>1. j \in 1 .. Len(s \o t) /\ (s \o t)[j] = s[j]
    BY <1>1
  <2> QED
    BY <2>1 DEF Has
<1>3. ASSUME NEW j \in 1 .. Len(t) PROVE cmd[(p + Len(s)) + j - 1] = t[j]
  <2>1. Len(s) + j \in 1 .. Len(s \o t) /\ (s \o t)[Len(s) + j] = t[j]
    BY <1>1
  <2>2. cmd[p + (Len(s) + j) - 1] = t[j]
    BY <2>1 DEF Has
  <2>3. p + (Len(s) + j) - 1 = (p + Len(s)) + j - 1
    BY <1>1
  <2> QED
    BY <2>2, <2>3
<1> QED
  BY <1>1, <1>2, <1>3 DEF Has

\* Several texts one behind the other, from position p on: the i-th begins at
\* off[i - 1].
Lies(cmd, p, seqs, off) ==
    /\ off \in [Nat -> Nat]
    /\ off[0] = p
    /\ off[Len(seqs)] = p + Len(FlattenSeq(seqs))
    /\ \A i \in 1 .. Len(seqs) : /\ off[i] = off[i - 1] + Len(seqs[i])
                                /\ Has(cmd, off[i - 1], seqs[i])

\* A line that has several texts put together has them so.
LEMMA HasEach ==
    ASSUME NEW S, NEW cmd \in Seq(S), NEW p \in Nat, NEW seqs \in Seq(Seq(S)),
           Has(cmd, p, FlattenSeq(seqs))
    PROVE  /\ FlattenSeq(seqs) \in Seq(S)
           /\ \E off : Lies(cmd, p, seqs, off)
<1>1. PICK pre \in [Nat -> Seq(S)] :
        /\ pre[0] = <<>>
        /\ \A i \in 1 .. Len(seqs) : pre[i] = pre[i - 1] \o seqs[i]
        /\ FlattenSeq(seqs) = pre[Len(seqs)]
  BY Flattened
<1> DEFINE N == Len(seqs)
           off == [i \in Nat |-> p + Len(pre[i])]
<1>2. N \in Nat /\ \A i \in 1 .. N : seqs[i] \in Seq(S) /\ i - 1 \in Nat
  OBVIOUS
<1>3. ASSUME NEW i \in 1 .. N, Has(cmd, p, pre[i])
      PROVE  Has(cmd, p, pre[i - 1]) /\ Has(cmd, p + Len(pre[i - 1]), seqs[i])
  <2>1. pre[i] = pre[i - 1] \o seqs[i] /\ pre[i - 1] \in Seq(S) /\ seqs[i] \in Seq(S)
    BY <1>1, <1>2
  <2> QED
    BY <1>3, <2>1, HasBoth
<1> HIDE DEF N
<1>4. \A i \in 0 .. N : Has(cmd, p, pre[i])
  <2> DEFINE T == {n \in Nat : n <= N => Has(cmd, p, pre[N - n])}
  <2>1. 0 \in T
    BY <1>1, <1>2 DEF N
  <2>2. ASSUME NEW n \in Nat, n \in T PROVE n + 1 \in T
    <3>1. SUFFICES ASSUME n + 1 <= N PROVE Has(cmd, p, pre[N - (n + 1)])
      OBVIOUS
    <3>2. N - n \in 1 .. N /\ (N - n) - 1 = N - (n + 1) /\ n <= N
      BY <1>2, <3>1
    <3>3. Has(cmd, p, pre[N - n])
      BY <2>2, <3>2
    <3>4. Has(cmd, p, pre[(N - n) - 1])
      BY <1>3, <3>2, <3>3
    <3> QED
      BY <3>2, <3>4
  <2>3. Nat \subseteq T
    <3> HIDE DEF T
    <3> QED
      BY <2>1, <2>2, Induction
  <2>4. ASSUME NEW i \in 0 .. N PROVE Has(cmd, p, pre[i])
    <3>1. N - i \in Nat /\ N - i <= N /\ N - (N - i) = i
      BY <1>2
    <3>2. N - i \in T
      BY <2>3, <3>1
    <3> QED
      BY <3>1, <3>2
  <2> QED
    BY <2>4
<1>5. ASSUME NEW i \in 1 .. N
      PROVE  off[i] = off[i - 1] + Len(seqs[i]) /\ Has(cmd, off[i - 1], seqs[i])
  <2>1. i \in Nat /\ i - 1 \in Nat /\ i \in 0 .. N
    BY <1>2
  <2>2. pre[i] = pre[i - 1] \o seqs[i] /\ pre[i - 1] \in Seq(S) /\ seqs[i] \in Seq(S)
    BY <1>1, <1>2, <2>1 DEF N
  <2>3. Len(pre[i]) = Len(pre[i - 1]) + Len(seqs[i]) /\ Len(pre[i - 1]) \in Nat
    BY <2>2
  <2>4. Has(cmd, p + Len(pre[i - 1]), seqs[i])
    BY <1>3, <1>4, <2>1
  <2>5. off[i] = p + Len(pre[i]) /\ off[i - 1] = p + Len(pre[i - 1])
    BY <2>1
  <2> HIDE DEF off
  <2>6. Len(seqs[i]) \in Nat
    <3> DEFINE s == seqs[i]
    <3>1. s \in Seq(S)
      BY <2>2
    <3> HIDE DEF s
    <3>2. Len(s) \in Nat
      BY <3>1, LenProperties
    <3> QED
      BY <3>2 DEF s
  <2>7. off[i] = off[i - 1] + Len(seqs[i])
    <3> DEFINE a == Len(pre[i - 1])
               b == Len(seqs[i])
    <3>1. a \in Nat /\ b \in Nat /\ off[i] = p + (a + b) /\ off[i - 1] = p + a
      BY <2>3, <2>5, <2>6
    <3> HIDE DEF a, b
    <3>2. off[i] = off[i - 1] + b
      BY <3>1
    <3> QED
      BY <3>2 DEF b
  <2> QED
    BY <2>4, <2>5, <2>7
<1>6. off \in [Nat -> Nat] /\ off[0] = p
  <2>1. \A i \in Nat : Len(pre[i]) \in Nat
    OBVIOUS
  <2>2. Len(pre[0]) = 0
    BY <1>1
  <2>3. \A i \in Nat : p + Len(pre[i]) \in Nat
    BY <2>1
  <2>4. off \in [Nat -> Nat]
    BY <2>3
  <2>5. off[0] = p + Len(pre[0])
    OBVIOUS
  <2> HIDE DEF off
  <2>6. p + Len(pre[0]) = p
    BY <2>2
  <2> QED
    BY <2>4, <2>5, <2>6
<1>7. off[N] = p + Len(FlattenSeq(seqs)) /\ FlattenSeq(seqs) \in Seq(S)
  BY <1>1, <1>2 DEF N
<1> HIDE DEF off
<1>8. Lies(cmd, p, seqs, off)
  BY <1>5, <1>6, <1>7 DEF N, Lies
<1> QED
  BY <1>7, <1>8

\* A text, character by character.
LEMMA TextTo ==
    ASSUME NEW C, NEW w \in Seq(C)
    PROVE  /\ SubSeq(w, 1, 0) = <<>> /\ SubSeq(w, 1, Len(w)) = w
           /\ \A i \in 0 .. Len(w) : SubSeq(w, 1, i) \in Seq(C)
           /\ \A i \in 1 .. Len(w) : SubSeq(w, 1, i) = Append(SubSeq(w, 1, i - 1), w[i])
<1>1. Len(w) \in Nat
  OBVIOUS
<1>2. SubSeq(w, 1, 0) = <<>> /\ SubSeq(w, 1, Len(w)) = w
  BY SubSeqEmpty, SubSeqFull
<1>3. \A i \in 0 .. Len(w) : SubSeq(w, 1, i) \in Seq(C)
  BY <1>1
<1>4. \A i \in 1 .. Len(w) : SubSeq(w, 1, i) = Append(SubSeq(w, 1, i - 1), w[i])
  BY <1>1
<1> QED
  BY <1>2, <1>3, <1>4

\* The same behind another text.
LEMMA TextBehind ==
    ASSUME NEW C, NEW c \in Seq(C), NEW w \in Seq(C)
    PROVE  /\ c \o SubSeq(w, 1, 0) = c
           /\ \A i \in 0 .. Len(w) : c \o SubSeq(w, 1, i) \in Seq(C)
           /\ \A i \in 1 .. Len(w) :
                c \o SubSeq(w, 1, i) = Append(c \o SubSeq(w, 1, i - 1), w[i])
<1>1. \A i \in 0 .. Len(w) : SubSeq(w, 1, i) \in Seq(C)
  BY TextTo
<1>2. c \o SubSeq(w, 1, 0) = c
  BY TextTo, ConcatEmptySeq
<1>3. \A i \in 0 .. Len(w) : c \o SubSeq(w, 1, i) \in Seq(C)
  BY <1>1, ConcatProperties
<1>4. ASSUME NEW s \in Seq(C), NEW x \in C PROVE c \o Append(s, x) = Append(c \o s, x)
  OBVIOUS
<1>5. ASSUME NEW i \in 1 .. Len(w)
      PROVE  c \o SubSeq(w, 1, i) = Append(c \o SubSeq(w, 1, i - 1), w[i])
  <2> DEFINE s == SubSeq(w, 1, i - 1)
             x == w[i]
  <2>1. i - 1 \in 0 .. Len(w)
    OBVIOUS
  <2>2. SubSeq(w, 1, i) = Append(s, x)
    BY TextTo
  <2>3. s \in Seq(C) /\ x \in C
    BY <1>1, <2>1
  <2> HIDE DEF s, x
  <2>4. c \o Append(s, x) = Append(c \o s, x)
    BY <1>4, <2>3
  <2> QED
    BY <2>2, <2>4 DEF s, x
<1> QED
  BY <1>2, <1>3, <1>5

\* One character.
LEMMA HasOne ==
    ASSUME NEW C, NEW cmd \in Seq(C), NEW k \in Nat, NEW y, Has(cmd, k, <<y>>)
    PROVE  k <= Len(cmd) /\ cmd[k] = y
<1>1. k + 1 <= Len(cmd) + 1 /\ cmd[k + 1 - 1] = y
  BY DEF Has
<1>2. k + 1 - 1 = k /\ Len(cmd) \in Nat
  OBVIOUS
<1> QED
  BY <1>1, <1>2

=============================================================================
