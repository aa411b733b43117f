--------------------------- MODULE PackJsonProofs ---------------------------
(***************************************************************************)
(* Proofs about PackJson, for packs with strings of any length over any    *)
(* characters: what is written is read back.                               *)
(***************************************************************************)
EXTENDS MCTaskEngine, LoopLemmas, FiniteSetTheorems

-----------------------------------------------------------------------------
(* Characters and places.                                                  *)

Ws == {Space, "tab", "newline", "return"}
Marks == {DQuote, BackSlash, Comma, Colon, BraceOpen, BraceClose, BracketOpen, BracketClose,
          "n", "r", "t", "u", "0007", "true", "false", "mod", "func", "params", "success",
          "ret"}

LEMMA Characters ==
    /\ DQuote # BackSlash
    /\ \A c \in {BackSlash, Comma, Colon, BraceOpen, BraceClose, BracketOpen, BracketClose,
                 "true", "false"} : c # DQuote
    /\ \A c \in {Comma, Colon, BraceOpen, BraceClose, BracketOpen, BracketClose, DQuote,
                 "true", "false"} : c \notin Ws
    /\ \A c \in {Comma, Colon, BracketOpen, BracketClose, DQuote, "true", "false"} :
         c # BraceOpen /\ c # BraceClose
    /\ BraceOpen # BraceClose
    /\ \A c \in {BraceOpen, BraceClose, BracketClose, BracketOpen, DQuote, Colon} : c # Comma
    /\ \A c \in {BraceOpen, DQuote} : c # BracketClose
  BY Zenon DEF DQuote, BackSlash, Comma, Colon, Space, BraceOpen, BraceClose, BracketOpen,
               BracketClose, Ws

LEMMA Letters ==
    /\ \A c \in Lettered : Letter[c] \in {DQuote, BackSlash, "n", "r", "t"}
    /\ \A c, d \in Lettered : Letter[c] = Letter[d] => c = d
    /\ \A c \in Lettered : Letter[c] # "u"
    /\ DQuote \in Lettered /\ BackSlash \in Lettered
    /\ DOMAIN Digits = {"bell"} /\ Digits["bell"] = "0007"
<1>1. /\ DQuote \notin {"newline", "return", "tab", "n", "r", "t", "u"}
      /\ BackSlash \notin {"newline", "return", "tab", "n", "r", "t", "u", DQuote}
  BY Zenon DEF DQuote, BackSlash
<1> QED
  BY <1>1 DEF Lettered, Letter, Digits

LEMMA PlaceIs ==
    ASSUME NEW C, NEW s \in Seq(C)
    PROVE  /\ Len(s) \in Nat /\ DOMAIN s = 1 .. Len(s)
           /\ \A i \in Places(s) : i \in Nat /\ i # 0 /\ i <= Len(s) + 1
           /\ \A i \in Nat : i # 0 /\ i <= Len(s) + 1 => i \in Places(s)
           /\ \A i \in DOMAIN s : i \in Places(s) /\ i + 1 \in Places(s)
  BY DEF Places

\* A text that stands at a place ends at a place.
LEMMA HasEnd ==
    ASSUME NEW C, NEW s \in Seq(C), NEW i \in Places(s), NEW w \in Seq(C), Has(s, i, w)
    PROVE  /\ i + Len(w) \in Places(s)
           /\ \A j \in 1 .. Len(w) : At(s, i + j - 1, w[j])
  BY DEF Has, Places, At

LEMMA HasHead ==
    ASSUME NEW C, NEW s \in Seq(C), NEW i \in Places(s), NEW w \in Seq(C), Has(s, i, w),
           w # <<>>
    PROVE  At(s, i, w[1]) /\ i \in DOMAIN s /\ i + 1 \in Places(s)
<1>1. 1 \in 1 .. Len(w) /\ i + 1 - 1 = i
  BY DEF Places
<1>2. At(s, i, w[1])
  BY <1>1, HasEnd
<1> QED
  BY <1>2, PlaceIs DEF At

LEMMA AtOnly ==
    ASSUME NEW s, NEW i, NEW c, At(s, i, c)
    PROVE  i \in DOMAIN s /\ s[i] = c /\ \A d : At(s, i, d) <=> d = c
  BY DEF At

\* Nothing is skipped before a character that is none of them, and at the end.
LEMMA PastNone ==
    ASSUME NEW C, NEW s \in Seq(C), NEW chars, NEW i \in Places(s),
           i = Len(s) + 1 \/ s[i] \notin chars
    PROVE  Past(chars, s, i) = i
<1> DEFINE P(j) == /\ j = Len(s) + 1 \/ s[j] \notin chars
                   /\ \A k \in i .. j - 1 : s[k] \in chars
<1>1. Len(s) \in Nat /\ i \in Nat /\ i <= Len(s) + 1
  BY PlaceIs
<1>2. i \in i .. Len(s) + 1 /\ P(i)
  BY <1>1
<1>3. ASSUME NEW j \in i .. Len(s) + 1, P(j) PROVE j = i
  <2>1. SUFFICES ASSUME j > i PROVE FALSE
    BY <1>1
  <2>2. i \in i .. j - 1 /\ i # Len(s) + 1
    BY <1>1, <2>1
  <2> QED
    BY <1>3, <2>2
<1>4. Past(chars, s, i) = CHOOSE j \in i .. Len(s) + 1 : P(j)
  BY DEF Past
<1> HIDE DEF P
<1> QED
  BY <1>2, <1>3, <1>4

LEMMA SkipNone ==
    ASSUME NEW C, NEW s \in Seq(C), NEW i, NEW c, At(s, i, c), c \notin Ws
    PROVE  SkipWs(s, i) = i
<1>1. i \in Places(s) /\ s[i] = c
  BY AtOnly, PlaceIs
<1>2. SkipWs(s, i) = Past(Ws, s, i)
  BY DEF SkipWs, Ws
<1> QED
  BY <1>1, <1>2, PastNone

LEMMA SkipEnd ==
    ASSUME NEW C, NEW s \in Seq(C)
    PROVE  SkipWs(s, Len(s) + 1) = Len(s) + 1
<1>1. Len(s) + 1 \in Places(s)
  BY PlaceIs DEF Places
<1>2. SkipWs(s, Len(s) + 1) = Past(Ws, s, Len(s) + 1)
  BY DEF SkipWs, Ws
<1> QED
  BY <1>1, <1>2, PastNone

-----------------------------------------------------------------------------
(* Loops.                                                                  *)

\* Two runs that begin alike and go on alike are the same.
LEMMA SameRun ==
    ASSUME NEW f, NEW g, f[0] = g[0],
           \A n \in Nat : f[n] = g[n] => f[n + 1] = g[n + 1]
    PROVE  \A n \in Nat : f[n] = g[n]
<1> DEFINE T == {n \in Nat : f[n] = g[n]}
<1>1. 0 \in T
  OBVIOUS
<1>2. \A n \in Nat : n \in T => n + 1 \in T
  OBVIOUS
<1>3. Nat \subseteq T
  <2> HIDE DEF T
  <2> QED
    BY <1>1, <1>2, Induction
<1> QED
  BY <1>3

\* Texts that are not empty move on by a place at least.
LEMMA LiesFar ==
    ASSUME NEW C, NEW s \in Seq(C), NEW p \in Nat, NEW seqs \in Seq(Seq(C)), NEW off,
           Lies(s, p, seqs, off), \A i \in DOMAIN seqs : seqs[i] # <<>>
    PROVE  \A i \in 0 .. Len(seqs) : off[i] >= p + i
<1> DEFINE L == Len(seqs)
           T == {n \in Nat : n <= L => off[n] >= p + n}
<1>1. off \in [Nat -> Nat] /\ off[0] = p /\ L \in Nat /\ DOMAIN seqs = 1 .. L
  BY DEF Lies
<1>2. ASSUME NEW i \in 1 .. L PROVE off[i] >= off[i - 1] + 1
  <2> DEFINE w == seqs[i]
  <2>1. i \in DOMAIN seqs
    BY <1>1
  <2>2. w \in Seq(C) /\ w # <<>>
    BY <2>1
  <2>3. off[i] = off[i - 1] + Len(w)
    BY DEF Lies
  <2> HIDE DEF w
  <2>4. Len(w) \in Nat /\ Len(w) # 0
    BY <2>2
  <2> HIDE DEF L
  <2>5. i - 1 \in Nat
    BY <1>1
  <2> QED
    BY <1>1, <2>3, <2>4, <2>5
<1> HIDE DEF L
<1>3. 0 \in T
  BY <1>1
<1>4. ASSUME NEW n \in Nat, n \in T PROVE n + 1 \in T
  <2>1. SUFFICES ASSUME n + 1 <= L PROVE off[n + 1] >= p + (n + 1)
    OBVIOUS
  <2>2. n + 1 \in 1 .. L /\ (n + 1) - 1 = n /\ n <= L
    BY <1>1, <2>1
  <2>3. off[n + 1] >= off[n] + 1
    BY <1>2, <2>2
  <2>4. off[n] >= p + n
    BY <1>4, <2>2
  <2> QED
    BY <1>1, <2>3, <2>4
<1>5. Nat \subseteq T
  <2> HIDE DEF T
  <2> QED
    BY <1>3, <1>4, Induction
<1>6. \A i \in 0 .. L : off[i] >= p + i
  BY <1>1, <1>5
<1> QED
  BY <1>6 DEF L

\* A loop that has more to do up to round N - 1 and stands at t from round N on
\* has ended in t.
Stops(loop, N, t) ==
    /\ \A n \in 0 .. N - 1 : loop[n].is = "more"
    /\ t.is # "more"
    /\ \A n \in Nat : n >= N => loop[n] = t

LEMMA EndIs ==
    ASSUME NEW loop, NEW L \in Nat, NEW N \in 0 .. L, NEW t, Stops(loop, N, t)
    PROVE  Ended(loop, L) = t
<1> USE DEF Stops
<1>1. N \in 0 .. L /\ loop[N].is # "more"
  OBVIOUS
<1> DEFINE n == CHOOSE k \in 0 .. L : loop[k].is # "more"
<1>2. n \in 0 .. L /\ loop[n].is # "more"
  BY <1>1
<1>3. Ended(loop, L) = loop[n]
  BY DEF Ended
<1> HIDE DEF n
<1>4. n >= N
  BY <1>2
<1> QED
  BY <1>2, <1>3, <1>4

-----------------------------------------------------------------------------
(* Strings.                                                                *)

LEMMA ReadIs ==
    ASSUME NEW v, NEW i
    PROVE  /\ Read(v, i).is = "read" /\ Read(v, i).val = v /\ Read(v, i).at = i
           /\ More(v, i).is = "more" /\ More(v, i).val = v /\ More(v, i).at = i
           /\ Failed.is = "failed"
  BY DEF Read, More, Failed

LEMMA Tuples ==
    ASSUME NEW C, NEW a \in C, NEW b \in C, NEW c \in C
    PROVE  /\ <<a>> \in Seq(C) /\ <<a>> # <<>>
           /\ <<a, b>> \in Seq(C) /\ <<a, b>> # <<>>
           /\ <<a, b, c>> \in Seq(C) /\ <<a, b, c>> # <<>>
  OBVIOUS

LEMMA EscapeCharType ==
    ASSUME NEW C, Marks \subseteq C, NEW c \in C
    PROVE  /\ EscapeChar(c) \in Seq(C) /\ EscapeChar(c) # <<>>
           /\ c \in Lettered => EscapeChar(c) = <<BackSlash, Letter[c]>>
           /\ c = "bell" => EscapeChar(c) = <<BackSlash, "u", "0007">>
           /\ c \notin Lettered /\ c # "bell" => EscapeChar(c) = <<c>>
<1>1. /\ BackSlash \in C /\ DQuote \in C /\ "u" \in C /\ "0007" \in C
      /\ "n" \in C /\ "r" \in C /\ "t" \in C
  BY DEF Marks
<1>2. "bell" \notin Lettered
  BY Zenon DEF Lettered, DQuote, BackSlash
<1>3. /\ c \in Lettered => EscapeChar(c) = <<BackSlash, Letter[c]>>
      /\ c = "bell" => EscapeChar(c) = <<BackSlash, "u", "0007">>
      /\ c \notin Lettered /\ c # "bell" => EscapeChar(c) = <<c>>
  BY <1>2, Letters DEF EscapeChar
<1>4. c \in Lettered => Letter[c] \in C
  BY <1>1, Letters
<1>5. EscapeChar(c) \in Seq(C) /\ EscapeChar(c) # <<>>
  <2>1. CASE c \in Lettered
    <3>1. EscapeChar(c) = <<BackSlash, Letter[c]>>
      BY <1>3, <2>1
    <3>2. Letter[c] \in C
      BY <1>4, <2>1
    <3> QED
      BY <1>1, <3>1, <3>2, Tuples
  <2>2. CASE c = "bell"
    <3>1. EscapeChar(c) = <<BackSlash, "u", "0007">>
      BY <1>3, <2>2
    <3> QED
      BY <1>1, <3>1, Tuples
  <2>3. CASE c \notin Lettered /\ c # "bell"
    BY <1>3, <2>3, Tuples
  <2> QED
    BY <2>1, <2>2, <2>3
<1> QED
  BY <1>3, <1>5

\* What an escaped character is read as.
LEMMA CharacterRead ==
    ASSUME NEW C, Marks \subseteq C, NEW s \in Seq(C), NEW q \in Places(s), NEW c \in C,
           Has(s, q, EscapeChar(c)), NEW v
    PROVE  Character(s, More(v, q)) = More(Append(v, c), q + Len(EscapeChar(c)))
<1> DEFINE w == EscapeChar(c)
           t == More(v, q)
<1>1. w \in Seq(C) /\ w # <<>>
  BY EscapeCharType
<1>2. \A j \in 1 .. Len(w) : At(s, q + j - 1, w[j])
  BY <1>1, HasEnd
<1>3. q \in Nat
  BY PlaceIs
<1>4. t.is = "more" /\ t.at = q /\ t.val = v
  BY ReadIs
<1>5. CASE c \in Lettered
  <2>1. w = <<BackSlash, Letter[c]>>
    BY <1>5, EscapeCharType
  <2> HIDE DEF w
  <2>2. At(s, q, BackSlash) /\ At(s, q + 1, Letter[c]) /\ Len(w) = 2
    <3>1. Len(w) = 2 /\ w[1] = BackSlash /\ w[2] = Letter[c]
      BY <2>1
    <3>2. q + 1 - 1 = q /\ q + 2 - 1 = q + 1
      BY <1>3
    <3> QED
      BY <1>2, <3>1, <3>2
  <2>3. ~At(s, q, DQuote)
    BY <2>2, AtOnly, Characters
  <2>4. Unescape(s, q + 1) = Read(c, q + 2)
    <3>1. \A d \in Lettered : At(s, q + 1, Letter[d]) <=> d = c
      BY <1>5, <2>2, AtOnly, Letters
    <3>2. (CHOOSE d \in Lettered : s[q + 1] = Letter[d]) = c
      BY <1>5, <2>2, AtOnly, Letters
    <3>3. (q + 1) + 1 = q + 2
      BY <1>3
    <3>4. \E d \in Lettered : At(s, q + 1, Letter[d])
      BY <1>5, <3>1
    <3>5. ~At(s, q + 1, "u")
      BY <1>5, <2>2, AtOnly, Letters
    <3>6. Unescape(s, q + 1) = Read(CHOOSE d \in Lettered : s[q + 1] = Letter[d], (q + 1) + 1)
      BY <3>4, <3>5 DEF Unescape
    <3> QED
      BY <3>2, <3>3, <3>6
  <2>5. Unescape(s, t.at + 1) = Read(c, q + 2)
    BY <1>4, <2>4
  <2> HIDE DEF t
  <2>6. Character(s, t) = More(Append(v, c), q + 2)
    BY <1>4, <2>2, <2>3, <2>5, ReadIs DEF Character, At
  <2> QED
    BY <2>2, <2>6 DEF t, w
<1>6. CASE c = "bell"
  <2>1. w = <<BackSlash, "u", "0007">>
    BY <1>6, EscapeCharType
  <2> HIDE DEF w
  <2>2. At(s, q, BackSlash) /\ At(s, q + 1, "u") /\ At(s, q + 2, "0007") /\ Len(w) = 3
    <3>1. Len(w) = 3 /\ w[1] = BackSlash /\ w[2] = "u" /\ w[3] = "0007"
      BY <2>1
    <3>2. q + 1 - 1 = q /\ q + 2 - 1 = q + 1 /\ q + 3 - 1 = q + 2
      BY <1>3
    <3> QED
      BY <1>2, <3>1, <3>2
  <2>3. ~At(s, q, DQuote)
    BY <2>2, AtOnly, Characters
  <2>4. Unescape(s, q + 1) = Read(c, q + 3)
    <3>1. \A d \in Lettered : ~At(s, q + 1, Letter[d])
      BY <2>2, AtOnly, Letters
    <3>2. (q + 1) + 1 = q + 2 /\ (q + 1) + 2 = q + 3
      BY <1>3
    <3>3. \A d \in DOMAIN Digits : At(s, q + 2, Digits[d]) /\ d = c
      BY <1>6, <2>2, Letters
    <3>4. DOMAIN Digits # {} /\ (CHOOSE d \in DOMAIN Digits : s[q + 2] = Digits[d]) = c
      BY <1>6, <2>2, <3>3, AtOnly, Letters
    <3>5. \E d \in DOMAIN Digits : At(s, (q + 1) + 1, Digits[d])
      BY <3>2, <3>3, <3>4
    <3>6. Unescape(s, q + 1)
            = Read(CHOOSE d \in DOMAIN Digits : s[(q + 1) + 1] = Digits[d], (q + 1) + 2)
      BY <2>2, <3>1, <3>5 DEF Unescape
    <3> QED
      BY <3>2, <3>4, <3>6
  <2>5. Unescape(s, t.at + 1) = Read(c, q + 3)
    BY <1>4, <2>4
  <2> HIDE DEF t
  <2>6. Character(s, t) = More(Append(v, c), q + 3)
    BY <1>4, <2>2, <2>3, <2>5, ReadIs DEF Character, At
  <2> QED
    BY <2>2, <2>6 DEF t, w
<1>7. CASE c \notin Lettered /\ c # "bell"
  <2>1. w = <<c>>
    BY <1>7, EscapeCharType
  <2> HIDE DEF w
  <2>2. At(s, q, c) /\ Len(w) = 1
    <3>1. Len(w) = 1 /\ w[1] = c /\ q + 1 - 1 = q
      BY <1>3, <2>1
    <3> QED
      BY <1>2, <3>1
  <2>3. c # DQuote /\ c # BackSlash
    BY <1>7, Letters
  <2>4. ~At(s, q, DQuote) /\ ~At(s, q, BackSlash) /\ s[q] = c /\ q <= Len(s)
    BY <2>2, <2>3, AtOnly, PlaceIs
  <2> HIDE DEF t
  <2>5. ~(t.at > Len(s))
    BY <1>3, <1>4, <2>4, PlaceIs
  <2>6. Character(s, t) = More(Append(t.val, s[t.at]), t.at + 1)
    BY <1>4, <2>4, <2>5 DEF Character
  <2> QED
    BY <1>4, <2>2, <2>4, <2>6 DEF t, w
<1> QED
  BY <1>5, <1>6, <1>7

EscapeChars(text) == [i \in DOMAIN text |-> EscapeChar(text[i])]

LEMMA EscapeType ==
    ASSUME NEW C, Marks \subseteq C, NEW text \in Seq(C)
    PROVE  /\ EscapeChars(text) \in Seq(Seq(C)) /\ Len(EscapeChars(text)) = Len(text)
           /\ \A i \in 1 .. Len(text) : EscapeChars(text)[i] = EscapeChar(text[i])
           /\ FlattenSeq(EscapeChars(text)) \in Seq(C)
           /\ Escape(text) = <<DQuote>> \o FlattenSeq(EscapeChars(text)) \o <<DQuote>>
           /\ Escape(text) \in Seq(C) /\ Escape(text) # <<>> /\ Escape(text)[1] = DQuote
           /\ Len(Escape(text)) = Len(FlattenSeq(EscapeChars(text))) + 2
<1>1. \A i \in DOMAIN text : EscapeChar(text[i]) \in Seq(C)
  BY EscapeCharType
<1>2. /\ EscapeChars(text) \in Seq(Seq(C)) /\ Len(EscapeChars(text)) = Len(text)
      /\ \A i \in 1 .. Len(text) : EscapeChars(text)[i] = EscapeChar(text[i])
  BY <1>1 DEF EscapeChars
<1> DEFINE body == FlattenSeq(EscapeChars(text))
<1>3. body \in Seq(C)
  BY <1>2, FlattenType
<1>4. Escape(text) = <<DQuote>> \o body \o <<DQuote>>
  BY DEF Escape, Quoted, EscapeChars
<1>5. DQuote \in C
  BY DEF Marks
<1> HIDE DEF body
<1>6. /\ <<DQuote>> \o body \o <<DQuote>> \in Seq(C)
      /\ <<DQuote>> \o body \o <<DQuote>> # <<>>
      /\ (<<DQuote>> \o body \o <<DQuote>>)[1] = DQuote
      /\ Len(<<DQuote>> \o body \o <<DQuote>>) = Len(body) + 2
  BY <1>3, <1>5
<1> QED
  BY <1>2, <1>3, <1>4, <1>6 DEF body

\* Where the texts that lie one behind the other begin.
LEMMA LiesAt ==
    ASSUME NEW C, NEW s \in Seq(C), NEW p \in Places(s), NEW seqs \in Seq(Seq(C)), NEW off,
           Lies(s, p, seqs, off), \A i \in DOMAIN seqs : seqs[i] # <<>>,
           p + Len(FlattenSeq(seqs)) \in Places(s)
    PROVE  /\ \A i \in 0 .. Len(seqs) : off[i] \in Places(s) /\ off[i] >= p + i
           /\ off[0] = p
           /\ off[Len(seqs)] = p + Len(FlattenSeq(seqs))
           /\ \A i \in 1 .. Len(seqs) : /\ off[i] = off[i - 1] + Len(seqs[i])
                                        /\ Has(s, off[i - 1], seqs[i])
<1> DEFINE L == Len(seqs)
<1>1. off \in [Nat -> Nat] /\ L \in Nat /\ p \in Nat
  BY PlaceIs DEF Lies
<1>2. \A i \in 0 .. L : off[i] >= p + i
  BY <1>1, LiesFar
<1>3. \A i \in 1 .. L : /\ off[i] = off[i - 1] + Len(seqs[i])
                        /\ Has(s, off[i - 1], seqs[i])
  BY DEF Lies
<1>4. off[0] = p /\ off[L] = p + Len(FlattenSeq(seqs))
  BY DEF Lies
<1>5. \A i \in 0 .. L : off[i] \in Places(s)
  <2>1. off[L] \in Places(s)
    BY <1>4
  <2>2. ASSUME NEW i \in 0 .. L, i # L PROVE off[i] \in Places(s)
    <3>1. i + 1 \in 1 .. L /\ (i + 1) - 1 = i
      BY <1>1, <2>2
    <3> DEFINE w == seqs[i + 1]
    <3>2. Has(s, off[i], w)
      BY <1>3, <3>1
    <3>3. w \in Seq(C)
      BY <3>1
    <3> HIDE DEF w
    <3>4. off[i] + Len(w) <= Len(s) + 1 /\ Len(w) \in Nat
      BY <3>2, <3>3 DEF Has
    <3>5. off[i] \in Nat /\ off[i] # 0 /\ off[i] <= Len(s) + 1
      <4>1. /\ off[i] >= p + i /\ off[i] \in Nat /\ p \in Nat /\ p # 0 /\ i \in Nat
            /\ Len(s) \in Nat
        BY <1>1, <1>2, PlaceIs
      <4> HIDE DEF L
      <4> QED
        BY <3>4, <4>1
    <3> QED
      BY <3>5, PlaceIs
  <2> QED
    BY <2>1, <2>2
<1> QED
  BY <1>2, <1>3, <1>4, <1>5 DEF L

\* Character i of the text is written at off[i - 1].
EscapeIs(s, q, text, off) ==
    /\ At(s, q, DQuote) /\ q + 1 \in Places(s) /\ off[0] = q + 1
    /\ \A i \in 0 .. Len(text) : off[i] \in Places(s) /\ off[i] >= q + 1 + i
    /\ \A i \in 1 .. Len(text) : /\ Has(s, off[i - 1], EscapeChar(text[i]))
                                  /\ off[i] = off[i - 1] + Len(EscapeChar(text[i]))
    /\ At(s, off[Len(text)], DQuote)
    /\ off[Len(text)] + 1 = q + Len(Escape(text))

LEMMA EscapeLies ==
    ASSUME NEW C, Marks \subseteq C, NEW s \in Seq(C), NEW q \in Places(s),
           NEW text \in Seq(C), Has(s, q, Escape(text))
    PROVE  \E off : EscapeIs(s, q, text, off)
<1> DEFINE seqs == EscapeChars(text)
           body == FlattenSeq(seqs)
           N == Len(text)
           L == Len(s)
<1>1. /\ seqs \in Seq(Seq(C)) /\ Len(seqs) = N /\ DOMAIN seqs = 1 .. N
      /\ \A i \in 1 .. N : seqs[i] = EscapeChar(text[i]) /\ seqs[i] # <<>> /\ text[i] \in C
      /\ body \in Seq(C) /\ N \in Nat /\ L \in Nat
      /\ Escape(text) = (<<DQuote>> \o body) \o <<DQuote>>
      /\ Len(Escape(text)) = Len(body) + 2
  <2>1. \A i \in 1 .. N : text[i] \in C
    OBVIOUS
  <2>2. \A i \in 1 .. N : EscapeChar(text[i]) # <<>>
    BY <2>1, EscapeCharType
  <2>3. N \in Nat /\ L \in Nat
    OBVIOUS
  <2>4. seqs \in Seq(Seq(C)) /\ Len(seqs) = N
    BY EscapeType
  <2>5. DOMAIN seqs = 1 .. N
    BY <2>4, LenProperties
  <2> QED
    BY <2>1, <2>2, <2>3, <2>4, <2>5, EscapeType
<1> HIDE DEF seqs
<1>2. DQuote \in C
  BY DEF Marks
<1>3. q \in Nat /\ q # 0
  BY PlaceIs
<1>4. At(s, q, DQuote) /\ Has(s, q + 1, body) /\ Has(s, q + 1 + Len(body), <<DQuote>>)
  <2> HIDE DEF body
  <2> DEFINE d == <<DQuote>>
  <2>1. d \in Seq(C) /\ Len(d) = 1 /\ d[1] = DQuote /\ d # <<>>
    BY <1>2
  <2> HIDE DEF d
  <2>2. Has(s, q, d \o body) /\ Has(s, q + Len(d \o body), d)
    <3>1. d \o body \in Seq(C)
      BY <1>1, <2>1
    <3> QED
      BY <1>1, <1>3, <2>1, <3>1, HasBoth DEF d
  <2>3. Has(s, q, d) /\ Has(s, q + Len(d), body)
    BY <1>1, <1>3, <2>1, <2>2, HasBoth
  <2>4. q + Len(d) = q + 1 /\ q + Len(d \o body) = q + 1 + Len(body)
    <3>1. Len(d \o body) = Len(d) + Len(body) /\ Len(body) \in Nat
      BY <1>1, <2>1, ConcatProperties, LenProperties
    <3> QED
      BY <1>3, <2>1, <3>1
  <2>5. At(s, q, DQuote)
    BY <2>1, <2>3, HasHead
  <2> QED
    BY <2>2, <2>3, <2>4, <2>5 DEF d
<1>5. q + 1 \in Places(s)
  BY <1>4, PlaceIs DEF At
<1>6. q + 1 + Len(body) \in Places(s) /\ Len(body) \in Nat
  <2> HIDE DEF body
  <2> QED
    BY <1>1, <1>4, <1>5, HasEnd
<1>7. PICK off : Lies(s, q + 1, seqs, off)
  <2>1. q + 1 \in Nat
    BY <1>3
  <2> QED
    BY <1>1, <1>4, <2>1, HasEach
<1>8. /\ \A i \in 0 .. N : off[i] \in Places(s) /\ off[i] >= q + 1 + i
      /\ off[0] = q + 1 /\ off[N] = q + 1 + Len(body)
      /\ \A i \in 1 .. N : off[i] = off[i - 1] + Len(seqs[i]) /\ Has(s, off[i - 1], seqs[i])
  <2>1. \A i \in DOMAIN seqs : seqs[i] # <<>>
    BY <1>1
  <2>2. Len(seqs) = N
    BY <1>1
  <2> HIDE DEF N
  <2>3. /\ \A i \in 0 .. Len(seqs) : off[i] \in Places(s) /\ off[i] >= (q + 1) + i
        /\ off[0] = q + 1
        /\ off[Len(seqs)] = (q + 1) + Len(FlattenSeq(seqs))
        /\ \A i \in 1 .. Len(seqs) : /\ off[i] = off[i - 1] + Len(seqs[i])
                                     /\ Has(s, off[i - 1], seqs[i])
    BY <1>1, <1>5, <1>6, <1>7, <2>1, LiesAt
  <2> QED
    BY <2>2, <2>3
<1>9. At(s, off[N], DQuote)
  <2> HIDE DEF body
  <2>1. Has(s, off[N], <<DQuote>>) /\ off[N] \in Places(s)
    BY <1>1, <1>4, <1>8
  <2>2. <<DQuote>> \in Seq(C) /\ <<DQuote>> # <<>> /\ (<<DQuote>>)[1] = DQuote
    BY <1>2
  <2> QED
    BY <2>1, <2>2, HasHead
<1>10. off[N] + 1 = q + Len(Escape(text))
  <2> HIDE DEF body
  <2> QED
    BY <1>1, <1>3, <1>6, <1>8
<1>11. \A i \in 1 .. N : /\ Has(s, off[i - 1], EscapeChar(text[i]))
                         /\ off[i] = off[i - 1] + Len(EscapeChar(text[i]))
  BY <1>1, <1>8
<1> HIDE DEF body
<1> QED
  BY <1>4, <1>5, <1>8, <1>9, <1>10, <1>11 DEF EscapeIs

LEMMA StringRead ==
    ASSUME NEW C, Marks \subseteq C, NEW s \in Seq(C), NEW q \in Places(s),
           NEW text \in Seq(C), Has(s, q, Escape(text))
    PROVE  ParseString(s, q) = Read(text, q + Len(Escape(text)))
<1> DEFINE N == Len(text)
           L == Len(s)
           start == More(<<>>, q + 1)
           Eq(f) == f = [n \in Nat |-> IF n = 0 THEN start ELSE Character(s, f[n - 1])]
<1>1. N \in Nat /\ L \in Nat /\ q \in Nat /\ q # 0 /\ \A i \in 1 .. N : text[i] \in C
  BY PlaceIs
<1>2. PICK off : EscapeIs(s, q, text, off)
  BY EscapeLies
<1>3. /\ At(s, q, DQuote) /\ off[0] = q + 1
      /\ \A i \in 0 .. N : off[i] \in Places(s) /\ off[i] >= q + 1 + i
      /\ \A i \in 1 .. N : /\ Has(s, off[i - 1], EscapeChar(text[i]))
                           /\ off[i] = off[i - 1] + Len(EscapeChar(text[i]))
      /\ At(s, off[N], DQuote) /\ off[N] + 1 = q + Len(Escape(text))
  BY <1>2 DEF EscapeIs
<1>9. /\ SubSeq(text, 1, 0) = <<>> /\ SubSeq(text, 1, N) = text
      /\ \A i \in 1 .. N : SubSeq(text, 1, i) = Append(SubSeq(text, 1, i - 1), text[i])
  BY TextTo
<1> DEFINE end == Read(text, q + Len(Escape(text)))
           g == [n \in Nat |-> IF n <= N THEN More(SubSeq(text, 1, n), off[n]) ELSE end]
<1> HIDE DEF N, L, start
<1>10. ASSUME NEW n \in Nat PROVE g[n + 1] = Character(s, g[n])
  <2>1. CASE n < N
    <3>1. n + 1 \in 1 .. N /\ (n + 1) - 1 = n /\ n \in 0 .. N /\ n <= N /\ n + 1 <= N
      BY <1>1, <2>1
    <3>2. off[n] \in Places(s) /\ Has(s, off[n], EscapeChar(text[n + 1])) /\ text[n + 1] \in C
      BY <1>1, <1>3, <3>1
    <3>3. Character(s, More(SubSeq(text, 1, n), off[n]))
            = More(Append(SubSeq(text, 1, n), text[n + 1]), off[n] + Len(EscapeChar(text[n + 1])))
      BY <3>2, CharacterRead
    <3>4. off[n + 1] = off[n] + Len(EscapeChar(text[n + 1]))
      BY <1>1, <1>3, <3>1
    <3>5. SubSeq(text, 1, n + 1) = Append(SubSeq(text, 1, n), text[n + 1])
      BY <1>9, <3>1
    <3>6. g[n] = More(SubSeq(text, 1, n), off[n])
      BY <3>1
    <3>7. g[n + 1] = More(SubSeq(text, 1, n + 1), off[n + 1])
      BY <3>1
    <3> QED
      BY <3>3, <3>4, <3>5, <3>6, <3>7
  <2>2. CASE n = N
    <3>1. g[n] = More(text, off[N])
      <4>1. g[n] = More(SubSeq(text, 1, n), off[n])
        BY <1>1, <2>2
      <4> QED
        BY <1>9, <2>2, <4>1
    <3>2. g[n + 1] = end
      BY <1>1, <2>2
    <3>3. At(s, off[N], DQuote) /\ off[N] + 1 = q + Len(Escape(text))
      BY <1>3
    <3> DEFINE t == More(text, off[N])
    <3>5. t.is = "more" /\ t.at = off[N] /\ t.val = text
      BY ReadIs
    <3> HIDE DEF t
    <3>6. Character(s, t) = Read(text, off[N] + 1)
      <4>1. ~At(s, t.at, BackSlash) /\ ~(t.at > Len(s)) /\ At(s, t.at, DQuote)
        BY <3>3, <3>5, AtOnly, Characters, PlaceIs
      <4>2. Character(s, t) = Read(t.val, t.at + 1)
        BY <3>5, <4>1 DEF Character
      <4> QED
        BY <3>5, <4>2
    <3> QED
      BY <3>1, <3>2, <3>3, <3>6 DEF t
  <2>3. CASE n > N
    <3>1. g[n] = end /\ g[n + 1] = end
      BY <1>1, <2>3
    <3>2. end.is # "more"
      BY ReadIs
    <3> HIDE DEF end, g
    <3>3. Character(s, end) = end
      BY <3>2 DEF Character
    <3> QED
      BY <3>1, <3>3
  <2> QED
    BY <1>1, <2>1, <2>2, <2>3
<1>11. g[0] = start
  <2>1. g[0] = More(SubSeq(text, 1, 0), off[0])
    BY <1>1
  <2> QED
    BY <1>3, <1>9, <2>1 DEF start
<1>12. Eq(g)
  <2> HIDE DEF g
  <2>1. g = [n \in Nat |-> g[n]]
    BY DEF g
  <2>2. ASSUME NEW n \in Nat PROVE g[n] = IF n = 0 THEN start ELSE Character(s, g[n - 1])
    <3>1. CASE n = 0
      BY <1>11, <3>1
    <3>2. CASE n # 0
      <4>1. n - 1 \in Nat /\ (n - 1) + 1 = n
        BY <3>2
      <4>2. g[(n - 1) + 1] = Character(s, g[n - 1])
        BY <1>10, <4>1
      <4> QED
        BY <3>2, <4>1, <4>2
    <3> QED
      BY <3>1, <3>2
  <2> QED
    BY <2>1, <2>2
<1> DEFINE chars == CHOOSE f : Eq(f)
<1>13. ParseString(s, q) = Ended(chars, L)
  BY <1>3 DEF ParseString, L, start
<1>14. Eq(chars)
  <2> HIDE DEF Eq
  <2> QED
    BY <1>12
<1> HIDE DEF chars
<1>15. \A n \in Nat : chars[n] = g[n]
  <2> HIDE DEF g
  <2>1. chars[0] = g[0]
    BY <1>11, <1>14
  <2>2. ASSUME NEW n \in Nat, chars[n] = g[n] PROVE chars[n + 1] = g[n + 1]
    <3>1. n + 1 \in Nat /\ n + 1 # 0 /\ (n + 1) - 1 = n
      OBVIOUS
    <3>2. chars[n + 1] = Character(s, chars[n])
      BY <1>14, <3>1
    <3> QED
      BY <1>10, <2>2, <3>2
  <2> HIDE DEF Eq
  <2> QED
    BY <2>1, <2>2, SameRun
<1>16. N + 1 \in 0 .. L
  <2>1. off[N] \in Nat /\ off[N] >= q + 1 + N /\ off[N] <= L
    <3>1. off[N] \in 1 .. L
      BY <1>3, AtOnly, PlaceIs DEF L
    <3> QED
      BY <1>1, <1>3, <3>1
  <2> QED
    BY <1>1, <2>1
<1>17. Stops(chars, N + 1, end)
  <2>1. \A n \in Nat : n <= N => g[n].is = "more"
    BY ReadIs
  <2>2. \A n \in Nat : n >= N + 1 => g[n] = end
    BY <1>1
  <2>3. end.is # "more"
    BY ReadIs
  <2> HIDE DEF g, end
  <2>4. \A n \in 0 .. (N + 1) - 1 : n \in Nat /\ n <= N
    BY <1>1
  <2>6. \A n \in 0 .. (N + 1) - 1 : chars[n].is = "more"
    BY <1>15, <2>1, <2>4
  <2> QED
    BY <1>15, <2>2, <2>3, <2>6 DEF Stops
<1>18. Ended(chars, L) = end
  <2> HIDE DEF end, g, Eq
  <2>1. L \in Nat
    BY <1>1
  <2> QED
    BY <2>1, <1>16, <1>17, EndIs
<1> QED
  BY <1>13, <1>18

-----------------------------------------------------------------------------
(* Lists of items between brackets.                                        *)

WithCommas(texts) ==
    [i \in DOMAIN texts |-> IF i = 1 THEN texts[i] ELSE <<Comma>> \o texts[i]]

LEMMA BehindComma ==
    ASSUME NEW C, NEW c \in C, NEW w \in Seq(C)
    PROVE  /\ <<c>> \o w \in Seq(C) /\ <<c>> \o w # <<>>
           /\ Len(<<c>> \o w) = Len(w) + 1 /\ Len(<<c>>) = 1 /\ <<c>> \in Seq(C)
           /\ <<c>> # <<>> /\ (<<c>>)[1] = c
           /\ (<<c>> \o w)[1] = c
  OBVIOUS

LEMMA JoinedType ==
    ASSUME NEW C, Comma \in C, NEW texts \in Seq(Seq(C)),
           \A i \in DOMAIN texts : texts[i] # <<>>
    PROVE  /\ WithCommas(texts) \in Seq(Seq(C)) /\ Len(WithCommas(texts)) = Len(texts)
           /\ \A i \in 1 .. Len(texts) :
                /\ WithCommas(texts)[i] = IF i = 1 THEN texts[i] ELSE <<Comma>> \o texts[i]
                /\ WithCommas(texts)[i] # <<>>
           /\ Joined(texts) = FlattenSeq(WithCommas(texts)) /\ Joined(texts) \in Seq(C)
<1> DEFINE W == WithCommas(texts)
           N == Len(texts)
<1>1. N \in Nat /\ DOMAIN texts = 1 .. N /\ \A i \in 1 .. N : texts[i] \in Seq(C)
  OBVIOUS
<1>2. ASSUME NEW i \in 1 .. N
      PROVE  /\ W[i] = IF i = 1 THEN texts[i] ELSE <<Comma>> \o texts[i]
             /\ W[i] \in Seq(C) /\ W[i] # <<>>
  <2> DEFINE w == texts[i]
  <2>1. w \in Seq(C) /\ w # <<>>
    BY <1>1
  <2>2. W[i] = IF i = 1 THEN w ELSE <<Comma>> \o w
    BY <1>1 DEF WithCommas
  <2> HIDE DEF w, W
  <2>3. <<Comma>> \o w \in Seq(C) /\ <<Comma>> \o w # <<>>
    BY <2>1, BehindComma
  <2> QED
    BY <2>1, <2>2, <2>3 DEF w
<1>3. W = [i \in 1 .. N |-> W[i]]
  BY <1>1 DEF WithCommas
<1> HIDE DEF W
<1>4. W \in Seq(Seq(C)) /\ Len(W) = N
  <2>1. W \in [1 .. N -> Seq(C)]
    BY <1>2, <1>3
  <2> HIDE DEF N
  <2> QED
    BY <1>1, <2>1
<1>5. Joined(texts) = FlattenSeq(W)
  BY DEF Joined, W, WithCommas
<1>6. FlattenSeq(W) \in Seq(C)
  BY <1>4, FlattenType
<1> QED
  BY <1>2, <1>4, <1>5, <1>6 DEF W

\* What can be listed, and between which characters.
Listable(open, texts, close, C) ==
    /\ Comma \in C /\ open \in C /\ close \in C
    /\ texts \in Seq(Seq(C)) /\ \A i \in DOMAIN texts : texts[i] # <<>>

LEMMA ListedType ==
    ASSUME NEW C, NEW open, NEW texts, NEW close, Listable(open, texts, close, C)
    PROVE  /\ Listed(open, texts, close) \in Seq(C) /\ Listed(open, texts, close) # <<>>
           /\ Listed(open, texts, close)[1] = open
           /\ Len(Listed(open, texts, close)) = Len(Joined(texts)) + 2
           /\ Len(Joined(texts)) \in Nat
<1> USE DEF Listable
<1> DEFINE body == Joined(texts)
<1>1. body \in Seq(C)
  BY JoinedType
<1>2. Listed(open, texts, close) = (<<open>> \o body) \o <<close>>
  BY DEF Listed
<1> HIDE DEF body
<1>3. /\ (<<open>> \o body) \o <<close>> \in Seq(C)
      /\ (<<open>> \o body) \o <<close>> # <<>>
      /\ ((<<open>> \o body) \o <<close>>)[1] = open
      /\ Len((<<open>> \o body) \o <<close>>) = Len(body) + 2
      /\ Len(body) \in Nat
  BY <1>1
<1> QED
  BY <1>2, <1>3 DEF body

\* Item i begins at Begin(off, i) and ends before off[i].
Begin(off, i) == IF i = 1 THEN off[0] ELSE off[i - 1] + 1
ListIs(s, q, open, texts, close, off) ==
    /\ At(s, q, open) /\ q + 1 \in Places(s) /\ off[0] = q + 1
    /\ \A i \in 0 .. Len(texts) : off[i] \in Places(s) /\ off[i] >= q + 1 + i
    /\ \A i \in 1 .. Len(texts) : /\ Begin(off, i) \in Places(s)
                                  /\ Has(s, Begin(off, i), texts[i])
                                  /\ off[i] = Begin(off, i) + Len(texts[i])
    /\ \A i \in 1 .. Len(texts) - 1 : At(s, off[i], Comma)
    /\ At(s, off[Len(texts)], close)
    /\ off[Len(texts)] + 1 = q + Len(Listed(open, texts, close))

LEMMA ListLies ==
    ASSUME NEW C, Comma \in C, NEW s \in Seq(C), NEW q \in Places(s), NEW texts \in Seq(Seq(C)),
           \A i \in DOMAIN texts : texts[i] # <<>>,
           NEW open \in C, NEW close \in C, Has(s, q, Listed(open, texts, close))
    PROVE  \E off : ListIs(s, q, open, texts, close, off)
<1> DEFINE W == WithCommas(texts)
           N == Len(texts)
           body == Joined(texts)
<1>1. /\ W \in Seq(Seq(C)) /\ Len(W) = N /\ DOMAIN W = 1 .. N
      /\ \A i \in 1 .. N : /\ W[i] = IF i = 1 THEN texts[i] ELSE <<Comma>> \o texts[i]
                           /\ W[i] # <<>>
      /\ body = FlattenSeq(W) /\ body \in Seq(C)
  <2>1. W \in Seq(Seq(C)) /\ Len(W) = N
    BY JoinedType
  <2>2. DOMAIN W = 1 .. N
    BY <2>1, LenProperties
  <2> QED
    BY <2>1, <2>2, JoinedType
<1>2. /\ Listed(open, texts, close) = (<<open>> \o body) \o <<close>>
      /\ Len(Listed(open, texts, close)) = Len(body) + 2 /\ Len(body) \in Nat
  <2>1. Listable(open, texts, close, C)
    BY DEF Listable
  <2>2. Len(Listed(open, texts, close)) = Len(body) + 2 /\ Len(body) \in Nat
    BY ONLY <2>1, ListedType
  <2> QED
    BY <2>2 DEF Listed
<1>3. N \in Nat /\ q \in Nat /\ q # 0 /\ \A i \in 1 .. N : texts[i] \in Seq(C)
  BY PlaceIs
<1> HIDE DEF W, N, body
<1>4. /\ At(s, q, open) /\ Has(s, q + 1, body) /\ Has(s, q + 1 + Len(body), <<close>>)
      /\ q + 1 \in Places(s) /\ q + 1 + Len(body) \in Places(s)
  <2> DEFINE a == <<open>>
             b == <<close>>
  <2>1. /\ a \in Seq(C) /\ Len(a) = 1 /\ a[1] = open /\ a # <<>>
        /\ b \in Seq(C) /\ a \o body \in Seq(C) /\ Len(a \o body) = Len(body) + 1
    BY <1>1, BehindComma
  <2>2. Has(s, q, (a \o body) \o b)
    BY <1>2
  <2> HIDE DEF a, b
  <2>3. Has(s, q, a \o body) /\ Has(s, q + Len(a \o body), b)
    BY <1>3, <2>1, <2>2, HasBoth
  <2>4. Has(s, q, a) /\ Has(s, q + Len(a), body)
    BY <1>1, <1>3, <2>1, <2>3, HasBoth
  <2>5. q + Len(a) = q + 1 /\ q + Len(a \o body) = q + 1 + Len(body)
    BY <1>2, <1>3, <2>1
  <2>6. At(s, q, open) /\ q + 1 \in Places(s)
    BY <2>1, <2>4, HasHead
  <2>7. q + 1 + Len(body) \in Places(s)
    BY <1>1, <2>4, <2>5, <2>6, HasEnd
  <2> QED
    BY <2>3, <2>4, <2>5, <2>6, <2>7 DEF b
<1>5. PICK off : Lies(s, q + 1, W, off)
  <2>1. q + 1 \in Nat
    BY <1>3
  <2> QED
    BY <1>1, <1>4, <2>1, HasEach
<1>6. /\ \A i \in 0 .. N : off[i] \in Places(s) /\ off[i] >= q + 1 + i
      /\ off[0] = q + 1 /\ off[N] = q + 1 + Len(body)
      /\ \A i \in 1 .. N : off[i] = off[i - 1] + Len(W[i]) /\ Has(s, off[i - 1], W[i])
  <2>1. \A i \in DOMAIN W : W[i] # <<>>
    BY <1>1
  <2>2. /\ \A i \in 0 .. Len(W) : off[i] \in Places(s) /\ off[i] >= (q + 1) + i
        /\ off[0] = q + 1
        /\ off[Len(W)] = (q + 1) + Len(FlattenSeq(W))
        /\ \A i \in 1 .. Len(W) : /\ off[i] = off[i - 1] + Len(W[i])
                                  /\ Has(s, off[i - 1], W[i])
    BY <1>1, <1>4, <1>5, <2>1, LiesAt
  <2> QED
    BY <1>1, <2>2
<1>7. ASSUME NEW i \in 1 .. N
      PROVE  /\ Begin(off, i) \in Places(s) /\ Has(s, Begin(off, i), texts[i])
             /\ off[i] = Begin(off, i) + Len(texts[i])
             /\ i # 1 => At(s, off[i - 1], Comma)
  <2> DEFINE w == texts[i]
             o == off[i - 1]
  <2>1. w \in Seq(C) /\ i - 1 \in 0 .. N /\ o \in Places(s) /\ o \in Nat
    <3>1. w \in Seq(C) /\ i - 1 \in 0 .. N
      BY <1>3
    <3>2. o \in Places(s)
      BY <1>6, <3>1
    <3> QED
      BY <3>1, <3>2, PlaceIs
  <2>2. off[i] = o + Len(W[i]) /\ Has(s, o, W[i])
    BY <1>6
  <2>3. W[i] = IF i = 1 THEN w ELSE <<Comma>> \o w
    BY <1>1
  <2>4. Begin(off, i) = IF i = 1 THEN o ELSE o + 1
    BY DEF Begin
  <2> HIDE DEF w, o
  <2>5. CASE i = 1
    BY <2>1, <2>2, <2>3, <2>4, <2>5 DEF w
  <2>6. CASE i # 1
    <3> DEFINE a == <<Comma>>
    <3>1. a \in Seq(C) /\ Len(a) = 1 /\ a[1] = Comma /\ a # <<>> /\ Len(a \o w) = Len(w) + 1
      BY <2>1, BehindComma
    <3>2. Has(s, o, a \o w) /\ off[i] = o + Len(a \o w)
      BY <2>2, <2>3, <2>6
    <3> HIDE DEF a
    <3>3. Has(s, o, a) /\ Has(s, o + 1, w)
      <4>1. Has(s, o, a) /\ Has(s, o + Len(a), w)
        BY <2>1, <3>1, <3>2, HasBoth
      <4> QED
        BY <3>1, <4>1
    <3>4. At(s, o, Comma) /\ o + 1 \in Places(s)
      BY <2>1, <3>1, <3>3, HasHead
    <3>5. o + (Len(w) + 1) = (o + 1) + Len(w)
      <4>1. Len(w) \in Nat
        BY <2>1
      <4> QED
        BY <2>1, <4>1
    <3> QED
      BY <2>4, <2>6, <3>1, <3>2, <3>3, <3>4, <3>5 DEF w, o
  <2> QED
    BY <2>5, <2>6
<1>8. \A i \in 1 .. N - 1 : At(s, off[i], Comma)
  <2> SUFFICES ASSUME NEW i \in 1 .. N - 1 PROVE At(s, off[i], Comma)
    OBVIOUS
  <2>1. i + 1 \in 1 .. N /\ i + 1 # 1 /\ (i + 1) - 1 = i
    BY <1>3
  <2> QED
    BY <1>7, <2>1
<1>9. At(s, off[N], close)
  <2> DEFINE b == <<close>>
  <2>1. b \in Seq(C) /\ b # <<>> /\ b[1] = close
    BY BehindComma, <1>1
  <2>2. N \in 0 .. N
    BY <1>3
  <2>3. off[N] \in Places(s) /\ Has(s, off[N], b)
    BY <1>4, <1>6, <2>2
  <2> HIDE DEF b
  <2> QED
    BY <2>1, <2>3, HasHead
<1>10. off[N] + 1 = q + Len(Listed(open, texts, close))
  BY <1>2, <1>3, <1>6
<1> QED
  BY <1>4, <1>6, <1>7, <1>8, <1>9, <1>10 DEF ListIs, N

\* Texts that no blank, and not the end of the list, begins; and the values that
\* are read where they stand.
Heads(texts, close) ==
    \A i \in DOMAIN texts : texts[i] # <<>> /\ texts[i][1] \notin Ws /\ texts[i][1] # close
GivesAll(item, s, texts, vals) ==
    /\ Len(vals) = Len(texts)
    /\ \A i \in DOMAIN texts : \A k \in Places(s) :
         Has(s, k, texts[i]) => item[k] = Read(vals[i], k + Len(texts[i]))

\* A list whose items are read gives their values.
LEMMA ListRead ==
    ASSUME NEW C, Comma \in C, NEW s \in Seq(C), NEW q \in Places(s), NEW texts \in Seq(Seq(C)),
           NEW open \in C, NEW close \in C, open \notin Ws, close \notin Ws, close # Comma,
           Has(s, q, Listed(open, texts, close)),
           NEW item, NEW V, NEW vals \in Seq(V),
           Heads(texts, close), GivesAll(item, s, texts, vals)
    PROVE  List(item, s, q, open, close) = Read(vals, q + Len(Listed(open, texts, close)))
<1> USE DEF Heads, GivesAll
<1> DEFINE N == Len(texts)
           L == Len(s)
           end == Read(vals, q + Len(Listed(open, texts, close)))
<1>1. \A i \in DOMAIN texts : texts[i] # <<>>
  OBVIOUS
<1>2. PICK off : ListIs(s, q, open, texts, close, off)
  BY <1>1, ListLies
<1>3. /\ N \in Nat /\ L \in Nat /\ q \in Nat /\ q # 0 /\ DOMAIN texts = 1 .. N
      /\ Len(vals) = N
      /\ \A i \in 1 .. N : texts[i] \in Seq(C)
  BY PlaceIs
<1>4. /\ At(s, q, open) /\ q + 1 \in Places(s) /\ off[0] = q + 1
      /\ \A i \in 0 .. N : off[i] \in Places(s) /\ off[i] >= q + 1 + i
      /\ \A i \in 1 .. N : /\ Begin(off, i) \in Places(s)
                           /\ Has(s, Begin(off, i), texts[i])
                           /\ off[i] = Begin(off, i) + Len(texts[i])
      /\ \A i \in 1 .. N - 1 : At(s, off[i], Comma)
      /\ At(s, off[N], close)
      /\ end = Read(vals, off[N] + 1)
  BY <1>2 DEF ListIs
<1>5. SkipWs(s, q) = q
  BY <1>4, SkipNone
<1>6. ASSUME NEW i \in 1 .. N
      PROVE  /\ SkipWs(s, Begin(off, i)) = Begin(off, i)
             /\ ~At(s, Begin(off, i), close)
             /\ item[Begin(off, i)] = Read(vals[i], off[i])
  <2> DEFINE w == texts[i]
             b == Begin(off, i)
  <2>1. w \in Seq(C) /\ w # <<>> /\ w[1] \notin Ws /\ w[1] # close
    BY <1>3
  <2>2. b \in Places(s) /\ Has(s, b, w) /\ off[i] = b + Len(w)
    BY <1>4
  <2>3. item[b] = Read(vals[i], b + Len(w))
    BY <1>3, <2>2
  <2> HIDE DEF w, b
  <2>4. At(s, b, w[1])
    BY <2>1, <2>2, HasHead
  <2>5. SkipWs(s, b) = b /\ ~At(s, b, close)
    BY <2>1, <2>4, SkipNone, AtOnly
  <2> QED
    BY <2>2, <2>3, <2>5 DEF b
<1>9. close # Comma /\ close \notin Ws
  OBVIOUS
<1> HIDE DEF N, end
<1>7. CASE N = 0
  <2>1. At(s, q + 1, close) /\ SkipWs(s, q + 1) = q + 1
    BY <1>3, <1>4, <1>7, SkipNone
  <2>2. List(item, s, q, open, close) = Read(<<>>, (q + 1) + 1)
    BY <1>4, <1>5, <2>1 DEF List
  <2>3. vals = <<>>
    BY <1>3, <1>7
  <2> QED
    BY <1>4, <1>7, <2>2, <2>3 DEF end
<1>8. CASE N # 0
  <2> DEFINE start == More(<<>>, SkipWs(s, SkipWs(s, q) + 1))
             Eq(f) == f = [n \in Nat |->
                             IF n = 0 THEN start ELSE NextItem(item, s, close, f[n - 1])]
             g == [n \in Nat |-> IF n < N THEN More(SubSeq(vals, 1, n), Begin(off, n + 1))
                                 ELSE end]
             items == CHOOSE f : Eq(f)
  <2>1. /\ SubSeq(vals, 1, 0) = <<>> /\ SubSeq(vals, 1, N) = vals
        /\ \A i \in 1 .. N : SubSeq(vals, 1, i) = Append(SubSeq(vals, 1, i - 1), vals[i])
    BY <1>3, TextTo
  <2>2. Begin(off, 1) = q + 1 /\ \A n \in Nat : n # 0 => Begin(off, n + 1) = off[n] + 1
    BY <1>4 DEF Begin
  <2>12. SkipWs(s, q + 1) = q + 1 /\ ~At(s, q + 1, close) /\ start = More(<<>>, q + 1)
    <3>1. Begin(off, 1) = q + 1 /\ 1 \in 1 .. N
      BY <1>3, <1>8, <2>2
    <3> QED
      BY <1>5, <1>6, <3>1
  <2>3. g[0] = start
    <3>1. 0 \in Nat /\ 0 < N /\ 0 + 1 = 1
      BY <1>3, <1>8
    <3>2. g[0] = More(SubSeq(vals, 1, 0), Begin(off, 0 + 1))
      BY <3>1
    <3>3. Begin(off, 0 + 1) = q + 1
      BY <2>2, <3>1
    <3> HIDE DEF g, start
    <3> QED
      BY <2>1, <2>12, <3>2, <3>3
  <2> HIDE DEF start
  <2>4. ASSUME NEW n \in Nat PROVE g[n + 1] = NextItem(item, s, close, g[n])
    <3>1. CASE n < N
      <4> DEFINE v == SubSeq(vals, 1, n)
                 b == Begin(off, n + 1)
                 x == vals[n + 1]
                 e == off[n + 1]
      <4>1. n + 1 \in 1 .. N /\ (n + 1) - 1 = n
        BY <1>3, <3>1
      <4>2. item[b] = Read(x, e)
        BY <1>6, <4>1
      <4>3. g[n] = More(v, b)
        BY <3>1
      <4>4. Append(v, x) = SubSeq(vals, 1, n + 1)
        BY <2>1, <4>1
      <4> DEFINE t == g[n]
                 u == Append(v, x)
      <4>5. /\ At(s, e, Comma) => NextItem(item, s, close, t) = More(u, SkipWs(s, e + 1))
            /\ At(s, e, close) => NextItem(item, s, close, t) = Read(u, e + 1)
        <5>1. t.is = "more" /\ t.at = b /\ t.val = v
          <6> HIDE DEF t, v, b
          <6>1. t = More(v, b)
            BY <4>3 DEF t, v, b
          <6> QED
            BY ONLY <6>1, ReadIs
        <5> HIDE DEF v, b, x, e, t, u
        <5>2. item[t.at].is = "read" /\ item[t.at].val = x /\ item[t.at].at = e
          BY ONLY <4>2, <5>1, ReadIs
        <5>3. u = Append(t.val, item[t.at].val) /\ e = item[t.at].at
          BY ONLY <5>1, <5>2 DEF u
        <5>4. At(s, e, Comma) \/ At(s, e, close) => SkipWs(s, e) = e
          <6>1. Comma \notin Ws
            BY Characters
          <6> QED
            BY ONLY <1>9, <6>1, s \in Seq(C), SkipNone
        <5>5. At(s, e, close) <=> ~At(s, e, Comma) /\ At(s, e, close)
          BY ONLY <1>9, AtOnly
        <5>6. At(s, e, Comma) => NextItem(item, s, close, t) = More(u, SkipWs(s, e + 1))
          BY ONLY <5>1, <5>2, <5>3, <5>4, <5>5 DEF NextItem
        <5>7. At(s, e, close) => NextItem(item, s, close, t) = Read(u, e + 1)
          BY ONLY <5>1, <5>2, <5>3, <5>4, <5>5 DEF NextItem
        <5> QED
          BY <5>6, <5>7
      <4>6. CASE n + 1 = N
        <5>1. At(s, e, close) /\ end = Read(vals, e + 1)
          BY <1>4, <4>6
        <5>2. g[n + 1] = end
          BY <1>3, <4>6
        <5>3. Append(v, x) = vals
          BY <2>1, <4>4, <4>6
        <5> HIDE DEF v, b, x, e, g
        <5> QED
          BY <4>5, <5>1, <5>2, <5>3
      <4>7. CASE n + 1 # N
        <5>1. n + 1 \in 1 .. N - 1 /\ n + 2 \in 1 .. N /\ n + 1 < N /\ (n + 1) + 1 = n + 2
              /\ n + 1 \in Nat /\ n + 1 # 0
          BY <1>3, <4>1, <4>7
        <5>2. At(s, e, Comma)
          BY <1>4, <5>1
        <5>3. Begin(off, n + 2) = e + 1
          BY <2>2, <5>1
        <5>4. SkipWs(s, e + 1) = e + 1
          BY <1>6, <5>1, <5>3
        <5>5. g[n + 1] = More(SubSeq(vals, 1, n + 1), Begin(off, n + 2))
          BY <5>1
        <5> HIDE DEF v, b, x, e, g
        <5> QED
          BY <4>4, <4>5, <5>2, <5>3, <5>4, <5>5
      <4> QED
        BY <4>6, <4>7
    <3>2. CASE n >= N
      <4>1. g[n] = end /\ g[n + 1] = end
        BY <1>3, <3>2
      <4>2. end.is # "more"
        BY ReadIs DEF end
      <4> HIDE DEF g
      <4>3. NextItem(item, s, close, end) = end
        BY <4>2 DEF NextItem
      <4> QED
        BY <4>1, <4>3
    <3> QED
      BY <1>3, <3>1, <3>2
  <2>5. Eq(g)
    <3> HIDE DEF g
    <3>1. g = [n \in Nat |-> g[n]]
      BY DEF g
    <3>2. ASSUME NEW n \in Nat
          PROVE  g[n] = IF n = 0 THEN start ELSE NextItem(item, s, close, g[n - 1])
      <4>1. CASE n = 0
        BY <2>3, <4>1
      <4>2. CASE n # 0
        <5>1. n - 1 \in Nat /\ (n - 1) + 1 = n
          BY <4>2
        <5>2. g[(n - 1) + 1] = NextItem(item, s, close, g[n - 1])
          BY <2>4, <5>1
        <5> QED
          BY <4>2, <5>1, <5>2
      <4> QED
        BY <4>1, <4>2
    <3> QED
      BY <3>1, <3>2
  <2>6. List(item, s, q, open, close) = Ended(items, L)
    <3>1. At(s, SkipWs(s, q), open) /\ ~At(s, SkipWs(s, SkipWs(s, q) + 1), close)
      BY <1>4, <1>5, <2>12
    <3> QED
      BY <3>1 DEF List, start
  <2>7. Eq(items)
    <3> HIDE DEF Eq
    <3> QED
      BY <2>5
  <2> HIDE DEF items
  <2>8. \A n \in Nat : items[n] = g[n]
    <3> HIDE DEF g
    <3>1. items[0] = g[0]
      BY <2>3, <2>7
    <3>2. ASSUME NEW n \in Nat, items[n] = g[n] PROVE items[n + 1] = g[n + 1]
      <4>1. n + 1 \in Nat /\ n + 1 # 0 /\ (n + 1) - 1 = n
        OBVIOUS
      <4>2. items[n + 1] = NextItem(item, s, close, items[n])
        BY <2>7, <4>1
      <4> QED
        BY <2>4, <3>2, <4>2
    <3> HIDE DEF Eq
    <3> QED
      BY <3>1, <3>2, SameRun
  <2>9. N \in 0 .. L
    <3>1. N \in 0 .. N
      BY <1>3
    <3>2. off[N] \in Places(s) /\ off[N] >= q + 1 + N
      BY <1>4, <3>1
    <3>3. off[N] \in Nat /\ off[N] <= L + 1
      BY <3>2, PlaceIs
    <3> HIDE DEF L
    <3> QED
      BY <1>3, <3>2, <3>3
  <2>10. Stops(items, N, end)
    <3>1. \A n \in Nat : n < N => g[n].is = "more"
      BY ReadIs
    <3>2. \A n \in Nat : n >= N => g[n] = end
      BY <1>3
    <3>3. end.is # "more"
      BY ReadIs DEF end
    <3> HIDE DEF g
    <3>4. \A n \in 0 .. N - 1 : n \in Nat /\ n < N
      BY <1>3
    <3>5. \A n \in 0 .. N - 1 : items[n].is = "more"
      BY <2>8, <3>1, <3>4
    <3> QED
      BY ONLY <2>8, <3>2, <3>3, <3>5 DEF Stops
  <2>11. Ended(items, L) = end
    <3> HIDE DEF g, Eq, L
    <3>1. L \in Nat
      BY <1>3
    <3> QED
      BY ONLY <1>3, <3>1, <2>9, <2>10, EndIs
  <2> QED
    BY <2>6, <2>11 DEF end
<1> QED
  BY <1>7, <1>8 DEF end


-----------------------------------------------------------------------------
(* Arrays of strings, and the members of an object.                        *)

EscapeAll(texts) == [i \in DOMAIN texts |-> Escape(texts[i])]

LEMMA EscapeAllType ==
    ASSUME NEW C, Marks \subseteq C, NEW texts \in Seq(Seq(C))
    PROVE  /\ EscapeAll(texts) \in Seq(Seq(C)) /\ Len(EscapeAll(texts)) = Len(texts)
           /\ DOMAIN EscapeAll(texts) = DOMAIN texts
           /\ \A i \in DOMAIN texts :
                /\ texts[i] \in Seq(C)
                /\ EscapeAll(texts)[i] = Escape(texts[i])
                /\ EscapeAll(texts)[i] # <<>> /\ EscapeAll(texts)[i][1] = DQuote
<1>1. \A i \in DOMAIN texts : texts[i] \in Seq(C)
  OBVIOUS
<1>2. \A i \in DOMAIN texts :
        Escape(texts[i]) \in Seq(C) /\ Escape(texts[i]) # <<>> /\ Escape(texts[i])[1] = DQuote
  BY <1>1, EscapeType
<1> QED
  <2>1. EscapeAll(texts) = [i \in 1 .. Len(texts) |-> Escape(texts[i])] /\ Len(texts) \in Nat
    BY DEF EscapeAll
  <2> DEFINE N == Len(texts)
             w(i) == Escape(texts[i])
  <2>2. \A i \in 1 .. N : w(i) \in Seq(C)
    BY <1>2
  <2>3. EscapeAll(texts) = [i \in 1 .. N |-> w(i)]
    BY <2>1
  <2>4. N \in Nat
    OBVIOUS
  <2> HIDE DEF w, N
  <2>5. EscapeAll(texts) \in Seq(Seq(C)) /\ Len(EscapeAll(texts)) = N
    BY <2>2, <2>3, <2>4
  <2> QED
    BY <1>1, <1>2, <2>1, <2>5 DEF N

LEMMA MarksAre ==
    ASSUME NEW C, Marks \subseteq C
    PROVE  /\ DQuote \in C /\ BackSlash \in C /\ Comma \in C /\ Colon \in C
           /\ BraceOpen \in C /\ BraceClose \in C /\ BracketOpen \in C /\ BracketClose \in C
           /\ "true" \in C /\ "false" \in C
  BY DEF Marks

LEMMA ArrayRead ==
    ASSUME NEW C, Marks \subseteq C, NEW s \in Seq(C), NEW q \in Places(s),
           NEW texts \in Seq(Seq(C)), Has(s, q, Array(EscapeAll(texts)))
    PROVE  ParseStringArray(s, q) = Read(texts, q + Len(Array(EscapeAll(texts))))
<1> DEFINE W == EscapeAll(texts)
           item == [k \in Places(s) |-> ParseString(s, k)]
<1>1. /\ W \in Seq(Seq(C)) /\ Len(texts) = Len(W) /\ DOMAIN W = DOMAIN texts
      /\ \A i \in DOMAIN W : W[i] # <<>> /\ W[i][1] = DQuote
      /\ \A i \in DOMAIN W : W[i] = Escape(texts[i]) /\ texts[i] \in Seq(C)
  BY EscapeAllType
<1>2. /\ Comma \in C /\ BracketOpen \in C /\ BracketClose \in C
      /\ BracketOpen \notin Ws /\ BracketClose \notin Ws /\ BracketClose # Comma
      /\ DQuote \notin Ws /\ DQuote # BracketClose
  BY Characters, MarksAre
<1>3. Has(s, q, Listed(BracketOpen, W, BracketClose))
      /\ Array(EscapeAll(texts)) = Listed(BracketOpen, W, BracketClose)
  BY DEF Array
<1> HIDE DEF W
<1>4. ASSUME NEW i \in DOMAIN W, NEW k \in Places(s), Has(s, k, W[i])
      PROVE  item[k] = Read(texts[i], k + Len(W[i]))
  <2>1. ParseString(s, k) = Read(texts[i], k + Len(Escape(texts[i])))
    BY <1>1, <1>4, StringRead
  <2> QED
    BY <1>1, <2>1
<1>5. ParseStringArray(s, q) = List(item, s, q, BracketOpen, BracketClose)
  BY DEF ParseStringArray
<1> HIDE DEF item
<1>6. Heads(W, BracketClose) /\ GivesAll(item, s, W, texts)
  BY <1>1, <1>2, <1>4 DEF Heads, GivesAll
<1>7. List(item, s, q, BracketOpen, BracketClose)
        = Read(texts, q + Len(Listed(BracketOpen, W, BracketClose)))
  BY ONLY <1>1, <1>2, <1>3, <1>6, s \in Seq(C), q \in Places(s), texts \in Seq(Seq(C)), ListRead
<1> QED
  BY <1>3, <1>5, <1>7

\* A name, a colon and a text behind it.
MemberText(name, text) == Escape(name) \o <<Colon>> \o text
Behind(name) == Len(Escape(name)) + 1

LEMMA MemberType ==
    ASSUME NEW C, Marks \subseteq C, NEW name \in Seq(C), NEW w \in Seq(C)
    PROVE  /\ MemberText(name, w) \in Seq(C) /\ MemberText(name, w) # <<>>
           /\ MemberText(name, w)[1] = DQuote
           /\ Len(MemberText(name, w)) = Behind(name) + Len(w)
           /\ Behind(name) \in Nat
<1> DEFINE e == Escape(name)
<1>1. e \in Seq(C) /\ e # <<>> /\ e[1] = DQuote
  BY EscapeType
<1>2. Colon \in C
  BY MarksAre
<1>3. MemberText(name, w) = (e \o <<Colon>>) \o w /\ Behind(name) = Len(e) + 1
  BY DEF MemberText, Behind
<1> HIDE DEF e
<1> QED
  BY <1>1, <1>2, <1>3

LEMMA MemberRead ==
    ASSUME NEW C, Marks \subseteq C, NEW s \in Seq(C), NEW q \in Places(s),
           NEW name \in Seq(C), NEW w \in Seq(C), Has(s, q, MemberText(name, w))
    PROVE  /\ MemberName(s, q) = Read(name, q + Behind(name))
           /\ q + Behind(name) \in Places(s)
           /\ Has(s, q + Behind(name), w)
           /\ q + Behind(name) + Len(w) = q + Len(MemberText(name, w))
           /\ Has(s, q, Escape(name)) /\ At(s, q + Len(Escape(name)), Colon)
           /\ q + Len(Escape(name)) \in Places(s)
<1> DEFINE e == Escape(name)
           c == <<Colon>>
           k == q + Len(e)
<1>1. e \in Seq(C) /\ c \in Seq(C) /\ c # <<>> /\ Len(c) = 1 /\ c[1] = Colon /\ q \in Nat
      /\ e \o c \in Seq(C) /\ Len(e \o c) = Len(e) + 1 /\ Len(e) \in Nat /\ Len(w) \in Nat
  <2>1. e \in Seq(C)
    BY EscapeType
  <2>2. c \in Seq(C) /\ c # <<>> /\ Len(c) = 1 /\ c[1] = Colon
    BY MarksAre
  <2>3. q \in Nat
    BY PlaceIs
  <2> HIDE DEF e, c
  <2>4. e \o c \in Seq(C) /\ Len(e \o c) = Len(e) + 1 /\ Len(e) \in Nat
    <3>1. Len(e) \in Nat /\ Len(c) \in Nat
      BY <2>1, <2>2, LenProperties
    <3>2. e \o c \in Seq(C) /\ Len(e \o c) = Len(e) + Len(c)
      BY <2>1, <2>2, ConcatProperties
    <3> QED
      BY <2>2, <3>1, <3>2
  <2>5. Len(w) \in Nat
    OBVIOUS
  <2> QED
    BY <2>1, <2>2, <2>3, <2>4, <2>5
<1>2. Has(s, q, (e \o c) \o w)
  BY DEF MemberText
<1>3. Behind(name) = Len(e) + 1
  BY DEF Behind
<1> HIDE DEF e, c
<1>4. Has(s, q, e \o c) /\ Has(s, q + Len(e \o c), w)
  BY <1>1, <1>2, HasBoth
<1>5. Has(s, q, e) /\ Has(s, q + Len(e), c)
  BY <1>1, <1>4, HasBoth
<1>6. k \in Places(s)
  BY <1>1, <1>5, HasEnd
<1>7. At(s, k, Colon) /\ k + 1 \in Places(s) /\ k \in Nat
  BY <1>1, <1>5, <1>6, HasHead, PlaceIs
<1>8. k + 1 = q + Behind(name) /\ q + Len(e \o c) = k + 1
  BY <1>1, <1>3
<1>9. ParseString(s, q) = Read(name, k)
  BY <1>5, StringRead DEF e
<1>10. MemberName(s, q) = Read(name, k + 1)
  <2>1. SkipWs(s, k) = k
    BY <1>7, Characters, SkipNone
  <2> HIDE DEF k
  <2>2. ParseString(s, q).is = "read" /\ ParseString(s, q).val = name /\ ParseString(s, q).at = k
    BY <1>9, ReadIs
  <2> QED
    BY <1>7, <2>1, <2>2 DEF MemberName, WithColon
<1>11. q + Behind(name) + Len(w) = q + Len(MemberText(name, w))
  <2>1. Len(MemberText(name, w)) = Behind(name) + Len(w) /\ Behind(name) \in Nat
    BY MemberType
  <2> QED
    BY <1>1, <2>1
<1> QED
  BY <1>4, <1>5, <1>6, <1>7, <1>8, <1>10, <1>11 DEF e


\* A text for every member of a sequence is a sequence of texts.
PerItem(W, seq, C) ==
    /\ W = [i \in DOMAIN seq |-> W[i]]
    /\ \A i \in DOMAIN seq : W[i] \in C

LEMMA TextPerItem ==
    ASSUME NEW C, NEW S, NEW seq \in Seq(S), NEW W, PerItem(W, seq, C)
    PROVE  W \in Seq(C) /\ Len(W) = Len(seq) /\ DOMAIN W = DOMAIN seq
<1> USE DEF PerItem
<1> DEFINE N == Len(seq)
<1>1. N \in Nat /\ DOMAIN seq = 1 .. N
  OBVIOUS
<1>2. W \in [1 .. N -> C]
  BY <1>1
<1> HIDE DEF N
<1>3. W \in Seq(C) /\ Len(W) = N
  BY <1>1, <1>2
<1> QED
  BY <1>1, <1>3 DEF N

LEMMA ArrayType ==
    ASSUME NEW C, Marks \subseteq C, NEW texts \in Seq(Seq(C))
    PROVE  /\ Array(EscapeAll(texts)) \in Seq(C) /\ Array(EscapeAll(texts)) # <<>>
           /\ Array(EscapeAll(texts))[1] = BracketOpen
<1>1. EscapeAll(texts) \in Seq(Seq(C))
      /\ \A i \in DOMAIN EscapeAll(texts) : EscapeAll(texts)[i] # <<>>
  BY EscapeAllType
<1>2. Comma \in C /\ BracketOpen \in C /\ BracketClose \in C
  BY MarksAre
<1> DEFINE W == EscapeAll(texts)
<1>3. Array(W) = Listed(BracketOpen, W, BracketClose)
  BY DEF Array
<1> HIDE DEF W
<1>4. W \in Seq(Seq(C)) /\ \A i \in DOMAIN W : W[i] # <<>>
  BY <1>1 DEF W
<1>5. /\ Listed(BracketOpen, W, BracketClose) \in Seq(C)
      /\ Listed(BracketOpen, W, BracketClose) # <<>>
      /\ Listed(BracketOpen, W, BracketClose)[1] = BracketOpen
  <2>1. Listable(BracketOpen, W, BracketClose, C)
    BY <1>2, <1>4 DEF Listable
  <2> QED
    BY ONLY <2>1, ListedType
<1> QED
  BY <1>3, <1>5 DEF W

LEMMA ParamRead ==
    ASSUME NEW C, Marks \subseteq C, NEW s \in Seq(C), NEW q \in Places(s),
           NEW k \in Seq(C), NEW v \in Seq(Seq(C)),
           Has(s, q, MemberText(k, Array(EscapeAll(v))))
    PROVE  ParamAt(s)[q] = Read(<<k, v>>, q + Len(MemberText(k, Array(EscapeAll(v)))))
<1> DEFINE w == Array(EscapeAll(v))
           b == q + Behind(k)
<1>1. w \in Seq(C)
  BY ArrayType
<1>2. /\ MemberName(s, q) = Read(k, b) /\ b \in Places(s) /\ Has(s, b, w)
      /\ b + Len(w) = q + Len(MemberText(k, w))
  <2> HIDE DEF w
  <2>1. Has(s, q, MemberText(k, w))
    BY DEF w
  <2> QED
    BY <1>1, <2>1, MemberRead
<1> HIDE DEF b
<1>3. ParseStringArray(s, b) = Read(v, b + Len(w))
  BY <1>2, ArrayRead
<1>4. ParamAt(s)[q] = Named(MemberName(s, q), ParseStringArray(s, MemberName(s, q).at))
  BY DEF ParamAt
<1> HIDE DEF w
<1>5. /\ MemberName(s, q).is = "read" /\ MemberName(s, q).val = k /\ MemberName(s, q).at = b
      /\ ParseStringArray(s, b).is = "read" /\ ParseStringArray(s, b).val = v
      /\ ParseStringArray(s, b).at = b + Len(w)
  BY <1>2, <1>3, ReadIs
<1>6. ParamAt(s)[q] = Read(<<k, v>>, b + Len(w))
  BY <1>4, <1>5 DEF Named
<1> QED
  BY <1>2, <1>6 DEF w

ParamTexts(ps, keys) ==
    [i \in DOMAIN keys |-> MemberText(keys[i], Array(EscapeAll(ps[keys[i]])))]
PairSet(C) == Seq(C) \X Seq(Seq(C))
ParamPairs(ps, keys) == [i \in DOMAIN keys |-> <<keys[i], ps[keys[i]]>>]

\* Parameters with the names in some order.
ParamKeys(ps, keys, C) ==
    /\ DOMAIN ps \subseteq Seq(C) /\ ps \in [DOMAIN ps -> Seq(Seq(C))]
    /\ keys \in Seq(DOMAIN ps)

LEMMA ParamTextsType ==
    ASSUME NEW C, Marks \subseteq C, NEW ps, NEW keys, ParamKeys(ps, keys, C)
    PROVE  /\ ParamTexts(ps, keys) \in Seq(Seq(C)) /\ Len(ParamTexts(ps, keys)) = Len(keys)
           /\ DOMAIN ParamTexts(ps, keys) = DOMAIN keys
           /\ \A i \in DOMAIN keys :
                /\ ParamTexts(ps, keys)[i] = MemberText(keys[i], Array(EscapeAll(ps[keys[i]])))
                /\ ParamTexts(ps, keys)[i] \in Seq(C)
                /\ ParamTexts(ps, keys)[i] # <<>> /\ ParamTexts(ps, keys)[i][1] = DQuote
                /\ keys[i] \in Seq(C) /\ ps[keys[i]] \in Seq(Seq(C))
           /\ ParamPairs(ps, keys) \in Seq(PairSet(C))
           /\ Len(ParamPairs(ps, keys)) = Len(keys)
           /\ DOMAIN ParamPairs(ps, keys) = DOMAIN keys
           /\ \A i \in DOMAIN keys : ParamPairs(ps, keys)[i] = <<keys[i], ps[keys[i]]>>
<1> DEFINE W == ParamTexts(ps, keys)
           P == ParamPairs(ps, keys)
           K == DOMAIN ps
<1>0. K \subseteq Seq(C) /\ ps \in [K -> Seq(Seq(C))] /\ keys \in Seq(K)
  BY DEF ParamKeys
<1> HIDE DEF K
<1>1. ASSUME NEW i \in DOMAIN keys
      PROVE  /\ W[i] = MemberText(keys[i], Array(EscapeAll(ps[keys[i]])))
             /\ W[i] \in Seq(C) /\ W[i] # <<>> /\ W[i][1] = DQuote
             /\ keys[i] \in Seq(C) /\ ps[keys[i]] \in Seq(Seq(C))
             /\ P[i] = <<keys[i], ps[keys[i]]>>
             /\ P[i] \in PairSet(C)
  <2> DEFINE k == keys[i]
             v == ps[k]
             w == Array(EscapeAll(v))
  <2>1. k \in K
    BY <1>0
  <2>2. k \in Seq(C) /\ v \in Seq(Seq(C))
    <3> HIDE DEF k
    <3> QED
      BY <1>0, <2>1
  <2>3. W[i] = MemberText(k, w) /\ P[i] = <<k, v>>
    BY DEF ParamTexts, ParamPairs
  <2> HIDE DEF k, v
  <2>4. w \in Seq(C)
    BY <2>2, ArrayType
  <2> HIDE DEF w
  <2>5. /\ MemberText(k, w) \in Seq(C) /\ MemberText(k, w) # <<>>
        /\ MemberText(k, w)[1] = DQuote
    BY <2>2, <2>4, MemberType
  <2> HIDE DEF W, P
  <2> QED
    BY <2>2, <2>3, <2>5 DEF k, v, w, PairSet
<1>2. W = [i \in DOMAIN keys |-> W[i]] /\ P = [i \in DOMAIN keys |-> P[i]]
  BY DEF ParamTexts, ParamPairs
<1> HIDE DEF W, P
<1>3. W \in Seq(Seq(C)) /\ Len(W) = Len(keys) /\ DOMAIN W = DOMAIN keys
  <2>1. PerItem(W, keys, Seq(C))
    BY <1>1, <1>2 DEF PerItem
  <2> QED
    BY ONLY <1>0, <2>1, TextPerItem
<1> DEFINE V == PairSet(C)
<1>4. P \in Seq(V) /\ Len(P) = Len(keys) /\ DOMAIN P = DOMAIN keys
  <2>1. \A i \in DOMAIN keys : P[i] \in V
    BY <1>1
  <2> HIDE DEF V
  <2>2. PerItem(P, keys, V)
    BY <1>2, <2>1 DEF PerItem
  <2> QED
    BY ONLY <1>0, <2>2, TextPerItem
<1> QED
  BY <1>1, <1>3, <1>4 DEF W, P

LEMMA ParamsRead ==
    ASSUME NEW C, Marks \subseteq C, NEW s \in Seq(C), NEW q \in Places(s),
           NEW ps, NEW keys, ParamKeys(ps, keys, C),
           Has(s, q, Object(ParamTexts(ps, keys)))
    PROVE  List(ParamAt(s), s, q, BraceOpen, BraceClose)
             = Read(ParamPairs(ps, keys), q + Len(Object(ParamTexts(ps, keys))))
<1> DEFINE W == ParamTexts(ps, keys)
           P == ParamPairs(ps, keys)
           item == ParamAt(s)
           V == PairSet(C)
<1>1. /\ W \in Seq(Seq(C)) /\ P \in Seq(V) /\ Len(P) = Len(W) /\ DOMAIN W = DOMAIN keys
      /\ \A i \in DOMAIN keys : /\ W[i] = MemberText(keys[i], Array(EscapeAll(ps[keys[i]])))
                                /\ W[i] # <<>> /\ W[i][1] = DQuote
                                /\ keys[i] \in Seq(C) /\ ps[keys[i]] \in Seq(Seq(C))
                                /\ P[i] = <<keys[i], ps[keys[i]]>>
  <2>1. P \in Seq(V) /\ Len(P) = Len(keys)
    BY ParamTextsType
  <2>2. W \in Seq(Seq(C)) /\ Len(W) = Len(keys) /\ DOMAIN W = DOMAIN keys
    BY ParamTextsType
  <2> HIDE DEF V
  <2>3. \A i \in DOMAIN keys : /\ W[i] = MemberText(keys[i], Array(EscapeAll(ps[keys[i]])))
                                /\ W[i] # <<>> /\ W[i][1] = DQuote
                                /\ keys[i] \in Seq(C) /\ ps[keys[i]] \in Seq(Seq(C))
                                /\ P[i] = <<keys[i], ps[keys[i]]>>
    BY ParamTextsType
  <2> QED
    BY <2>1, <2>2, <2>3
<1>2. /\ Comma \in C /\ BraceOpen \in C /\ BraceClose \in C
      /\ BraceOpen \notin Ws /\ BraceClose \notin Ws /\ BraceClose # Comma
      /\ DQuote \notin Ws /\ DQuote # BraceClose
  BY Characters, MarksAre
<1>3. Has(s, q, Listed(BraceOpen, W, BraceClose))
      /\ Object(ParamTexts(ps, keys)) = Listed(BraceOpen, W, BraceClose)
  BY DEF Object
<1> HIDE DEF W, P, item, V
<1>4. ASSUME NEW i \in DOMAIN W, NEW j \in Places(s), Has(s, j, W[i])
      PROVE  item[j] = Read(P[i], j + Len(W[i]))
  <2> DEFINE k == keys[i]
             v == ps[k]
  <2>1. k \in Seq(C) /\ v \in Seq(Seq(C)) /\ W[i] = MemberText(k, Array(EscapeAll(v)))
        /\ P[i] = <<k, v>>
    BY <1>1
  <2> HIDE DEF k, v
  <2>2. ParamAt(s)[j] = Read(<<k, v>>, j + Len(MemberText(k, Array(EscapeAll(v)))))
    BY <1>4, <2>1, ParamRead
  <2> QED
    BY <2>1, <2>2 DEF item
<1>5. Heads(W, BraceClose) /\ GivesAll(item, s, W, P)
  BY <1>1, <1>2, <1>4 DEF Heads, GivesAll
<1>6. List(item, s, q, BraceOpen, BraceClose) = Read(P, q + Len(Listed(BraceOpen, W, BraceClose)))
  BY ONLY <1>1, <1>2, <1>3, <1>5, s \in Seq(C), q \in Places(s), ListRead
<1> QED
  BY <1>3, <1>6 DEF item, P


-----------------------------------------------------------------------------
(* Packs.                                                                  *)

FieldNames == {"mod", "func", "params", "success", "ret"}

LEMMA FieldNamesPlain ==
    ASSUME NEW C, Marks \subseteq C, NEW c \in FieldNames
    PROVE  <<c>> \in Seq(C) /\ Quoted(<<c>>) = Escape(<<c>>)
<1>1. c \notin Lettered /\ c # "bell"
  BY Zenon DEF FieldNames, Lettered, DQuote, BackSlash
<1>2. c \in C
  BY DEF FieldNames, Marks
<1> DEFINE seqs == << <<c>> >>
<1>3. EscapeChar(c) = <<c>>
  BY <1>1, <1>2, EscapeCharType
<1>4. [i \in DOMAIN <<c>> |-> EscapeChar(<<c>>[i])] = seqs
  BY <1>3
<1>5. Escape(<<c>>) = Quoted(FlattenSeq(seqs))
  BY <1>4 DEF Escape
<1>6. FlattenSeq(seqs) = <<c>>
  <2>1. seqs \in Seq(Seq(C)) /\ Len(seqs) = 1 /\ seqs[1] = <<c>>
    BY <1>2
  <2> HIDE DEF seqs
  <2>2. PICK pre \in [Nat -> Seq(C)] :
          /\ pre[0] = <<>>
          /\ \A i \in 1 .. Len(seqs) : pre[i] = pre[i - 1] \o seqs[i]
          /\ FlattenSeq(seqs) = pre[Len(seqs)]
    BY <2>1, Flattened
  <2>3. pre[1] = pre[0] \o seqs[1]
    <3>1. 1 \in 1 .. Len(seqs) /\ 1 - 1 = 0
      BY <2>1
    <3>2. pre[1] = pre[1 - 1] \o seqs[1]
      BY <2>2, <3>1
    <3> QED
      BY <3>1, <3>2
  <2>4. pre[1] = <<>> \o <<c>>
    BY <2>1, <2>2, <2>3
  <2> QED
    BY <2>1, <2>2, <2>4
<1> HIDE DEF seqs
<1> QED
  BY <1>2, <1>5, <1>6

LEMMA FieldRead ==
    ASSUME NEW C, Marks \subseteq C, NEW s \in Seq(C), NEW q \in Places(s),
           NEW name \in Seq(C), NEW w \in Seq(C), w # <<>>, w[1] \notin Ws,
           Has(s, q, MemberText(name, w)), NEW v, NEW b, b = q + Behind(name),
           FieldValue(s, name, b) = Read(v, b + Len(w))
    PROVE  FieldAt(s)[q] = Read(<<name, v>>, q + Len(MemberText(name, w)))
<1>1. /\ MemberName(s, q) = Read(name, b) /\ b \in Places(s) /\ Has(s, b, w)
      /\ b + Len(w) = q + Len(MemberText(name, w))
  BY MemberRead
<1>2. SkipWs(s, b) = b
  <2>1. At(s, b, w[1])
    BY <1>1, HasHead
  <2> QED
    BY <2>1, SkipNone
<1>3. FieldAt(s)[q]
        = Named(MemberName(s, q),
                FieldValue(s, MemberName(s, q).val, SkipWs(s, MemberName(s, q).at)))
  BY DEF FieldAt
<1>4. /\ MemberName(s, q).is = "read" /\ MemberName(s, q).val = name /\ MemberName(s, q).at = b
      /\ FieldValue(s, name, b).is = "read" /\ FieldValue(s, name, b).val = v
      /\ FieldValue(s, name, b).at = b + Len(w)
  BY <1>1, ReadIs
<1>5. FieldAt(s)[q] = Read(<<name, v>>, b + Len(w))
  BY <1>2, <1>3, <1>4 DEF Named
<1> QED
  BY <1>1, <1>5

LEMMA ObjectType ==
    ASSUME NEW C, Marks \subseteq C, NEW ps, NEW keys, ParamKeys(ps, keys, C)
    PROVE  /\ Object(ParamTexts(ps, keys)) \in Seq(C) /\ Object(ParamTexts(ps, keys)) # <<>>
           /\ Object(ParamTexts(ps, keys))[1] = BraceOpen
<1> DEFINE W == ParamTexts(ps, keys)
<1>1. W \in Seq(Seq(C)) /\ \A i \in DOMAIN W : W[i] # <<>>
  BY ParamTextsType
<1>2. Object(W) = Listed(BraceOpen, W, BraceClose)
  BY DEF Object
<1> HIDE DEF W
<1>3. Listable(BraceOpen, W, BraceClose, C)
  BY <1>1, MarksAre DEF Listable
<1> QED
  BY <1>2, <1>3, ListedType DEF W

\* A pack with strings over C, and its parameters in the order they are written.
IsPack(p, keys, C) ==
    /\ p = Pack(p.mod, p.func, p.params, p.success, p.ret)
    /\ p.mod \in Seq(C) /\ p.func \in Seq(C) /\ p.ret \in Seq(C) /\ p.success \in BOOLEAN
    /\ ParamKeys(p.params, keys, C)
    /\ \A k \in DOMAIN p.params : \E i \in DOMAIN keys : keys[i] = k

FieldVals(p, keys) ==
    << << <<"mod">>, p.mod >>, << <<"func">>, p.func >>,
       << <<"params">>, ParamPairs(p.params, keys) >>,
       << <<"success">>, p.success >>, << <<"ret">>, p.ret >> >>
Flag(p) == <<IF p.success THEN "true" ELSE "false">>

FieldTextsAre(p, keys) ==
    /\ FieldTexts(p, keys)[1] = MemberText(<<"mod">>, Escape(p.mod))
    /\ FieldTexts(p, keys)[2] = MemberText(<<"func">>, Escape(p.func))
    /\ FieldTexts(p, keys)[3] = MemberText(<<"params">>, Object(ParamTexts(p.params, keys)))
    /\ FieldTexts(p, keys)[4] = MemberText(<<"success">>, Flag(p))
    /\ FieldTexts(p, keys)[5] = MemberText(<<"ret">>, Escape(p.ret))

LEMMA FieldTextsIs ==
    ASSUME NEW C, Marks \subseteq C, NEW p, NEW keys, IsPack(p, keys, C)
    PROVE  /\ FieldTextsAre(p, keys)
           /\ FieldTexts(p, keys) \in Seq(Seq(C)) /\ Len(FieldTexts(p, keys)) = 5
           /\ \A i \in 1 .. 5 :
                FieldTexts(p, keys)[i] # <<>> /\ FieldTexts(p, keys)[i][1] = DQuote
<1> DEFINE a == Escape(p.mod)
           b == Escape(p.func)
           c == Object(ParamTexts(p.params, keys))
           d == Flag(p)
           e == Escape(p.ret)
<1>1. a \in Seq(C) /\ b \in Seq(C) /\ c \in Seq(C) /\ d \in Seq(C) /\ e \in Seq(C)
  <2>1. a \in Seq(C) /\ b \in Seq(C) /\ e \in Seq(C)
    BY EscapeType DEF IsPack
  <2>2. c \in Seq(C)
    BY ObjectType DEF IsPack
  <2>3. d \in Seq(C)
    BY MarksAre DEF Flag
  <2> QED
    BY <2>1, <2>2, <2>3
<1>2. /\ <<"mod">> \in Seq(C) /\ <<"func">> \in Seq(C) /\ <<"params">> \in Seq(C)
      /\ <<"success">> \in Seq(C) /\ <<"ret">> \in Seq(C)
      /\ Quoted(<<"mod">>) = Escape(<<"mod">>) /\ Quoted(<<"func">>) = Escape(<<"func">>)
      /\ Quoted(<<"params">>) = Escape(<<"params">>)
      /\ Quoted(<<"success">>) = Escape(<<"success">>) /\ Quoted(<<"ret">>) = Escape(<<"ret">>)
  BY FieldNamesPlain DEF FieldNames
<1>3. [i \in DOMAIN keys |-> ParamText(p, keys[i])] = ParamTexts(p.params, keys)
  BY DEF ParamTexts, ParamText, MemberText, EscapeAll
<1> DEFINE m1 == MemberText(<<"mod">>, a)
           m2 == MemberText(<<"func">>, b)
           m3 == MemberText(<<"params">>, c)
           m4 == MemberText(<<"success">>, d)
           m5 == MemberText(<<"ret">>, e)
<1>4. FieldTexts(p, keys) = <<m1, m2, m3, m4, m5>>
  <2>1. Member(<<"mod">>, a) = m1 /\ Member(<<"func">>, b) = m2 /\ Member(<<"params">>, c) = m3
        /\ Member(<<"success">>, d) = m4 /\ Member(<<"ret">>, e) = m5
    <3> HIDE DEF a, b, c, d, e
    <3> QED
      BY <1>2 DEF Member, MemberText
  <2>2. FieldTexts(p, keys)
          = << Member(<<"mod">>, a), Member(<<"func">>, b), Member(<<"params">>, c),
               Member(<<"success">>, d), Member(<<"ret">>, e) >>
    BY <1>3 DEF FieldTexts, Flag
  <2> HIDE DEF a, b, c, d, e, m1, m2, m3, m4, m5
  <2> QED
    BY <2>1, <2>2
<1>5. /\ m1 \in Seq(C) /\ m1 # <<>> /\ m1[1] = DQuote
      /\ m2 \in Seq(C) /\ m2 # <<>> /\ m2[1] = DQuote
      /\ m3 \in Seq(C) /\ m3 # <<>> /\ m3[1] = DQuote
      /\ m4 \in Seq(C) /\ m4 # <<>> /\ m4[1] = DQuote
      /\ m5 \in Seq(C) /\ m5 # <<>> /\ m5[1] = DQuote
  <2> HIDE DEF a, b, c, d, e
  <2> QED
    BY <1>1, <1>2, MemberType
<1> HIDE DEF m1, m2, m3, m4, m5
<1> QED
  BY <1>4, <1>5 DEF m1, m2, m3, m4, m5, FieldTextsAre


LEMMA FieldsRead ==
    ASSUME NEW C, Marks \subseteq C, NEW s \in Seq(C), NEW p, NEW keys, IsPack(p, keys, C),
           NEW i \in 1 .. 5, NEW q \in Places(s), Has(s, q, FieldTexts(p, keys)[i])
    PROVE  FieldAt(s)[q] = Read(FieldVals(p, keys)[i], q + Len(FieldTexts(p, keys)[i]))
<1> DEFINE String(name, text) ==
             /\ FieldTexts(p, keys)[i] = MemberText(name, Escape(text))
             /\ FieldVals(p, keys)[i] = <<name, text>>
             /\ text \in Seq(C)
<1>1. ASSUME NEW name \in {<<"mod">>, <<"func">>, <<"ret">>}, NEW text, String(name, text)
      PROVE  FieldAt(s)[q] = Read(FieldVals(p, keys)[i], q + Len(FieldTexts(p, keys)[i]))
  <2> DEFINE w == Escape(text)
             b == q + Behind(name)
  <2>1. name \in Seq(C)
    BY FieldNamesPlain DEF FieldNames
  <2>2. w \in Seq(C) /\ w # <<>> /\ w[1] = DQuote
    BY <1>1, EscapeType
  <2>3. w[1] \notin Ws
    BY <2>2, Characters
  <2>4. Has(s, q, MemberText(name, w))
    BY <1>1
  <2>5. FieldValue(s, name, b) = ParseString(s, b)
    BY DEF FieldValue
  <2>6. ParseString(s, b) = Read(text, b + Len(w))
    <3>1. b \in Places(s) /\ Has(s, b, w)
      <4> HIDE DEF w
      <4> QED
        BY <2>1, <2>2, <2>4, MemberRead
    <3> HIDE DEF b
    <3> QED
      BY <1>1, <3>1, StringRead
  <2>7. FieldAt(s)[q] = Read(<<name, text>>, q + Len(MemberText(name, w)))
    <3> HIDE DEF w, b
    <3>1. b = q + Behind(name)
      BY DEF b
    <3> QED
      BY <2>1, <2>2, <2>3, <2>4, <2>5, <2>6, <3>1, FieldRead
  <2> QED
    BY <1>1, <2>7
<1>0. /\ FieldTexts(p, keys)[1] = MemberText(<<"mod">>, Escape(p.mod))
      /\ FieldTexts(p, keys)[2] = MemberText(<<"func">>, Escape(p.func))
      /\ FieldTexts(p, keys)[3] = MemberText(<<"params">>, Object(ParamTexts(p.params, keys)))
      /\ FieldTexts(p, keys)[4] = MemberText(<<"success">>, Flag(p))
      /\ FieldTexts(p, keys)[5] = MemberText(<<"ret">>, Escape(p.ret))
  <2>1. FieldTextsAre(p, keys)
    BY FieldTextsIs
  <2> QED
    BY <2>1 DEF FieldTextsAre
<1>7. /\ FieldVals(p, keys)[1] = << <<"mod">>, p.mod >>
      /\ FieldVals(p, keys)[2] = << <<"func">>, p.func >>
      /\ FieldVals(p, keys)[3] = << <<"params">>, ParamPairs(p.params, keys) >>
      /\ FieldVals(p, keys)[4] = << <<"success">>, p.success >>
      /\ FieldVals(p, keys)[5] = << <<"ret">>, p.ret >>
  BY DEF FieldVals
<1>8. /\ p.mod \in Seq(C) /\ p.func \in Seq(C) /\ p.ret \in Seq(C) /\ p.success \in BOOLEAN
      /\ ParamKeys(p.params, keys, C)
  BY DEF IsPack
<1>2. CASE i = 1
  <2>1. String(<<"mod">>, p.mod)
    BY <1>0, <1>2, <1>7, <1>8
  <2> QED
    BY <1>1, <2>1
<1>3. CASE i = 2
  <2>1. String(<<"func">>, p.func)
    BY <1>0, <1>3, <1>7, <1>8
  <2> QED
    BY <1>1, <2>1
<1>4. CASE i = 5
  <2>1. String(<<"ret">>, p.ret)
    BY <1>0, <1>4, <1>7, <1>8
  <2> QED
    BY <1>1, <2>1
<1>5. CASE i = 3
  <2> DEFINE name == <<"params">>
             w == Object(ParamTexts(p.params, keys))
             v == ParamPairs(p.params, keys)
             b == q + Behind(name)
  <2>1. name \in Seq(C)
    BY FieldNamesPlain DEF FieldNames
  <2>2. w \in Seq(C) /\ w # <<>> /\ w[1] \notin Ws
    BY <1>8, Characters, ObjectType
  <2>3. FieldTexts(p, keys)[i] = MemberText(name, w) /\ FieldVals(p, keys)[i] = <<name, v>>
    BY <1>0, <1>5, <1>7
  <2>4. FieldValue(s, name, b) = List(ParamAt(s), s, b, BraceOpen, BraceClose)
    BY DEF FieldValue
  <2> HIDE DEF name
  <2>5. List(ParamAt(s), s, b, BraceOpen, BraceClose) = Read(v, b + Len(w))
    <3>1. b \in Places(s) /\ Has(s, b, w)
      <4> HIDE DEF w
      <4> QED
        BY <2>1, <2>2, <2>3, MemberRead
    <3> HIDE DEF b
    <3> QED
      BY <1>8, <3>1, ParamsRead
  <2> HIDE DEF w, b, v
  <2>6. b = q + Behind(name)
    BY DEF b
  <2>7. FieldAt(s)[q] = Read(<<name, v>>, q + Len(MemberText(name, w)))
    BY <2>1, <2>2, <2>3, <2>4, <2>5, <2>6, FieldRead
  <2> QED
    BY <2>3, <2>7
<1>6. CASE i = 4
  <2> DEFINE name == <<"success">>
             c == IF p.success THEN "true" ELSE "false"
             w == <<c>>
             b == q + Behind(name)
  <2>1. name \in Seq(C)
    BY FieldNamesPlain DEF FieldNames
  <2>2. w \in Seq(C) /\ w # <<>> /\ w[1] = c /\ Len(w) = 1
    BY MarksAre
  <2>3. w[1] \notin Ws
    BY <2>2, Characters
  <2>4. FieldTexts(p, keys)[i] = MemberText(name, w)
        /\ FieldVals(p, keys)[i] = <<name, p.success>>
    BY <1>0, <1>6, <1>7 DEF Flag
  <2>5. At(s, b, c)
    <3> HIDE DEF w, name, c
    <3>1. b \in Places(s) /\ Has(s, b, w)
      BY <2>1, <2>2, <2>4, MemberRead
    <3> HIDE DEF b
    <3> QED
      BY <2>2, <3>1, HasHead
  <2>6. FieldValue(s, name, b) = Read(p.success, b + Len(w))
    <3>1. FieldValue(s, name, b) = IF At(s, b, "true") \/ At(s, b, "false")
                                   THEN Read(s[b] = "true", b + 1) ELSE Failed
      BY DEF FieldValue
    <3> HIDE DEF w, name, b
    <3>2. At(s, b, "true") \/ At(s, b, "false")
      BY <2>5
    <3>3. s[b] = c
      BY <2>5, AtOnly
    <3>4. (s[b] = "true") = p.success
      BY <1>8, <3>3
    <3> QED
      BY <2>2, <3>1, <3>2, <3>4
  <2> HIDE DEF w, name, b, c
  <2>7. b = q + Behind(name)
    BY DEF b
  <2> DEFINE v == p.success
  <2>8. FieldValue(s, name, b) = Read(v, b + Len(w))
    BY <2>6
  <2>9. Has(s, q, MemberText(name, w))
    BY <2>4
  <2> HIDE DEF v
  <2>10. FieldAt(s)[q] = Read(<<name, v>>, q + Len(MemberText(name, w)))
    <3>1. w \in Seq(C) /\ w # <<>>
      BY <2>2
    <3> QED
      BY <2>1, <2>3, <2>7, <2>8, <2>9, <3>1, FieldRead, SMTT(30)
  <2> QED
    BY <2>4, <2>10 DEF v
<1> QED
  BY <1>2, <1>3, <1>4, <1>5, <1>6

\* A set of indices has a greatest.
LEMMA Greatest ==
    ASSUME NEW N \in Nat, NEW S, S \subseteq 1 .. N, S # {}
    PROVE  Max(S) \in S
<1> DEFINE Top(X) == \E x \in X : \A y \in X : x >= y
           T == {n \in Nat : \A X \in SUBSET (1 .. n) : X # {} => Top(X)}
<1>1. 0 \in T
  <2>1. \A X \in SUBSET (1 .. 0) : X = {}
    OBVIOUS
  <2> QED
    BY <2>1
<1>2. ASSUME NEW n \in Nat, n \in T PROVE n + 1 \in T
  <2> SUFFICES ASSUME NEW X \in SUBSET (1 .. n + 1), X # {} PROVE Top(X)
    OBVIOUS
  <2>1. CASE n + 1 \in X
    BY <2>1
  <2>2. CASE n + 1 \notin X
    <3>1. X \in SUBSET (1 .. n)
      BY <2>2
    <3> QED
      BY <1>2, <3>1
  <2> QED
    BY <2>1, <2>2
<1>3. Nat \subseteq T
  <2> HIDE DEF T
  <2> QED
    BY <1>1, <1>2, Induction
<1>4. Top(S)
  BY <1>3
<1> QED
  BY <1>4 DEF Max

LEMMA ParamsTaken ==
    ASSUME NEW C, NEW ps, NEW keys, ParamKeys(ps, keys, C),
           \A k \in DOMAIN ps : \E i \in DOMAIN keys : keys[i] = k,
           NEW none, DOMAIN none = {}
    PROVE  TakeParams(none, ParamPairs(ps, keys)) = ps
<1> DEFINE R == ParamPairs(ps, keys)
           named(k) == {i \in DOMAIN R : R[i][1] = k}
           N == Len(keys)
           K == DOMAIN ps
<1>1. /\ N \in Nat /\ DOMAIN R = 1 .. N
      /\ \A i \in 1 .. N : R[i][1] = keys[i] /\ R[i][2] = ps[keys[i]] /\ keys[i] \in K
      /\ ps = [k \in K |-> ps[k]]
  BY DEF ParamPairs, ParamKeys
<1>2. {R[i][1] : i \in DOMAIN R} = K
  <2>1. ASSUME NEW k \in K PROVE \E i \in DOMAIN R : R[i][1] = k
    <3>1. PICK i \in DOMAIN keys : keys[i] = k
      OBVIOUS
    <3>2. DOMAIN keys = 1 .. N
      BY DEF ParamKeys
    <3> HIDE DEF R
    <3> QED
      BY <1>1, <3>1, <3>2
  <2>2. ASSUME NEW i \in DOMAIN R PROVE R[i][1] \in K
    BY <1>1
  <2> HIDE DEF R, N, K
  <2> QED
    BY <2>1, <2>2
<1> HIDE DEF R, N
<1>3. ASSUME NEW k \in K
      PROVE  named(k) # {} /\ R[Max(named(k))][2] = ps[k]
  <2>1. named(k) # {}
    BY <1>2
  <2>2. named(k) \subseteq 1 .. N
    BY <1>1
  <2>3. \A i \in named(k) : R[i][2] = ps[k]
    BY <1>1
  <2> HIDE DEF named
  <2>4. Max(named(k)) \in named(k)
    BY <1>1, <2>1, <2>2, Greatest
  <2> QED
    BY <2>1, <2>3, <2>4
<1>4. TakeParams(none, R)
        = [k \in K |-> IF named(k) = {} THEN none[k] ELSE R[Max(named(k))][2]]
  BY <1>2 DEF TakeParams
<1> HIDE DEF named, K
<1>5. TakeParams(none, R) = [k \in K |-> ps[k]]
  BY <1>3, <1>4
<1> QED
  BY <1>1, <1>5 DEF R


LEMMA PackTaken ==
    ASSUME NEW C, NEW p, NEW keys, IsPack(p, keys, C)
    PROVE  PackOf(FieldVals(p, keys)) = p
<1> DEFINE F == FieldVals(p, keys)
           m == p.mod
           f == p.func
           ps == p.params
           ok == p.success
           r == p.ret
           none == [k \in {} |-> <<>>]
           P0 == Pack(<<>>, <<>>, none, FALSE, <<>>)
           P1 == Pack(m, <<>>, none, FALSE, <<>>)
           P2 == Pack(m, f, none, FALSE, <<>>)
           P3 == Pack(m, f, ps, FALSE, <<>>)
           P4 == Pack(m, f, ps, ok, <<>>)
           P5 == Pack(m, f, ps, ok, r)
           Eq(h) == h = [n \in 0 .. Len(F) |->
                           IF n = 0 THEN NewPack ELSE TakeField(h[n - 1], F[n])]
           g == [n \in 0 .. Len(F) |-> CASE n = 0 -> P0 [] n = 1 -> P1 [] n = 2 -> P2
                                         [] n = 3 -> P3 [] n = 4 -> P4 [] OTHER -> P5]
           pack == CHOOSE h : Eq(h)
<1>1. /\ Len(F) = 5
      /\ F[1][1] = <<"mod">> /\ F[1][2] = m
      /\ F[2][1] = <<"func">> /\ F[2][2] = f
      /\ F[3][1] = <<"params">> /\ F[3][2] = ParamPairs(ps, keys)
      /\ F[4][1] = <<"success">> /\ F[4][2] = ok
      /\ F[5][1] = <<"ret">> /\ F[5][2] = r
  BY DEF FieldVals
<1>2. TakeParams(none, ParamPairs(ps, keys)) = ps
  <2>1. DOMAIN none = {}
    OBVIOUS
  <2>2. ParamKeys(ps, keys, C) /\ \A k \in DOMAIN ps : \E i \in DOMAIN keys : keys[i] = k
    BY DEF IsPack
  <2> HIDE DEF none, ps
  <2> QED
    BY <2>1, <2>2, ParamsTaken
<1>3. p = P5
  BY DEF IsPack
<1> HIDE DEF m, f, ps, ok, r, none, F
<1>4. /\ NewPack = P0 /\ TakeField(P0, F[1]) = P1 /\ TakeField(P1, F[2]) = P2
  <2>1. NewPack = P0
    BY DEF NewPack, none
  <2>2. TakeField(P0, F[1]) = P1
    <3>1. TakeField(P0, F[1]) = [P0 EXCEPT !.mod = m]
      <4> HIDE DEF P0
      <4> QED
        BY <1>1 DEF TakeField
    <3> QED
      BY <3>1 DEF Pack
  <2>3. TakeField(P1, F[2]) = P2
    <3>1. TakeField(P1, F[2]) = [P1 EXCEPT !.func = f]
      <4> HIDE DEF P1
      <4> QED
        BY <1>1 DEF TakeField
    <3> QED
      BY <3>1 DEF Pack
  <2> QED
    BY <2>1, <2>2, <2>3
<1>5. TakeField(P2, F[3]) = P3
  <2>1. TakeField(P2, F[3]) = [P2 EXCEPT !.params = TakeParams(P2.params, F[3][2])]
    BY <1>1 DEF TakeField
  <2>2. TakeParams(P2.params, F[3][2]) = ps
    BY <1>1, <1>2 DEF Pack
  <2> QED
    BY <2>1, <2>2 DEF Pack
<1>6. TakeField(P3, F[4]) = P4 /\ TakeField(P4, F[5]) = P5
  <2>1. TakeField(P3, F[4]) = P4
    BY <1>1 DEF TakeField, Pack
  <2>2. TakeField(P4, F[5]) = P5
    BY <1>1 DEF TakeField, Pack
  <2> QED
    BY <2>1, <2>2
<1> HIDE DEF P0, P1, P2, P3, P4, P5
<1>7. \A n \in 0 .. 5 : n = 0 \/ n = 1 \/ n = 2 \/ n = 3 \/ n = 4 \/ n = 5
  OBVIOUS
<1>8. /\ g[0] = P0 /\ g[1] = P1 /\ g[2] = P2 /\ g[3] = P3 /\ g[4] = P4 /\ g[5] = P5
      /\ g = [n \in 0 .. 5 |-> g[n]]
  BY <1>1
<1> HIDE DEF g
<1>9. Eq(g)
  <2>1. ASSUME NEW n \in 0 .. 5
        PROVE  g[n] = IF n = 0 THEN NewPack ELSE TakeField(g[n - 1], F[n])
    <3>1. 1 - 1 = 0 /\ 2 - 1 = 1 /\ 3 - 1 = 2 /\ 4 - 1 = 3 /\ 5 - 1 = 4
      OBVIOUS
    <3>2. CASE n = 0
      BY <1>4, <1>8, <3>2
    <3>3. CASE n = 1
      BY <1>4, <1>8, <3>1, <3>3
    <3>4. CASE n = 2
      BY <1>4, <1>8, <3>1, <3>4
    <3>5. CASE n = 3
      BY <1>5, <1>8, <3>1, <3>5
    <3>6. CASE n = 4
      BY <1>6, <1>8, <3>1, <3>6
    <3>7. CASE n = 5
      BY <1>6, <1>8, <3>1, <3>7
    <3> QED
      BY <1>7, <3>2, <3>3, <3>4, <3>5, <3>6, <3>7
  <2> QED
    BY <1>1, <1>8, <2>1
<1>10. Eq(pack)
  <2> HIDE DEF Eq
  <2> QED
    BY <1>9
<1>11. PackOf(F) = pack[5]
  BY <1>1 DEF PackOf
<1> HIDE DEF pack
<1>12. pack[0] = P0
  BY <1>1, <1>4, <1>10
<1>13. \A n \in 1 .. 5 : pack[n] = TakeField(pack[n - 1], F[n])
  <2>1. \A n \in 1 .. 5 : n \in 0 .. 5 /\ n # 0
    OBVIOUS
  <2> QED
    BY <1>1, <1>10, <2>1
<1>14. pack[5] = P5
  <2>1. pack[1] = P1
    BY <1>4, <1>12, <1>13
  <2>2. pack[2] = P2
    BY <1>4, <1>13, <2>1
  <2>3. pack[3] = P3
    BY <1>5, <1>13, <2>2
  <2>4. pack[4] = P4
    BY <1>6, <1>13, <2>3
  <2> QED
    BY <1>6, <1>13, <2>4
<1> QED
  BY <1>3, <1>11, <1>14 DEF F

LEMMA ToJsonType ==
    ASSUME NEW C, Marks \subseteq C, NEW p, NEW keys, IsPack(p, keys, C)
    PROVE  /\ ToJson(p, keys) \in Seq(C) /\ ToJson(p, keys) # <<>>
           /\ ToJson(p, keys)[1] = BraceOpen
           /\ ToJson(p, keys) = Listed(BraceOpen, FieldTexts(p, keys), BraceClose)
           /\ Listable(BraceOpen, FieldTexts(p, keys), BraceClose, C)
<1> DEFINE W == FieldTexts(p, keys)
<1>1. W \in Seq(Seq(C)) /\ \A i \in DOMAIN W : W[i] # <<>>
  <2>1. W \in Seq(Seq(C)) /\ Len(W) = 5
        /\ \A i \in 1 .. 5 : W[i] # <<>> /\ W[i][1] = DQuote
    BY FieldTextsIs
  <2> HIDE DEF W
  <2> QED
    BY <2>1
<1>2. ToJson(p, keys) = Listed(BraceOpen, W, BraceClose)
  BY DEF ToJson, Object
<1> HIDE DEF W
<1>3. Listable(BraceOpen, W, BraceClose, C)
  BY <1>1, MarksAre DEF Listable
<1> QED
  BY <1>2, <1>3, ListedType DEF W

\* A text stands at its own beginning.
LEMMA HasSelf ==
    ASSUME NEW C, NEW s \in Seq(C), s # <<>>
    PROVE  Has(s, 1, s) /\ 1 \in Places(s) /\ Len(s) \in Nat
<1>1. Len(s) \in Nat /\ \A j \in 1 .. Len(s) : 1 + j - 1 = j
  OBVIOUS
<1> QED
  BY <1>1 DEF Has, Places

\* What ToJson writes, FromJson reads.
LEMMA PackRead ==
    ASSUME NEW C, Marks \subseteq C, NEW p, NEW keys, IsPack(p, keys, C)
    PROVE  FromJson(ToJson(p, keys)) = Read(p, Len(ToJson(p, keys)) + 1)
<1> DEFINE s == ToJson(p, keys)
           W == FieldTexts(p, keys)
           F == FieldVals(p, keys)
           item == FieldAt(s)
           V == {F[i] : i \in 1 .. 5}
<1>1. /\ s \in Seq(C) /\ s # <<>> /\ s = Listed(BraceOpen, W, BraceClose)
  BY ToJsonType
<1>2. W \in Seq(Seq(C)) /\ Len(W) = 5 /\ DOMAIN W = 1 .. 5
      /\ \A i \in 1 .. 5 : W[i] # <<>> /\ W[i][1] = DQuote
  <2>1. W \in Seq(Seq(C)) /\ Len(W) = 5
        /\ \A i \in 1 .. 5 : W[i] # <<>> /\ W[i][1] = DQuote
    BY FieldTextsIs
  <2> HIDE DEF W
  <2> QED
    BY <2>1
<1>3. F \in Seq(V) /\ Len(F) = 5
  <2>1. F = [i \in 1 .. 5 |-> F[i]] /\ \A i \in 1 .. 5 : F[i] \in V
    BY DEF FieldVals
  <2> HIDE DEF F, V, W
  <2>2. PerItem(F, W, V)
    BY <1>2, <2>1 DEF PerItem
  <2> QED
    BY <1>2, <2>2, TextPerItem
<1>4. /\ Comma \in C /\ BraceOpen \in C /\ BraceClose \in C
      /\ BraceOpen \notin Ws /\ BraceClose \notin Ws /\ BraceClose # Comma
      /\ DQuote \notin Ws /\ DQuote # BraceClose
  BY Characters, MarksAre
<1>5. ASSUME NEW i \in 1 .. 5, NEW j \in Places(s), Has(s, j, W[i])
      PROVE  item[j] = Read(F[i], j + Len(W[i]))
  <2> HIDE DEF s
  <2> QED
    BY <1>1, <1>5, FieldsRead
<1> HIDE DEF s, W, F, item, V
<1>6. Heads(W, BraceClose) /\ GivesAll(item, s, W, F)
  BY <1>2, <1>3, <1>4, <1>5 DEF Heads, GivesAll
<1>7. Has(s, 1, s) /\ 1 \in Places(s) /\ Len(s) \in Nat
  BY <1>1, HasSelf
<1>8. List(item, s, 1, BraceOpen, BraceClose)
        = Read(F, 1 + Len(Listed(BraceOpen, W, BraceClose)))
  BY ONLY <1>1, <1>2, <1>3, <1>4, <1>6, <1>7, ListRead
<1> DEFINE end == Len(s) + 1
<1>9. 1 + Len(Listed(BraceOpen, W, BraceClose)) = end
  BY <1>1, <1>7
<1>10. SkipWs(s, end) = end
  BY <1>1, SkipEnd
<1> HIDE DEF end
<1>11. /\ List(item, s, 1, BraceOpen, BraceClose).is = "read"
       /\ List(item, s, 1, BraceOpen, BraceClose).val = F
       /\ List(item, s, 1, BraceOpen, BraceClose).at = end
  BY <1>8, <1>9, ReadIs
<1>12. PackOf(F) = p
  BY PackTaken DEF F
<1>13. FromJson(s) = Read(PackOf(F), end)
  BY <1>10, <1>11 DEF FromJson, WholePack, item, end
<1> QED
  BY <1>12, <1>13 DEF s, end


-----------------------------------------------------------------------------
(* The end of an object.                                                   *)

Closes(s, t) == At(s, t.at, BraceClose) /\ ~t.in_str /\ t.depth = 1
PastIs(h, s) ==
    h = [t \in Scans(s) |->
           CASE t.at > Len(s) -> 0
             [] At(s, t.at, BraceClose) /\ ~t.in_str /\ t.depth = 1 -> t.at + 1
             [] OTHER -> h[NextScan(s, t)]]

LEMMA ScanIs ==
    ASSUME NEW s, NEW t \in Scans(s)
    PROVE  /\ t.at \in Places(s) /\ t.depth \in Int /\ t.in_str \in BOOLEAN
           /\ t.esc \in BOOLEAN
           /\ t = Scan(t.at, t.depth, t.in_str, t.esc)
  BY DEF Scans, Scan

LEMMA NextScanType ==
    ASSUME NEW C, NEW s \in Seq(C), NEW t \in Scans(s), t.at <= Len(s)
    PROVE  NextScan(s, t) \in Scans(s) /\ NextScan(s, t).at = t.at + 1
<1>1. t.at + 1 \in Places(s) /\ t.at \in Nat /\ t.depth \in Int
      /\ t.in_str \in BOOLEAN /\ t.esc \in BOOLEAN
  <2>1. t.at \in Places(s) /\ t.depth \in Int /\ t.in_str \in BOOLEAN /\ t.esc \in BOOLEAN
    BY ScanIs
  <2>2. t.at \in Nat /\ Len(s) \in Nat
    BY <2>1, PlaceIs
  <2>3. t.at + 1 \in Nat /\ t.at + 1 # 0 /\ t.at + 1 <= Len(s) + 1
    BY <2>2
  <2> QED
    BY <2>1, <2>2, <2>3, PlaceIs
<1> DEFINE c == s[t.at]
           step == CASE c = BraceOpen -> 1 [] c = BraceClose -> -1 [] OTHER -> 0
<1>2. step \in Int
  OBVIOUS
<1>3. NextScan(s, t)
        = IF t.in_str
          THEN Scan(t.at + 1, t.depth, t.esc \/ c # DQuote, ~t.esc /\ c = BackSlash)
          ELSE Scan(t.at + 1, t.depth + step, c = DQuote, FALSE)
  BY DEF NextScan
<1>4. \A d \in Int, b \in BOOLEAN, e \in BOOLEAN :
        Scan(t.at + 1, d, b, e) \in Scans(s) /\ Scan(t.at + 1, d, b, e).at = t.at + 1
  BY <1>1 DEF Scan, Scans
<1>5. t.depth + step \in Int /\ (t.esc \/ c # DQuote) \in BOOLEAN
      /\ (~t.esc /\ c = BackSlash) \in BOOLEAN /\ (c = DQuote) \in BOOLEAN
  BY <1>1, <1>2
<1> HIDE DEF c, step
<1> QED
  BY <1>1, <1>3, <1>4, <1>5

\* The scan is a function: there is one with this equation.
LEMMA PastExists ==
    ASSUME NEW C, NEW s \in Seq(C)
    PROVE  \E h : PastIs(h, s)
<1> DEFINE T == Scans(s)
           L == Len(s)
           S == [T -> Nat]
           Body(h, t) == IF t.at > L THEN 0
                         ELSE IF Closes(s, t) THEN t.at + 1 ELSE h[NextScan(s, t)]
           Round(h) == [t \in T |-> Body(h, t)]
           x0 == [t \in T |-> 0]
           step == [n \in Nat |-> [h \in S |-> Round(h)]]
<1>1. L \in Nat /\ \A t \in T : t.at \in Nat /\ t.at # 0 /\ t.at <= L + 1
  <2>1. \A t \in T : t.at \in Places(s)
    BY ScanIs
  <2> QED
    BY <2>1, PlaceIs
<1>2. \A t \in T : t.at <= L => NextScan(s, t) \in T /\ NextScan(s, t).at = t.at + 1
  BY NextScanType
<1> HIDE DEF T, L
<1>3. x0 \in S
  OBVIOUS
<1>4. ASSUME NEW h \in S PROVE Round(h) \in S
  <2>1. ASSUME NEW t \in T PROVE Body(h, t) \in Nat
    <3>1. CASE t.at > L
      BY <3>1
    <3>2. CASE ~(t.at > L)
      <4>1. NextScan(s, t) \in T /\ t.at + 1 \in Nat
        BY <1>1, <1>2, <3>2
      <4>2. h[NextScan(s, t)] \in Nat
        BY <4>1
      <4> QED
        BY <3>2, <4>1, <4>2
    <3> QED
      BY <3>1, <3>2
  <2> HIDE DEF Body
  <2> QED
    BY <2>1
<1>5. step \in Steps(S)
  <2> HIDE DEF Round, S
  <2> QED
    BY <1>4 DEF Steps
<1>6. PICK g : Repeats(g, S, x0, step)
  <2> HIDE DEF S, x0, step
  <2> QED
    BY <1>3, <1>5, Iteration
<1>7. /\ \A n \in Nat : g[n] \in S
      /\ \A n \in Nat : g[n + 1] = Round(g[n])
  <2>1. \A n \in Nat : g[n] \in S /\ g[n + 1] = step[n][g[n]]
    BY <1>6 DEF Repeats
  <2> HIDE DEF S, Round
  <2> QED
    BY <2>1
<1> DEFINE fuel(t) == L + 2 - t.at
           past == [t \in T |-> g[fuel(t)][t]]
<1>8. ASSUME NEW t \in T PROVE past[t] = Body(past, t)
  <2> DEFINE n == L + 1 - t.at
             u == NextScan(s, t)
  <2>1. n \in Nat /\ n + 1 = fuel(t)
    BY <1>1
  <2>2. past[t] = Round(g[n])[t]
    BY <1>7, <2>1
  <2>3. past[t] = Body(g[n], t)
    BY <2>2
  <2>4. CASE t.at > L \/ Closes(s, t)
    BY <2>3, <2>4
  <2>5. CASE ~(t.at > L) /\ ~Closes(s, t)
    <3>1. u \in T /\ u.at = t.at + 1
      BY <1>1, <1>2, <2>5
    <3>2. fuel(u) = n
      BY <1>1, <3>1
    <3> HIDE DEF fuel, n, u
    <3>3. past[u] = g[n][u]
      BY <3>1, <3>2
    <3> HIDE DEF past
    <3>4. past[t] = g[n][u]
      BY <2>3, <2>5 DEF u
    <3> QED
      BY <2>5, <3>3, <3>4 DEF u
  <2> QED
    BY <2>4, <2>5
<1>9. past = [t \in T |-> past[t]]
  OBVIOUS
<1> HIDE DEF past
<1>10. past = [t \in T |-> Body(past, t)]
  <2> HIDE DEF Body
  <2> QED
    BY <1>8, <1>9
<1>11. ASSUME NEW t \in T
       PROVE  Body(past, t) = CASE t.at > L -> 0
                                [] At(s, t.at, BraceClose) /\ ~t.in_str /\ t.depth = 1 -> t.at + 1
                                [] OTHER -> past[NextScan(s, t)]
  <2>1. t.at > L => ~At(s, t.at, BraceClose)
    BY <1>1, PlaceIs DEF At, L
  <2> QED
    BY <2>1 DEF Closes
<1>12. PastIs(past, s)
  <2> HIDE DEF Body
  <2> QED
    BY <1>10, <1>11 DEF PastIs, T, L
<1> QED
  BY <1>12


PastOf(s) == CHOOSE h : PastIs(h, s)
Out(s, j, d) == PastOf(s)[Scan(j, d, FALSE, FALSE)]
In(s, j, d) == PastOf(s)[Scan(j, d, TRUE, FALSE)]
Escaped(s, j, d) == PastOf(s)[Scan(j, d, TRUE, TRUE)]

LEMMA PastObjectIs ==
    ASSUME NEW s, NEW i
    PROVE  PastObject(s, i) = Out(s, i, 0)
  BY DEF PastObject, Out, PastOf, PastIs

LEMMA PastNext ==
    ASSUME NEW C, NEW s \in Seq(C), NEW t \in Scans(s), t.at <= Len(s)
    PROVE  /\ Closes(s, t) => PastOf(s)[t] = t.at + 1
           /\ ~Closes(s, t) => PastOf(s)[t] = PastOf(s)[NextScan(s, t)]
<1> DEFINE h == PastOf(s)
<1>1. PastIs(h, s)
  BY PastExists DEF PastOf
<1>2. ~(t.at > Len(s))
  BY ScanIs, PlaceIs
<1> HIDE DEF h
<1>3. h[t] = CASE t.at > Len(s) -> 0
               [] At(s, t.at, BraceClose) /\ ~t.in_str /\ t.depth = 1 -> t.at + 1
               [] OTHER -> h[NextScan(s, t)]
  BY <1>1 DEF PastIs
<1> QED
  BY <1>2, <1>3 DEF Closes, h

\* What the scan does at a character outside of a string, inside, and behind a backslash.
LEMMA ScanOn ==
    ASSUME NEW C, NEW s \in Seq(C), NEW j, NEW c, At(s, j, c), NEW d \in Int
    PROVE  /\ c = DQuote => Out(s, j, d) = In(s, j + 1, d)
           /\ c = BraceOpen => Out(s, j, d) = Out(s, j + 1, d + 1)
           /\ c = BraceClose /\ d # 1 => Out(s, j, d) = Out(s, j + 1, d - 1)
           /\ c = BraceClose /\ d = 1 => Out(s, j, d) = j + 1
           /\ c \notin {DQuote, BraceOpen, BraceClose} => Out(s, j, d) = Out(s, j + 1, d)
           /\ c = DQuote => In(s, j, d) = Out(s, j + 1, d)
           /\ c = BackSlash => In(s, j, d) = Escaped(s, j + 1, d)
           /\ c \notin {DQuote, BackSlash} => In(s, j, d) = In(s, j + 1, d)
           /\ Escaped(s, j, d) = In(s, j + 1, d)
<1>1. j \in Places(s) /\ j <= Len(s) /\ s[j] = c
  <2>1. j \in DOMAIN s /\ s[j] = c
    BY AtOnly
  <2> QED
    BY <2>1, PlaceIs
<1>2. /\ DQuote # BraceOpen /\ DQuote # BraceClose /\ BraceOpen # BraceClose
      /\ DQuote # BackSlash
  BY Characters
<1> DEFINE a == Scan(j, d, FALSE, FALSE)
           b == Scan(j, d, TRUE, FALSE)
           e == Scan(j, d, TRUE, TRUE)
<1>3. /\ a \in Scans(s) /\ a.at = j /\ a.depth = d /\ a.in_str = FALSE /\ a.esc = FALSE
      /\ b \in Scans(s) /\ b.at = j /\ b.depth = d /\ b.in_str = TRUE /\ b.esc = FALSE
      /\ e \in Scans(s) /\ e.at = j /\ e.depth = d /\ e.in_str = TRUE /\ e.esc = TRUE
  BY <1>1 DEF Scan, Scans
<1> HIDE DEF a, b, e
<1>4. ~Closes(s, b) /\ ~Closes(s, e)
  BY <1>3 DEF Closes
<1>5. Closes(s, a) <=> c = BraceClose /\ d = 1
  BY <1>3, AtOnly DEF Closes
<1>6. /\ NextScan(s, e) = Scan(j + 1, d, TRUE, FALSE)
      /\ NextScan(s, b) = Scan(j + 1, d, c # DQuote, c = BackSlash)
  BY <1>1, <1>3 DEF NextScan
<1>7. /\ c = BraceOpen => NextScan(s, a) = Scan(j + 1, d + 1, FALSE, FALSE)
      /\ c = BraceClose => NextScan(s, a) = Scan(j + 1, d - 1, FALSE, FALSE)
      /\ c = DQuote => NextScan(s, a) = Scan(j + 1, d, TRUE, FALSE)
      /\ c \notin {DQuote, BraceOpen, BraceClose} =>
           NextScan(s, a) = Scan(j + 1, d, FALSE, FALSE)
  <2> DEFINE step == CASE c = BraceOpen -> 1 [] c = BraceClose -> -1 [] OTHER -> 0
  <2>1. NextScan(s, a) = Scan(j + 1, d + step, c = DQuote, FALSE)
    BY <1>1, <1>3 DEF NextScan
  <2>2. c = BraceOpen => step = 1 /\ d + step = d + 1
    BY <1>2
  <2>3. c = BraceClose => step = -1 /\ d + step = d - 1
    BY <1>2
  <2>4. c # BraceOpen /\ c # BraceClose => step = 0 /\ d + step = d
    OBVIOUS
  <2> HIDE DEF step
  <2>5. (c = DQuote) = TRUE \/ (c = DQuote) = FALSE
    OBVIOUS
  <2>6. CASE c = BraceOpen
    BY <1>2, <2>1, <2>2, <2>6
  <2>7. CASE c = BraceClose
    BY <1>2, <2>1, <2>3, <2>7
  <2>8. CASE c # BraceOpen /\ c # BraceClose
    BY <2>1, <2>4, <2>8
  <2> QED
    BY <2>6, <2>7, <2>8
<1>8. /\ Closes(s, a) => Out(s, j, d) = j + 1
      /\ ~Closes(s, a) => Out(s, j, d) = PastOf(s)[NextScan(s, a)]
      /\ In(s, j, d) = PastOf(s)[NextScan(s, b)]
      /\ Escaped(s, j, d) = PastOf(s)[NextScan(s, e)]
  <2>1. Out(s, j, d) = PastOf(s)[a] /\ In(s, j, d) = PastOf(s)[b] /\ Escaped(s, j, d) = PastOf(s)[e]
    BY DEF Out, In, Escaped, a, b, e
  <2>2. /\ Closes(s, a) => PastOf(s)[a] = j + 1
        /\ ~Closes(s, a) => PastOf(s)[a] = PastOf(s)[NextScan(s, a)]
    BY <1>1, <1>3, PastNext
  <2>3. PastOf(s)[b] = PastOf(s)[NextScan(s, b)]
    BY <1>1, <1>3, <1>4, PastNext
  <2>4. PastOf(s)[e] = PastOf(s)[NextScan(s, e)]
    BY <1>1, <1>3, <1>4, PastNext
  <2> QED
    BY <2>1, <2>2, <2>3, <2>4
<1>9. /\ c = DQuote => NextScan(s, b) = Scan(j + 1, d, FALSE, FALSE)
      /\ c = BackSlash => NextScan(s, b) = Scan(j + 1, d, TRUE, TRUE)
      /\ c \notin {DQuote, BackSlash} => NextScan(s, b) = Scan(j + 1, d, TRUE, FALSE)
  <2>1. CASE c = DQuote
    BY <1>2, <1>6, <2>1
  <2>2. CASE c = BackSlash
    BY <1>2, <1>6, <2>2
  <2>3. CASE c \notin {DQuote, BackSlash}
    BY <1>6, <2>3
  <2> QED
    BY <1>2, <2>1, <2>2, <2>3
<1>10. /\ c = BraceOpen => Out(s, j, d) = Out(s, j + 1, d + 1)
       /\ c = BraceClose /\ d # 1 => Out(s, j, d) = Out(s, j + 1, d - 1)
       /\ c = BraceClose /\ d = 1 => Out(s, j, d) = j + 1
  BY <1>2, <1>5, <1>7, <1>8 DEF Out
<1>11. /\ c = DQuote => Out(s, j, d) = In(s, j + 1, d)
       /\ c \notin {DQuote, BraceOpen, BraceClose} => Out(s, j, d) = Out(s, j + 1, d)
  BY <1>2, <1>5, <1>7, <1>8 DEF Out, In
<1>12. /\ c = DQuote => In(s, j, d) = Out(s, j + 1, d)
       /\ c = BackSlash => In(s, j, d) = Escaped(s, j + 1, d)
       /\ c \notin {DQuote, BackSlash} => In(s, j, d) = In(s, j + 1, d)
       /\ Escaped(s, j, d) = In(s, j + 1, d)
  BY <1>6, <1>8, <1>9 DEF Out, In, Escaped
<1> QED
  BY <1>10, <1>11, <1>12


\* Between the places the scan comes out where it was: whatever is open at the one is
\* open at the other, and the object has not ended.
Passes(s, i, k) == \A d \in Nat : d # 0 => Out(s, i, d) = Out(s, k, d)

LEMMA Along ==
    ASSUME NEW N \in Nat, NEW h, \A i \in 1 .. N : h[i - 1] = h[i]
    PROVE  h[0] = h[N]
<1> DEFINE T == {n \in Nat : n <= N => h[0] = h[n]}
<1>1. 0 \in T
  OBVIOUS
<1>2. ASSUME NEW n \in Nat, n \in T PROVE n + 1 \in T
  <2>1. SUFFICES ASSUME n + 1 <= N PROVE h[0] = h[n + 1]
    OBVIOUS
  <2>2. n + 1 \in 1 .. N /\ (n + 1) - 1 = n /\ n <= N
    BY <2>1
  <2>3. h[(n + 1) - 1] = h[n + 1]
    BY <2>2
  <2> QED
    BY <1>2, <2>2, <2>3
<1>3. Nat \subseteq T
  <2> HIDE DEF T
  <2> QED
    BY <1>1, <1>2, Induction
<1> QED
  BY <1>3

LEMMA PassesOne ==
    ASSUME NEW C, NEW s \in Seq(C), NEW j, NEW c, At(s, j, c),
           c \notin {DQuote, BraceOpen, BraceClose}
    PROVE  Passes(s, j, j + 1)
<1>1. \A d \in Nat : d \in Int
  OBVIOUS
<1> QED
  BY <1>1, ScanOn DEF Passes

LEMMA EscapeCharPasses ==
    ASSUME NEW C, Marks \subseteq C, NEW s \in Seq(C), NEW q \in Places(s), NEW c \in C,
           Has(s, q, EscapeChar(c)), NEW d \in Int
    PROVE  In(s, q, d) = In(s, q + Len(EscapeChar(c)), d)
<1> DEFINE w == EscapeChar(c)
<1>1. w \in Seq(C) /\ w # <<>>
  BY EscapeCharType
<1>2. \A j \in 1 .. Len(w) : At(s, q + j - 1, w[j])
  BY <1>1, HasEnd
<1>3. q \in Nat
  BY PlaceIs
<1>4. /\ \A x \in {"n", "r", "t", "u", "0007"} : x # DQuote /\ x # BackSlash
      /\ DQuote # BackSlash
  BY Zenon DEF DQuote, BackSlash
<1>5. CASE c \in Lettered
  <2> DEFINE x == Letter[c]
  <2>1. w = <<BackSlash, x>>
    BY <1>5, EscapeCharType
  <2> HIDE DEF w, x
  <2>2. At(s, q, BackSlash) /\ At(s, q + 1, x) /\ Len(w) = 2
    <3>1. Len(w) = 2 /\ w[1] = BackSlash /\ w[2] = x
      BY <2>1
    <3>2. q + 1 - 1 = q /\ q + 2 - 1 = q + 1
      BY <1>3
    <3> QED
      BY <1>2, <3>1, <3>2
  <2>3. In(s, q, d) = Escaped(s, q + 1, d)
    BY <2>2, ScanOn
  <2>4. Escaped(s, q + 1, d) = In(s, (q + 1) + 1, d)
    BY <2>2, ScanOn
  <2>5. (q + 1) + 1 = q + 2
    BY <1>3
  <2> QED
    BY <2>2, <2>3, <2>4, <2>5 DEF w
<1>6. CASE c = "bell"
  <2>1. w = <<BackSlash, "u", "0007">>
    BY <1>6, EscapeCharType
  <2> HIDE DEF w
  <2>2. At(s, q, BackSlash) /\ At(s, q + 1, "u") /\ At(s, q + 2, "0007") /\ Len(w) = 3
    <3>1. Len(w) = 3 /\ w[1] = BackSlash /\ w[2] = "u" /\ w[3] = "0007"
      BY <2>1
    <3>2. q + 1 - 1 = q /\ q + 2 - 1 = q + 1 /\ q + 3 - 1 = q + 2
      BY <1>3
    <3> QED
      BY <1>2, <3>1, <3>2
  <2>3. In(s, q, d) = Escaped(s, q + 1, d)
    BY <2>2, ScanOn
  <2>4. Escaped(s, q + 1, d) = In(s, (q + 1) + 1, d)
    BY <2>2, ScanOn
  <2>5. In(s, q + 2, d) = In(s, (q + 2) + 1, d)
    BY <1>4, <2>2, ScanOn
  <2>6. (q + 1) + 1 = q + 2 /\ (q + 2) + 1 = q + 3
    BY <1>3
  <2> QED
    BY <2>2, <2>3, <2>4, <2>5, <2>6 DEF w
<1>7. CASE c \notin Lettered /\ c # "bell"
  <2>1. w = <<c>>
    BY <1>7, EscapeCharType
  <2> HIDE DEF w
  <2>2. At(s, q, c) /\ Len(w) = 1
    <3>1. Len(w) = 1 /\ w[1] = c /\ q + 1 - 1 = q
      BY <1>3, <2>1
    <3> QED
      BY <1>2, <3>1
  <2>3. c \notin {DQuote, BackSlash}
    BY <1>7, Letters
  <2>4. In(s, q, d) = In(s, q + 1, d)
    BY <2>2, <2>3, ScanOn
  <2> QED
    BY <2>2, <2>4 DEF w
<1> QED
  BY <1>5, <1>6, <1>7

\* A string leaves the scan as it was, whatever braces and quotes are in it.
LEMMA StringPasses ==
    ASSUME NEW C, Marks \subseteq C, NEW s \in Seq(C), NEW q \in Places(s),
           NEW text \in Seq(C), Has(s, q, Escape(text))
    PROVE  Passes(s, q, q + Len(Escape(text)))
<1> DEFINE N == Len(text)
<1>1. N \in Nat /\ \A i \in 1 .. N : text[i] \in C
  OBVIOUS
<1>2. PICK off : EscapeIs(s, q, text, off)
  BY EscapeLies
<1>3. /\ At(s, q, DQuote) /\ off[0] = q + 1
      /\ \A i \in 0 .. N : off[i] \in Places(s)
      /\ \A i \in 1 .. N : /\ Has(s, off[i - 1], EscapeChar(text[i]))
                           /\ off[i] = off[i - 1] + Len(EscapeChar(text[i]))
      /\ At(s, off[N], DQuote) /\ off[N] + 1 = q + Len(Escape(text))
  BY <1>2 DEF EscapeIs
<1> HIDE DEF N
<1>4. ASSUME NEW d \in Nat, d # 0
      PROVE  Out(s, q, d) = Out(s, q + Len(Escape(text)), d)
  <2> DEFINE h == [i \in 0 .. N |-> In(s, off[i], d)]
  <2>1. d \in Int
    OBVIOUS
  <2>2. ASSUME NEW i \in 1 .. N PROVE h[i - 1] = h[i]
    <3> DEFINE j == off[i - 1]
               c == text[i]
    <3>1. i - 1 \in 0 .. N /\ i \in 0 .. N
      BY <1>1
    <3>2. j \in Places(s) /\ c \in C /\ Has(s, j, EscapeChar(c))
          /\ off[i] = j + Len(EscapeChar(c))
      BY <1>1, <1>3, <3>1
    <3> HIDE DEF j, c
    <3>3. In(s, j, d) = In(s, off[i], d)
      BY <2>1, <3>2, EscapeCharPasses
    <3> QED
      BY <3>1, <3>3 DEF j
  <2>3. h[0] = h[N]
    <3> HIDE DEF h
    <3> QED
      BY <1>1, <2>2, Along
  <2>4. In(s, off[0], d) = In(s, off[N], d)
    <3>1. 0 \in 0 .. N /\ N \in 0 .. N
      BY <1>1
    <3> QED
      BY <2>3, <3>1
  <2>5. Out(s, q, d) = In(s, q + 1, d)
    BY <1>3, <2>1, ScanOn
  <2>6. In(s, off[N], d) = Out(s, off[N] + 1, d)
    BY <1>3, <2>1, ScanOn
  <2> QED
    BY <1>3, <2>4, <2>5, <2>6
<1> QED
  BY <1>4 DEF Passes


\* Items that leave the scan as it was.
PassAll(s, texts, C) ==
    \A i \in DOMAIN texts : \A k \in Places(s) :
      Has(s, k, texts[i]) => Passes(s, k, k + Len(texts[i]))

LEMMA ListInside ==
    ASSUME NEW C, NEW s \in Seq(C), NEW q, NEW texts \in Seq(Seq(C)), NEW open, NEW close,
           NEW off, ListIs(s, q, open, texts, close, off), PassAll(s, texts, C)
    PROVE  Passes(s, q + 1, off[Len(texts)])
<1> DEFINE N == Len(texts)
<1>1. N \in Nat /\ DOMAIN texts = 1 .. N
  OBVIOUS
<1>2. /\ off[0] = q + 1
      /\ \A i \in 1 .. N : /\ Begin(off, i) \in Places(s)
                           /\ Has(s, Begin(off, i), texts[i])
                           /\ off[i] = Begin(off, i) + Len(texts[i])
      /\ \A i \in 1 .. N - 1 : At(s, off[i], Comma)
  BY DEF ListIs
<1>3. ASSUME NEW i \in 1 .. N PROVE Passes(s, Begin(off, i), off[i])
  <2> DEFINE b == Begin(off, i)
  <2>1. b \in Places(s) /\ Has(s, b, texts[i]) /\ off[i] = b + Len(texts[i])
    BY <1>2
  <2> HIDE DEF b
  <2>2. Passes(s, b, b + Len(texts[i]))
    BY <1>1, <2>1 DEF PassAll
  <2> QED
    BY <2>1, <2>2 DEF b
<1> HIDE DEF N
<1>4. ASSUME NEW d \in Nat, d # 0
      PROVE  Out(s, q + 1, d) = Out(s, off[N], d)
  <2> DEFINE h == [i \in 0 .. N |-> Out(s, off[i], d)]
  <2>1. ASSUME NEW i \in 1 .. N PROVE h[i - 1] = h[i]
    <3>1. i - 1 \in 0 .. N /\ i \in 0 .. N
      BY <1>1
    <3>2. Out(s, Begin(off, i), d) = Out(s, off[i], d)
      BY <1>3, <1>4 DEF Passes
    <3>3. Out(s, off[i - 1], d) = Out(s, Begin(off, i), d)
      <4>1. CASE i = 1
        BY <4>1 DEF Begin
      <4>2. CASE i # 1
        <5>1. i - 1 \in 1 .. N - 1
          BY <1>1, <4>2
        <5>2. At(s, off[i - 1], Comma) /\ Begin(off, i) = off[i - 1] + 1
          BY <1>2, <4>2, <5>1 DEF Begin
        <5>3. Comma \notin {DQuote, BraceOpen, BraceClose}
          BY Characters
        <5>4. Passes(s, off[i - 1], off[i - 1] + 1)
          BY <5>2, <5>3, PassesOne
        <5> QED
          BY <1>4, <5>2, <5>4 DEF Passes
      <4> QED
        BY <4>1, <4>2
    <3> QED
      BY <3>1, <3>2, <3>3
  <2>2. h[0] = h[N]
    <3> HIDE DEF h
    <3> QED
      BY <1>1, <2>1, Along
  <2>3. 0 \in 0 .. N /\ N \in 0 .. N
    BY <1>1
  <2> QED
    BY <1>2, <2>2, <2>3
<1> QED
  BY <1>4 DEF Passes, N

\* An object is passed as a whole, and one that nothing is open around ends the scan.
LEMMA ObjectPasses ==
    ASSUME NEW C, NEW s \in Seq(C), NEW q \in Places(s), NEW texts,
           Listable(BraceOpen, texts, BraceClose, C), PassAll(s, texts, C),
           NEW w, w = Listed(BraceOpen, texts, BraceClose), Has(s, q, w)
    PROVE  Passes(s, q, q + Len(w)) /\ PastObject(s, q) = q + Len(w)
<1> USE DEF Listable
<1>1. PICK off : ListIs(s, q, BraceOpen, texts, BraceClose, off)
  BY ListLies
<1> DEFINE e == off[Len(texts)]
<1>2. /\ At(s, q, BraceOpen) /\ At(s, e, BraceClose)
      /\ e + 1 = q + Len(w)
  BY <1>1 DEF ListIs
<1>3. Passes(s, q + 1, e)
  BY <1>1, ListInside
<1> HIDE DEF e
<1>4. \A d \in Int : Out(s, q, d) = Out(s, q + 1, d + 1)
  BY <1>2, ScanOn
<1>5. ASSUME NEW d \in Nat, d # 0 PROVE Out(s, q, d) = Out(s, q + Len(w), d)
  <2>1. d \in Int /\ d + 1 \in Nat /\ d + 1 # 0 /\ d + 1 # 1 /\ d + 1 \in Int /\ (d + 1) - 1 = d
    BY <1>5
  <2>2. Out(s, q + 1, d + 1) = Out(s, e, d + 1)
    BY <1>3, <2>1 DEF Passes
  <2>3. Out(s, e, d + 1) = Out(s, e + 1, (d + 1) - 1)
    BY <1>2, <2>1, ScanOn
  <2> QED
    BY <1>2, <1>4, <2>1, <2>2, <2>3
<1>6. Out(s, q, 0) = q + Len(w)
  <2>1. Out(s, q, 0) = Out(s, q + 1, 1)
    <3>1. 0 \in Int /\ 0 + 1 = 1
      OBVIOUS
    <3> QED
      BY <1>4, <3>1
  <2>2. Out(s, q + 1, 1) = Out(s, e, 1)
    <3>1. 1 \in Nat /\ 1 # 0
      OBVIOUS
    <3> QED
      BY <1>3, <3>1 DEF Passes
  <2>3. Out(s, e, 1) = e + 1
    <3>1. 1 \in Int
      OBVIOUS
    <3> QED
      BY <1>2, <3>1, ScanOn
  <2> QED
    BY <1>2, <2>1, <2>2, <2>3
<1> QED
  BY <1>5, <1>6, PastObjectIs DEF Passes

LEMMA ArrayPasses ==
    ASSUME NEW C, Marks \subseteq C, NEW s \in Seq(C), NEW q \in Places(s),
           NEW texts \in Seq(Seq(C)), Has(s, q, Array(EscapeAll(texts)))
    PROVE  Passes(s, q, q + Len(Array(EscapeAll(texts))))
<1> DEFINE W == EscapeAll(texts)
           w == Listed(BracketOpen, W, BracketClose)
<1>1. /\ W \in Seq(Seq(C)) /\ DOMAIN W = DOMAIN texts
      /\ \A i \in DOMAIN W : W[i] # <<>> /\ W[i][1] = DQuote
      /\ \A i \in DOMAIN W : W[i] = Escape(texts[i]) /\ texts[i] \in Seq(C)
  BY EscapeAllType
<1>2. Array(EscapeAll(texts)) = w
  BY DEF Array
<1> HIDE DEF W
<1>3. PICK off : ListIs(s, q, BracketOpen, W, BracketClose, off)
  BY <1>1, <1>2, ListLies, MarksAre
<1> DEFINE e == off[Len(W)]
<1>4. At(s, q, BracketOpen) /\ At(s, e, BracketClose) /\ e + 1 = q + Len(w)
  BY <1>3 DEF ListIs
<1>5. PassAll(s, W, C)
  <2>1. ASSUME NEW i \in DOMAIN W, NEW k \in Places(s), Has(s, k, W[i])
        PROVE  Passes(s, k, k + Len(W[i]))
    <3>1. Passes(s, k, k + Len(Escape(texts[i])))
      BY <1>1, <2>1, StringPasses
    <3> QED
      BY <1>1, <3>1
  <2> QED
    BY <2>1 DEF PassAll
<1>6. Passes(s, q + 1, e)
  BY <1>1, <1>3, <1>5, ListInside
<1> HIDE DEF e, w
<1>7. /\ BracketOpen \notin {DQuote, BraceOpen, BraceClose}
      /\ BracketClose \notin {DQuote, BraceOpen, BraceClose}
  BY Characters
<1>8. Passes(s, q, q + 1) /\ Passes(s, e, e + 1)
  BY <1>4, <1>7, PassesOne
<1> QED
  BY <1>2, <1>4, <1>6, <1>8 DEF Passes

LEMMA MemberPasses ==
    ASSUME NEW C, Marks \subseteq C, NEW s \in Seq(C), NEW q \in Places(s),
           NEW name \in Seq(C), NEW w \in Seq(C), Has(s, q, MemberText(name, w)),
           NEW b, b = q + Behind(name), Passes(s, b, b + Len(w))
    PROVE  Passes(s, q, q + Len(MemberText(name, w)))
<1> DEFINE c == q + Len(Escape(name))
<1>1. /\ b + Len(w) = q + Len(MemberText(name, w))
      /\ Has(s, q, Escape(name)) /\ At(s, c, Colon)
  BY MemberRead
<1>2. Passes(s, q, c)
  BY <1>1, StringPasses
<1>3. c + 1 = b
  <2>1. Len(Escape(name)) \in Nat /\ q \in Nat
    <3>1. Escape(name) \in Seq(C)
      BY EscapeType
    <3> QED
      BY <3>1, PlaceIs
  <2> QED
    BY <2>1 DEF Behind
<1> HIDE DEF c
<1>4. Passes(s, c, b)
  <2>1. Colon \notin {DQuote, BraceOpen, BraceClose}
    BY Characters
  <2> QED
    BY <1>1, <1>3, <2>1, PassesOne
<1> QED
  BY <1>1, <1>2, <1>4 DEF Passes


LEMMA ParamsPass ==
    ASSUME NEW C, Marks \subseteq C, NEW s \in Seq(C), NEW ps, NEW keys,
           ParamKeys(ps, keys, C)
    PROVE  PassAll(s, ParamTexts(ps, keys), C)
<1> DEFINE W == ParamTexts(ps, keys)
<1>1. ASSUME NEW i \in DOMAIN W, NEW j \in Places(s), Has(s, j, W[i])
      PROVE  Passes(s, j, j + Len(W[i]))
  <2> DEFINE k == keys[i]
             v == ps[k]
             w == Array(EscapeAll(v))
             b == j + Behind(k)
  <2>1. k \in Seq(C) /\ v \in Seq(Seq(C)) /\ W[i] = MemberText(k, w)
    <3>1. DOMAIN W = DOMAIN keys
      BY ParamTextsType
    <3>2. i \in DOMAIN keys
      BY <3>1
    <3> QED
      BY <3>2, ParamTextsType
  <2> HIDE DEF W, k, v
  <2>2. w \in Seq(C)
    BY <2>1, ArrayType
  <2>3. b \in Places(s) /\ Has(s, b, w)
    <3> HIDE DEF w
    <3> QED
      BY <1>1, <2>1, <2>2, MemberRead
  <2> HIDE DEF b
  <2>4. Passes(s, b, b + Len(w))
    BY <2>1, <2>3, ArrayPasses
  <2> HIDE DEF w
  <2>5. b = j + Behind(k)
    BY DEF b
  <2>6. Passes(s, j, j + Len(MemberText(k, w)))
    BY <1>1, <2>1, <2>2, <2>4, <2>5, MemberPasses
  <2> QED
    BY <2>1, <2>6
<1> QED
  BY <1>1 DEF PassAll

LEMMA FieldsPass ==
    ASSUME NEW C, Marks \subseteq C, NEW s \in Seq(C), NEW p, NEW keys, IsPack(p, keys, C)
    PROVE  PassAll(s, FieldTexts(p, keys), C)
<1> DEFINE W == FieldTexts(p, keys)
<1>1. W \in Seq(Seq(C)) /\ Len(W) = 5 /\ FieldTextsAre(p, keys)
      /\ \A i \in 1 .. 5 : W[i] # <<>> /\ W[i][1] = DQuote
  BY FieldTextsIs
<1>2. /\ p.mod \in Seq(C) /\ p.func \in Seq(C) /\ p.ret \in Seq(C)
      /\ ParamKeys(p.params, keys, C)
  BY DEF IsPack
<1>3. /\ <<"mod">> \in Seq(C) /\ <<"func">> \in Seq(C) /\ <<"params">> \in Seq(C)
      /\ <<"success">> \in Seq(C) /\ <<"ret">> \in Seq(C)
  BY FieldNamesPlain DEF FieldNames
<1>4. ASSUME NEW i \in DOMAIN W, NEW j \in Places(s), Has(s, j, W[i])
      PROVE  Passes(s, j, j + Len(W[i]))
  <2>0. i \in 1 .. 5
    <3> HIDE DEF W
    <3> QED
      BY <1>1
  <2>1. ASSUME NEW name \in Seq(C), NEW text \in Seq(C), W[i] = MemberText(name, Escape(text))
        PROVE  Passes(s, j, j + Len(W[i]))
    <3> DEFINE w == Escape(text)
               b == j + Behind(name)
    <3>1. w \in Seq(C)
      BY EscapeType
    <3>2. Has(s, j, MemberText(name, w))
      BY <1>4, <2>1
    <3>3. b \in Places(s) /\ Has(s, b, w)
      <4> HIDE DEF w
      <4> QED
        BY <3>1, <3>2, MemberRead
    <3>4. b = j + Behind(name)
      OBVIOUS
    <3> HIDE DEF b, W
    <3>5. Passes(s, b, b + Len(w))
      BY <3>3, StringPasses
    <3>6. Passes(s, j, j + Len(MemberText(name, w)))
      <4> HIDE DEF w
      <4> QED
        BY <3>1, <3>2, <3>4, <3>5, MemberPasses
    <3> QED
      BY <2>1, <3>6
  <2>2. CASE i \in {1, 2, 5}
    <3>1. /\ W[1] = MemberText(<<"mod">>, Escape(p.mod))
          /\ W[2] = MemberText(<<"func">>, Escape(p.func))
          /\ W[5] = MemberText(<<"ret">>, Escape(p.ret))
      BY <1>1 DEF FieldTextsAre
    <3> HIDE DEF W
    <3>2. CASE i = 1
      BY <1>2, <1>3, <2>1, <3>1, <3>2
    <3>3. CASE i = 2
      BY <1>2, <1>3, <2>1, <3>1, <3>3
    <3>4. CASE i = 5
      BY <1>2, <1>3, <2>1, <3>1, <3>4
    <3> QED
      BY <2>2, <3>2, <3>3, <3>4
  <2>3. CASE i = 3
    <3> DEFINE name == <<"params">>
               texts == ParamTexts(p.params, keys)
               w == Object(texts)
               b == j + Behind(name)
    <3>1. W[3] = MemberText(name, w)
      BY <1>1 DEF FieldTextsAre
    <3>2. w \in Seq(C)
      BY <1>2, ObjectType
    <3>3. Listable(BraceOpen, texts, BraceClose, C)
      <4>1. texts \in Seq(Seq(C)) /\ \A k \in DOMAIN texts : texts[k] # <<>>
        BY <1>2, ParamTextsType
      <4> HIDE DEF texts
      <4> QED
        BY <4>1, MarksAre DEF Listable
    <3>4. PassAll(s, texts, C)
      BY <1>2, ParamsPass
    <3>5. w = Listed(BraceOpen, texts, BraceClose)
      BY DEF Object
    <3>6. name \in Seq(C)
      BY <1>3
    <3> HIDE DEF W, texts, w, name
    <3>7. Has(s, j, MemberText(name, w))
      BY <1>4, <2>3, <3>1
    <3>8. b \in Places(s) /\ Has(s, b, w)
      BY <3>2, <3>6, <3>7, MemberRead
    <3>9. b = j + Behind(name)
      OBVIOUS
    <3> HIDE DEF b
    <3>10. Passes(s, b, b + Len(w))
      BY <3>3, <3>4, <3>5, <3>8, ObjectPasses
    <3>11. Passes(s, j, j + Len(MemberText(name, w)))
      BY <3>2, <3>6, <3>7, <3>9, <3>10, MemberPasses
    <3> QED
      BY <2>3, <3>1, <3>11
  <2>4. CASE i = 4
    <3> DEFINE name == <<"success">>
               c == IF p.success THEN "true" ELSE "false"
               w == <<c>>
               b == j + Behind(name)
    <3>1. W[4] = MemberText(name, w)
      BY <1>1 DEF FieldTextsAre, Flag
    <3>2. w \in Seq(C) /\ w # <<>> /\ w[1] = c /\ Len(w) = 1
      BY MarksAre
    <3>3. c \notin {DQuote, BraceOpen, BraceClose}
      BY Characters
    <3>4. name \in Seq(C)
      BY <1>3
    <3> HIDE DEF W, w, name, c
    <3>5. Has(s, j, MemberText(name, w))
      BY <1>4, <2>4, <3>1
    <3>6. b \in Places(s) /\ Has(s, b, w)
      BY <3>2, <3>4, <3>5, MemberRead
    <3>7. b = j + Behind(name)
      OBVIOUS
    <3> HIDE DEF b
    <3>8. At(s, b, c)
      BY <3>2, <3>6, HasHead
    <3>9. Passes(s, b, b + Len(w))
      BY <3>2, <3>3, <3>8, PassesOne
    <3>10. Passes(s, j, j + Len(MemberText(name, w)))
      BY <3>2, <3>4, <3>5, <3>7, <3>9, MemberPasses
    <3> QED
      BY <2>4, <3>1, <3>10
  <2> QED
    BY <2>0, <2>2, <2>3, <2>4
<1> QED
  BY <1>4 DEF PassAll

\* The bracket count takes a pack for a whole, and no more than the pack.
LEMMA ToJsonPasses ==
    ASSUME NEW C, Marks \subseteq C, NEW s \in Seq(C), NEW q \in Places(s),
           NEW p, NEW keys, IsPack(p, keys, C), Has(s, q, ToJson(p, keys))
    PROVE  PastObject(s, q) = q + Len(ToJson(p, keys))
<1> DEFINE W == FieldTexts(p, keys)
           w == ToJson(p, keys)
<1>1. w = Listed(BraceOpen, W, BraceClose) /\ Listable(BraceOpen, W, BraceClose, C)
  BY ToJsonType
<1>2. PassAll(s, W, C)
  BY FieldsPass
<1>3. Has(s, q, w)
  OBVIOUS
<1> HIDE DEF W, w
<1>4. PastObject(s, q) = q + Len(w)
  BY <1>1, <1>2, <1>3, ObjectPasses
<1> QED
  BY <1>4 DEF w


-----------------------------------------------------------------------------
(* The shards of a task.                                                   *)

LEMMA CutOut ==
    ASSUME NEW C, NEW s \in Seq(C), NEW i \in Places(s), NEW w \in Seq(C), Has(s, i, w),
           NEW j, j = i + Len(w)
    PROVE  SubSeq(s, i, j - 1) = w
<1>1. i \in Nat /\ i # 0 /\ Len(w) \in Nat /\ Len(s) \in Nat /\ j - 1 \in Int
      /\ (j - 1) - i + 1 = Len(w)
  BY PlaceIs
<1>2. SubSeq(s, i, j - 1) = [k \in 1 .. Len(w) |-> s[i + k - 1]]
  BY <1>1
<1>3. w = [k \in 1 .. Len(w) |-> w[k]]
  OBVIOUS
<1>4. \A k \in 1 .. Len(w) : s[i + k - 1] = w[k]
  BY DEF Has
<1> QED
  BY <1>2, <1>3, <1>4

\* A shard is read where it stands.
ShardAt(s, b, p, keys, e, C) ==
    /\ b \in Places(s) /\ IsPack(p, keys, C)
    /\ Has(s, b, ToJson(p, keys)) /\ e = b + Len(ToJson(p, keys))
TakesTo(s, t, e, u) ==
    /\ At(s, e, Comma) => NextShard(s, t) = More(u, e + 1)
    /\ At(s, e, BracketClose) => NextShard(s, t) = Read(u, e)

LEMMA ShardRead ==
    ASSUME NEW C, Marks \subseteq C, NEW s \in Seq(C), NEW b, NEW p, NEW keys, NEW e,
           ShardAt(s, b, p, keys, e, C), NEW t, t.is = "more", t.at = b,
           NEW u, u = Append(t.val, p)
    PROVE  TakesTo(s, t, e, u)
<1> USE DEF ShardAt
<1> DEFINE w == ToJson(p, keys)
<1>1. w \in Seq(C) /\ w # <<>> /\ w[1] = BraceOpen
  BY ToJsonType
<1>2. FromJson(w) = Read(p, Len(w) + 1)
  BY PackRead
<1>3. PastObject(s, b) = e
  BY ToJsonPasses
<1>4. e = b + Len(w) /\ Has(s, b, w)
  OBVIOUS
<1> HIDE DEF w
<1>5. At(s, b, BraceOpen) /\ e # 0
  <2>1. b \in Nat /\ b # 0 /\ Len(w) \in Nat
    BY <1>1, PlaceIs
  <2> QED
    BY <1>1, <1>4, <2>1, HasHead
<1>6. SkipWs(s, t.at) = b
  BY <1>5, Characters, SkipNone
<1>7. SubSeq(s, b, e - 1) = w
  BY <1>1, <1>4, CutOut
<1>8. FromJson(SubSeq(s, b, e - 1)).is = "read" /\ FromJson(SubSeq(s, b, e - 1)).val = p
  <2>1. FromJson(SubSeq(s, b, e - 1)) = Read(p, Len(w) + 1)
    BY ONLY <1>2, <1>7
  <2> QED
    BY ONLY <2>1, ReadIs
<1>9. NextShard(s, t)
        = IF At(s, SkipWs(s, e), Comma) THEN More(u, SkipWs(s, e) + 1)
          ELSE Read(u, SkipWs(s, e))
  BY <1>3, <1>5, <1>6, <1>8 DEF NextShard, TakeShard
<1>10. ASSUME At(s, e, Comma) PROVE SkipWs(s, e) = e
  BY <1>10, Characters, SkipNone
<1>11. ASSUME At(s, e, BracketClose) PROVE SkipWs(s, e) = e /\ ~At(s, e, Comma)
  BY <1>11, Characters, SkipNone, AtOnly
<1> QED
  BY <1>9, <1>10, <1>11 DEF TakesTo

ShardTexts(packs, keys) == [i \in DOMAIN packs |-> ToJson(packs[i], keys[i])]
ArePacks(packs, keys, C) == \A i \in DOMAIN packs : IsPack(packs[i], keys[i], C)

AreTexts(W, packs, keys, C) ==
    /\ W \in Seq(Seq(C)) /\ Len(W) = Len(packs)
    /\ \A i \in DOMAIN W : /\ W[i] = ToJson(packs[i], keys[i]) /\ W[i] # <<>>
                           /\ W[i][1] = BraceOpen /\ IsPack(packs[i], keys[i], C)

LEMMA ShardTextsType ==
    ASSUME NEW C, Marks \subseteq C, NEW S, NEW packs \in Seq(S), NEW keys,
           ArePacks(packs, keys, C)
    PROVE  AreTexts(ShardTexts(packs, keys), packs, keys, C)
<1> DEFINE W == ShardTexts(packs, keys)
<1>1. ASSUME NEW i \in DOMAIN packs
      PROVE  /\ W[i] = ToJson(packs[i], keys[i]) /\ IsPack(packs[i], keys[i], C)
             /\ W[i] \in Seq(C) /\ W[i] # <<>> /\ W[i][1] = BraceOpen
  <2> DEFINE p == packs[i]
             k == keys[i]
  <2>1. W[i] = ToJson(p, k) /\ IsPack(p, k, C)
    BY DEF ShardTexts, ArePacks
  <2> HIDE DEF W, p, k
  <2>2. ToJson(p, k) \in Seq(C) /\ ToJson(p, k) # <<>> /\ ToJson(p, k)[1] = BraceOpen
    BY <2>1, ToJsonType
  <2> QED
    BY <2>1, <2>2 DEF p, k
<1>2. W = [i \in DOMAIN packs |-> W[i]]
  BY DEF ShardTexts
<1> HIDE DEF W
<1>3. PerItem(W, packs, Seq(C))
  BY <1>1, <1>2 DEF PerItem
<1>4. W \in Seq(Seq(C)) /\ Len(W) = Len(packs) /\ DOMAIN W = DOMAIN packs
  BY ONLY <1>3, packs \in Seq(S), TextPerItem
<1> QED
  BY <1>1, <1>4 DEF W, AreTexts

LEMMA ShardsRead ==
    ASSUME NEW C, Marks \subseteq C, NEW S, NEW packs \in Seq(S), NEW keys,
           ArePacks(packs, keys, C)
    PROVE  ParseShardsJson(ExportShards(packs, keys)) = packs
<1> DEFINE W == ShardTexts(packs, keys)
           s == ExportShards(packs, keys)
           N == Len(packs)
           M == IF N = 0 THEN 1 ELSE N
           L == Len(s)
<1>1. /\ W \in Seq(Seq(C)) /\ Len(W) = N /\ N \in Nat /\ DOMAIN W = 1 .. N
      /\ \A i \in DOMAIN W : /\ W[i] = ToJson(packs[i], keys[i]) /\ W[i] # <<>>
                             /\ W[i][1] = BraceOpen /\ IsPack(packs[i], keys[i], C)
  <2>1. W \in Seq(Seq(C)) /\ Len(W) = N
        /\ \A i \in DOMAIN W : /\ W[i] = ToJson(packs[i], keys[i]) /\ W[i] # <<>>
                               /\ W[i][1] = BraceOpen /\ IsPack(packs[i], keys[i], C)
    <3>1. AreTexts(W, packs, keys, C)
      BY ONLY Marks \subseteq C, packs \in Seq(S), ArePacks(packs, keys, C), ShardTextsType
    <3> HIDE DEF W
    <3> QED
      BY <3>1 DEF AreTexts
  <2>2. N \in Nat
    OBVIOUS
  <2> HIDE DEF W, N
  <2>3. DOMAIN W = 1 .. N
    BY <2>1
  <2> QED
    BY <2>1, <2>2, <2>3
<1>2. s = Listed(BracketOpen, W, BracketClose)
  BY DEF ExportShards, Array, ShardTexts
<1> HIDE DEF s, W, N
<1>3. s \in Seq(C) /\ s # <<>>
  <2>1. Listable(BracketOpen, W, BracketClose, C)
    BY <1>1, MarksAre DEF Listable
  <2> QED
    BY <1>2, <2>1, ListedType
<1>4. Has(s, 1, s) /\ 1 \in Places(s) /\ L \in Nat
  BY <1>3, HasSelf
<1>5. PICK off : ListIs(s, 1, BracketOpen, W, BracketClose, off)
  BY <1>1, <1>2, <1>3, <1>4, ListLies, MarksAre
<1>6. /\ At(s, 1, BracketOpen) /\ off[0] = 2
      /\ \A i \in 0 .. N : off[i] \in Places(s) /\ off[i] >= 2 + i
      /\ \A i \in 1 .. N : /\ Begin(off, i) \in Places(s)
                           /\ Has(s, Begin(off, i), W[i])
                           /\ off[i] = Begin(off, i) + Len(W[i])
      /\ \A i \in 1 .. N - 1 : At(s, off[i], Comma)
      /\ At(s, off[N], BracketClose)
  <2>1. 1 + 1 = 2
    OBVIOUS
  <2> QED
    BY <1>1, <1>5, <2>1 DEF ListIs
<1>7. SkipWs(s, 1) = 1
  BY <1>3, <1>6, Characters, SkipNone
<1>8. ASSUME NEW i \in 1 .. N, NEW t, t.is = "more", t.at = Begin(off, i), NEW u,
             u = Append(t.val, packs[i])
      PROVE  TakesTo(s, t, off[i], u)
  <2> DEFINE b == Begin(off, i)
             p == packs[i]
             k == keys[i]
             e == off[i]
  <2>1. W[i] = ToJson(p, k) /\ IsPack(p, k, C)
    BY <1>1
  <2>2. b \in Places(s) /\ Has(s, b, ToJson(p, k)) /\ e = b + Len(ToJson(p, k))
    BY <1>6, <2>1
  <2>3. t.is = "more" /\ t.at = b /\ u = Append(t.val, p)
    BY <1>8
  <2> HIDE DEF b, p, k, e
  <2>4. ShardAt(s, b, p, k, e, C)
    BY <2>1, <2>2 DEF ShardAt
  <2>5. TakesTo(s, t, e, u)
    BY ONLY <1>3, <2>3, <2>4, Marks \subseteq C, ShardRead
  <2> QED
    BY <2>5 DEF e
<1> DEFINE start == More(<<>>, SkipWs(s, 1) + 1)
           Eq(f) == f = [n \in Nat |-> IF n = 0 THEN start ELSE NextShard(s, f[n - 1])]
           end == Read(packs, off[N])
           g == [n \in Nat |-> IF n < M THEN More(SubSeq(packs, 1, n), Begin(off, n + 1))
                               ELSE end]
           shards == CHOOSE f : Eq(f)
<1>9. /\ SubSeq(packs, 1, 0) = <<>> /\ SubSeq(packs, 1, N) = packs
      /\ \A i \in 1 .. N : SubSeq(packs, 1, i) = Append(SubSeq(packs, 1, i - 1), packs[i])
  BY TextTo DEF N
<1>10. M \in Nat /\ M # 0 /\ N <= M
  BY <1>1
<1>11. Begin(off, 1) = 2 /\ \A n \in Nat : n # 0 => Begin(off, n + 1) = off[n] + 1
  BY <1>6 DEF Begin
<1> HIDE DEF M
<1>12. start = More(<<>>, 2)
  BY <1>7
<1>13. g[0] = start
  <2>1. 0 \in Nat /\ 0 < M /\ 0 + 1 = 1
    BY <1>10
  <2>2. g[0] = More(SubSeq(packs, 1, 0), Begin(off, 0 + 1))
    BY <2>1
  <2>3. Begin(off, 0 + 1) = 2
    BY <1>11, <2>1
  <2> HIDE DEF g, start
  <2> QED
    BY <1>9, <1>12, <2>2, <2>3
<1> HIDE DEF start
<1>14. ASSUME NEW n \in Nat PROVE g[n + 1] = NextShard(s, g[n])
  <2>1. CASE n < N
    <3> DEFINE v == SubSeq(packs, 1, n)
               b == Begin(off, n + 1)
               e == off[n + 1]
               t == g[n]
               u == SubSeq(packs, 1, n + 1)
    <3>1. n + 1 \in 1 .. N /\ (n + 1) - 1 = n /\ n < M
      BY <1>1, <1>10, <2>1
    <3>2. t = More(v, b)
      BY <3>1
    <3>3. t.is = "more" /\ t.at = b /\ t.val = v
      <4> HIDE DEF t, v, b
      <4> QED
        BY ONLY <3>2, ReadIs
    <3>4. u = Append(t.val, packs[n + 1])
      BY <1>9, <3>1, <3>3
    <3>5. /\ At(s, e, Comma) => NextShard(s, t) = More(u, e + 1)
          /\ At(s, e, BracketClose) => NextShard(s, t) = Read(u, e)
      <4> HIDE DEF t, u
      <4>1. TakesTo(s, t, e, u)
        BY <1>8, <3>1, <3>3, <3>4
      <4> QED
        BY <4>1 DEF TakesTo
    <3>6. CASE n + 1 = N
      <4>1. At(s, e, BracketClose)
        BY <1>6, <3>6
      <4>2. g[n + 1] = end
        <5>1. ~(n + 1 < M)
          BY <1>1, <3>6 DEF M
        <5> QED
          BY <5>1
      <4>3. u = packs /\ e = off[N]
        BY <1>9, <3>6
      <4> HIDE DEF g, t, u, e
      <4> QED
        BY <3>5, <4>1, <4>2, <4>3 DEF t
    <3>7. CASE n + 1 # N
      <4>1. n + 1 \in 1 .. N - 1 /\ n + 1 < M /\ n + 1 \in Nat /\ n + 1 # 0
        BY <1>1, <1>10, <3>1, <3>7
      <4>2. At(s, e, Comma)
        BY <1>6, <4>1
      <4>3. Begin(off, (n + 1) + 1) = e + 1
        BY <1>11, <4>1
      <4>4. g[n + 1] = More(u, Begin(off, (n + 1) + 1))
        BY <4>1
      <4> HIDE DEF g, t, u, e
      <4> QED
        BY <3>5, <4>2, <4>3, <4>4 DEF t
    <3> QED
      BY <3>6, <3>7
  <2>2. CASE n >= N /\ n < M
    <3>1. n = 0 /\ N = 0 /\ M = 1
      BY <1>1, <2>2 DEF M
    <3>2. g[n] = start
      <4> HIDE DEF g
      <4> QED
        BY <1>13, <3>1
    <3>3. g[n + 1] = end
      BY <3>1
    <3>4. start.is = "more" /\ start.at = 2 /\ start.val = <<>>
      BY <1>12, ReadIs
    <3>5. packs = <<>>
      BY <3>1 DEF N
    <3>6. SkipWs(s, 2) = 2 /\ ~At(s, 2, BraceOpen)
      <4>1. At(s, 2, BracketClose)
        BY <1>6, <3>1
      <4> QED
        BY <1>3, <4>1, Characters, SkipNone, AtOnly
    <3>7. NextShard(s, start) = Read(<<>>, 2)
      BY <3>4, <3>6 DEF NextShard, TakeShard
    <3>8. end = Read(<<>>, 2)
      BY <1>6, <3>1, <3>5
    <3> HIDE DEF g, end
    <3> QED
      BY <3>2, <3>3, <3>7, <3>8
  <2>3. CASE n >= M
    <3>1. g[n] = end /\ g[n + 1] = end
      BY <1>10, <2>3
    <3>2. end.is # "more"
      BY ReadIs
    <3> HIDE DEF g, end
    <3>3. NextShard(s, end) = end
      BY <3>2 DEF NextShard, TakeShard
    <3> QED
      BY <3>1, <3>3
  <2> QED
    BY <1>1, <1>10, <2>1, <2>2, <2>3
<1>15. Eq(g)
  <2> HIDE DEF g
  <2>1. g = [n \in Nat |-> g[n]]
    BY DEF g
  <2>2. ASSUME NEW n \in Nat
        PROVE  g[n] = IF n = 0 THEN start ELSE NextShard(s, g[n - 1])
    <3>1. CASE n = 0
      BY <1>13, <3>1
    <3>2. CASE n # 0
      <4>1. n - 1 \in Nat /\ (n - 1) + 1 = n
        BY <3>2
      <4>2. g[(n - 1) + 1] = NextShard(s, g[n - 1])
        BY <1>14, <4>1
      <4> QED
        BY <3>2, <4>1, <4>2
    <3> QED
      BY <3>1, <3>2
  <2> QED
    BY <2>1, <2>2
<1>16. ParseShardsJson(s) = Ended(shards, L).val
  <2>1. At(s, SkipWs(s, 1), BracketOpen)
    BY <1>6, <1>7
  <2> QED
    BY <2>1 DEF ParseShardsJson, start
<1>17. Eq(shards)
  <2> HIDE DEF Eq
  <2> QED
    BY <1>15
<1> HIDE DEF shards
<1>18. \A n \in Nat : shards[n] = g[n]
  <2> HIDE DEF g
  <2>1. shards[0] = g[0]
    BY <1>13, <1>17
  <2>2. ASSUME NEW n \in Nat, shards[n] = g[n] PROVE shards[n + 1] = g[n + 1]
    <3>1. n + 1 \in Nat /\ n + 1 # 0 /\ (n + 1) - 1 = n
      OBVIOUS
    <3>2. shards[n + 1] = NextShard(s, shards[n])
      BY <1>17, <3>1
    <3> QED
      BY <1>14, <2>2, <3>2
  <2> HIDE DEF Eq
  <2> QED
    BY <2>1, <2>2, SameRun
<1>19. M \in 0 .. L
  <2>1. 0 \in 0 .. N /\ N \in 0 .. N
    BY <1>1
  <2>2. off[N] \in 1 .. L /\ off[N] >= 2 + N
    <3>1. off[N] \in DOMAIN s
      BY <1>6, AtOnly
    <3> QED
      BY <1>3, <1>6, <2>1, <3>1, PlaceIs
  <2>3. M <= N + 1
    BY <1>1 DEF M
  <2> QED
    BY <1>1, <1>4, <1>10, <2>2, <2>3
<1>20. Stops(shards, M, end)
  <2>1. \A n \in Nat : n < M => g[n].is = "more"
    BY ReadIs
  <2>2. \A n \in Nat : n >= M => g[n] = end
    BY <1>10
  <2>3. end.is # "more"
    BY ReadIs
  <2> HIDE DEF g, end
  <2>4. \A n \in 0 .. M - 1 : n \in Nat /\ n < M
    BY <1>10
  <2>5. \A n \in 0 .. M - 1 : shards[n].is = "more"
    BY <1>18, <2>1, <2>4
  <2> QED
    BY ONLY <1>18, <2>2, <2>3, <2>5 DEF Stops
<1>21. Ended(shards, L) = end
  <2> HIDE DEF end, g, Eq, L
  <2> QED
    BY ONLY <1>4, <1>19, <1>20, EndIs
<1> QED
  BY <1>16, <1>21, ReadIs DEF s

-----------------------------------------------------------------------------
(* What comes back.                                                        *)

\* The packs whose strings are sequences over C, and the orders in which the map of
\* a pack may give its parameters.
ParamMaps(C) == UNION {[K -> Seq(Seq(C))] : K \in SUBSET Seq(C)}
PacksOver(C) ==
    [mod : Seq(C), func : Seq(C), params : ParamMaps(C), success : BOOLEAN, ret : Seq(C)]
Orders(p) ==
    {keys \in Seq(DOMAIN p.params) :
       \A k \in DOMAIN p.params : \E i \in DOMAIN keys : keys[i] = k}

\* A pack of PacksOverOver(C) in one of its orders, over an alphabet that has the marks.
LEMMA PackIs ==
    ASSUME NEW C, NEW p \in PacksOver(C), NEW keys \in Orders(p)
    PROVE  IsPack(p, keys, C \cup Marks)
<1> DEFINE D == C \cup Marks
<1>1. /\ p.mod \in Seq(C) /\ p.func \in Seq(C) /\ p.ret \in Seq(C)
      /\ p.success \in BOOLEAN /\ p.params \in ParamMaps(C)
  BY DEF PacksOver
<1>2. p = Pack(p.mod, p.func, p.params, p.success, p.ret)
  BY DEF PacksOver, Pack
<1>3. Seq(C) \subseteq Seq(D) /\ Seq(Seq(C)) \subseteq Seq(Seq(D))
  <2>1. ASSUME NEW A, NEW B, A \subseteq B PROVE Seq(A) \subseteq Seq(B)
    BY <2>1
  <2>2. Seq(C) \subseteq Seq(D)
    BY <2>1
  <2>3. Seq(Seq(C)) \subseteq Seq(Seq(D))
    BY <2>1, <2>2
  <2> QED
    BY <2>2, <2>3
<1>4. PICK K \in SUBSET Seq(C) : p.params \in [K -> Seq(Seq(C))]
  BY <1>1 DEF ParamMaps
<1>5. DOMAIN p.params \subseteq Seq(D) /\ p.params \in [DOMAIN p.params -> Seq(Seq(D))]
  BY <1>3, <1>4
<1>6. ParamKeys(p.params, keys, D)
  BY <1>5 DEF ParamKeys, Orders
<1> QED
  BY <1>1, <1>2, <1>3, <1>6 DEF IsPack, Orders

\* The shards of a task come back from its snapshot, as many as there are and in
\* their order: modules, functions, parameters, flags and results, over any
\* characters and in whatever order the maps gave the parameters (Task.cpp:224-232
\* and 164-207, ParmarPack.h:200-444).
THEOREM ShardsComeBack ==
    ASSUME NEW C, NEW packs \in Seq(PacksOver(C)), NEW keys,
           \A i \in DOMAIN packs : keys[i] \in Orders(packs[i])
    PROVE  ParseShardsJson(ExportShards(packs, keys)) = packs
<1>1. ASSUME NEW i \in DOMAIN packs PROVE IsPack(packs[i], keys[i], C \cup Marks)
  <2>1. packs[i] \in PacksOver(C)
    OBVIOUS
  <2> QED
    BY <2>1, PackIs
<1>2. ArePacks(packs, keys, C \cup Marks)
  BY <1>1 DEF ArePacks
<1>3. Marks \subseteq C \cup Marks
  OBVIOUS
<1> QED
  BY ONLY <1>2, <1>3, packs \in Seq(PacksOver(C)), ShardsRead

\* A string of any characters is read back from what Escape writes, to the end of
\* the text (ParmarPack.h:200-252).
THEOREM StringComesBack ==
    ASSUME NEW C, NEW text \in Seq(C)
    PROVE  ParseString(Escape(text), 1) = Read(text, Len(Escape(text)) + 1)
<1> DEFINE D == C \cup Marks
           s == Escape(text)
<1>1. text \in Seq(D) /\ Marks \subseteq D
  OBVIOUS
<1>2. s \in Seq(D)
  BY <1>1, EscapeType
<1>3. 1 \in Places(s) /\ Len(s) \in Nat
  BY <1>2 DEF Places
<1>4. Has(s, 1, s)
  BY <1>2 DEF Has
<1>5. ParseString(s, 1) = Read(text, 1 + Len(s))
  <2> HIDE DEF D, s
  <2> QED
    BY <1>1, <1>2, <1>3, <1>4, StringRead DEF s
<1> QED
  BY <1>3, <1>5

\* The packs and strings of a run are such packs and strings.
Chars == Special \cup {"M", "f", "k"}

LEMMA ShortStrings == \A n \in Nat : StringsUpTo(n) \subseteq Seq(Chars)
<1>1. ASSUME NEW n \in Nat, NEW t \in StringsUpTo(n) PROVE t \in Seq(Chars)
  <2>1. PICK k \in 0 .. n : t \in [1 .. k -> Special]
    BY DEF StringsUpTo
  <2>2. k \in Nat /\ t \in [1 .. k -> Chars]
    BY <2>1 DEF Chars
  <2> QED
    BY <2>2
<1> QED
  BY <1>1

LEMMA OneShardIs ==
    ASSUME NEW text \in Seq(Chars)
    PROVE  OneShard(text) \in PacksOver(Chars) /\ << <<"k">> >> \in Orders(OneShard(text))
<1> DEFINE ps == [k \in {<<"k">>} |-> <<text, <<>> >>]
<1>1. <<"M">> \in Seq(Chars) /\ <<"k">> \in Seq(Chars) /\ <<text, <<>> >> \in Seq(Seq(Chars))
  <2>1. "M" \in Chars /\ "k" \in Chars /\ <<>> \in Seq(Chars)
    BY DEF Chars
  <2> QED
    BY <2>1
<1>2. ps \in ParamMaps(Chars) /\ DOMAIN ps = {<<"k">>}
  <2>1. {<<"k">>} \in SUBSET Seq(Chars) /\ ps \in [{<<"k">>} -> Seq(Seq(Chars))]
    BY <1>1
  <2> HIDE DEF ps
  <2> QED
    BY <2>1 DEF ParamMaps
<1> HIDE DEF ps
<1>3. OneShard(text) = Pack(<<"M">>, text, ps, TRUE, text)
  BY DEF OneShard, ps
<1>4. OneShard(text).params = ps
  BY <1>3 DEF Pack
<1>5. << <<"k">> >> \in Seq(DOMAIN ps) /\ 1 \in DOMAIN << <<"k">> >> /\ << <<"k">> >>[1] = <<"k">>
  BY <1>2
<1>6. << <<"k">> >> \in Orders(OneShard(text))
  BY <1>2, <1>4, <1>5 DEF Orders
<1> QED
  BY <1>1, <1>2, <1>3, <1>6 DEF PacksOver, Pack

LEMMA NewPackIs == NewPack \in PacksOver(Chars) /\ <<>> \in Orders(NewPack)
<1> DEFINE ps == [k \in {} |-> <<>>]
<1>1. ps \in ParamMaps(Chars) /\ DOMAIN ps = {}
  <2>1. {} \in SUBSET Seq(Chars) /\ ps \in [{} -> Seq(Seq(Chars))]
    OBVIOUS
  <2> HIDE DEF ps
  <2> QED
    BY <2>1 DEF ParamMaps
<1> HIDE DEF ps
<1>2. NewPack = Pack(<<>>, <<>>, ps, FALSE, <<>>)
  BY DEF NewPack, ps
<1>3. NewPack.params = ps
  BY <1>2 DEF Pack
<1>4. <<>> \in Orders(NewPack)
  BY <1>1, <1>3 DEF Orders
<1> QED
  BY <1>1, <1>2, <1>4 DEF PacksOver, Pack

LEMMA TwoKeysIs ==
    ASSUME NEW v \in Seq(Chars), NEW w \in Seq(Chars), w # <<BraceOpen>>,
           NEW keys \in KeysOf(TwoKeys(v, w))
    PROVE  TwoKeys(v, w) \in PacksOver(Chars) /\ keys \in Orders(TwoKeys(v, w))
<1> DEFINE K == {<<BraceOpen>>, w}
           ps == [k \in K |-> IF k = w THEN <<w, v>> ELSE <<v>>]
<1>1. /\ <<"M">> \in Seq(Chars) /\ <<"f">> \in Seq(Chars) /\ <<BraceOpen>> \in Seq(Chars)
      /\ <<w, v>> \in Seq(Seq(Chars)) /\ <<v>> \in Seq(Seq(Chars))
  <2>1. "M" \in Chars /\ "f" \in Chars /\ BraceOpen \in Chars
    BY DEF Chars, Special
  <2> QED
    BY <2>1
<1>2. ps \in ParamMaps(Chars) /\ DOMAIN ps = K
  <2>1. K \in SUBSET Seq(Chars) /\ ps \in [K -> Seq(Seq(Chars))]
    BY <1>1
  <2> HIDE DEF ps, K
  <2> QED
    BY <2>1 DEF ParamMaps
<1> HIDE DEF ps
<1>3. TwoKeys(v, w) = Pack(<<"M">>, <<"f">>, ps, FALSE, w)
  BY DEF TwoKeys, ps
<1>4. TwoKeys(v, w).params = ps
  BY <1>3 DEF Pack
<1>5. Cardinality(K) = 2
  <2> DEFINE A == {<<BraceOpen>>}
  <2>1. K = A \cup {w} /\ w \notin A
    OBVIOUS
  <2>2. IsFiniteSet(A) /\ Cardinality(A) = 1
    BY FS_Singleton
  <2> HIDE DEF A, K
  <2>3. Cardinality(A \cup {w}) = Cardinality(A) + 1
    BY <2>1, <2>2, FS_AddElement
  <2> QED
    BY <2>1, <2>2, <2>3
<1>6. keys \in [1 .. 2 -> K] /\ keys[1] # keys[2]
  <2>1. keys \in SetToSeqs(K)
    BY <1>2, <1>4 DEF KeysOf
  <2> HIDE DEF K
  <2>2. /\ keys \in [1 .. 2 -> K]
        /\ \A i, j \in 1 .. 2 : i # j => keys[i] # keys[j]
    BY <1>5, <2>1 DEF SetToSeqs
  <2> QED
    BY <2>2
<1> HIDE DEF K
<1>7. keys \in Orders(TwoKeys(v, w))
  <2>1. keys \in Seq(K) /\ DOMAIN keys = 1 .. 2 /\ keys[1] \in K /\ keys[2] \in K
    <3>1. ASSUME NEW n \in Nat, NEW A, NEW f \in [1 .. n -> A] PROVE f \in Seq(A)
      OBVIOUS
    <3>2. keys \in Seq(K)
      BY <1>6, <3>1
    <3>3. DOMAIN keys = 1 .. 2 /\ 1 \in 1 .. 2 /\ 2 \in 1 .. 2
      BY <1>6
    <3> QED
      BY <1>6, <3>2, <3>3
  <2>2. \A k \in K : k = keys[1] \/ k = keys[2]
    BY <1>6, <2>1 DEF K
  <2>3. \A k \in K : \E i \in DOMAIN keys : keys[i] = k
    BY <2>1, <2>2
  <2> QED
    BY <1>2, <1>4, <2>1, <2>3 DEF Orders
<1> QED
  BY <1>1, <1>2, <1>3, <1>7 DEF PacksOver, Pack

\* The shards of the engine's tasks come back, whatever the strings in them hold and
\* in whatever order their parameters were written.
THEOREM SnapshotBack == SnapshotComesBack
<1>1. ASSUME NEW t \in StringsUpTo(2)
      PROVE  LET p == OneShard(t)
             IN  ParseShardsJson(ExportShards(<<p, NewPack, p>>,
                                              << << <<"k">> >>, <<>>, << <<"k">> >> >>))
                   = <<p, NewPack, p>>
  <2> DEFINE p == OneShard(t)
             packs == <<p, NewPack, p>>
             keys == << << <<"k">> >>, <<>>, << <<"k">> >> >>
  <2>1. p \in PacksOver(Chars) /\ << <<"k">> >> \in Orders(p)
    BY ShortStrings, OneShardIs
  <2> HIDE DEF p
  <2>2. packs \in Seq(PacksOver(Chars)) /\ DOMAIN packs = 1 .. 3
    BY <2>1, NewPackIs
  <2>3. ASSUME NEW i \in DOMAIN packs PROVE keys[i] \in Orders(packs[i])
    <3>1. i \in {1, 2, 3}
      BY <2>2
    <3> QED
      BY <2>1, <3>1, NewPackIs
  <2> HIDE DEF packs, keys
  <2>4. ParseShardsJson(ExportShards(packs, keys)) = packs
    BY ONLY <2>2, <2>3, ShardsComeBack
  <2> QED
    BY <2>4 DEF packs, keys, p
<1>2. ASSUME NEW t \in StringsUpTo(3)
      PROVE  ParseString(Escape(t), 1) = Read(t, Len(Escape(t)) + 1)
  <2>1. t \in Seq(Chars)
    BY ShortStrings
  <2> QED
    BY <2>1, StringComesBack
<1>3. ASSUME NEW v \in StringsUpTo(1) \ {<<BraceOpen>>}, NEW w \in StringsUpTo(1) \ {<<BraceOpen>>},
             NEW one \in KeysOf(TwoKeys(v, w)), NEW two \in KeysOf(TwoKeys(v, w))
      PROVE  LET p == TwoKeys(v, w)
             IN  ParseShardsJson(ExportShards(<<p, p>>, <<one, two>>)) = <<p, p>>
  <2> DEFINE p == TwoKeys(v, w)
             packs == <<p, p>>
             keys == <<one, two>>
  <2>1. v \in Seq(Chars) /\ w \in Seq(Chars) /\ w # <<BraceOpen>>
    BY ShortStrings
  <2>2. p \in PacksOver(Chars) /\ one \in Orders(p) /\ two \in Orders(p)
    BY <2>1, TwoKeysIs
  <2> HIDE DEF p
  <2>3. packs \in Seq(PacksOver(Chars)) /\ DOMAIN packs = 1 .. 2
    BY <2>2
  <2>4. ASSUME NEW i \in DOMAIN packs PROVE keys[i] \in Orders(packs[i])
    <3>1. i \in {1, 2}
      BY <2>3
    <3> QED
      BY <2>2, <3>1
  <2> HIDE DEF packs, keys
  <2>5. ParseShardsJson(ExportShards(packs, keys)) = packs
    BY ONLY <2>3, <2>4, ShardsComeBack
  <2> QED
    BY <2>5 DEF packs, keys, p
<1> QED
  BY <1>1, <1>2, <1>3, Zenon DEF SnapshotComesBack

\* What the store holds gives back the shards it was taken from.
THEOREM StoredBack == Spec => []StoredComesBack
<1>1. StoredComesBack
  BY SnapshotBack DEF StoredComesBack
<1> QED
  BY <1>1, PTL
=============================================================================
