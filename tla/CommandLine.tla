---------------------------- MODULE CommandLine ----------------------------
(***************************************************************************)
(* The command line: how parser/CommandParser.cpp cuts a typed line into   *)
(* words, and the words into a pack (a ParmarPack: module, function and    *)
(* parameters).  Nothing here keeps state; the queue the packs wait in is  *)
(* the variable packs of ShellLoop.                                        *)
(*                                                                         *)
(* A line is a sequence of characters.  A character is a one-letter        *)
(* string; a run of characters that no operator below looks into may be    *)
(* one element ("-m" stands for two).                                      *)
(***************************************************************************)
EXTENDS Naturals, Sequences, FiniteSets, SequencesExt

Blanks == {" "}                        \* isspace
DQuote == "\""
SQuote == "'"
BackSlash == "\\"
Colon == ":"
Comma == ","
Pipe == "|"

-----------------------------------------------------------------------------
(* TokenizeCommand.                                                        *)

\* What closes the mode the tokenizer is in, and the characters a backslash
\* protects there.  Before any other character the backslash is literal, so
\* that the path C:\dir stays whole.
Closes == [IN_DQUOTE |-> DQuote, IN_SQUOTE |-> SQuote]
Opens == [c \in {DQuote, SQuote} |-> IF c = DQuote THEN "IN_DQUOTE" ELSE "IN_SQUOTE"]
Escapable == [NORMAL |-> {DQuote, SQuote, BackSlash} \cup Blanks,
              IN_DQUOTE |-> {DQuote, BackSlash},
              IN_SQUOTE |-> {SQuote, BackSlash}]

\* The variables of the loop.
State(pos, mode, current, tokens) ==
  [pos |-> pos, mode |-> mode, current |-> current, tokens |-> tokens]
Start == State(1, "NORMAL", <<>>, <<>>)

\* The tokens after the end of a token; an empty one is dropped, also when it was
\* quoted.
Cut(t) == IF t.current = <<>> THEN t.tokens ELSE Append(t.tokens, t.current)

\* Mutant of Split: current is not cleared.
SplitWithoutClear(t) == State(t.pos + 1, t.mode, t.current, Cut(t))

\* What a character may do: n characters are read and c is kept, a quote is read,
\* a blank is read.
Keep(t, c, n) == State(t.pos + n, t.mode, Append(t.current, c), t.tokens)
Turn(t, m) == State(t.pos + 1, m, t.current, t.tokens)
Split(t) == State(t.pos + 1, t.mode, <<>>, Cut(t))

\* The body of the loop; after the last character nothing changes any more.
ReadChar(cmd, t) ==
  LET ch == cmd[t.pos]
      escape == ch = BackSlash /\ t.pos < Len(cmd) /\ cmd[t.pos + 1] \in Escapable[t.mode]
      quoted == t.mode # "NORMAL"
  IN  CASE escape -> Keep(t, cmd[t.pos + 1], 2)
        [] quoted /\ ch = Closes[t.mode] -> Turn(t, "NORMAL")
        [] ~quoted /\ ch \in DOMAIN Opens -> Turn(t, Opens[ch])
        [] ~quoted /\ ch \in Blanks -> Split(t)
        [] OTHER -> Keep(t, ch, 1)
Step(cmd, t) == IF t.pos > Len(cmd) THEN t ELSE ReadChar(cmd, t)

\* read[n] is where the loop is after n rounds.  An open quote ends with the line.
TokenizeCommand(cmd) ==
  LET read[n \in Nat] == IF n = 0 THEN Start ELSE Step(cmd, read[n - 1])
  IN  Cut(read[Len(cmd)])

-----------------------------------------------------------------------------
(* The writers of the heads -m:, -f: and -v:.                              *)

\* Mutant of Find: the last one (rfind).
FindLast(s, c) == SelectLastInSeq(s, LAMBDA x : x = c)

\* The position of the first c in a string, 0 when there is none.
Find(s, c) == SelectInSeq(s, LAMBDA x : x = c)

Trim(s) ==
  LET inked == {i \in DOMAIN s : s[i] \notin Blanks}
  IN  IF inked = {} THEN <<>>
      ELSE SubSeq(s, CHOOSE i \in inked : \A j \in inked : i <= j,
                     CHOOSE i \in inked : \A j \in inked : j <= i)

Pack(mod, func, params) == [mod |-> mod, func |-> func, params |-> params]
NoParams == [k \in {} |-> <<>>]
NewPack == Pack(<<>>, <<>>, NoParams)

\* params[k].push_back(v): a key may come twice and keeps both values.
PushParam(params, k, v) ==
  [key \in DOMAIN params \cup {k} |->
     LET old == IF key \in DOMAIN params THEN params[key] ELSE <<>>
     IN  IF key = k THEN Append(old, v) ELSE old]

\* A piece key|value of -v: is cut at its first pipe; one without is dropped.
WritePair(pack, pair) ==
  LET pipe == Find(pair, Pipe)
  IN  IF pipe = 0 THEN pack
      ELSE [pack EXCEPT !.params =
              PushParam(@, Trim(SubSeq(pair, 1, pipe - 1)),
                           Trim(SubSeq(pair, pipe + 1, Len(pair))))]

\* The pieces key|value of a value, between its commas, from the first to the
\* last; t is where the next piece begins and the pack so far.
PairState(pos, pack) == [pos |-> pos, pack |-> pack]
PieceEnd(rest) == IF Find(rest, Comma) = 0 THEN Len(rest) + 1 ELSE Find(rest, Comma)
NextPair(val, t) ==
  LET rest == SubSeq(val, t.pos, Len(val))
      end == PieceEnd(rest)
  IN  IF t.pos > Len(val) THEN t
      ELSE PairState(t.pos + end, WritePair(t.pack, SubSeq(rest, 1, end - 1)))
WritePairs(pack, val) ==
  LET written[n \in 0 .. Len(val)] ==
        IF n = 0 THEN PairState(1, pack) ELSE NextPair(val, written[n - 1])
  IN  written[Len(val)].pack

Heads == {"-m", "-f", "-v"}
CmdWriter(head, pack, val) ==
  CASE head = "-m" -> [pack EXCEPT !.mod = Trim(val)]
    [] head = "-f" -> [pack EXCEPT !.func = Trim(val)]
    [] head = "-v" -> WritePairs(pack, val)

-----------------------------------------------------------------------------
(* HandleTXT: a line gives one pack or is refused.                         *)

\* A token is a head up to its first colon and a value behind it; a token
\* without a colon and one with a head nobody registered are passed over.
WriteToken(pack, token) ==
  LET colon == Find(token, Colon)
      val == SubSeq(token, colon + 1, Len(token))
  IN  IF colon = 2 /\ token[1] \in Heads THEN CmdWriter(token[1], pack, val) ELSE pack

PackOf(tokens) ==
  LET pack[n \in 0 .. Len(tokens)] ==
        IF n = 0 THEN NewPack ELSE WriteToken(pack[n - 1], tokens[n])
  IN  pack[Len(tokens)]

HandleTXT(cmd) ==
  LET pack == PackOf(TokenizeCommand(cmd))
  IN  [accepted |-> cmd # <<>> /\ pack.mod # <<>>, pack |-> pack]

-----------------------------------------------------------------------------
(* Reference: how a person writes a word down, in each of the three ways   *)
(* the parser offers.                                                      *)

\* A backslash goes before every character the mode protects.  A careful typist
\* doubles every backslash, a lazy one only those that would eat what follows.
Protect(word, mode, lazy) ==
  LET bare(i) == \/ word[i] \notin Escapable[mode]
                 \/ /\ lazy
                    /\ word[i] = BackSlash
                    /\ i < Len(word) /\ word[i + 1] \notin Escapable[mode]
  IN  FlattenSeq([i \in DOMAIN word |->
                    IF bare(i) THEN <<word[i]>> ELSE <<BackSlash, word[i]>>])

Typed(word, mode, lazy) ==
  LET body == Protect(word, mode, lazy)
  IN  IF mode = "NORMAL" THEN body ELSE <<Closes[mode]>> \o body \o <<Closes[mode]>>

Modes == DOMAIN Escapable

\* A word is typed in one or more parts, as -v:"msg|hello world" is in two, and
\* stands behind some blanks.
Parts(Chars) == [text : Seq(Chars), mode : Modes, lazy : BOOLEAN]
TextOf(word) == FlattenSeq([i \in DOMAIN word.parts |-> word.parts[i].text])
Words(Chars) == {w \in [gap : Seq(Blanks), parts : Seq(Parts(Chars))] : TextOf(w) # <<>>}

\* What stands for a word and for a line.
TypedWord(word) ==
  word.gap \o FlattenSeq([i \in DOMAIN word.parts |->
                Typed(word.parts[i].text, word.parts[i].mode, word.parts[i].lazy)])
TypedLine(words, end) == FlattenSeq([i \in DOMAIN words |-> TypedWord(words[i])]) \o end

\* The lines in which a blank stands before every word but the first.
LinesOver(Chars) == {ws \in Seq(Words(Chars)) : \A i \in DOMAIN ws : i > 1 => ws[i].gap # <<>>}

\* The words typed are the tokens read.
ComesBack(words, end) ==
  TokenizeCommand(TypedLine(words, end)) = [i \in DOMAIN words |-> TextOf(words[i])]

Alphabet == {"a", " ", DQuote, SQuote, BackSlash}
TextsUpTo(n) == UNION {[1..k -> Alphabet] : k \in 1..n}
PartsUpTo(n) == [text : TextsUpTo(n), mode : Modes, lazy : {TRUE}]
Alone(part) == [gap |-> <<>>, parts |-> <<part>>]
Apart(part) == [gap |-> <<" ", " ">>, parts |-> <<part>>]

(* Words typed bare, in double or in single quotes, or in parts of several *)
(* kinds, separated by blanks and with blanks around them, come out of     *)
(* TokenizeCommand as they were meant: quoting protects blanks, a          *)
(* backslash before any other character stays, an escape never eats the    *)
(* quote or the blank that follows the word, and no mode leaks into the    *)
(* next word (CommandParser.cpp:40-155).                                   *)
TokensAreWords ==
  /\ \A w \in TextsUpTo(3), m \in Modes, lazy \in BOOLEAN :
       ComesBack(<<Alone([text |-> w, mode |-> m, lazy |-> lazy])>>, <<>>)
  /\ \A p, q \in PartsUpTo(2) :
       /\ ComesBack(<<Apart(p), Apart(q)>>, <<" ">>)
       /\ ComesBack(<<[gap |-> <<>>, parts |-> <<p, q>>]>>, <<>>)

\* A head and its value, the value quoted as in -v:"msg|hello world".
HeadWord(head, val, mode) ==
  [gap |-> <<" ">>,
   parts |-> << [text |-> <<head, Colon>>, mode |-> "NORMAL", lazy |-> TRUE],
                [text |-> val, mode |-> mode, lazy |-> TRUE] >>]
Pair(k, v) == k \o <<Pipe>> \o v

\* Names are trimmed, and a module has one.  A comma would end a value and a pipe
\* a key; everything else may stand in them, in a value a pipe too.
Names(Chars) == {v \in Seq(Chars) : Trim(v) = v}
Values(Chars) == {v \in Names(Chars) : Comma \notin Range(v)}
Keys(Chars) == {k \in Values(Chars) : Pipe \notin Range(k)}

\* The pack that is meant, and two ways to type it: one -v: for both pairs, or
\* one for each, in another order and with a word the parser does not know.
Given(mod, func, k1, v1, k2, v2) ==
  Pack(mod, func, PushParam(PushParam(NoParams, k1, v1), k2, v2))
Joined(mod, func, k1, v1, k2, v2, mode) ==
  << HeadWord("-m", mod, mode), HeadWord("-f", func, mode),
     HeadWord("-v", Pair(k1, v1) \o <<Comma>> \o Pair(k2, v2), mode) >>
Spread(mod, func, k1, v1, k2, v2, mode) ==
  << HeadWord("-v", Pair(k1, v1), mode), HeadWord("-x", v1, mode),
     HeadWord("-f", func, mode), HeadWord("-v", Pair(k2, v2), mode),
     HeadWord("-m", mod, mode) >>

ReadAsMeant(mod, func, k1, v1, k2, v2, mode) ==
  \A words \in {Joined(mod, func, k1, v1, k2, v2, mode),
                Spread(mod, func, k1, v1, k2, v2, mode)} :
    HandleTXT(TypedLine(words, <<>>))
      = [accepted |-> TRUE, pack |-> Given(mod, func, k1, v1, k2, v2)]

Inked == {"a", " ", DQuote, BackSlash, Colon, Pipe}
ShortValues == {v \in UNION {[1..n -> Inked] : n \in 0..2} : v \in Values(Inked)}

(* A pack is read as it was typed, whatever the order of its heads, with   *)
(* its values given in one -v: or spread over two, and with a word the     *)
(* parser does not know between them (CommandParser.cpp:160-277).          *)
PackAsTyped ==
  \A v1, v2 \in ShortValues, k2 \in {<<"k">>, <<"l">>}, mode \in Modes :
    ReadAsMeant(<<"M">>, <<"f">>, <<"k">>, v1, k2, v2, mode)
=============================================================================
