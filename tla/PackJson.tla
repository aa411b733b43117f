------------------------------ MODULE PackJson ------------------------------
(***************************************************************************)
(* What a snapshot of a task is made of: a shard (a ParmarPack) written as *)
(* JSON and read back (sdk/ParmarPack.h), and the array of shards          *)
(* (core/Task.cpp).  TaskEngine lets a restored task have the very shards  *)
(* that were exported; the properties below are why it may.                *)
(*                                                                         *)
(* A text is a sequence of characters, a character a one-letter string.    *)
(* One element stands for several where no operator looks inside: the      *)
(* field names, the scalars true, false and null, and the four digits of a *)
(* \u escape.  A reading is a record: whether it succeeded, the position   *)
(* behind what was read, and the value.                                    *)
(***************************************************************************)
EXTENDS Integers, Sequences, FiniteSets, SequencesExt

DQuote == "\""
BackSlash == "\\"
Comma == ","
Colon == ":"
Space == " "
BraceOpen == "{"
BraceClose == "}"
BracketOpen == "["
BracketClose == "]"

\* A reading that failed, one that is through, and one with more to read.
Failed == [is |-> "failed", at |-> 0, val |-> <<>>]
Read(val, at) == [is |-> "read", at |-> at, val |-> val]
More(val, at) == [is |-> "more", at |-> at, val |-> val]

\* A loop is a function of the number of rounds; every round reads a character at
\* least, and one that ends the loop leaves more to do no longer.
Ended(loop, rounds) == loop[CHOOSE n \in 0 .. rounds : loop[n].is # "more"]

At(s, i, c) == i \in DOMAIN s /\ s[i] = c
Places(s) == 1 .. Len(s) + 1
Quoted(text) == <<DQuote>> \o text \o <<DQuote>>

-----------------------------------------------------------------------------
(* Strings.                                                                *)

\* The letter behind the backslash for a character that must be escaped, and
\* the \u digits of a control character without a letter of its own.
Lettered == {DQuote, BackSlash, "newline", "return", "tab"}
Letter == [c \in Lettered |-> CASE c = "newline" -> "n" [] c = "return" -> "r"
                                [] c = "tab" -> "t" [] OTHER -> c]
Digits == [c \in {"bell"} |-> "0007"]

\* Mutant of EscapeChar: a backslash is written as it is.
EscapeQuotesOnly(c) ==
  IF c \in Lettered \ {BackSlash} THEN <<BackSlash, Letter[c]>>
  ELSE IF c \in DOMAIN Digits THEN <<BackSlash, "u", Digits[c]>> ELSE <<c>>

EscapeChar(c) ==
  CASE c \in Lettered -> <<BackSlash, Letter[c]>>
    [] c \in DOMAIN Digits -> <<BackSlash, "u", Digits[c]>>
    [] OTHER -> <<c>>

Escape(text) == Quoted(FlattenSeq([i \in DOMAIN text |-> EscapeChar(text[i])]))

\* The first place from i on that holds none of the characters.
Past(chars, s, i) ==
  CHOOSE j \in i .. Len(s) + 1 : /\ j = Len(s) + 1 \/ s[j] \notin chars
                                 /\ \A k \in i .. j - 1 : s[k] \in chars
SkipWs(s, i) == Past({Space, "tab", "newline", "return"}, s, i)

\* The character an escape stands for; i is behind the backslash.
Unescape(s, i) ==
  CASE \E c \in Lettered : At(s, i, Letter[c]) ->
         Read(CHOOSE c \in Lettered : s[i] = Letter[c], i + 1)
    [] At(s, i, "u") /\ \E c \in DOMAIN Digits : At(s, i + 1, Digits[c]) ->
         Read(CHOOSE c \in DOMAIN Digits : s[i + 1] = Digits[c], i + 2)
    [] OTHER -> Failed

Character(s, t) ==
  LET e == Unescape(s, t.at + 1)
  IN  CASE t.is # "more" -> t
        [] t.is = "more" /\ At(s, t.at, DQuote) -> Read(t.val, t.at + 1)
        [] t.is = "more" /\ At(s, t.at, BackSlash) ->
             IF e.is = "read" THEN More(Append(t.val, e.val), e.at) ELSE Failed
        [] t.is = "more" /\ t.at > Len(s) -> Failed
        [] OTHER -> More(Append(t.val, s[t.at]), t.at + 1)
ParseString(s, i) ==
  LET chars[n \in Nat] ==
        IF n = 0 THEN More(<<>>, i + 1) ELSE Character(s, chars[n - 1])
  IN  IF At(s, i, DQuote) THEN Ended(chars, Len(s)) ELSE Failed

-----------------------------------------------------------------------------
(* Lists of items between brackets: the array of a parameter's values, the *)
(* object of all parameters, the fields of a pack, and the members of an   *)
(* unknown value.  item[i] is what is read from place i.                   *)

\* An item and what is behind it; a comma must have another item behind it.
NextItem(item, s, close, t) ==
  LET read == item[t.at]
      j == SkipWs(s, read.at)
      vals == Append(t.val, read.val)
  IN  CASE t.is # "more" -> t
        [] t.is = "more" /\ read.is = "read" /\ At(s, j, Comma) ->
             More(vals, SkipWs(s, j + 1))
        [] t.is = "more" /\ read.is = "read" /\ At(s, j, close) -> Read(vals, j + 1)
        [] OTHER -> Failed

List(item, s, i, open, close) ==
  LET j == SkipWs(s, i)
      k == SkipWs(s, j + 1)
      items[n \in Nat] ==
        IF n = 0 THEN More(<<>>, k) ELSE NextItem(item, s, close, items[n - 1])
  IN  CASE ~At(s, j, open) -> Failed
        [] At(s, j, open) /\ At(s, k, close) -> Read(<<>>, k + 1)
        [] OTHER -> Ended(items, Len(s))

ParseStringArray(s, i) ==
  List([k \in Places(s) |-> ParseString(s, k)], s, i, BracketOpen, BracketClose)

\* A member of an object is a name, a colon and a value; it is read as the pair
\* of the name and the value.
WithColon(s, name) ==
  LET j == SkipWs(s, name.at)
  IN  IF name.is = "read" /\ At(s, j, Colon) THEN Read(name.val, j + 1) ELSE Failed
MemberName(s, i) == WithColon(s, ParseString(s, i))
Named(name, value) ==
  IF name.is = "read" /\ value.is = "read" THEN Read(<<name.val, value.val>>, value.at)
  ELSE Failed

\* Any value, read for its length only.  A scalar may be empty: the code takes
\* {"x":} for an object.
Scalars == {"true", "false", "null", "7", "-", "n", "u"}

\* Mutant of SkipValue: an array is taken to hold strings.
SkipFlatValue(s, start) ==
  LET skip[i \in Places(s)] ==
        LET j == SkipWs(s, i)
            member == [k \in Places(s) |->
                         LET name == MemberName(s, k) IN Named(name, skip[name.at])]
        IN  CASE j > Len(s) -> Failed
              [] At(s, j, DQuote) -> ParseString(s, j)
              [] At(s, j, BraceOpen) -> List(member, s, j, BraceOpen, BraceClose)
              [] At(s, j, BracketOpen) -> ParseStringArray(s, j)
              [] OTHER -> Read(<<>>, Past(Scalars, s, j))
  IN  skip[start]

\* skip[i] is the value that begins at place i.
SkipValue(s, start) ==
  LET skip[i \in Places(s)] ==
        LET j == SkipWs(s, i)
            member == [k \in Places(s) |->
                         LET name == MemberName(s, k) IN Named(name, skip[name.at])]
        IN  CASE j > Len(s) -> Failed
              [] At(s, j, DQuote) -> ParseString(s, j)
              [] At(s, j, BraceOpen) -> List(member, s, j, BraceOpen, BraceClose)
              [] At(s, j, BracketOpen) -> List(skip, s, j, BracketOpen, BracketClose)
              [] OTHER -> Read(<<>>, Past(Scalars, s, j))
  IN  skip[start]

ParamAt(s) ==
  [k \in Places(s) |->
     LET name == MemberName(s, k) IN Named(name, ParseStringArray(s, name.at))]

\* The value of a field of a pack.
FieldValue(s, name, i) ==
  CASE name \in {<<"mod">>, <<"func">>, <<"ret">>} -> ParseString(s, i)
    [] name = <<"success">> -> IF At(s, i, "true") \/ At(s, i, "false")
                               THEN Read(s[i] = "true", i + 1) ELSE Failed
    [] name = <<"params">> -> List(ParamAt(s), s, i, BraceOpen, BraceClose)
    [] OTHER -> SkipValue(s, i)
FieldAt(s) ==
  [k \in Places(s) |->
     LET name == MemberName(s, k)
     IN  Named(name, FieldValue(s, name.val, SkipWs(s, name.at)))]

-----------------------------------------------------------------------------
(* Packs.  The error of a pack is not part of its JSON.                    *)

Pack(mod, func, params, success, ret) ==
  [mod |-> mod, func |-> func, params |-> params, success |-> success, ret |-> ret]
NewPack == Pack(<<>>, <<>>, [k \in {} |-> <<>>], FALSE, <<>>)

\* Texts with a comma between any two.
Joined(texts) ==
  FlattenSeq([i \in DOMAIN texts |-> IF i = 1 THEN texts[i] ELSE <<Comma>> \o texts[i]])
Listed(open, texts, close) == <<open>> \o Joined(texts) \o <<close>>
Array(texts) == Listed(BracketOpen, texts, BracketClose)
Object(texts) == Listed(BraceOpen, texts, BraceClose)

Member(name, text) == Quoted(name) \o <<Colon>> \o text
ParamText(p, k) ==
  Escape(k) \o <<Colon>> \o Array([i \in DOMAIN p.params[k] |-> Escape(p.params[k][i])])

\* The fields of ToJson; keys are the parameters in the map's order, which is any.
FieldTexts(p, keys) ==
  << Member(<<"mod">>, Escape(p.mod)), Member(<<"func">>, Escape(p.func)),
     Member(<<"params">>, Object([i \in DOMAIN keys |-> ParamText(p, keys[i])])),
     Member(<<"success">>, <<IF p.success THEN "true" ELSE "false">>),
     Member(<<"ret">>, Escape(p.ret)) >>
ToJson(p, keys) == Object(FieldTexts(p, keys))

\* What a field read does to the pack.  A parameter replaces the one of its name.
TakeParams(params, read) ==
  LET named(k) == {i \in DOMAIN read : read[i][1] = k}
  IN  [k \in DOMAIN params \cup {read[i][1] : i \in DOMAIN read} |->
         IF named(k) = {} THEN params[k] ELSE read[Max(named(k))][2]]
TakeField(p, field) ==
  CASE field[1] = <<"mod">> -> [p EXCEPT !.mod = field[2]]
    [] field[1] = <<"func">> -> [p EXCEPT !.func = field[2]]
    [] field[1] = <<"ret">> -> [p EXCEPT !.ret = field[2]]
    [] field[1] = <<"success">> -> [p EXCEPT !.success = field[2]]
    [] field[1] = <<"params">> -> [p EXCEPT !.params = TakeParams(@, field[2])]
    [] OTHER -> p
PackOf(fields) ==
  LET pack[n \in 0 .. Len(fields)] ==
        IF n = 0 THEN NewPack ELSE TakeField(pack[n - 1], fields[n])
  IN  pack[Len(fields)]

\* Nothing but blanks may follow the object.
WholePack(s, fields) ==
  IF fields.is = "read" /\ SkipWs(s, fields.at) = Len(s) + 1
  THEN Read(PackOf(fields.val), Len(s) + 1) ELSE Failed
FromJson(s) == WholePack(s, List(FieldAt(s), s, 1, BraceOpen, BraceClose))

-----------------------------------------------------------------------------
(* The shards of a task (ExportRecord, ParseShardsJson).                   *)

ExportShards(packs, keys) == Array([i \in DOMAIN packs |-> ToJson(packs[i], keys[i])])

\* The scan for the end of an object: where it is, the braces open there, whether a
\* string is open, and whether a backslash in it came before.
Scans(s) == [at : Places(s), depth : Int, in_str : BOOLEAN, esc : BOOLEAN]
Scan(at, depth, in_str, esc) ==
  [at |-> at, depth |-> depth, in_str |-> in_str, esc |-> esc]

\* Mutant of NextScan: strings are not told apart.
NextScanBlind(s, t) ==
  LET c == s[t.at]
      step == CASE c = BraceOpen -> 1 [] c = BraceClose -> -1 [] OTHER -> 0
  IN  Scan(t.at + 1, t.depth + step, FALSE, FALSE)

NextScan(s, t) ==
  LET c == s[t.at]
      step == CASE c = BraceOpen -> 1 [] c = BraceClose -> -1 [] OTHER -> 0
  IN  IF t.in_str
      THEN Scan(t.at + 1, t.depth, t.esc \/ c # DQuote, ~t.esc /\ c = BackSlash)
      ELSE Scan(t.at + 1, t.depth + step, c = DQuote, FALSE)

\* Behind the brace that closes the object at place i; 0 when the text ends first.
\* Braces inside strings do not count.
PastObject(s, i) ==
  LET past[t \in Scans(s)] ==
        CASE t.at > Len(s) -> 0
          [] At(s, t.at, BraceClose) /\ ~t.in_str /\ t.depth = 1 -> t.at + 1
          [] OTHER -> past[NextScan(s, t)]
  IN  past[Scan(i, 0, FALSE, FALSE)]

\* A shard, from i up to j, and what is behind it.  The first damaged shard ends the
\* reading; those before it stay.
TakeShard(s, t, i, j, pack) ==
  LET next == SkipWs(s, j)
  IN  CASE t.is # "more" -> t
        [] t.is = "more" /\ ~(At(s, i, BraceOpen) /\ j # 0 /\ pack.is = "read") ->
             Read(t.val, i)
        [] OTHER -> IF At(s, next, Comma) THEN More(Append(t.val, pack.val), next + 1)
                    ELSE Read(Append(t.val, pack.val), next)
NextShard(s, t) ==
  LET i == SkipWs(s, t.at)
      j == PastObject(s, i)
  IN  TakeShard(s, t, i, j, FromJson(SubSeq(s, i, j - 1)))
ParseShardsJson(s) ==
  LET i == SkipWs(s, 1)
      shards[n \in Nat] == IF n = 0 THEN More(<<>>, i + 1) ELSE NextShard(s, shards[n - 1])
  IN  IF At(s, i, BracketOpen) THEN Ended(shards, Len(s)).val ELSE <<>>

-----------------------------------------------------------------------------
(* The properties, over short strings of the characters that JSON and the  *)
(* bracket count treat specially.                                          *)

Special == {DQuote, BackSlash, "newline", "bell", "n", BraceOpen, BraceClose, Comma}
StringsUpTo(n) == UNION {[1..k -> Special] : k \in 0..n}
OneShard(text) == Pack(<<"M">>, text, [k \in {<<"k">>} |-> <<text, <<>> >>], TRUE, text)
TwoKeys(v, w) ==
  Pack(<<"M">>, <<"f">>, [k \in {<<BraceOpen>>, w} |-> IF k = w THEN <<w, v>> ELSE <<v>>], FALSE, w)
KeysOf(p) == SetToSeqs(DOMAIN p.params)

(* A snapshot gives back the shards it was taken from: their modules,      *)
(* functions, parameters, flags and results, whatever the strings hold and *)
(* in whatever order the parameters were written (Task.cpp:224-232 and     *)
(* 164-207, ParmarPack.h:200-444).                                         *)
SnapshotComesBack ==
  /\ \A t \in StringsUpTo(2) :
       LET p == OneShard(t)
       IN  ParseShardsJson(ExportShards(<<p, NewPack, p>>, << << <<"k">> >>, <<>>, << <<"k">> >> >>))
             = <<p, NewPack, p>>
  /\ \A t \in StringsUpTo(3) : ParseString(Escape(t), 1) = Read(t, Len(Escape(t)) + 1)
  /\ \A v, w \in StringsUpTo(1) \ {<<BraceOpen>>} :
       LET p == TwoKeys(v, w)
       IN  \A keys, keys2 \in KeysOf(p) :
             ParseShardsJson(ExportShards(<<p, p>>, <<keys, keys2>>)) = <<p, p>>

(* A snapshot that was cut short gives back the shards that are whole and  *)
(* none that is not: a pack cut short is refused, and the bracket count    *)
(* never takes a brace of a string for the end of a shard                  *)
(* (Task.cpp:177-198, ParmarPack.h:371-444).                               *)
CutSnapshotKeepsWholeShards ==
  \A v \in StringsUpTo(1), w \in StringsUpTo(1) :
    LET p == OneShard(v)
        q == OneShard(w)
        keys == << <<"k">> >>
        one == Len(ExportShards(<<p>>, <<keys>>)) - 1
        text == ExportShards(<<p, q>>, <<keys, keys>>)
    IN  \A n \in 0..(Len(text) - 2) :
          /\ ParseShardsJson(SubSeq(text, 1, n)) = IF n < one THEN <<>> ELSE <<p>>
          /\ n > 1 => FromJson(SubSeq(text, 2, IF n < one THEN n ELSE one - 1)) = Failed

\* Values a later version of the code might add under a new name.
Unknowns(v) ==
  {Escape(v), <<"7">>, <<"-", "7">>, <<"null">>, <<"{", "}">>, <<"[", " ", "]">>,
   <<"[">> \o Escape(v) \o <<",", " ">> \o <<"{">> \o Escape(v) \o <<":", " ", "true", "}", "]">>,
   Object(<<Member(<<"mod">>, Escape(v)), Member(<<"x">>, <<"[", "7", ",", "[", "]", "]">>)>>)}

(* A field the code does not know is passed over, wherever it stands and   *)
(* whatever value it has, and takes none of the known fields with it       *)
(* (ParmarPack.h:301-339 and 426-429).                                     *)
UnknownFieldsSkipped ==
  \A v \in StringsUpTo(1), at \in 1..6 :
    LET p == OneShard(<<"n">>)
    IN  \A u \in Unknowns(v) :
          FromJson(Object(InsertAt(FieldTexts(p, << <<"k">> >>), at, Member(<<"x">>, u))))
            = Read(p, Len(Object(InsertAt(FieldTexts(p, << <<"k">> >>), at, Member(<<"x">>, u)))) + 1)
=============================================================================
