---------------------------- MODULE ShellConfig ----------------------------
(***************************************************************************)
(* The configuration of the shell (core/Config.h) and the order in which   *)
(* core/ShellApp.h fills it in: defaults, test_shell.cfg, command line.    *)
(*                                                                         *)
(* A text is a sequence; a name, a number or a path, into which nothing    *)
(* looks, is one element of it.                                            *)
(***************************************************************************)
EXTENDS Integers, Sequences, FiniteSets, SequencesExt

\* What the two parsers look for; a pair of dashes is one element.
Space == " "
Tab == "tab"
Return == "return"
Hash == "#"
Equals == "="
Dashes == "--"
Blanks == {Space, Tab, Return}

Find(s, c) == SelectInSeq(s, LAMBDA x : x = c)

Trim(s) ==
  LET inked == {i \in DOMAIN s : s[i] \notin Blanks}
  IN  IF inked = {} THEN <<>>
      ELSE SubSeq(s, CHOOSE i \in inked : \A j \in inked : i <= j,
                     CHOOSE i \in inked : \A j \in inked : j <= i)

\* A text that does not begin with a number is 0.
Atoi(val) ==
  LET numbers == ("0" :> 0) @@ ("2" :> 2) @@ ("16" :> 16) @@ ("-1" :> -1)
      digits == Trim(val)
  IN  IF digits # <<>> /\ digits[1] \in DOMAIN numbers THEN numbers[digits[1]] ELSE 0

Default ==
  [pool_size |-> 8, workers |-> 4, plugin_dir |-> <<"plugins">>,
   log_level |-> <<"info">>, queue_warn |-> 0]
Numbers == {"pool_size", "workers", "queue_warn"}

\* An unknown key changes nothing.
Apply(cfg, key, val) ==
  IF Len(key) = 1 /\ key[1] \in DOMAIN cfg
  THEN [cfg EXCEPT ![key[1]] = IF key[1] \in Numbers THEN Atoi(val) ELSE val]
  ELSE cfg

\* A line of the file: a comment, a line without "=" and one that lacks its key
\* or its value are ignored.
LoadLine(cfg, raw) ==
  LET text == Trim(raw)
      eq == Find(text, Equals)
      key == Trim(SubSeq(text, 1, eq - 1))
      val == Trim(SubSeq(text, eq + 1, Len(text)))
  IN  IF text = <<>> \/ text[1] = Hash \/ eq = 0 \/ key = <<>> \/ val = <<>>
      THEN cfg ELSE Apply(cfg, key, val)

\* A file that cannot be opened has no lines.
LoadFromFile(cfg, lines) ==
  LET loaded[n \in 0 .. Len(lines)] ==
        IF n = 0 THEN cfg ELSE LoadLine(loaded[n - 1], lines[n])
  IN  loaded[Len(lines)]

\* An argument --key=value: no blank is trimmed, and an empty value counts.
ApplyArg(cfg, arg) ==
  LET text == Tail(arg)
      eq == Find(text, Equals)
  IN  IF arg = <<>> \/ arg[1] # Dashes \/ eq = 0 THEN cfg
      ELSE Apply(cfg, SubSeq(text, 1, eq - 1), SubSeq(text, eq + 1, Len(text)))
ApplyArgs(cfg, args) ==
  LET applied[n \in 0 .. Len(args)] ==
        IF n = 0 THEN cfg ELSE ApplyArg(applied[n - 1], args[n])
  IN  applied[Len(args)]

\* Mutant of LoadConfig: the file is read last.
LoadConfigFileLast(lines, args) == LoadFromFile(ApplyArgs(Default, args), lines)

LoadConfig(lines, args) == ApplyArgs(LoadFromFile(Default, lines), args)

-----------------------------------------------------------------------------
(* The property.                                                           *)

\* The ways to write a setting into the file.
InFile(k, v) ==
  [plain |-> <<k, Equals, v>>, spaced |-> <<Space, k, Space, Equals, Tab, v, Return>>,
   twice |-> <<k, Equals, v, Equals, v>>,
   comment |-> <<Space, Hash, k, Equals, v>>, bare |-> <<k>>, blank |-> <<k, Equals, Space>>,
   keyless |-> <<Equals, v>>, unknown |-> <<"x", Equals, v>>]
FileStyles == {"plain", "spaced", "twice", "comment", "bare", "blank", "keyless", "unknown"}

\* The same for the command line.
OnCommandLine(k, v) ==
  [double |-> <<Dashes, k, Equals, v>>, empty |-> <<Dashes, k, Equals>>,
   single |-> <<k, Equals, v>>, bare |-> <<Dashes, k>>, padded |-> <<Dashes, k, Space, Equals, v>>]
ArgStyles == {"double", "empty", "single", "bare", "padded"}

\* The styles that set the key; on the command line an empty value does.
Counts == {"plain", "spaced", "twice", "double", "empty"}

\* What somebody sets in one of these styles.
Settings(keys, vals, styles) == [key : keys, val : vals, style : styles]
InLines(settings) ==
  [i \in DOMAIN settings |-> InFile(settings[i].key, settings[i].val)[settings[i].style]]
InArgs(settings) ==
  [i \in DOMAIN settings |-> OnCommandLine(settings[i].key, settings[i].val)[settings[i].style]]

\* What one setting makes of its key.
Meant(g) ==
  LET val == CASE g.style = "twice" -> <<g.val, Equals, g.val>>
               [] g.style = "empty" -> <<>>
               [] OTHER -> <<g.val>>
  IN  IF g.key \in Numbers THEN Atoi(val) ELSE val

\* The last setting of a key on the command line counts, else the last in the
\* file, else the default.
LastOneCounts(inFile, onLine) ==
  LET given == inFile \o onLine
      counting(k) == {i \in DOMAIN given : given[i].key = k /\ given[i].style \in Counts}
      cfg == LoadConfig(InLines(inFile), InArgs(onLine))
  IN  \A k \in DOMAIN Default :
        cfg[k] = IF counting(k) = {} THEN Default[k] ELSE Meant(given[Max(counting(k))])

Keys == {"workers", "log_level"}
Vals == {"2", "16", "debug"}
UpTo2(S) == {<<>>} \cup {<<a>> : a \in S} \cup {<<a, b>> : a, b \in S}

(* Config.h:5: command line before file before default.  Comments, half    *)
(* lines, unknown keys and settings of another key have no part in it      *)
(* (Config.h:46-124, ShellApp.h:104-110).                                  *)
CommandLineWins ==
  \A inFile \in UpTo2(Settings(Keys, Vals, FileStyles)),
     onLine \in {<<>>} \cup {<<a>> : a \in Settings(Keys, Vals, ArgStyles)}
                  \cup {<<a, b>> : a, b \in Settings({"workers"}, {"2", "16"},
                                                   {"double", "empty", "padded"})} :
    LastOneCounts(inFile, onLine)
=============================================================================
