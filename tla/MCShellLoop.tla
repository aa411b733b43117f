---------------------------- MODULE MCShellLoop ----------------------------
(***************************************************************************)
(* ShellLoop with its constants given by the configuration files, and what *)
(* SendCommand makes of a line.  The two properties hang facts about the   *)
(* parser on the states in which it has parsed a line; TLC evaluates each  *)
(* of them once.                                                           *)
(***************************************************************************)
EXTENDS ShellLoop, CommandLine

\* A pack that SendCommand made of a line waits in the parser's queue.
LineParsed == \E i \in DOMAIN packs : packs[i] \in Lines

(* The words of a parsed line come out of the tokenizer as they were typed *)
(* (CommandParser.cpp:40-155).                                             *)
WordsAsTyped == LineParsed => TokensAreWords

(* Its heads and pairs are all in the pack that SendCommand queued for it, *)
(* whichever pack the main thread takes next (CommandParser.cpp:160-277).  *)
LineAsTyped == LineParsed => PackAsTyped
=============================================================================
