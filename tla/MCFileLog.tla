---------------------------- MODULE MCFileLog ----------------------------
(***************************************************************************)
(* FileLog with the log.conf files and the constants of its runs, and the  *)
(* configuration of the shell, whose log_level replaces that of log.conf.  *)
(***************************************************************************)
EXTENDS FileLog, ShellConfig

\* No file, each kind of output, a type that is none, a key given twice, and a
\* level whose name is misspelt.
ConfFiles ==
  { <<>>,
    << <<"log_type", "file">>, <<"log_level", "info">> >>,
    << <<"log_level", "fatal">>, <<"log_type", "thread_file">>, <<"log_level", "debug">> >>,
    << <<"log_type", "Thread_File">>, <<"log_level", "eror">> >> }

(* While the process runs, it does so with the configuration that Config.h *)
(* promises: command line before file before default.  (A fact about no    *)
(* particular state, which TLC evaluates once.)                            *)
RunsAsConfigured == owner = "up" => CommandLineWins
=============================================================================
