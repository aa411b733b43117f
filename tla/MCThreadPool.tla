---------------------------- MODULE MCThreadPool ----------------------------
(***************************************************************************)
(* ThreadPool with its constants given by the configuration file.          *)
(***************************************************************************)
EXTENDS ThreadPool
=============================================================================
