---------------------------- MODULE MCModuleLife ----------------------------
(***************************************************************************)
(* ModuleLife for TLC: threads, functions and files are model values given *)
(* in the configurations.  The objects are numbers, in the order in which  *)
(* they are made, and no symmetry is used: MutexComesBack is a liveness    *)
(* property.                                                               *)
(***************************************************************************)
EXTENDS ModuleLife
=============================================================================
