---------------------------- MODULE MCTaskEngine ----------------------------
(***************************************************************************)
(* TaskEngine with its constants given by the configuration files, and the *)
(* text that a snapshot is stored as.                                      *)
(***************************************************************************)
EXTENDS TaskEngine, PackJson, TLC

\* Workers run the same code and no constant tells them apart.
WorkerSymmetry == Permutations(Workers)

(* A snapshot in the store gives back the shards it was taken from; what   *)
(* is left of one that was damaged gives back whole shards only; one of a  *)
(* later version is read as far as this version knows its fields.  (Facts  *)
(* about every snapshot, which TLC evaluates once.)                        *)
StoredComesBack == store # {} => SnapshotComesBack
StoredCutIsSafe == store # {} => CutSnapshotKeepsWholeShards
StoredLaterIsRead == store # {} => UnknownFieldsSkipped
=============================================================================
