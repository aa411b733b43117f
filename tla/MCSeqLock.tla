----------------------------- MODULE MCSeqLock -----------------------------
(***************************************************************************)
(* SeqLock for TLC: the writers are model values given in the              *)
(* configurations, without symmetry, and the event ring has two entries.   *)
(***************************************************************************)
EXTENDS SeqLock

RingOfTwo == <<"event0", "event1">>
=============================================================================
