--------------------------- MODULE MCSharedWorker ---------------------------
(***************************************************************************)
(* Small instances of SharedWorker for TLC.                                *)
(***************************************************************************)
EXTENDS SharedWorker

CONSTANTS a, b, c

TwoNames   == {a, b}
ThreeNames == {a, b, c}
Refused    == {b}
NoNames    == {}
=============================================================================
