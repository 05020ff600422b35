--------------------------- MODULE MCAppendLedger ---------------------------
(***************************************************************************)
(* Instances of append mode.  Callers are interchangeable.                 *)
(***************************************************************************)
EXTENDS AppendLedger, TLC

Callers == Permutations(Process)
=============================================================================
