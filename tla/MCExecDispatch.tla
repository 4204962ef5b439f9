--------------------------- MODULE MCExecDispatch ---------------------------
(* Small instances of ExecDispatch. *)
EXTENDS ExecDispatch

Symmetry == Permutations(Calls) \cup Permutations(Epochs)
=============================================================================
