----------------------------- MODULE MCSessions -----------------------------
(* Sessions for TLC.  Requests play the same part everywhere, so they may  *)
(* be permuted; families may not, because AnyFamily picks one of them.     *)
EXTENDS Sessions, TLC

Symmetry == Permutations(Requests)

=============================================================================
