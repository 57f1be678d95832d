-------------------------- MODULE MCViewerSession --------------------------
(***************************************************************************)
(* ViewerSession for TLC: neither browsers nor socket numbers are told     *)
(* apart, and only safety is checked, so both may be permuted.             *)
(***************************************************************************)
EXTENDS ViewerSession, TLC

Symmetry == Permutations(Page) \cup Permutations(Fd)

=============================================================================
