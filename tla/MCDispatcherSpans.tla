--------------------------- MODULE MCDispatcherSpans ---------------------------
(* Instances of DispatcherSpans for TLC. *)
EXTENDS DispatcherSpans, TLC

CONSTANTS o1, o2, o3, f1, f2

Symmetric == Permutations({o1, o2, o3})
=============================================================================
