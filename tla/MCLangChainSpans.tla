--------------------------- MODULE MCLangChainSpans ---------------------------
(* Instances of LangChainSpans for TLC. *)
EXTENDS LangChainSpans, TLC

CONSTANTS r1, r2, r3, f1, f2

Symmetric == Permutations({r1, r2, r3})
=============================================================================
