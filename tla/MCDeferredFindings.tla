-------------------------- MODULE MCDeferredFindings --------------------------
(***************************************************************************)
(* Instances of DeferredFindings for TLC.                                  *)
(***************************************************************************)
EXTENDS DeferredFindings, TLC

CONSTANTS main, loop, w1, p1, l1, x1, x2

MCThread == {main, loop}
MCWorker == {w1}
MCProvider == {p1}
MCLangChain == {l1}
MCLlamaIndex == {x1, x2}
MCSymmetry == Permutations(MCLlamaIndex)
=============================================================================
