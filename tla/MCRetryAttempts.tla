--------------------------- MODULE MCRetryAttempts ---------------------------
(***************************************************************************)
(* Instances of RetryAttempts for TLC.                                     *)
(***************************************************************************)
EXTENDS RetryAttempts, TLC

CONSTANTS t1, t2, k1, k2, k3, r1, r2, d1

MCThread == {t1, t2}
MCToken == {k1, k2, k3}
MCRun == {r1, r2}
MCCall == {d1}
MCSymmetry == Permutations(MCThread) \cup Permutations(MCToken)
              \cup Permutations(MCRun)
=============================================================================
