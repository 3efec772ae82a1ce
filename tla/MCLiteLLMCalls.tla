---------------------------- MODULE MCLiteLLMCalls ----------------------------
(* Instances of LiteLLMCalls for TLC. *)
EXTENDS LiteLLMCalls, TLC

CONSTANTS c1, c2, f1, f2, s1, s2, a1, a2

Symmetric == Permutations({c1, c2}) \cup Permutations({a1, a2}) \cup Permutations({s1, s2})
=============================================================================
