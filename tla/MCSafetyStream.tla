---------------------------- MODULE MCSafetyStream ----------------------------
(***************************************************************************)
(* Instances of SafetyStream for TLC.  The rules overlap each other and    *)
(* themselves, one only ALLOWs, and values have one to three letters.      *)
(***************************************************************************)
EXTENDS SafetyStream

MCRules ==
  {[action |-> "MASK",  values |-> <<<<"a", "b">>>>],
   [action |-> "MASK",  values |-> <<<<"b", "b", "c">>, <<"c", "a", "c">>>>],
   [action |-> "ALLOW", values |-> <<<<"c">>>>]}

\* A holdback that fits, one that is too short, and a cap that is reached.
MCSizes == {[holdback |-> 2, cap |-> 5], [holdback |-> 1, cap |-> 2],
            [holdback |-> 2, cap |-> 2]}
=============================================================================
