-------------------------- MODULE MCSafetyRuntime --------------------------
(***************************************************************************)
(* Instances of SafetyRuntime for TLC.  Config has two configurations that *)
(* start a runtime and one that does not pass the gate, so that calls that *)
(* keep, replace, drop and refuse a runtime all occur.                     *)
(***************************************************************************)
EXTENDS SafetyRuntime

CONSTANTS c1, c2, q1, cfgA, cfgB, cfgBad

MCConfig == {cfgA, cfgB, cfgBad}
MCStartable == {cfgA, cfgB}
=============================================================================
