----------------------------- MODULE SafetyEngine -----------------------------
(***************************************************************************)
(* Evaluation of a text against the compiled rules of one snapshot         *)
(* (fortifyroot/_internal/safety/engine.py).                               *)
(*                                                                         *)
(* A text is a sequence of letters, a position in it is counted from 0 and *)
(* a span is [start, end), as in the code.  A rule is a string-list rule,  *)
(* [action, values]; a UDF or regex rule differs only in where its spans   *)
(* come from.  What a mask writes in place of a span is not modelled, only *)
(* which positions it replaces.                                            *)
(***************************************************************************)
EXTENDS Integers, FiniteSets, Sequences

CONSTANTS Alphabet,   \* letters of texts and values
          Rules,      \* the compiled rules
          MaxMatches  \* MAX_REGEX_MATCHES, findings kept of one rule

ASSUME RulesAssumption ==
  /\ IsFiniteSet(Rules)
  /\ \A r \in Rules : /\ r.action \in {"ALLOW", "MASK"}
                      /\ r.values \in Seq(Seq(Alphabet) \ {<<>>})
ASSUME MatchesAssumption == MaxMatches \in Nat

OccursAt(text, value, i) ==
  i + Len(value) <= Len(text) /\ SubSeq(text, i + 1, i + Len(value)) = value

\* The spans a left-to-right scan of n positions takes when length[i] is the
\* length of the span that begins at i (0: none) and it goes on behind the
\* last span it took.  end[i] is the end of the last span begun before i.
LeftToRight(n, length) ==
  LET end[i \in 0..n] ==
        IF i = 0 THEN 0
        ELSE IF length[i - 1] > 0 /\ end[i - 1] <= i - 1
               THEN i - 1 + length[i - 1] ELSE end[i - 1]
  IN  {i \in 0..(n - 1) : length[i] > 0 /\ end[i] <= i}

\* _find_literal_matches(): re.finditer of an escaped literal.
LiteralMatches(text, value) ==
  LeftToRight(Len(text), [i \in 0..(Len(text) - 1) |->
                            IF OccursAt(text, value, i) THEN Len(value) ELSE 0])

\* A finding of the k-th value of the rule at i.
FindingAt(rule, k, i) ==
  [rule |-> rule, value |-> k, start |-> i, end |-> i + Len(rule.values[k])]

\* The findings of one rule before the cap, one per value and match.
AllFindings(rule, text) ==
  UNION {{FindingAt(rule, k, i) : i \in LiteralMatches(text, rule.values[k])} :
           k \in DOMAIN rule.values}

FoundBefore(f, g) ==
  f.value < g.value \/ (f.value = g.value /\ f.start < g.start)

\* _evaluate_rule(): the first MaxMatches findings, values in order.
EvaluateRule(rule, text) ==
  LET all == AllFindings(rule, text)
  IN  {f \in all : Cardinality({g \in all : FoundBefore(g, f)}) < MaxMatches}

Evaluate(text) == UNION {EvaluateRule(r, text) : r \in Rules}

\* Where the values occur in the text, found or not: a scan passes over an
\* occurrence that overlaps the last match, and MaxMatches cuts findings off.
OccurrencesOf(rule, text) ==
  UNION {{FindingAt(rule, k, i) : i \in {j \in 0..Len(text) :
                                        OccursAt(text, rule.values[k], j)}} :
           k \in DOMAIN rule.values}

Occurrences(text) == UNION {OccurrencesOf(r, text) : r \in Rules}

SpanOf(f) == f.start..(f.end - 1)

\* (Fault: findings that only ALLOW are masked too.)
MaskSegments_All(findings) == findings

MaskSegments(findings) == {f \in findings : f.rule.action = "MASK"}

\* _apply_masks(): segments by start, the longest first; one that begins
\* inside the last selected segment is skipped.  At one start only the
\* longest can be selected, so a left-to-right scan selects the same.
MaskedPositions(n, findings) ==
  LET length == [i \in 0..n |->
        LET ends == {f.end : f \in {g \in MaskSegments(findings) : g.start = i}}
        IN  IF ends = {} THEN 0
            ELSE (CHOOSE e \in ends : \A o \in ends : o <= e) - i]
  IN  UNION {i..(i + length[i] - 1) : i \in LeftToRight(n, length)}
=============================================================================
