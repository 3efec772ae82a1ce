---------------------------- MODULE MCHttpAttempts ----------------------------
(* Bounds for HttpAttempts: the kinds of call as they are made by default, and *)
(* what may differ: no span of the application, suppression, streaming.       *)
EXTENDS HttpAttempts, TLC

CONSTANTS c1, c2

MCCall == {c1, c2}
Plain(k) == [kind |-> k, ambient |-> App, suppressed |-> FALSE, stream |-> FALSE]
MCShapes ==
  {Plain(k) : k \in Kind}
  \cup {[Plain(k) EXCEPT !.stream = TRUE] : k \in {"chat", "messages", "converse"}}
  \cup {[Plain(k) EXCEPT !.suppressed = TRUE] : k \in {"chat"}}
  \cup {[Plain(k) EXCEPT !.ambient = NoSpan] : k \in {"responses", "messages"}}
MCSymmetry == Permutations(MCCall)
=============================================================================
