------------------------------ MODULE MCSdkInit ------------------------------
(* Bounds for SdkInit: the default call of an application, and the calls that *)
(* differ from it in few arguments.                                           *)
EXTENDS SdkInit, FiniteSets, Naturals, TLC

CONSTANTS c1, c2

MCCall == {c1, c2}

\* As init(api_key = ...) without anything else.
Default == [enabled |-> TRUE, key |-> TRUE, content |-> TRUE,
            endpoint |-> [s \in Signal |-> "managed"],
            headers |-> [s \in Signal |-> "absent"], given |-> {}]

\* How many of its arguments are not the default's.
Distance(a) ==
  Cardinality({f \in {"enabled", "key", "content", "given"} : a[f] # Default[f]})
  + Cardinality({s \in Signal : a.endpoint[s] # "managed"})
  + Cardinality({s \in Signal : a.headers[s] # "absent"})

Close(n) == {a \in Args : Distance(a) <= n}

\* The second call: as the first, disabled, without the key, or with an
\* exporter, or metrics, of the application's own.
Second == {Default, [Default EXCEPT !.enabled = FALSE], [Default EXCEPT !.key = FALSE],
           [Default EXCEPT !.given = {"exporter"}],
           [Default EXCEPT !.given = {"exporter", "metrics"}]}

MCArgsOf == {(c1 :> a) @@ (c2 :> b) : a \in Close(2), b \in Second}
=============================================================================
