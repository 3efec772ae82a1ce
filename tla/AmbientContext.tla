---------------------------- MODULE AmbientContext ----------------------------
(***************************************************************************)
(* The context API of OpenTelemetry, as the instrumentations use it: a     *)
(* context variable of the running thread or task (a flow).  A context is  *)
(* immutable; it is the sequence of the layers it was built from.  attach  *)
(* makes a context current and returns a token, detach puts back what was  *)
(* current when the token was made, whatever has become current since, and *)
(* does nothing but log in another flow than the token's.                  *)
(***************************************************************************)
EXTENDS Integers, Sequences

CONSTANT Flows   \* threads and tasks, each with a context variable of its own

VARIABLE ambient \* ambient[f]: what is current in flow f

Switches == {"on", "off", "inherited"}

\* span: the layer names a span; suppress: what it says of the key
\* SUPPRESS_LANGUAGE_MODEL_INSTRUMENTATION_KEY.
Layer(owner, span, suppress) == [owner |-> owner, span |-> span, suppress |-> suppress]

\* attach() in flow f: the token, and what is current then.
Token(f) == [flow |-> f, old |-> ambient[f]]

Attach(f, context) == ambient' = [ambient EXCEPT ![f] = context]

\* detach(token) in flow f.
Detached(token, f) ==
  IF token.flow = f THEN [ambient EXCEPT ![f] = token.old] ELSE ambient

\* get_value(SUPPRESS_LANGUAGE_MODEL_INSTRUMENTATION_KEY)
Suppressed(context) ==
  \E i \in DOMAIN context :
    /\ context[i].suppress = "on"
    /\ \A j \in DOMAIN context : j > i => context[j].suppress # "off"

Owners(context) == {context[i].owner : i \in DOMAIN context}

\* get_current_span(): the owner of the last layer that names one.
IsCurrent(owner, context) ==
  \E i \in DOMAIN context :
    /\ context[i].owner = owner /\ context[i].span
    /\ \A j \in DOMAIN context : j > i => ~context[j].span
=============================================================================
