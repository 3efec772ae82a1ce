---------------------------- MODULE LangChainSpans ----------------------------
(***************************************************************************)
(* The callback handler of the LangChain instrumentation: which runs get a *)
(* span, under which parent, what each of them makes current in the flow   *)
(* that runs it, and what is current when they are over.                   *)
(*                                                                         *)
(* Runs are chains, chat models, completion models, tools and retrievers;  *)
(* for a retriever the handler has no start callback.  A run may begin in  *)
(* a copy of another flow's context (LangChain copies it for steps, tasks  *)
(* and pool threads), may end in any order (streams are generators) and in *)
(* another flow, and the application may turn instrumentation off for a    *)
(* while.  Attributes, events and metrics are left out.                    *)
(***************************************************************************)
EXTENDS AmbientContext, FiniteSets

CONSTANTS Runs, Kinds, Reset

ASSUME KindsAssumption == Kinds \subseteq {"chain", "chat", "llm", "tool", "retriever"}
ASSUME FlowsAssumption == Flows # {}
ASSUME ResetAssumption == Reset \notin Runs

VARIABLES
  state,    \* state[r]: idle, running, over
  kind,     \* kind[r]: what the run is
  parent,   \* parent[r]: <<parent_run_id>> or <<>>
  flow,     \* flow[r]: where it began
  holder,   \* holder[r]: <<SpanHolder>> of self.spans, or <<>>
  above,    \* above[r]: <<run>> whose span is the parent of its span
  started,  \* runs that were given a span
  ends,     \* ends[r]: how often the span was ended
  failed,   \* spans marked with an error
  muted,    \* flows in which instrumentation is turned off
  astray    \* history: runs that began or ended while instrumentation was
            \* off, or did not end innermost in their flow

vars == <<ambient, state, kind, parent, flow, holder, above, started, ends, failed,
          muted, astray>>

LLMs == {"chat", "llm"}

Init ==
  /\ ambient = [f \in Flows |-> <<>>]
  /\ state = [r \in Runs |-> "idle"] /\ kind \in [Runs -> Kinds]
  /\ parent = [r \in Runs |-> <<>>]
  /\ flow = [r \in Runs |-> CHOOSE f \in Flows : TRUE]
  /\ holder = [r \in Runs |-> <<>>] /\ above = [r \in Runs |-> <<>>]
  /\ started = {} /\ ends = [r \in Runs |-> 0] /\ failed = {}
  /\ muted = {} /\ astray = {}

-----------------------------------------------------------------------------
(* The start callbacks. *)

\* (Fault: no suppression key for chat models.)
Layers_NotChat(r) ==
  <<Layer(r, TRUE, "inherited")>>
  \o (IF kind[r] = "llm" THEN <<Layer(r, FALSE, "on")>> ELSE <<>>)

\* What the start of run r makes current, one attach() after the other: the
\* metadata (chains and chat models), the span, the suppression key.
Layers(r) ==
  (IF kind[r] \in {"chain", "chat"} THEN <<Layer(r, FALSE, "inherited")>> ELSE <<>>)
  \o <<Layer(r, TRUE, "inherited")>>
  \o (IF kind[r] \in LLMs THEN <<Layer(r, FALSE, "on")>> ELSE <<>>)

\* (Fault: tools do not look either.)
Traceable_ChainsOnly(r, p) == kind[r] = "chain"

\* get_workflow_name(): a parent that has no holder is a KeyError, which
\* @dont_throw hides.  on_chain_start() looks first.
Traceable(r, p) ==
  /\ kind[r] # "retriever"
  /\ kind[r] = "chain" \/ \A q \in p : holder[q] # <<>>

\* (Fault: the parent of the span is always the current one.)
ParentSpan_Ambient(p, f) ==
  {<<q>> : q \in {q \in Runs : IsCurrent(q, ambient[f])}}

\* The parent of the new span: the parent run's, if it has a holder, and the
\* current span of the flow otherwise.
ParentSpan(p, f) ==
  LET known == {q \in p : holder[q] # <<>>}
  IN  IF known # {} THEN {<<q>> : q \in known}
      ELSE {<<q>> : q \in {q \in Runs : IsCurrent(q, ambient[f])}}

\* _create_span(), _create_task_span(), _create_llm_span()
CreateSpan(r, p, f) ==
  /\ started' = started \cup {r}
  /\ above' = [above EXCEPT ![r] =
       IF ParentSpan(p, f) = {} THEN <<>> ELSE CHOOSE s \in ParentSpan(p, f) : TRUE]
  /\ Attach(f, ambient[f] \o Layers(r))
  /\ holder' =
       [q \in Runs |->
          IF q = r
            THEN <<[tokens |-> [i \in DOMAIN Layers(r) |->
                                  [flow |-> f, old |-> ambient[f] \o SubSeq(Layers(r), 1, i - 1)]],
                    children |-> {}]>>
          ELSE IF q \in p /\ holder[q] # <<>>
            THEN <<[holder[q][1] EXCEPT !.children = @ \cup {r}]>>
          ELSE holder[q]]

\* on_chain_start(), on_chat_model_start(), on_llm_start(), on_tool_start()
Start(r, p, f) ==
  /\ state[r] = "idle" /\ \A q \in p : state[q] = "running"
  /\ state' = [state EXCEPT ![r] = "running"]
  /\ flow' = [flow EXCEPT ![r] = f]
  /\ parent' = [parent EXCEPT ![r] = IF p = {} THEN <<>> ELSE <<CHOOSE q \in p : TRUE>>]
  /\ IF f \notin muted /\ Traceable(r, p)
       THEN CreateSpan(r, p, f)
       ELSE UNCHANGED <<ambient, holder, above, started>>
  /\ astray' = IF f \in muted THEN astray \cup {r} ELSE astray
  /\ UNCHANGED <<kind, ends, failed, muted>>

-----------------------------------------------------------------------------
(* The end callbacks. *)

\* (Fault: the tokens are put back in the order of the attaches.)
Restored_Fifo(r, f) == Detached(holder[r][1].tokens[Len(holder[r][1].tokens)], f)

\* What is current when _end_span() has put back the tokens, the last first.
Restored(r, f) == Detached(holder[r][1].tokens[1], f)

\* (Fault: the children are not looked at.)
Closed_Alone(r) == {r}

\* The spans that _end_span() ends: the run's, and those of its children
\* that have a holder and go on.
Closed(r) ==
  {r} \cup {q \in holder[r][1].children : holder[q] # <<>> /\ ends[q] = 0}

\* on_chain_end() of a chain without a parent: a layer that turns the
\* suppression off, and that nobody takes off again.
Unpaired(r, how) == kind[r] = "chain" /\ how = "end" /\ parent[r] = <<>>

\* (Fault: the entry stays in self.spans.)
EndSpan_KeepsHolder(r, f, how) ==
  /\ ends' = [q \in Runs |-> IF q \in Closed(r) THEN ends[q] + 1 ELSE ends[q]]
  /\ ambient' = Restored(r, f)
  /\ UNCHANGED <<holder, astray>>

\* _end_span(), and what on_chain_end() does after it.
EndSpan(r, f, how) ==
  /\ ends' = [q \in Runs |-> IF q \in Closed(r) THEN ends[q] + 1 ELSE ends[q]]
  /\ ambient' = IF Unpaired(r, how)
                  THEN [Restored(r, f) EXCEPT ![f] = Append(@, Layer(Reset, FALSE, "off"))]
                  ELSE Restored(r, f)
  /\ holder' = [holder EXCEPT ![r] = <<>>]
  /\ astray' = IF f = flow[r]
                  /\ ambient[f] = holder[r][1].tokens[1].old \o Layers(r)
               THEN astray ELSE astray \cup {r}

\* on_chain_end(), on_llm_end(), on_tool_end(); _handle_error() marks the
\* span.  A run without a holder is a KeyError, which @dont_throw hides.
End(r, f, how) ==
  /\ state[r] = "running"
  /\ state' = [state EXCEPT ![r] = "over"]
  /\ IF f \in muted \/ holder[r] = <<>>
       THEN /\ UNCHANGED <<ambient, holder, ends, failed>>
            /\ astray' = IF f \in muted THEN astray \cup {r} ELSE astray
       ELSE /\ EndSpan(r, f, how)
            /\ failed' = IF how = "error" /\ ends[r] = 0 THEN failed \cup {r} ELSE failed
  /\ UNCHANGED <<kind, parent, flow, above, started, muted>>

-----------------------------------------------------------------------------
(* LangChain and the application. *)

\* A new task, pool thread, or step runs in a copy of the context.
Copy(f, g) ==
  /\ ambient[f] # <<>> /\ ambient[g] = <<>>
  /\ \A r \in Runs : state[r] # "idle" => flow[r] # g
  /\ Attach(g, ambient[f])
  /\ UNCHANGED <<state, kind, parent, flow, holder, above, started, ends, failed, muted,
                 astray>>

\* _SUPPRESS_INSTRUMENTATION_KEY
Mute(f) ==
  /\ muted' = IF f \in muted THEN muted \ {f} ELSE muted \cup {f}
  /\ UNCHANGED <<ambient, state, kind, parent, flow, holder, above, started, ends,
                 failed, astray>>

Next ==
  \/ \E r \in Runs, f \in Flows :
       \/ Start(r, {}, f)
       \/ \E q \in Runs \ {r} : Start(r, {q}, f)
       \/ End(r, f, "end") \/ End(r, f, "error")
  \/ \E f, g \in Flows : Copy(f, g)
  \/ \E f \in Flows : Mute(f)

Spec == Init /\ [][Next]_vars

-----------------------------------------------------------------------------
(* Properties. *)

\* Every variable has its type.
TypeOK ==
  /\ DOMAIN ambient = Flows
  /\ state \in [Runs -> {"idle", "running", "over"}] /\ kind \in [Runs -> Kinds]
  /\ flow \in [Runs -> Flows]
  /\ \A r \in Runs : /\ Len(parent[r]) <= 1 /\ Len(above[r]) <= 1 /\ Len(holder[r]) <= 1
                     /\ holder[r] # <<>> => /\ holder[r][1].children \subseteq started
                                            /\ Len(holder[r][1].tokens) \in 1..3
                                            /\ r \in started
                                            /\ state[r] = "running" \/ r \in astray
  /\ started \subseteq Runs /\ failed \subseteq started
  /\ ends \in [Runs -> Nat] /\ muted \subseteq Flows /\ astray \subseteq Runs

\* In a flow where no run went astray, nothing goes on under the span, or
\* with the suppression, of a run that began there and is over.
NothingLeftCurrent ==
  \A f \in Flows : (\A r \in astray : flow[r] # f) =>
    \A r \in Runs \cap Owners(ambient[f]) : flow[r] = f => state[r] = "running"

\* While a model runs, what it calls in its flow is not instrumented again,
\* unless a chain without a parent ended there meanwhile.
ModelSuppresses ==
  \A r \in started :
    LET context == ambient[flow[r]]
    IN  state[r] = "running" /\ kind[r] \in LLMs /\ r \in Owners(context) =>
          Suppressed(context) \/ Reset \in Owners(context)

\* A span that was started ends with its run, and not after the span of the
\* run above it; it ends twice only if the run above it was over first.
SpansEnd ==
  \A r \in started :
    /\ state[r] = "over" => ends[r] > 0 \/ r \in astray
    /\ \A p \in started : parent[r] = <<p>> /\ state[p] = "over" =>
         ends[r] > 0 \/ holder[p] # <<>>
    /\ ends[r] > 1 => ends[r] = 2 /\ parent[r] # <<>> /\ state[parent[r][1]] = "over"

\* A run that began and ended with instrumentation on has its span, unless
\* it is a retriever, or a model or tool below a run without one.
OnlyOrphansUntraced ==
  \A r \in Runs \ (started \cup astray) :
    state[r] # "idle" /\ kind[r] # "retriever" =>
      kind[r] # "chain" /\ parent[r] # <<>> /\ parent[r][1] \notin started

\* Every traced run has a span that ends when it should, every other run has
\* a reason to have none.
SpansAccounted == TypeOK /\ SpansEnd /\ OnlyOrphansUntraced

\* What is current in a flow is what goes on there.
ContextFollowsRuns == NothingLeftCurrent /\ ModelSuppresses

\* A new span is put under the span of the run above it, and without such a
\* span under one that is not over, as far as the flow is in order.
UnderLivingSpan ==
  [][\A r \in started' \ started :
       /\ \A p \in started : parent'[r] = <<p>> => above'[r] = <<p>>
       /\ \A x \in Runs : above'[r] = <<x>> =>
            \/ state[x] = "running" \/ flow[x] # flow'[r]
            \/ \E y \in astray : flow[y] = flow[x]]_vars

(* Claims of the repository that the code does not keep. *)

\* "Pre-fix ... leaving the ended LLM span permanently current": when every
\* run is over, nothing is left of them.
NothingLeftAtAll ==
  (\A r \in Runs : state[r] # "running") =>
    \A f \in Flows : Owners(ambient[f]) \cap Runs = {}
=============================================================================
