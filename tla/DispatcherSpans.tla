---------------------------- MODULE DispatcherSpans ----------------------------
(***************************************************************************)
(* The span and event handlers that the LlamaIndex instrumentation adds to *)
(* the dispatcher: the span of an operation, the context it makes current, *)
(* the operations that return a stream and wait for its end, and the chain *)
(* of parents that an end of stream takes down.                            *)
(*                                                                         *)
(* LlamaIndex enters, exits and drops operations and sends events; which   *)
(* operation is the parent of another is its business (active_span_id), as *)
(* are open_spans, from which exits and drops remove the operation.        *)
(***************************************************************************)
EXTENDS AmbientContext, FiniteSets

CONSTANTS Ops, Kinds

ASSUME FlowsAssumption == Flows # {}
ASSUME KindsAssumption == Kinds \subseteq {"provider", "workflow", "other"}

VARIABLES
  state,    \* state[o]: idle, open (in open_spans), exited, dropped
  kind,     \* a class that an instrumentation of its own covers, a Workflow, or neither
  lineage,  \* lineage[o]: o, its SpanHolder.parent, the parent of that, ...
  flow,     \* flow[o]: where it was entered
  context,  \* SpanHolder.context
  token,    \* SpanHolder.token
  active,   \* SpanHolder._active
  ends,     \* ends[o]: how often the span was ended
  streams,  \* operations with SpanHolder.waiting_for_streaming
  waiting,  \* keys of waiting_for_streaming_spans
  raised,   \* history: an event handler raised
  astray    \* history: operations that were not taken off the top of their flow

dispatcherVars == <<ambient, state, kind, lineage, flow, context, token, active,
                    ends, streams,  waiting, raised, astray>>

DispatcherInit ==
  /\ ambient = [f \in Flows |-> <<>>]
  /\ state = [o \in Ops |-> "idle"] /\ kind \in [Ops -> Kinds]
  /\ lineage = [o \in Ops |-> <<>>]
  /\ flow = [o \in Ops |-> CHOOSE f \in Flows : TRUE]
  /\ context = [o \in Ops |-> <<>>] /\ token = [o \in Ops |-> <<>>]
  /\ active = [o \in Ops |-> TRUE] /\ ends = [o \in Ops |-> 0]
  /\ streams = {} /\ waiting = {} /\ raised = FALSE /\ astray = {}

-----------------------------------------------------------------------------
(* Entering. *)

\* open_spans.get(parent_span_id), and the holders above it.
Above(p) == IF p # <<>> /\ state[p[1]] = "open" THEN lineage[p[1]] ELSE <<>>

\* What the context of the new span is built on.
Base(above, f) ==
  IF above = <<>> THEN ambient[f] ELSE context[above[1]]

\* The suppression is turned off for a class with an instrumentation of its
\* own, and on for every other.
OwnLayer(o) == Layer(o, TRUE, IF kind[o] = "provider" THEN "off" ELSE "on")

\* new_span()
NewSpan(o, p, f) ==
  /\ state[o] = "idle" /\ state' = [state EXCEPT ![o] = "open"]
  /\ flow' = [flow EXCEPT ![o] = f]
  /\ lineage' = [lineage EXCEPT ![o] = <<o>> \o Above(p)]
  /\ context' = [context EXCEPT ![o] = Append(Base(Above(p), f), OwnLayer(o))]
  /\ Attach(f, context'[o])
  /\ token' = [token EXCEPT ![o] = <<Token(f)>>]
  /\ UNCHANGED <<kind, active, ends, streams, waiting, raised, astray>>

-----------------------------------------------------------------------------
(* Ending: SpanHolder.end() of a chain of operations, one after the other. *)

\* end() returns at once unless _active: the places of the chain that end.
Ending(chain) == {i \in DOMAIN chain : active[chain[i]]}

Members(chain) == {chain[i] : i \in DOMAIN chain}

\* (Fault: the first to be detached wins.)
Restored_First(places, chain, f) ==
  LET here == {i \in places : token[chain[i]][1].flow = f}
  IN  IF here = {} THEN ambient[f]
      ELSE token[chain[CHOOSE i \in here : \A j \in here : i <= j]][1].old

\* What is current in flow f when the operations at these places have put
\* back their tokens: what the last of them that belongs to f remembers.
Restored(places, chain, f) ==
  LET here == {i \in places : token[chain[i]][1].flow = f}
  IN  IF here = {} THEN ambient[f]
      ELSE token[chain[CHOOSE i \in here : \A j \in here : j <= i]][1].old

\* The operation at place i is on top of its flow when its turn comes.
OnTop(i, chain, f) ==
  /\ token[chain[i]][1].flow = f
  /\ context[chain[i]] = Restored({j \in Ending(chain) : j < i}, chain, f)

\* end() of each, in flow f.
EndAll(chain, f) ==
  LET ending == {chain[i] : i \in Ending(chain)}
  IN  /\ active' = [o \in Ops |-> active[o] /\ o \notin ending]
      /\ ends' = [o \in Ops |-> IF o \in ending THEN ends[o] + 1 ELSE ends[o]]
      /\ Attach(f, Restored(Ending(chain), chain, f))
      /\ astray' = astray \cup
           {chain[i] : i \in {i \in Ending(chain) : ~OnTop(i, chain, f)}}

\* (Fault: the span is not ended either.)
EndAttached_Not(o) == astray' = astray \cup {o} /\ UNCHANGED <<ambient, active, ends>>

\* end(should_detach_context=False)
EndAttached(o) ==
  /\ active' = [active EXCEPT ![o] = FALSE]
  /\ ends' = [ends EXCEPT ![o] = IF active[o] THEN @ + 1 ELSE @]
  /\ astray' = IF active[o] THEN astray \cup {o} ELSE astray
  /\ UNCHANGED ambient

-----------------------------------------------------------------------------
(* Leaving. *)

\* (Fault: the parents are notified as at the end of a stream.)
ExitSpan_Notifies(o, f) ==
  /\ state[o] = "open" /\ state' = [state EXCEPT ![o] = "exited"]
  /\ EndAll(lineage[o], f)
  /\ UNCHANGED <<kind, lineage, flow, context, token, streams, waiting, raised>>

\* prepare_to_exit_span(): the operation returned a value.
ExitSpan(o, f) ==
  /\ state[o] = "open" /\ state' = [state EXCEPT ![o] = "exited"]
  /\ IF kind[o] = "workflow" THEN EndAttached(o) ELSE EndAll(<<o>>, f)
  /\ UNCHANGED <<kind, lineage, flow, context, token, streams, waiting, raised>>

\* prepare_to_exit_span(): it returned a generator or a StreamingResponse.
ExitStreaming(o) ==
  /\ state[o] = "open" /\ state' = [state EXCEPT ![o] = "exited"]
  /\ streams' = streams \cup {o} /\ waiting' = waiting \cup {o}
  /\ UNCHANGED <<ambient, kind, lineage, flow, context, token, active, ends, raised, astray>>

\* prepare_to_drop_span(): it raised.  The holder is not ended.
DropSpan(o) ==
  /\ state[o] = "open" /\ state' = [state EXCEPT ![o] = "dropped"]
  /\ astray' = IF active[o] THEN astray \cup {o} ELSE astray
  /\ UNCHANGED <<ambient, kind, lineage, flow, context, token, active, ends, streams,
                 waiting, raised>>

\* (Fault: only the operation itself is taken out.)
Popped_Self(o) == waiting \cap {o}

\* OpenLLMetryEventHandler.handle() takes the finished operations out of
\* waiting_for_streaming_spans, up to the first that is not in it.
Popped(o) ==
  LET chain == lineage[o]
  IN  {chain[i] : i \in {i \in DOMAIN chain : \A j \in 1..i : chain[j] \in waiting}}

\* A streaming end event of an operation that waits for it: the operation
\* and all above it end, those still open too.
StreamEndEvent(o, f) ==
  /\ o \in waiting /\ o \in streams
  /\ EndAll(lineage[o], f)
  /\ waiting' = waiting \ Popped(o)
  /\ raised' = (raised \/ \E q \in Members(lineage[o]) : q \notin waiting)
  /\ UNCHANGED <<state, kind, lineage, flow, context, token, streams>>

\* A new task or thread runs in a copy of the context.
Copy(f, g) ==
  /\ ambient[f] # <<>> /\ ambient[g] = <<>>
  /\ \A o \in Ops : state[o] # "idle" => flow[o] # g
  /\ Attach(g, ambient[f])
  /\ UNCHANGED <<state, kind, lineage, flow, context, token, active, ends, streams,
                 waiting, raised, astray>>

DispatcherNext ==
  \/ \E o \in Ops, f \in Flows :
       \/ NewSpan(o, <<>>, f)
       \/ \E q \in Ops \ {o} : state[q] # "idle" /\ NewSpan(o, <<q>>, f)
       \/ ExitSpan(o, f) \/ StreamEndEvent(o, f)
  \/ \E o \in Ops : ExitStreaming(o) \/ DropSpan(o)
  \/ \E f, g \in Flows : Copy(f, g)

DispatcherSpec == DispatcherInit /\ [][DispatcherNext]_dispatcherVars

-----------------------------------------------------------------------------
(* Properties. *)

\* Every variable has its type, and no span is ended twice.
DispatcherTypeOK ==
  /\ DOMAIN ambient = Flows /\ flow \in [Ops -> Flows]
  /\ state \in [Ops -> {"idle", "open", "exited", "dropped"}] /\ kind \in [Ops -> Kinds]
  /\ lineage \in [Ops -> Seq(Ops)]
  /\ \A o \in Ops : state[o] # "idle" => Len(token[o]) = 1
  /\ active \in [Ops -> BOOLEAN] /\ ends \in [Ops -> 0..1]
  /\ waiting \subseteq streams /\ streams \subseteq Ops
  /\ raised \in BOOLEAN /\ astray \subseteq Ops

\* In a flow where every operation was taken off the top, the operation that
\* is current, and whose switch decides whether the SDKs are instrumented,
\* has not ended.
CurrentIsActive ==
  \A f \in Flows : (\A o \in astray : flow[o] # f) =>
    \A o \in Ops : IsCurrent(o, ambient[f]) /\ flow[o] = f => active[o]

\* The span of an operation that is over has ended, unless the operation
\* raised, or waits for the end of its stream.
SpansEnd ==
  \A o \in Ops : active[o] => state[o] \in {"idle", "open", "dropped"} \/ o \in waiting

\* Before its operation is over a span ends only with a stream below it.
EarlyEnds ==
  \A o \in Ops : state[o] \in {"open", "dropped"} /\ ~active[o] =>
    \E q \in streams \ {o} : ~active[q] /\ o \in Members(lineage[q])

\* Nothing waits for a stream that has ended, unless the event handler
\* raised on the way.
WaitingAgrees == \A o \in waiting : active[o] \/ raised

\* Spans end with their operation or with a stream below it, once.
SpansAccounted == DispatcherTypeOK /\ SpansEnd /\ EarlyEnds /\ WaitingAgrees

(* Claims of the repository that the code does not keep. *)

\* The handler takes what process_event() returns out of
\* waiting_for_streaming_spans: all of it is there.
FinishedWereWaiting == ~raised
=============================================================================
