-------------------------- MODULE DeferredFindings --------------------------
(***************************************************************************)
(* The thread-local buffer of safety findings that are made while no span  *)
(* records (instrumentation/fortifyroot/safety.py), and its users: the     *)
(* provider wrappers, which never empty it, LangChain's wrappers and       *)
(* callback handler, and LlamaIndex's wrappers and span handler.           *)
(*                                                                         *)
(* A framework screens a prompt before its callback opens the request's    *)
(* span, so that the findings wait in the buffer until the span takes      *)
(* them.  Asynchronous requests are tasks of one event loop: they screen   *)
(* on a worker of its pool, carry what the worker drained back to the      *)
(* loop's thread, and other tasks run wherever they await.                 *)
(*                                                                         *)
(* A request makes at most one finding at a place, and runs inside no span *)
(* but its own: an enclosing span that records would take its findings at  *)
(* once.  Its span may be dropped by the sampler, and then records         *)
(* nothing.  Neither langchain_core nor llama_index suspends a task        *)
(* between the wrapper's inject and the callback that opens the span.      *)
(***************************************************************************)
EXTENDS Naturals, FiniteSets

CONSTANTS Thread,      \* threads of the application
          Loop,        \* the one that runs the event loop
          Worker,      \* threads of the loop's default executor
          Provider, LangChain, LlamaIndex  \* requests, by what screens them

Request == Provider \cup LangChain \cup LlamaIndex
AnyThread == Thread \cup Worker
Finding == Request \X {"prompt", "completion"}

ASSUME ThreadAssumption == Loop \in Thread /\ Thread \cap Worker = {}
ASSUME RequestAssumption == /\ Provider \cap LangChain = {}
                            /\ Provider \cap LlamaIndex = {}
                            /\ LangChain \cap LlamaIndex = {}
\* The depth counts them.
ASSUME FiniteAssumption == IsFiniteSet(LlamaIndex)

VARIABLES
  buffer,   \* thread -> _deferred.items
  depth,    \* thread -> _safety_active.depth
  pc,       \* request -> where it is
  span,     \* request -> its span: "none", "recording" or "dropped"
  carried,  \* request -> what its worker drained for it
  events,   \* request -> the findings added to its span
  made      \* history: every finding made

vars == <<buffer, depth, pc, span, carried, events, made>>

Init == /\ buffer = [t \in AnyThread |-> {}]
        /\ depth = [t \in Thread |-> 0]
        /\ pc = [r \in Request |-> "new"]
        /\ span = [r \in Request |-> "none"]
        /\ carried = [r \in Request |-> {}]
        /\ events = [r \in Request |-> {}]
        /\ made = {}

\* What screening one text of a request may find.
MayFind(r, place) == {{}, {<<r, place>>}}

\* The events of a request after items are written on its span of kind s.
\* add_event has no effect on a span that does not record.
Written(r, s, items) ==
  IF s = "recording" THEN [events EXCEPT ![r] = @ \cup items] ELSE events

\* _emit_findings for a span of kind s: the findings that have to wait.
Waiting(s, found) == IF s = "recording" THEN {} ELSE found

\* (Fault: the items are returned and stay.)
Drained_Kept(w) == buffer[w]

\* drain_deferred_findings: what stays behind on the worker.
Drained(w) == {}

\* (Fault: nothing is discarded.)
Kept_All(r, t) == buffer[t]

\* discard_deferred_findings at a wrapper's entry, what stays: in LlamaIndex's
\* _enter_safety only the outermost wrapper discards.
Kept(r, t) == IF r \in LangChain \/ depth[t] = 0 THEN {} ELSE buffer[t]

Deeper(r) == IF r \in LlamaIndex THEN [depth EXCEPT ![Loop] = @ + 1] ELSE depth
\* _exit_safety
Shallower(r) ==
  IF r \in LlamaIndex
  THEN [depth EXCEPT ![Loop] = IF @ = 0 THEN 0 ELSE @ - 1]
  ELSE depth

------------------------------------------------------------------------------
(* Provider wrappers. *)

\* The wrapper opens its span and screens the prompt: on its own thread, or
\* on a worker if it is asynchronous.  A span that was dropped leaves the
\* findings in the buffer of that thread.
ProviderPrompt(r, t, s) ==
  /\ r \in Provider /\ pc[r] = "new"
  /\ \E found \in MayFind(r, "prompt") :
       /\ events' = Written(r, s, found)
       /\ buffer' = [buffer EXCEPT ![t] = @ \cup Waiting(s, found)]
       /\ made' = made \cup found
  /\ span' = [span EXCEPT ![r] = s]
  /\ pc' = [pc EXCEPT ![r] = "running"]
  /\ UNCHANGED <<depth, carried>>

ProviderCompletion(r, t) ==
  /\ r \in Provider /\ pc[r] = "running"
  /\ \E found \in MayFind(r, "completion") :
       /\ events' = Written(r, span[r], found)
       /\ buffer' = [buffer EXCEPT ![t] = @ \cup Waiting(span[r], found)]
       /\ made' = made \cup found
  /\ pc' = [pc EXCEPT ![r] = "done"]
  /\ UNCHANGED <<depth, span, carried>>

------------------------------------------------------------------------------
(* Synchronous framework requests: all on one thread, so one step. *)

\* BaseChatModel.generate: discard, screen, on_chat_model_start, which takes
\* the buffer, then _generate_with_cache: discard, call, screen, and
\* on_llm_end.  If the instrumentation is suppressed there is no span and
\* nothing is taken; if the call fails there is no completion.
LangChainSync(r, t, s) ==
  /\ r \in LangChain /\ pc[r] = "new"
  /\ \E p \in MayFind(r, "prompt"), c \in MayFind(r, "completion"),
        reached \in BOOLEAN :
       /\ ~reached => c = {}
       /\ events' = Written(r, s, (Kept(r, t) \cup p) \cup c)
       /\ buffer' = [buffer EXCEPT ![t] =
                       CASE s # "none" -> {}
                         [] s = "none" /\ reached -> c
                         [] s = "none" /\ ~reached -> Kept(r, t) \cup p]
       /\ made' = (made \cup p) \cup c
  /\ span' = [span EXCEPT ![r] = s]
  /\ pc' = [pc EXCEPT ![r] = "done"]
  /\ UNCHANGED <<depth, carried>>

\* llm_chat_wrapper: new_span takes the buffer; the end event screens the
\* completion for the span, and nothing takes what then waits.
LlamaIndexSync(r, t, s) ==
  /\ r \in LlamaIndex /\ pc[r] = "new" /\ s # "none"
  /\ \E p \in MayFind(r, "prompt"), c \in MayFind(r, "completion") :
       /\ events' = Written(r, s, (Kept(r, t) \cup p) \cup c)
       /\ buffer' = [buffer EXCEPT ![t] = Waiting(s, c)]
       /\ made' = (made \cup p) \cup c
  /\ span' = [span EXCEPT ![r] = s]
  /\ pc' = [pc EXCEPT ![r] = "done"]
  /\ UNCHANGED <<depth, carried>>

\* new_span for an operation of LlamaIndex that calls no model: it takes the
\* buffer too, and no wrapper has discarded before.
OtherSpan(r, t, s) ==
  /\ r \in LlamaIndex /\ pc[r] = "new" /\ s # "none"
  /\ events' = Written(r, s, buffer[t])
  /\ buffer' = [buffer EXCEPT ![t] = {}]
  /\ span' = [span EXCEPT ![r] = s]
  /\ pc' = [pc EXCEPT ![r] = "done"]
  /\ UNCHANGED <<depth, carried, made>>

------------------------------------------------------------------------------
(* Asynchronous framework requests. *)

\* The wrapper's start on the loop, up to the await of the worker.
Enter(r) ==
  /\ r \in LangChain \cup LlamaIndex /\ pc[r] = "new"
  /\ buffer' = [buffer EXCEPT ![Loop] = Kept(r, Loop)]
  /\ depth' = Deeper(r)
  /\ pc' = [pc EXCEPT ![r] = "prompt"]
  /\ UNCHANGED <<span, carried, events, made>>

\* _safety_on_worker: screen, then drain the worker's buffer.  The task of
\* an orphan was cancelled meanwhile, and nobody takes the result.
ScreenPrompt(r, w) ==
  /\ pc[r] \in {"prompt", "orphan"}
  /\ \E found \in MayFind(r, "prompt") :
       /\ carried' = [carried EXCEPT ![r] = buffer[w] \cup found]
       /\ made' = made \cup found
  /\ buffer' = [buffer EXCEPT ![w] = Drained(w)]
  /\ pc' = [pc EXCEPT ![r] = IF @ = "orphan" THEN "done" ELSE "screened"]
  /\ UNCHANGED <<depth, span, events>>

\* (Fault: the span takes the buffer, and then the findings are injected.)
Start_EmitsFirst(r, s) ==
  /\ pc[r] = "screened" /\ s # "none"
  /\ events' = Written(r, s, buffer[Loop])
  /\ buffer' = [buffer EXCEPT ![Loop] = carried[r]]
  /\ carried' = [carried EXCEPT ![r] = {}]
  /\ span' = [span EXCEPT ![r] = s]
  /\ pc' = [pc EXCEPT ![r] = "running"]
  /\ UNCHANGED <<depth, made>>

\* Back on the loop: inject, call the wrapped method, and the callback that
\* opens the span takes the buffer.
Start(r, s) ==
  /\ pc[r] = "screened" /\ s # "none"
  /\ events' = Written(r, s, buffer[Loop] \cup carried[r])
  /\ buffer' = [buffer EXCEPT ![Loop] = {}]
  /\ carried' = [carried EXCEPT ![r] = {}]
  /\ span' = [span EXCEPT ![r] = s]
  /\ pc' = [pc EXCEPT ![r] = "running"]
  /\ UNCHANGED <<depth, made>>

\* The same while LangChain's instrumentation is suppressed: no span.
StartSuppressed(r) ==
  /\ r \in LangChain /\ pc[r] = "screened"
  /\ buffer' = [buffer EXCEPT ![Loop] = @ \cup carried[r]]
  /\ carried' = [carried EXCEPT ![r] = {}]
  /\ pc' = [pc EXCEPT ![r] = "running"]
  /\ UNCHANGED <<depth, span, events, made>>

\* _completion_safety_on_worker: the request's span is the current one, so
\* that findings wait only if it does not record.
ScreenCompletion(r, w) ==
  /\ r \in LangChain /\ pc[r] = "running"
  /\ \E found \in MayFind(r, "completion") :
       /\ events' = Written(r, span[r], found)
       /\ carried' = [carried EXCEPT ![r] =
                        buffer[w] \cup Waiting(span[r], found)]
       /\ made' = made \cup found
  /\ buffer' = [buffer EXCEPT ![w] = Drained(w)]
  /\ pc' = [pc EXCEPT ![r] = "answered"]
  /\ UNCHANGED <<depth, span>>

\* (Fault: the worker's list is injected and used again.)
InjectCompletion_Reuses(r) ==
  /\ r \in LangChain /\ pc[r] = "answered"
  /\ buffer' = [buffer EXCEPT ![Loop] = @ \cup carried[r]]
  /\ pc' = [pc EXCEPT ![r] = "ending"]
  /\ UNCHANGED <<depth, span, carried, events, made>>

\* Back on the loop: inject, and return to the framework.
InjectCompletion(r) ==
  /\ r \in LangChain /\ pc[r] = "answered"
  /\ buffer' = [buffer EXCEPT ![Loop] = @ \cup carried[r]]
  /\ carried' = [carried EXCEPT ![r] = {}]
  /\ pc' = [pc EXCEPT ![r] = "ending"]
  /\ UNCHANGED <<depth, span, events, made>>

\* on_llm_end, one or more turns of the loop later.
LLMEnd(r) ==
  /\ pc[r] = "ending"
  /\ events' = Written(r, span[r], buffer[Loop])
  /\ buffer' = [buffer EXCEPT ![Loop] = IF span[r] = "none" THEN @ ELSE {}]
  /\ pc' = [pc EXCEPT ![r] = "done"]
  /\ UNCHANGED <<depth, span, carried, made>>

\* LlamaIndex screens a completion on the loop, for the request's span.
EndEvent(r) ==
  /\ r \in LlamaIndex /\ pc[r] = "running"
  /\ \E found \in MayFind(r, "completion") :
       /\ events' = Written(r, span[r], found)
       /\ buffer' = [buffer EXCEPT ![Loop] = @ \cup Waiting(span[r], found)]
       /\ made' = made \cup found
  /\ pc' = [pc EXCEPT ![r] = "answered"]
  /\ UNCHANGED <<depth, span, carried>>

Exit(r) ==
  /\ r \in LlamaIndex /\ pc[r] = "answered"
  /\ depth' = Shallower(r)
  /\ pc' = [pc EXCEPT ![r] = "done"]
  /\ UNCHANGED <<buffer, span, carried, events, made>>

\* (Fault: no finally.)
Abandon_NoFinally(r) ==
  /\ pc[r] \in {"prompt", "screened", "running", "answered", "ending"}
  /\ r \in LangChain \cup LlamaIndex
  /\ pc' = [pc EXCEPT ![r] = IF @ = "prompt" THEN "orphan" ELSE "done"]
  /\ UNCHANGED <<buffer, depth, span, carried, events, made>>

\* The call fails or the task is cancelled where it awaits: no later step
\* but the wrapper's finally, and on_llm_error takes no findings.  A worker
\* that still screens goes on.
Abandon(r) ==
  /\ pc[r] \in {"prompt", "screened", "running", "answered", "ending"}
  /\ r \in LangChain \cup LlamaIndex
  /\ depth' = Shallower(r)
  /\ pc' = [pc EXCEPT ![r] = IF @ = "prompt" THEN "orphan" ELSE "done"]
  /\ UNCHANGED <<buffer, span, carried, events, made>>

------------------------------------------------------------------------------
SpanKind == {"none", "recording", "dropped"}

Next ==
  \/ \E r \in Provider, t \in AnyThread :
       \/ \E s \in {"recording", "dropped"} : ProviderPrompt(r, t, s)
       \/ ProviderCompletion(r, t)
  \/ \E r \in Request, t \in Thread, s \in SpanKind :
       LangChainSync(r, t, s) \/ LlamaIndexSync(r, t, s) \/ OtherSpan(r, t, s)
  \/ \E r \in Request, w \in Worker :
       ScreenPrompt(r, w) \/ ScreenCompletion(r, w)
  \/ \E r \in Request, s \in SpanKind : Start(r, s)
  \/ \E r \in Request :
       \/ Enter(r) \/ StartSuppressed(r) \/ InjectCompletion(r) \/ LLMEnd(r)
       \/ EndEvent(r) \/ Exit(r) \/ Abandon(r)

Spec == Init /\ [][Next]_vars

------------------------------------------------------------------------------
(* Properties. *)

FindingsOf(r) == {f \in made : f[1] = r}
Strangers(r) == {f \in events[r] : f[1] # r}

\* Every variable keeps its type; before its span is opened a request has no
\* events, and only a request that awaits carries findings.
TypeOK ==
  /\ buffer \in [AnyThread -> SUBSET made] /\ made \subseteq Finding
  /\ depth \in [Thread -> Nat]
  /\ pc \in [Request -> {"new", "prompt", "orphan", "screened", "running",
                         "answered", "ending", "done"}]
  /\ span \in [Request -> SpanKind]
  /\ carried \in [Request -> SUBSET made]
  /\ events \in [Request -> SUBSET made]
  /\ \A r \in Request :
       /\ pc[r] \in {"new", "prompt", "orphan", "screened"} =>
            span[r] = "none" /\ events[r] = {}
       /\ pc[r] \notin {"screened", "answered", "done"} => carried[r] = {}

\* discard, emit, drain and inject move a finding, and never copy it: it is
\* in one buffer, on its way with one task, or on one span, or was dropped.
InOnePlace ==
  /\ \A t, u \in AnyThread : t # u => buffer[t] \cap buffer[u] = {}
  /\ \A q, r \in Request :
       /\ q # r => /\ carried[q] \cap carried[r] = {}
                   /\ events[q] \cap events[r] = {}
       /\ carried[q] \cap events[r] = {}
  /\ \A t \in AnyThread, r \in Request :
       buffer[t] \cap carried[r] = {} /\ buffer[t] \cap events[r] = {}

\* No finding of a request whose span records is lost, nor taken by another
\* request, whatever the others discard, drain and take in between.
RecordedFindingsReported ==
  \A r \in Request : span[r] = "recording" => FindingsOf(r) \subseteq events[r]

\* The wrapper's discard keeps what earlier requests left on the thread off
\* the span of a LangChain request that runs on one thread.
SyncKeepsStrangersOff ==
  [][\A r \in LangChain :
       pc[r] = "new" /\ pc'[r] = "done" => Strangers(r)' = {}]_vars

\* The depth that tasks of LlamaIndex share on the loop's thread counts those
\* in progress, failed and cancelled ones excluded.  If it stayed above zero
\* no later wrapper would discard.
DepthCounts ==
  /\ depth[Loop] = Cardinality({r \in LlamaIndex :
                      pc[r] \in {"prompt", "screened", "running", "answered"}})
  /\ \A t \in Thread \ {Loop} : depth[t] = 0

\* What threads and tasks share is accounted for: each finding has one place,
\* and the depth counts the tasks in progress, whatever fails or is cancelled
\* between the steps that move the one and change the other.
SharedAccounted == InOnePlace /\ DepthCounts

\* A claim of the repository that the code does not keep: discarding at the
\* start of a wrapper prevents "stale findings from a prior request on the
\* same thread from leaking into the current request's span".  Workers are
\* drained without a discard, and new_span takes the buffer without one.
NoStrangers == \A r \in Request : Strangers(r) = {}

=============================================================================
