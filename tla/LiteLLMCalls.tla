----------------------------- MODULE LiteLLMCalls -----------------------------
(***************************************************************************)
(* Calls of litellm.completion and litellm.acompletion through the         *)
(* wrappers of the LiteLLM instrumentation: the safety span, the context   *)
(* that keeps nested calls from being instrumented, the screening of the   *)
(* response by whoever comes first (the wrapper, or the completion logger  *)
(* that LiteLLM calls from a thread or worker of its own), and the         *)
(* generator around a streamed response.  A call may be cancelled while it *)
(* waits, and so may the logger, whose worker thread goes on; screening    *)
(* may raise, which nobody sees.                                           *)
(*                                                                         *)
(* The application opens and closes spans of its own around and between    *)
(* calls, as `with` blocks, which nest within a flow; it reads a stream in *)
(* any flow or drops it, and releases responses, whose addresses are then  *)
(* used for others.                                                        *)
(***************************************************************************)
EXTENDS AmbientContext, FiniteSets

CONSTANTS Calls,       \* the calls
          Scopes,      \* spans the application opens with `with`
          Addresses,   \* id() of response objects
          MaxMarkers   \* _FR_COMPLETION_SAFETY_MARKERS_MAX

ASSUME FlowsAssumption == Flows # {}
ASSUME MarkersAssumption == MaxMarkers \in Nat \ {0}

VARIABLES
  pc,        \* pc[c]: where the call is
  mode,      \* mode[c]: what kind of call it is
  flow,      \* flow[c]: where it was made
  token,     \* token[c]: span_token
  inner,     \* calls that LiteLLM makes while it serves another
  span,      \* span[c]: [ends, status] of the safety span
  object,    \* object[c]: address of the response while it is alive
  marked,    \* responses that carry the attribute
  markers,   \* _FR_COMPLETION_SAFETY_FALLBACK_MARKERS
  plain,     \* responses that refuse an attribute
  logger,    \* logger[c]: where the completion logger is
  applied,   \* applied[c]: how often the response was screened to its end
  failed,    \* history: responses of which a screening raised
  reused,    \* history: responses at the address of one that was marked
  scopes,    \* scopes[f]: the scopes open in flow f, with their tokens
  astray     \* history: calls whose token could not be put back in order

vars == <<ambient, pc, mode, flow, token, inner, span, object, marked, markers,
          plain, logger, applied, failed, reused, scopes, astray>>
response == <<object, marked, markers, plain, logger, applied, failed, reused>>

\* What completion() or acompletion() is asked for; an awaitable it returned is
\* "awaited" from its await on.
Modes == {"sync", "async", "awaitable", "stream", "astream"}
OnLoop == {"async", "awaited"}
Waiting == {"awaitable", "unread", "reading"}

Init ==
  /\ ambient = [f \in Flows |-> <<>>]
  /\ pc = [c \in Calls |-> "idle"] /\ mode \in [Calls -> Modes]
  /\ flow = [c \in Calls |-> CHOOSE f \in Flows : TRUE]
  /\ token = [c \in Calls |-> <<>>] /\ inner = {}
  /\ span = [c \in Calls |-> [ends |-> 0, status |-> "unset"]]
  /\ object = [c \in Calls |-> <<>>]
  /\ marked = {} /\ markers = {} /\ plain = {}
  /\ logger = [c \in Calls |-> "none"]
  /\ applied = [c \in Calls |-> 0] /\ failed = {} /\ reused = {}
  /\ scopes = [f \in Flows |-> <<>>] /\ astray = {}

-----------------------------------------------------------------------------
(* The ambient context. *)

\* A flow runs one thing at a time, but LiteLLM may make calls of its own
\* while it serves one.
Running(f) ==
  {c \in Calls : flow[c] = f /\ pc[c] \in {"calling", "finishing", "applying",
                                           "marking", "returning"}}
MayCall(f) == \A c \in Running(f) : pc[c] = "calling"

\* set_span_in_context(), the suppression key, and attach().
Covered(c, f) ==
  /\ Attach(f, Append(ambient[f], Layer(c, TRUE, "on")))
  /\ token' = [token EXCEPT ![c] = <<Token(f)>>]

\* (Fault: the stream wrapper leaves the token alone.)
Uncover_NotStreams(c, f) ==
  /\ ambient' = IF mode[c] \in {"stream", "astream"} THEN ambient
                ELSE Detached(token[c][1], f)
  /\ token' = [token EXCEPT ![c] = <<>>]
  /\ UNCHANGED astray

\* detach(span_token), in flow f.
Uncover(c, f) ==
  /\ ambient' = Detached(token[c][1], f)
  /\ token' = [token EXCEPT ![c] = <<>>]
  /\ astray' = IF /\ token[c][1].flow = f
                  /\ ambient[f] = Append(token[c][1].old, Layer(c, TRUE, "on"))
                 THEN astray ELSE astray \cup {c}

EndSpan(c, status) ==
  span' = [span EXCEPT ![c] = [ends |-> @.ends + 1,
                               status |-> IF status = "kept" THEN @.status ELSE status]]

-----------------------------------------------------------------------------
(* Making a call. *)

\* (Fault: the key is not looked at.)
Skips_Never(f) == FALSE

\* _should_skip_instrumentation()
Skips(f) == Suppressed(ambient[f])

\* The wrapper lets the call pass, and nothing of it is screened.
BeginSkipped(c, f) ==
  /\ pc[c] = "idle" /\ MayCall(f) /\ Skips(f)
  /\ pc' = [pc EXCEPT ![c] = "skipped"] /\ flow' = [flow EXCEPT ![c] = f]
  /\ inner' = IF Running(f) = {} THEN inner ELSE inner \cup {c}
  /\ UNCHANGED <<ambient, mode, token, span, response, scopes, astray>>

\* _invoke_completion() and _invoke_acompletion(): span, context, prompt.
Begin(c, f) ==
  /\ pc[c] = "idle" /\ MayCall(f) /\ ~Skips(f)
  /\ pc' = [pc EXCEPT ![c] = "calling"] /\ flow' = [flow EXCEPT ![c] = f]
  /\ inner' = IF Running(f) = {} THEN inner ELSE inner \cup {c}
  /\ Covered(c, f)
  /\ UNCHANGED <<mode, span, response, scopes, astray>>

\* (Fault: the error is not recorded.)
Raise_LeavesSpan(c) ==
  /\ pc[c] = "calling"
  /\ Uncover(c, flow[c]) /\ UNCHANGED span
  /\ pc' = [pc EXCEPT ![c] = "failed"]
  /\ UNCHANGED <<mode, flow, inner, response, scopes>>

\* The provider fails.
Raise(c) ==
  /\ pc[c] = "calling"
  /\ Uncover(c, flow[c]) /\ EndSpan(c, "error")
  /\ pc' = [pc EXCEPT ![c] = "failed"]
  /\ UNCHANGED <<mode, flow, inner, response, scopes>>

\* What is raised is no Exception: the task is cancelled, or the thread is
\* interrupted.  Only the await of an awaitable takes the context off, in its
\* finally clause, and nobody ends the span.
Cancel(c) ==
  /\ pc[c] = "calling"
  /\ IF mode[c] = "awaited" THEN Uncover(c, flow[c])
     ELSE UNCHANGED <<ambient, token, astray>>
  /\ pc' = [pc EXCEPT ![c] = "cancelled"]
  /\ UNCHANGED <<mode, flow, inner, span, response, scopes>>

\* The response object is made, at an address nothing alive has.
Responds(c, a, isPlain) ==
  /\ \A d \in Calls : object[d] # <<a>>
  /\ object' = [object EXCEPT ![c] = <<a>>]
  /\ plain' = IF isPlain THEN plain \cup {c} ELSE plain
  /\ reused' = IF a \in markers THEN reused \cup {c} ELSE reused
  /\ logger' = [logger EXCEPT ![c] = "called"]
  /\ UNCHANGED <<marked, markers, applied, failed>>

\* A whole response: LiteLLM has its callbacks called, and the wrapper
\* takes its context off.
Respond(c, a, isPlain) ==
  /\ pc[c] = "calling" /\ mode[c] \in {"sync"} \cup OnLoop
  /\ Responds(c, a, isPlain)
  /\ Uncover(c, flow[c])
  /\ pc' = [pc EXCEPT ![c] = "finishing"]
  /\ UNCHANGED <<mode, flow, inner, span, scopes>>

\* completion() has returned an awaitable, which the application gets.
RespondAwaitable(c) ==
  /\ pc[c] = "calling" /\ mode[c] = "awaitable"
  /\ Uncover(c, flow[c])
  /\ pc' = [pc EXCEPT ![c] = "awaitable"]
  /\ UNCHANGED <<mode, flow, inner, span, response, scopes>>

\* _finalize_awaitable_response(): the same context again, in the flow that
\* awaits it.
Await(c, f) ==
  /\ pc[c] = "awaitable" /\ Running(f) = {}
  /\ Covered(c, f)
  /\ flow' = [flow EXCEPT ![c] = f]
  /\ mode' = [mode EXCEPT ![c] = "awaited"]
  /\ pc' = [pc EXCEPT ![c] = "calling"]
  /\ UNCHANGED <<inner, span, response, scopes, astray>>

\* A streamed response: the generator owns span and token.
RespondStream(c) ==
  /\ pc[c] = "calling" /\ mode[c] \in {"stream", "astream"}
  /\ pc' = [pc EXCEPT ![c] = "unread"]
  /\ UNCHANGED <<ambient, mode, flow, token, inner, span, response, scopes, astray>>

-----------------------------------------------------------------------------
(* Screening a response once. *)

\* _completion_safety_already_applied()
AlreadyApplied(c) == c \in marked \/ object[c][1] \in markers

\* (Fault: the set of markers is never cleared.)
Mark_Grows(c) ==
  IF c \notin plain
    THEN marked' = marked \cup {c} /\ UNCHANGED markers
    ELSE markers' = markers \cup {object[c][1]} /\ UNCHANGED marked

\* _mark_completion_safety_applied()
Mark(c) ==
  IF c \notin plain
    THEN marked' = marked \cup {c} /\ UNCHANGED markers
    ELSE /\ markers' = {object[c][1]}
                       \cup IF Cardinality(markers) >= MaxMarkers THEN {} ELSE markers
         /\ UNCHANGED marked

\* apply_completion_safety() screens the response, or gives up half-way without
\* a word.
Screened(c) ==
  \/ applied' = [applied EXCEPT ![c] = @ + 1] /\ UNCHANGED failed
  \/ failed' = failed \cup {c} /\ UNCHANGED applied

\* _finalize_response(): the check ...
Check(c) ==
  /\ pc[c] = "finishing" /\ mode[c] = "sync"
  /\ pc' = [pc EXCEPT ![c] = IF AlreadyApplied(c) THEN "returning" ELSE "applying"]
  /\ UNCHANGED <<ambient, mode, flow, token, inner, span, response, scopes, astray>>

\* ... apply_completion_safety() ...
Apply(c) ==
  /\ pc[c] = "applying" /\ Screened(c)
  /\ pc' = [pc EXCEPT ![c] = "marking"]
  /\ UNCHANGED <<ambient, mode, flow, token, inner, span, object, marked, markers,
                 plain, logger, reused, scopes, astray>>

\* ... and the mark, in a finally clause.
ApplyDone(c) ==
  /\ pc[c] = "marking" /\ Mark(c)
  /\ pc' = [pc EXCEPT ![c] = "returning"]
  /\ UNCHANGED <<ambient, mode, flow, token, inner, span, object, plain, logger,
                 applied, failed, reused, scopes, astray>>

\* _async_finalize_response() has no await in it, and the event loop runs
\* nothing else meanwhile.
ApplyAsync(c) ==
  /\ pc[c] = "finishing" /\ mode[c] \in OnLoop
  /\ IF AlreadyApplied(c) THEN UNCHANGED <<applied, failed, marked, markers>>
     ELSE Screened(c) /\ Mark(c)
  /\ pc' = [pc EXCEPT ![c] = "returning"]
  /\ UNCHANGED <<ambient, mode, flow, token, inner, span, object, plain, logger,
                 reused, scopes, astray>>

\* The application has the response; the span ends.
Return(c) ==
  /\ pc[c] = "returning" /\ EndSpan(c, "ok")
  /\ pc' = [pc EXCEPT ![c] = "returned"]
  /\ UNCHANGED <<ambient, mode, flow, token, inner, response, scopes, astray>>

\* Its attributes cannot be written: the span ends without a status, and the
\* application has the exception in place of the response.
ReturnRaises(c) ==
  /\ pc[c] = "returning" /\ EndSpan(c, "kept")
  /\ pc' = [pc EXCEPT ![c] = "raised"]
  /\ UNCHANGED <<ambient, mode, flow, token, inner, response, scopes, astray>>

\* log_success_event() and async_log_success_event(): the check ...
LoggerCheck(c) ==
  /\ logger[c] = "called"
  /\ logger' = [logger EXCEPT ![c] = IF AlreadyApplied(c) THEN "done" ELSE "applying"]
  /\ UNCHANGED <<ambient, pc, mode, flow, token, inner, span, object, marked, markers,
                 plain, applied, failed, reused, scopes, astray>>

\* (Fault: the response is marked before it was screened.)
LoggerApply_MarksFirst(c) ==
  /\ \/ /\ logger[c] = "applying" /\ Mark(c) /\ UNCHANGED <<applied, failed>>
        /\ logger' = [logger EXCEPT ![c] = "marking"]
     \/ /\ logger[c] = "marking" /\ Screened(c) /\ UNCHANGED <<marked, markers>>
        /\ logger' = [logger EXCEPT ![c] = "done"]
  /\ UNCHANGED <<ambient, pc, mode, flow, token, inner, span, object, plain,
                 reused, scopes, astray>>

\* ... the screening (in a worker thread when asynchronous), and the mark.
LoggerApply(c) ==
  /\ \/ /\ logger[c] = "applying" /\ Screened(c) /\ UNCHANGED <<marked, markers>>
        /\ logger' = [logger EXCEPT ![c] = "marking"]
     \/ /\ logger[c] = "marking" /\ Mark(c) /\ UNCHANGED <<applied, failed>>
        /\ logger' = [logger EXCEPT ![c] = "done"]
  /\ UNCHANGED <<ambient, pc, mode, flow, token, inner, span, object, plain,
                 reused, scopes, astray>>

\* The logger's task is cancelled while it waits for the thread: the finally
\* clause marks the response at once.  The thread is at work, or never will be.
LoggerCancelled(c) ==
  /\ logger[c] = "applying" /\ mode[c] \in OnLoop
  /\ Mark(c)
  /\ \E left \in {"late", "cut"} : logger' = [logger EXCEPT ![c] = left]
  /\ UNCHANGED <<ambient, pc, mode, flow, token, inner, span, object, plain,
                 applied, failed, reused, scopes, astray>>

\* What the thread was at comes to its end.
LoggerLate(c) ==
  /\ logger[c] = "late" /\ Screened(c)
  /\ logger' = [logger EXCEPT ![c] = "cut"]
  /\ UNCHANGED <<ambient, pc, mode, flow, token, inner, span, object, marked, markers,
                 plain, reused, scopes, astray>>

\* Nobody refers to the response any more.
Release(c) ==
  /\ pc[c] \in {"returned", "raised"} /\ logger[c] \in {"done", "cut"} /\ object[c] # <<>>
  /\ object' = [object EXCEPT ![c] = <<>>]
  /\ UNCHANGED <<ambient, pc, mode, flow, token, inner, span, marked, markers,
                 plain, logger, applied, failed, reused, scopes, astray>>

-----------------------------------------------------------------------------
(* The generator around a streamed response. *)

\* The first item: from now on the finally clause will run.
Read(c) ==
  /\ pc[c] = "unread"
  /\ pc' = [pc EXCEPT ![c] = "reading"]
  /\ UNCHANGED <<ambient, mode, flow, token, inner, span, response, scopes, astray>>

\* The generator is exhausted, fails, or is closed, in flow f: a sync one by
\* whoever reads it or drops it, an async one that was dropped by a task of
\* the event loop.
Finally(c, f, status) ==
  /\ pc[c] = "reading" /\ Running(f) = {}
  /\ Uncover(c, f) /\ EndSpan(c, status)
  /\ pc' = [pc EXCEPT ![c] = "read"]
  /\ UNCHANGED <<mode, flow, inner, response, scopes>>

\* It is dropped before the first item: none of its code runs.
Drop(c) ==
  /\ pc[c] = "unread"
  /\ pc' = [pc EXCEPT ![c] = "dropped"] /\ astray' = astray \cup {c}
  /\ UNCHANGED <<ambient, mode, flow, token, inner, span, response, scopes>>

-----------------------------------------------------------------------------
(* The application's own spans. *)

OpenScope(s, f) ==
  /\ \A g \in Flows : \A i \in DOMAIN scopes[g] : scopes[g][i].owner # s
  /\ Running(f) = {}
  /\ scopes' = [scopes EXCEPT ![f] = Append(@, [owner |-> s, token |-> Token(f)])]
  /\ Attach(f, Append(ambient[f], Layer(s, TRUE, "inherited")))
  /\ UNCHANGED <<pc, mode, flow, token, inner, span, response, astray>>

\* The innermost scope is closed.  A token that is put back over a call which
\* has ended since then revives its context.
CloseScope(f) ==
  /\ scopes[f] # <<>> /\ Running(f) = {}
  /\ ambient' = Detached(scopes[f][Len(scopes[f])].token, f)
  /\ scopes' = [scopes EXCEPT ![f] = SubSeq(@, 1, Len(@) - 1)]
  /\ UNCHANGED <<pc, mode, flow, token, inner, span, response, astray>>

Next ==
  \/ \E c \in Calls, f \in Flows : BeginSkipped(c, f) \/ Begin(c, f) \/ Await(c, f)
  \/ \E c \in Calls, a \in Addresses, isPlain \in BOOLEAN : Respond(c, a, isPlain)
  \/ \E c \in Calls : \/ Raise(c) \/ Cancel(c) \/ RespondAwaitable(c) \/ RespondStream(c)
                      \/ Check(c) \/ Apply(c) \/ ApplyDone(c) \/ ApplyAsync(c)
                      \/ Return(c) \/ ReturnRaises(c) \/ LoggerCheck(c) \/ LoggerApply(c)
                      \/ LoggerCancelled(c) \/ LoggerLate(c) \/ Release(c)
                      \/ Read(c) \/ Drop(c)
  \/ \E c \in Calls, f \in Flows, status \in {"ok", "error", "kept"} : Finally(c, f, status)
  \/ \E s \in Scopes, f \in Flows : OpenScope(s, f)
  \/ \E f \in Flows : CloseScope(f)

Spec == Init /\ [][Next]_vars

-----------------------------------------------------------------------------
(* Properties. *)

Done == {"returned", "raised", "failed", "read"}

\* Every variable has its type.
TypeOK ==
  /\ DOMAIN ambient = Flows /\ flow \in [Calls -> Flows]
  /\ pc \in [Calls -> Done \cup Waiting \cup
               {"idle", "skipped", "calling", "finishing", "applying", "marking",
                "returning", "cancelled", "dropped"}]
  /\ mode \in [Calls -> Modes \cup {"awaited"}] /\ inner \subseteq Calls
  /\ \A c \in Calls : Len(token[c]) <= 1 /\ Len(object[c]) <= 1
  /\ span \in [Calls -> [ends : Nat, status : {"unset", "ok", "error"}]]
  /\ marked \subseteq Calls /\ plain \subseteq Calls /\ marked \cap plain = {}
  /\ markers \subseteq Addresses /\ Cardinality(markers) <= MaxMarkers
  /\ logger \in [Calls -> {"none", "called", "applying", "marking", "late", "cut", "done"}]
  /\ applied \in [Calls -> 0..2] /\ failed \subseteq Calls
  /\ reused \subseteq Calls /\ astray \subseteq Calls

\* However the logger and the wrapper race, the application gets a response
\* that one of them has screened, unless it lies at the address of a marked
\* one that is gone, its screening raised, or the logger was cancelled in it.
ReturnedScreened ==
  \A c \in Calls : pc[c] = "returned" =>
    applied[c] > 0 \/ c \in reused \/ c \in failed \/ logger[c] \in {"late", "cut"}

\* The safety span of every call that is over has ended once, with the
\* outcome of the call.  A call that was cancelled, an awaitable that is not
\* awaited and a stream that was dropped unread leave it open.
SpansEndOnce ==
  \A c \in Calls :
    /\ span[c].ends = (IF pc[c] \in Done THEN 1 ELSE 0)
    /\ pc[c] = "returned" => span[c].status = "ok"
    /\ pc[c] = "failed" => span[c].status = "error"
    /\ pc[c] = "raised" => span[c].status = "unset"

\* Safety spans and the state they hang on are accounted for.
SpansAccounted == TypeOK /\ SpansEndOnce

\* A flow is suppressed, so that calls made there are not screened, only
\* while a call that began there goes on, after the token of one could not be
\* put back in order, or after one was cancelled (but for an awaitable).
SuppressedForAReason ==
  \A f \in Flows : Suppressed(ambient[f]) =>
    \E c \in Calls \cap Owners(ambient[f]) :
      \/ c \in astray \/ pc[c] \in {"calling", "unread", "reading"}
      \/ pc[c] = "cancelled" /\ mode[c] # "awaited"

\* What LiteLLM calls while it serves a call is not instrumented again.
InnerCallsSkipped == \A c \in inner : pc[c] = "skipped"

\* The key in the context skips the calls it is meant for, and no others.
SkipsTheInner == SuppressedForAReason /\ InnerCallsSkipped

(* Claims of the repository that the code does not keep. *)

\* "Apply completion safety once for a concrete LiteLLM response object."
AppliedOnce == \A c \in Calls : applied[c] <= 1

\* Screening a response while its span is finished "makes the customer-visible
\* response deterministic": it does not depend on what became of the logger.
ReturnedDeterministic ==
  \A c \in Calls : pc[c] = "returned" => applied[c] > 0 \/ c \in reused \/ c \in failed

\* "It is detached here in the finally block": no flow keeps the context of a
\* stream that was read to its end.
DetachedInFinally ==
  \A c \in Calls, f \in Flows :
    pc[c] = "read" /\ flow[c] = f => c \notin Owners(ambient[f])
=============================================================================
