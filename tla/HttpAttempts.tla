----------------------------- MODULE HttpAttempts -----------------------------
(***************************************************************************)
(* The attempt spans of the direct SDKs: OpenAI, Anthropic and Bedrock     *)
(* (their retry_handler.py), and the ordinals that attempt_naming.py gives *)
(* to the attempts of one parent span.                                     *)
(*                                                                         *)
(* A call of an SDK sends one HTTP request or, when it retries, several,   *)
(* one after the other; the hook sees each.  It opens a span for it under  *)
(* the current span, unless instrumentation is suppressed, a framework     *)
(* owns the thread (module RetryRegistry; here a switch), the request is   *)
(* not one to a model, or its response is streamed.                        *)
(*                                                                         *)
(* A parent is named by the call whose logical span it is; App is a span   *)
(* of the application.                                                     *)
(***************************************************************************)
EXTENDS FiniteSets, Naturals

CONSTANTS Call, App, NoSpan,
          Shapes,    \* what a call may be like
          MaxTries,  \* bound: the requests of a call
          MaxClock,  \* bound
          CounterMax, CounterBatch, CounterTtl  \* of attempt_naming.py

Provider == {"openai", "anthropic", "bedrock"}

\* "chat", "completion" (and embeddings), "responses" and "models" (no request
\* to a model) are calls of the OpenAI SDK, "messages" and the older "complete"
\* of Anthropic's, "invoke" (InvokeModel), "converse" and "opaque" (requests that
\* carry no context) of Bedrock's.
Kind == {"chat", "completion", "responses", "models", "messages", "complete",
         "invoke", "converse", "opaque"}

Shape == [kind : Kind, ambient : {App, NoSpan}, suppressed : BOOLEAN,
          stream : BOOLEAN]

Parent == Call \cup {App}
Try == 1..MaxTries

ASSUME NamesAssumption == App \notin Call /\ NoSpan \notin Parent
ASSUME ShapesAssumption == Shapes \subseteq Shape
ASSUME BoundsAssumption == MaxTries \in Nat /\ MaxClock \in Nat
ASSUME CounterAssumption ==
  /\ CounterMax \in Nat /\ CounterTtl \in Nat
  /\ CounterBatch \in Nat \ {0} /\ CounterBatch <= CounterMax

VARIABLES
  call,       \* call -> where it is, its shape, requests, the clock it read
  attempt,    \* the spans of its requests
  held,       \* Bedrock: the span in the request's context, 0 if none
  counters,   \* _COUNTERS, of attempt_naming.py
  marked,     \* the parents with fortifyroot.span.has_attempt_child
  installed,  \* the providers whose hook is in place
  owned,      \* is_framework_owned()
  clock,
  evicted     \* history: the parents whose counter was evicted

vars == <<call, attempt, held, counters, marked, installed, owned, clock, evicted>>

NoShape == [kind |-> "none", ambient |-> NoSpan, suppressed |-> FALSE,
            stream |-> FALSE]

NoAttempt == [parent |-> NoSpan, number |-> 0, retry |-> FALSE,
              is |-> "none", told |-> "nothing", usage |-> FALSE]

NoCounter == [last |-> 0, seen |-> 0]

Init == /\ call = [c \in Call |-> [at |-> "idle", shape |-> NoShape,
                                   tries |-> 0, now |-> 0]]
        /\ attempt = [c \in Call |-> [i \in Try |-> NoAttempt]]
        /\ held = [c \in Call |-> 0]
        /\ counters = [p \in Parent |-> NoCounter]
        /\ marked = {}
        /\ installed = {}
        /\ owned = FALSE
        /\ clock = 0
        /\ evicted = {}

-----------------------------------------------------------------------------
(* attempt_naming.py. *)

Counted(cs) == {p \in Parent : cs[p] # NoCounter}
Drop(cs, P) == [p \in Parent |-> IF p \in P THEN NoCounter ELSE cs[p]]

\* _evict_stale_locked()
Stale(now) == {p \in Counted(counters) : counters[p].seen + CounterTtl < now}

\* (Fault: two attempts at one reading of the clock are taken for one.)
Counter_OncePerTime(old, now) ==
  [last |-> IF old.seen = now /\ old.last > 0 THEN old.last ELSE old.last + 1,
   seen |-> now]

\* The counter of a parent after one more attempt.
Counter(old, now) == [last |-> old.last + 1, seen |-> now]

\* _enforce_max_locked(): the choices of counters that go.
OverMax(cs) ==
  IF Cardinality(Counted(cs)) <= CounterMax
    THEN {{}}
    ELSE {P \in SUBSET Counted(cs) :
            /\ Cardinality(P) = CounterBatch
            /\ \A p \in P, q \in Counted(cs) \ P : cs[p].seen <= cs[q].seen}

\* next_llm_attempt(), for a clock read before the lock was taken: the number
\* is that of the counter, with which it may at once be evicted.
NextLlmAttempt(p, now) ==
  LET fresh == Drop(counters, Stale(now))
      cs == [fresh EXCEPT ![p] = Counter(fresh[p], now)]
  IN  \E out \in OverMax(cs) :
        /\ counters' = Drop(cs, out)
        /\ evicted' = evicted \cup Stale(now) \cup out

Ordinal(p, now) ==
  Counter(Drop(counters, Stale(now))[p], now).last

-----------------------------------------------------------------------------
(* What the hooks ask. *)

ProviderOf(c) ==
  CASE call[c].shape.kind \in {"invoke", "converse", "opaque"} -> "bedrock"
    [] call[c].shape.kind \in {"messages", "complete"} -> "anthropic"
    [] OTHER -> "openai"

\* Does the SDK's logical wrapper make its own span current?  Not when the
\* application suppressed it, and never that of the Responses API.
Covers(c) ==
  ~call[c].shape.suppressed /\ call[c].shape.kind \notin {"responses", "models"}

\* _resolve_parent_span()
ParentOf(c) == IF Covers(c) THEN c ELSE call[c].shape.ambient

\* The chat wrapper suppresses other instrumentation, and says that it was it.
ByChat(c) == Covers(c) /\ call[c].shape.kind = "chat"

OpenAISuppressed(c) ==
  \/ (call[c].shape.suppressed \/ ByChat(c)) /\ ~ByChat(c)
  \/ owned

AnthropicSuppressed(c) == call[c].shape.suppressed \/ owned

BedrockSuppressed(c) == call[c].shape.suppressed \/ owned

\* (Fault: the streamed ones are counted as well.)
OpenAIEmits_Streams(c) ==
  /\ ~OpenAISuppressed(c)
  /\ call[c].shape.kind # "models"
  /\ ParentOf(c) # NoSpan

\* _should_emit_for(), the streaming skip, and the parent.
OpenAIEmits(c) ==
  /\ ~OpenAISuppressed(c)
  /\ call[c].shape.kind # "models"
  /\ ~call[c].shape.stream
  /\ ParentOf(c) # NoSpan

AnthropicEmits(c) ==
  ~AnthropicSuppressed(c) /\ ~call[c].shape.stream /\ ParentOf(c) # NoSpan

\* _before_send_hook() goes by the event's name, and by the context.
BedrockListens(c) ==
  call[c].shape.kind \in {"invoke", "converse"} /\ ~call[c].shape.stream

BedrockEmits(c) ==
  BedrockListens(c) /\ ~BedrockSuppressed(c) /\ ParentOf(c) # NoSpan

Emits(c) == /\ ProviderOf(c) \in installed
            /\ ProviderOf(c) = "openai" => OpenAIEmits(c)
            /\ ProviderOf(c) = "anthropic" => AnthropicEmits(c)
            /\ ProviderOf(c) = "bedrock" => BedrockEmits(c)

-----------------------------------------------------------------------------
(* A call and its requests. *)

Current(c) == call[c].tries

\* span.end(), which OpenTelemetry does once.
Ended(a, how) == [a EXCEPT !.is = IF @ = "open" THEN how ELSE "twice"]

Begin(c) == /\ call[c].at = "idle"
            /\ \E s \in Shapes :
                 call' = [call EXCEPT ![c] = [at |-> "ready", shape |-> s,
                                              tries |-> 0, now |-> 0]]
            /\ UNCHANGED <<attempt, held, counters, marked, installed, owned,
                           clock, evicted>>

\* Bedrock's hook first takes out a span that an earlier request left behind.
Leftover(c) == IF BedrockListens(c) /\ "bedrock" \in installed
                 THEN {held[c]} \ {0} ELSE {}

\* What comes of a request: "bad" is a response that is no success, "raises"
\* an Exception, and "killed" another BaseException, as a cancelled task has.
Outcome == {"ok", "bad", "raises", "killed"}

\* What it comes down to, as _finalize_success() and _finalize_error() put it.
Status(out) == IF out = "ok" THEN "ok" ELSE "error"

\* A success tells the tokens it used in its body's usage, where the hooks look
\* for them.  Not these: of InvokeModel's answer botocore parses no body, and
\* that of the older completions may have no usage.
Unmetered == {"invoke", "complete"}

\* Does the span get them?  The body of a failure may tell them as well, but
\* Bedrock's hook reads that of a success only; nobody reads a stream's.
Usages(c, out) ==
  {u \in BOOLEAN :
     /\ u => /\ ~call[c].shape.stream /\ out \in {"ok", "bad"}
             /\ ProviderOf(c) = "bedrock" => out = "ok" /\ call[c].shape.kind # "invoke"
     /\ out = "ok" /\ call[c].shape.kind \notin Unmetered /\ ~call[c].shape.stream => u}

\* The SDK retries, or the call is over.
After(c, out, tries) ==
  \E at \in {"ready", "over"} :
    /\ out \in {"ok", "killed"} => at = "over"
    /\ call' = [call EXCEPT ![c].at = at, ![c].tries = tries]

\* The span of a request that was answered.
Answered(a, out, usage) ==
  Ended([a EXCEPT !.told = Status(out), !.usage = usage], Status(out))

\* A request that gets no span, whatever comes of it.
SendBare(c) ==
  /\ call[c].at = "ready" /\ call[c].tries < MaxTries
  /\ ~Emits(c)
  /\ After(c, "bad", call[c].tries + 1)
  /\ attempt' = [attempt EXCEPT ![c] = [i \in Try |->
                   IF i \in Leftover(c) THEN Ended(@[i], "error") ELSE @[i]]]
  /\ held' = [held EXCEPT ![c] = IF Leftover(c) # {} THEN 0 ELSE @]
  /\ UNCHANGED <<counters, marked, installed, owned, clock, evicted>>

\* One that does: the clock is read,
ReadClock(c) ==
  /\ call[c].at = "ready" /\ call[c].tries < MaxTries
  /\ Emits(c)
  /\ call' = [call EXCEPT ![c].at = "number", ![c].now = clock]
  /\ attempt' = [attempt EXCEPT ![c] = [i \in Try |->
                   IF i \in Leftover(c) THEN Ended(@[i], "error") ELSE @[i]]]
  /\ held' = [held EXCEPT ![c] = IF Leftover(c) # {} THEN 0 ELSE @]
  /\ UNCHANGED <<counters, marked, installed, owned, clock, evicted>>

\* and the attempt numbered, under the lock; the span is opened, its parent
\* marked, and the request sent.
Open(c) ==
  LET p == ParentOf(c)  n == Ordinal(p, call[c].now)  i == Current(c) + 1
  IN  /\ call[c].at = "number"
      /\ NextLlmAttempt(p, call[c].now)
      /\ attempt' = [attempt EXCEPT ![c][i] =
                       [parent |-> p, number |-> n, retry |-> n > 1,
                        is |-> "open", told |-> "nothing", usage |-> FALSE]]
      /\ marked' = marked \cup {p}
      /\ held' = [held EXCEPT ![c] = IF ProviderOf(c) = "bedrock" THEN i ELSE @]
      /\ call' = [call EXCEPT ![c].at = "sent", ![c].tries = i,
                             ![c].now = 0]
      /\ UNCHANGED <<installed, owned, clock>>

\* (Fault: only an Exception is caught.)
OpenAIAnswer_Exceptions(c) ==
  /\ ProviderOf(c) = "openai" /\ call[c].at = "sent"
  /\ \E out \in Outcome : \E u \in Usages(c, out) :
       /\ After(c, out, Current(c))
       /\ attempt' = [attempt EXCEPT ![c][Current(c)] =
                        IF out = "killed" THEN [@ EXCEPT !.told = Status(out)]
                        ELSE Answered(@, out, u)]
  /\ UNCHANGED <<held, counters, marked, installed, owned, clock, evicted>>

\* The rest of _sync_send_wrapper() and _async_send_wrapper(), which catch
\* every BaseException.
OpenAIAnswer(c) ==
  /\ ProviderOf(c) = "openai" /\ call[c].at = "sent"
  /\ \E out \in Outcome : \E u \in Usages(c, out) :
       /\ After(c, out, Current(c))
       /\ attempt' = [attempt EXCEPT ![c][Current(c)] = Answered(@, out, u)]
  /\ UNCHANGED <<held, counters, marked, installed, owned, clock, evicted>>

AnthropicAnswer(c) ==
  /\ ProviderOf(c) = "anthropic" /\ call[c].at = "sent"
  /\ \E out \in Outcome : \E u \in Usages(c, out) :
       /\ After(c, out, Current(c))
       /\ attempt' = [attempt EXCEPT ![c][Current(c)] = Answered(@, out, u)]
  /\ UNCHANGED <<held, counters, marked, installed, owned, clock, evicted>>

\* response-received: the span is taken out of the context, and ended.
BedrockAnswer(c) ==
  /\ ProviderOf(c) = "bedrock" /\ call[c].at = "sent"
  /\ \E out \in Outcome \ {"killed"} : \E u \in Usages(c, out) :
       /\ After(c, out, Current(c))
       /\ attempt' = [attempt EXCEPT ![c][held[c]] = Answered(@, out, u)]
  /\ held' = [held EXCEPT ![c] = 0]
  /\ UNCHANGED <<counters, marked, installed, owned, clock, evicted>>

\* botocore does not fire it: for a BaseException, or against what it says.
BedrockUnanswered(c) ==
  /\ ProviderOf(c) = "bedrock" /\ call[c].at = "sent"
  /\ \E out \in {"raises", "killed"} :
       /\ After(c, out, Current(c))
       /\ attempt' = [attempt EXCEPT ![c][Current(c)].told = "unanswered"]
  /\ UNCHANGED <<held, counters, marked, installed, owned, clock, evicted>>

-----------------------------------------------------------------------------
(* The hooks, the frameworks, and time. *)

\* instrument_retry_emitter(), which does nothing the second time, and
\* install_event_hooks_on_client().
Install(p) == /\ installed' = installed \cup {p}
              /\ UNCHANGED <<call, attempt, held, counters, marked, owned,
                             clock, evicted>>

\* uninstrument_retry_emitter(); nothing takes Bedrock's hooks off a client.
Uninstall(p) == /\ p # "bedrock" /\ installed' = installed \ {p}
                /\ UNCHANGED <<call, attempt, held, counters, marked, owned,
                               clock, evicted>>

FrameworkTurns == /\ owned' = ~owned
                  /\ UNCHANGED <<call, attempt, held, counters, marked,
                                 installed, clock, evicted>>

Tick == /\ clock < MaxClock /\ clock' = clock + 1
        /\ UNCHANGED <<call, attempt, held, counters, marked, installed, owned,
                       evicted>>

Next == \/ \E c \in Call : \/ Begin(c) \/ SendBare(c) \/ ReadClock(c) \/ Open(c)
                           \/ OpenAIAnswer(c) \/ AnthropicAnswer(c)
                           \/ BedrockAnswer(c) \/ BedrockUnanswered(c)
        \/ \E p \in Provider : Install(p) \/ Uninstall(p)
        \/ FrameworkTurns \/ Tick

Spec == Init /\ [][Next]_vars

-----------------------------------------------------------------------------
(* Properties. *)

Opened(c) == {i \in Try : attempt[c][i] # NoAttempt}

\* Every variable keeps its type.
TypeOK ==
  /\ call \in [Call -> [at : {"idle", "ready", "number", "sent", "over"},
                        shape : Shapes \cup {NoShape}, tries : 0..MaxTries,
                        now : 0..MaxClock]]
  /\ attempt \in [Call -> [Try ->
       [parent : Parent \cup {NoSpan}, number : Nat, retry : BOOLEAN,
        is : {"none", "open", "ok", "error"},
        told : {"nothing", "unanswered", "ok", "error"}, usage : BOOLEAN]]]
  /\ held \in [Call -> 0..MaxTries]
  /\ counters \in [Parent -> [last : Nat, seen : 0..MaxClock]]
  /\ marked \subseteq Parent /\ evicted \subseteq Parent
  /\ installed \subseteq Provider /\ owned \in BOOLEAN /\ clock \in 0..MaxClock

\* An attempt's span is ended once, with the status of what came back, whether
\* its call returns, raises or is cancelled, and whether its hook is taken away
\* meanwhile.  One stays open after its request only if botocore never told
\* Bedrock's hook of the response, and then the context still holds it; the
\* parent is marked if and only if an attempt was opened under it (the three
\* retry_handler.py).
SpansAccounted ==
  /\ TypeOK
  /\ \A c \in Call : \A i \in Opened(c) :
       LET a == attempt[c][i]
       IN  /\ a.told \in {"ok", "error"} => a.is = a.told
           /\ a.told = "nothing" => call[c].at = "sent" /\ i = Current(c)
           /\ a.told = "unanswered" =>
                \/ a.is = "error"
                \/ a.is = "open" /\ held[c] = i
  /\ marked = {attempt[c][i].parent : c \in Call, i \in Try} \ {NoSpan}

\* An attempt that says it is a retry follows another one of its parent; as
\* long as the parent's counter was never evicted, no two of its attempts have
\* one number, and those of a call under its own span are 1, 2, ... in order
\* (next_llm_attempt(), with its clock read before the lock, its age limit and
\* its cap).
NumbersTell ==
  \A c \in Call : \A i \in Opened(c) :
    LET a == attempt[c][i]
    IN  /\ a.retry => \E d \in Call : \E j \in Opened(d) :
                        /\ attempt[d][j].parent = a.parent
                        /\ d # c \/ j < i
        /\ a.parent \notin evicted =>
             \A d \in Call : \A j \in Opened(d) :
               attempt[d][j].parent = a.parent /\ attempt[d][j].number = a.number
                 => d = c /\ j = i
        /\ a.parent = c /\ c \notin evicted =>
             a.number = Cardinality({j \in Opened(c) : j <= i})

\* A call whose span is marked as having attempts, which the backend then reads
\* instead of it, has one, and is no suppressed call: marking is by the parent of
\* the request, so that a suppressed call marks no span but the application's.
\* What its attempts leave is enough: each that was answered well has the tokens
\* the call used, which is why streamed requests get none (the streaming skips).
\* Two kinds of call have attempts that do not tell: InvokeModel's, as the body
\* botocore parses has no usage (bedrock's _finalize_success()), and those of
\* Anthropic's older completions, whose body may have none.
MarkedCarryUsage ==
  \A c \in Call \cap marked :
    /\ ~call[c].shape.suppressed
    /\ \E i \in Opened(c) : attempt[c][i].parent = c
    /\ \A i \in Opened(c) :
         attempt[c][i].told = "ok" /\ call[c].shape.kind \notin Unmetered
           => attempt[c][i].usage

\* A claim that the code does not keep (bedrock/retry_handler.py, of the streams
\* it skips: an attempt that cannot carry the token usage would make the backend
\* take an event of no tokens for the call, instead of its bedrock.completion
\* span, which has them all): InvokeModel's attempts are such.
MarkedUsageKnown ==
  \A c \in Call \cap marked : \A i \in Opened(c) :
    ProviderOf(c) = "bedrock" /\ attempt[c][i].told = "ok" => attempt[c][i].usage

\* A claim that the code does not keep (attempt_naming.py: next_llm_attempt() is
\* for a parent that is the logical call's own span, "otherwise unrelated LLM
\* calls under the same workflow can be mislabeled as retries"): the Responses
\* API's span is not the current one, so that its calls are numbered together
\* under the application's span.
RetryMeansRetry ==
  \A c \in Call : \A i \in Opened(c) :
    attempt[c][i].retry => \E j \in Opened(c) : j < i
=============================================================================
