# Specifications of FortifyRoot Ocelle

TLA+ models of the parts of the Ocelle SDK (`src/src/fortifyroot`) where several
threads, tasks, callbacks, chunks or events meet, model-checked with TLC, and
theorems about them checked with TLAPS. Paths below are relative to
`src/src/fortifyroot/`, and `instr/` stands for
`_vendor/opentelemetry/instrumentation/`.

## The system

| Component | State | Operations | Interacts with |
|---|---|---|---|
| Safety runtime, `_internal/safety/runtime.py`, end of `core.init` | the global runtime and its lock; per runtime a snapshot store, a stop event, a poller thread; the UDF switch | `init`, `shutdown`, `start`, `stop`, `_poll_loop`, `_refresh_once`, `fetch` | writes the handler registrations of `instr/fortifyroot/safety.py` and `streaming.py`; asks the config service over HTTP |
| Handler registrations, `instr/fortifyroot/safety.py` | three globals under one lock | `register_*`, `clear_safety_handlers`, `get_*`, `run_*_safety[_async]` | read by every provider instrumentation; call back into the runtime |
| Configuration and set-up, `core.py` | the environment | endpoints, headers, authorization check, default exporters | calls the tracer SDK, then the safety runtime |
| Vendored tracer SDK, `_vendor/tracer/sdk` | one `TracerWrapper`, `MetricsWrapper`, `LoggerWrapper` per process | `Traceloop.init`, the three `__new__` | OpenTelemetry's global providers |
| Safety engine, `_internal/safety/engine.py` | none (compiled snapshots are frozen) | `evaluate_text`, `_evaluate_rule`, `_apply_masks`, `compile_snapshot` | called by the handlers and the streams |
| Streaming session, `_internal/safety/streaming.py`, `instr/fortifyroot/streaming.py` | pending text, its offset, the cap warning | `process_chunk`, `flush` | called by the stream wrappers; emits findings on the span |
| Provider call wrappers, `instr/{openai,anthropic,bedrock,google_generativeai}`, safety wrappers of `litellm`, `langchain`, `llamaindex` | span, the request's and the response's texts; headers and metric parameters that calls share | mask the request, call, mask the response, write both on the span, end it | handlers, OpenTelemetry |
| Provider stream wrappers, the same packages | the response so far, a safety session per choice or block, the buffered item | iterate, flush, finish, clean up, end the span | streaming session |
| OpenAI Responses API, `instr/openai/v1/responses_wrappers.py` | dictionary `responses` | create, retrieve, cancel, stream | entries are shared by calls |
| OpenAI Realtime API, `instr/openai/v1/realtime_wrappers.py` | per connection: session span, response span, accumulated text, sessions | connect, send, events, close | streaming session |
| OpenAI Assistants API, `instr/openai/v1/{assistant,event_handler}_wrapper*.py` | dictionaries `runs`, `assistants`; per stream the current text | create, retrieve, list, stream events | entries are shared by calls |
| LiteLLM calls, `instr/litellm` | the ambient context, markers of screened responses | `completion`, `acompletion`, logger callbacks | suppresses the SDKs below it |
| LangChain callback handler, `instr/langchain/callback_handler.py` | span holders by run id, attached contexts | start, end and error of chains, models, tools, retrievers | ambient context |
| LlamaIndex dispatcher, `instr/llamaindex/dispatcher_wrapper.py` | open spans, spans that wait for a stream | `new_span`, exit, drop, events | ambient context |
| Framework-attempt registry, `instr/fortifyroot/retry_registry.py` | tokens by thread, reverse index | `register_…`, `unregister_…`, `is_framework_owned`, `clear_for_thread` | written by the framework wrappers, asked by the SDK wrappers |
| Attempt spans of the frameworks, `instr/{litellm/__init__,langchain/retry_handler,llamaindex/retry_handler}.py` | one map per framework: run id to span, token, time | start and end callbacks, eviction by age and over the cap | registry; OpenTelemetry spans |
| HTTP attempts of the SDKs, `instr/{openai,anthropic,bedrock}/retry_handler.py` | installed hooks; Bedrock: the request context | the `send` wrappers and event hooks | registry, numbering |
| Attempt numbering, `instr/fortifyroot/attempt_naming.py` | counter by parent span | `next_llm_attempt`, `first_llm_attempt` | called by the above |
| Deferred findings, `instr/fortifyroot/safety.py` | a buffer per thread | discard, emit, drain, inject | LangChain's and LlamaIndex's safety wrappers |
| Profile parser, `_internal/safety/parser.py` | none | `parse_sdk_config_response` | called by `fetch` |
| Attribute renaming, synthetic logs, decorators, instrument selection, vendoring scripts | none that matters | mapping of names, thin wrappers, build tools | not modelled |

What is hard here: the poller, the callers of `init` and the requests share
stores and registrations without a common lock; a fetch outlives the wait for
its thread; the provider decides where a text is cut, and a match may lie across
any cut, or several matches across each other; a stream can end in six ways and
be cleaned up in three; start and end callbacks of a framework come on any
thread, in any order, twice or not at all, and race evictions; contexts are
attached in one callback and detached in another; OpenAI's stateful interfaces
keep module-wide dictionaries under no lock. `PROJECT.json` lists each hazard at
its line.

What makes each component correct:

* runtime: registrations belong together and to the global runtime; a request
  that no reconfiguration disturbs is screened with rules that are not older
  than those in force when it began; rules never regress, do arrive, calls
  return, stopped pollers end;
* set-up: no default exporter sends without authorization, or with another
  signal's, or metadata to a stranger; a call that is refused, disabled or
  raises leaves nothing attached;
* engine and sessions: characters are delivered once and in order; what is
  masked and reported does not depend on the chunks; pending text is bounded;
* call and stream wrappers: what is looked at is masked before the provider, the
  application or the span gets it; the text of a stream arrives whole and under
  its own choice; the span is ended, once, and tells how the call ended;
* stateful interfaces: an entry serves the calls that find it; the text of an
  event is told once, by the right span;
* contexts: what is current in a flow is what goes on there; a call is skipped
  only inside another;
* registry: index and buckets agree; a thread is owned exactly because of an
  attempt in progress, up to the age limit and the cap;
* attempts: each span is ended once, is numbered in order, stays reachable while
  it is open, and leaves nothing behind; suppressed calls have a reason;
* deferred findings: each is in one place, reaches the span of its own request,
  and no other; the depth that decides who discards returns to zero.

## Modules

| Module | Models | Used by |
|---|---|---|
| `SafetyRuntime` | runtime, registrations, poller, requests | |
| `SafetyEngine` | one evaluation of one text | `SafetyStream` |
| `TextSession` | what a session promises its callers | implemented by `SafetyStream`, assumed by `ProviderStreams` |
| `SafetyStream` | the session and its wrapper | |
| `ProviderStreams` | a streamed response of any provider | `ProviderCalls` |
| `ProviderCalls` | a call of any provider | |
| `ResponsesCalls`, `RealtimeSession`, `AssistantRuns`, `AssistantStream` | OpenAI's stateful interfaces | `OpenAIObjects` |
| `OpenAIObjects` | the four together, one part per behaviour | |
| `AmbientContext` | OpenTelemetry's context per flow | the next three |
| `LiteLLMCalls`, `LangChainSpans`, `DispatcherSpans` | spans and contexts of the three frameworks | |
| `RetryRegistry` | the registry | `RetryAttempts` |
| `RetryAttempts` | attempt spans of the frameworks, and the SDKs that ask | |
| `HttpAttempts` | attempt spans of the SDKs, and their numbers | |
| `DeferredFindings` | buffers, frameworks and providers on an event loop | |
| `SdkInit` | `init` as it is called again, up to the safety runtime | |

`MC…` modules hold the instances for TLC, `…Proofs` modules the theorems.

### SafetyRuntime

Threads that call `init` or `shutdown_global_safety_runtime` (`Caller`), a
poller per runtime (process `r` of `Runtime`), and requests. A step is what a
thread does between two accesses to shared state; `pc` says where a thread is.

| Action | Code |
|---|---|
| `InitCall`, `ShutdownCall` | `core.py:1021-1030`, `runtime.py:482-488`; the UDF switch is written before the lock is taken |
| `KeepRuntime`, `Acquire` | the lock and the test for the same configuration, 439-450 |
| `SetStop`, `Join`, `ClearStore`, `Unhook` | `stop()`, 296-301; the join returns whether or not the poller ended; the three registrations are separate steps |
| `Gate`, `UnhookOff` | 451-477 and the three branches that clear the handlers |
| `Refresh*`, `Fetch*` | `_refresh_once()` and `fetch()`, for the caller before the handlers are registered and for the poller |
| `Register`, `StartThread`, `StartThreadFails`, `Publish` | `start()`, 289-294, and 479 |
| `PollerWake` | `_poll_loop()` |
| `Capture`, `Screen` | the read of a handler, and the read of its snapshot |

A snapshot is the profile version it came from (0: none) and whether UDF
detectors were compiled in. `floor` and `seen` of a request are history: the
version in the global store when it began, and the one that screened it.

### SafetyEngine, TextSession, SafetyStream

`SafetyEngine` defines what one text yields under the rules: the matches of a
string-list rule (`_find_literal_matches`), the findings of a rule with the cap
of `MAX_REGEX_MATCHES` (`_evaluate_rule`), and the positions that `_apply_masks`
replaces. `SafetyStream` is the session driven by the wrapper of the
instrumentations: `ProcessChunk`, `Flush`, and both when the evaluation raises
(the iterator of a UDF detector is consumed outside its `try`). The text
received is kept as a whole; pending is what lies behind `offset`. What the
application receives is a sequence of blocks of received positions, so that
"masked", "lost" and "twice" can be said of positions. The reference for a
stream is one evaluation of the whole text (`StreamAgreesWithWhole`).

`TextSession` says what a caller may rely on, without saying how: what comes
back is a growing beginning of what was put in, nothing that was handed out is
rewritten, the flush hands out the rest, and after a failed evaluation no
character is lost. `KeepsPromise` is the refinement (`Promised!Spec`, with the
positions delivered and masked as the mapping) together with the bound on what
is held back while no evaluation failed. `ProviderStreams` is built on the
promise: a session there hands out any beginning of what it holds.

### ProviderStreams, ProviderCalls

One call of one wrapper: OpenAI's chat completions, text completions,
embeddings and Responses API, Anthropic's messages, Bedrock's InvokeModel and
Converse, Google's `generate_content`, LiteLLM's `completion`, and the safety
wrappers of LangChain and LlamaIndex. `ProviderCalls` gives each wrapper a
`Pipeline`, the order in which it masks, calls, records and ends, and the fields
it masks and records (`…Masks`, `…Tells`). `ProviderStreams` has one action for
each wrapper's chunk, end, failure and collection. The provider sends any
sequence of text, tool, final and other items that its protocol allows, in
several choices or blocks, and for OpenAI's chat completions the numbered parts
of several tool calls; it may fail or be cancelled at every step, a handler
may raise, the application may drop the stream.

| Action | Code |
|---|---|
| `Bypass` | a wrapper suppressed by a framework that masks and traces the call itself |
| `MaskRequest`, `TellRequest`, `MaskAnswer`, `Keep`, `Label`, `Meter`, `TellAnswer`, `Replies` | the steps of a pipeline, with a copy that fails, a handler that raises, a body that is not JSON, and writing attributes that raises (`MaskAnswerRaises`, `TellRaises`) |
| `CallAnswers`, `CallStreams` | the provider's answer, and what is wrapped for the application, or left unwrapped |
| `…CallFails`, `Cancelled` | the `except` clauses of each wrapper; those that let `CancelledError` through leave the span |
| `OtherInjects`, `OtherLabels` | another call of the application writes the headers, or Bedrock's metric parameters |
| `…Chunk`, `LastItem` | `ChatStream`, `ResponseStream`, the generator of text completions, `AnthropicStream`, the two stream wrappers of Bedrock, the generators of Google, LiteLLM and LlamaIndex: a chunk is screened, buffered, completed with a flush, and handed out |
| `OpenAITool`, `OpenAIChunkRaises`, `OpenAIToolRaises` | a part of a tool call; the lists of choices and of a choice's tool calls grow by one, so that an index that leaves a gap raises inside `ChatStream` |
| `…Ends`, `…EndRaises` | the end of the provider's stream, and completing the span when that raises |
| `…Breaks` | the provider's iterator raises |
| `Drops`, `Collect`, `CollectRaises` | the application stops reading; `__exit__`, `__del__` and `_ensure_cleanup` of those that have it (`SelfCleaning`) |

The text of a choice or block is a sequence of numbered pieces, so that loss,
order and mixing can be told. `TailsDelivered` excuses what is held back of a
block only by what the provider sent: `orphans` are those after whose last text
it sent something other than their end (`Interrupted`), whatever the wrapper
made of it. A stream that Bedrock's wrapper gives back unwrapped, as it cannot
parse the request's body or the span does not record, is one of the named ways
in which a span stays open (`SpansLeftOpen`). Texts of requests and responses are told apart by
the field they are in, each holding something to mask.

### ResponsesCalls, RealtimeSession, AssistantRuns, AssistantStream

The interfaces in which one call leaves something for another. They share no
state, so `OpenAIObjects` composes them with one part per behaviour
(`ObjectsNext`), and states properties over all four.

* `ResponsesCalls`: calls that create, retrieve or cancel a response, or stream
  one, over the dictionary `responses` and the provider's own record. The read
  of an entry with its merge (`Merge`), the write (`Keep`), and a cancel's removal
  (`Pop`) are separate steps. A request that fails tells it (`Fail`); one that
  names an entry by keyword first asks whether there is one (`FailFinds`), then
  reads it and writes it on the span (`FailTells`), and either can raise before
  the span is ended. Entries may lack tools or an input (a create that names a
  stored prompt), and a task may be cancelled in its await (`Interrupt`).
* `RealtimeSession`: one connection. The client adds input, asks for responses,
  closes or fails; the server numbers responses and sends events in order, two
  responses at a time if it likes. `spans` is every response span ever started;
  `accumulated`, `holding` and `tails` are the wrapper's text so far, what a
  streaming session holds back, and what it has given back at the end of a part.
* `AssistantRuns`: `runs.create`, `runs.retrieve` and `messages.list` of several
  tasks. An entry is replaced by a create and changed in place by a retrieve; a
  list looks it up once and reads it as it writes its span. The key is the
  keyword argument `thread_id` (`Key`): all threads named by position share the
  key None, except that an answered retrieve takes the thread from the answer.
* `AssistantStream`: `create_and_stream` and `EventHandleWrapper` between the
  SDK and the application's handler, which may raise from any callback.

### AmbientContext, LiteLLMCalls, LangChainSpans, DispatcherSpans

`AmbientContext` is OpenTelemetry's context variable: a context is the sequence
of layers it was built from, a token remembers what was current, detaching in
another flow does nothing. Over it:

* `LiteLLMCalls`: sync, async, awaited and streamed calls, inner calls that
  LiteLLM makes, the logger callback on a thread of its own that screens the
  same response, the marker on the response or in the bounded fallback set, and
  addresses that are used again. A screening may raise, which nobody sees, and
  the response is marked all the same (`Screened`, `ApplyDone`). A call may be
  cancelled in its await (`Cancel`): its span stays open and, but for an
  awaitable, its context stays on the flow with the switch that turns
  instrumentation off. The logger may be cancelled too (`LoggerCancelled`): it
  marks at once, and its thread goes on or never starts (`LoggerLate`).
  `Finally` is the generator's `finally`, in whatever flow it runs. The
  application's own spans are `with` blocks, which nest within a flow
  (`scopes`): scopes closed out of order would themselves leave a flow
  suppressed, whatever the wrapper does.
* `LangChainSpans`: the callbacks of chains, chat models, tools and retrievers,
  with their span holders, children, and the one to three tokens of a run.
* `DispatcherSpans`: `new_span`, `prepare_to_exit_span`, `prepare_to_drop_span`,
  the streaming results, and the end event that ends the waiting span and what
  waits above it (`lineage`: the operation, its holder's parent, and so on, fixed
  when it was entered).

### RetryRegistry, RetryAttempts

`RetryRegistry` has one action for each function of `retry_registry.py`, atomic
as they run under one lock, but with any earlier reading of the clock since the
clock is read before the lock. `attempt` and `dropped` are history.
`RetryAttempts` adds the framework wrappers (`StartSpan`, `RegisterToken`,
`InsertEntry`, then `Finalize`, `EndSpan`, `EndToken`, or `Crash`) and the SDK
wrappers (`SendInRun`, `SendDirectly`). The three wrappers share their code but
for the replaced entry of a duplicate start, the constant `Supersedes`: TRUE for
LangChain and LlamaIndex, FALSE for LiteLLM.

### HttpAttempts

Calls of OpenAI's, Anthropic's and Bedrock's SDK, each of one or more requests.
`ReadClock` and `Open` are the hook before the request (the clock is read before
the lock of the numbering is taken), `…Answer` and `BedrockUnanswered` what comes
after it, `SendBare` a request that gets no span. `Emits` is the decision: the
suppression keys, the framework's ownership (a switch here, `RetryRegistry`
elsewhere), the endpoint, the streaming skip, and the parent. `counters` are
those of `attempt_naming.py`, with age limit and cap. `usage` of an attempt says
whether its span got the tokens of the answer (`Usages`): a hook reads them in
the body, where Bedrock's finds those of Converse alone, and the older
completions of Anthropic may have none (`Unmetered`).

### DeferredFindings

Requests of a provider wrapper, of LangChain and of LlamaIndex, on the threads of
the application and on the workers of the event loop's pool. The items of
`_deferred` are sets of findings, a finding is its request and place, and `made`
is history.

| Action | Code |
|---|---|
| `ProviderPrompt`, `ProviderCompletion` | `chat_wrapper` and `achat_wrapper` of OpenAI: they screen with the span at hand; what a dropped span cannot take stays in the buffer (`_emit_findings`) |
| `LangChainSync` | `base_chat_model_generate_wrapper`, `on_chat_model_start`, `_generate_with_cache` and its wrapper, `on_llm_end` |
| `LlamaIndexSync`, `OtherSpan` | `llm_chat_wrapper`, `new_span` and the end event; `new_span` of an operation without a model |
| `Enter`, `ScreenPrompt`, `Start` | the asynchronous wrappers of both: discard, the worker's screening and drain, inject and the callback that opens the span |
| `StartSuppressed` | `on_chat_model_start` when the instrumentation is suppressed |
| `ScreenCompletion`, `InjectCompletion`, `LLMEnd` | LangChain's `_agenerate_with_cache` wrapper, and `on_llm_end` in a later turn of the loop |
| `EndEvent`, `Exit` | LlamaIndex's end event, and the `finally` of its wrapper |
| `Abandon` | a failure or cancellation at any await; a worker that screens goes on |

A synchronous request is one step since all of it runs on one thread. The model
assumes what the frameworks do: no task is suspended between `inject` and the
callback that opens the span. A request makes at most one finding per place and
runs inside no other span that records.

### SdkInit

Calls of `init` on several threads. `Refuse` is the authorization check,
`MakeFails` and `Make` the default exporters, then for each signal the wrapper's
`__new__`: `Check` whether there is an instance, `Claim` (the new object becomes
the instance), `Fill` or `FillFails`; `Safety` hands over to `SafetyRuntime`. An
endpoint is the class that the code's checks tell apart (managed with and
without a host name for `urlsplit`, other, plain `http`, `grpc`). Which of
argument and environment wins, and how a value is parsed, is left out.

## Runs

| Run | Properties |
|---|---|
| `safety_runtime` | `HandlersAgree`, `OneRefresher`, `RequestsKeepUp`, `RulesNeverRegress`; under `FairSpec` `CallsReturn`, `PollersStop`, `RulesArrive` |
| `safety_stream` | `IsolatedMatchesMasked`, `StreamAgreesWithWhole`, `OnlyMatchesMasked`, and `KeepsPromise`, the refinement of `TextSession` |
| `stream_split` | `MaskedBeforeDelivery`, violated: see below |
| `provider_calls` | `TextDelivered`, `TracesTell`, `TextsScreened`, `ToldAsSent`; `SpanEventually` under fair collection |
| `openai_objects` | `SpansTell`, `SharedEntriesServe`, `EventTextsTold` |
| `litellm_calls` | `SpansAccounted`, `ReturnedScreened`, `SkipsTheInner` |
| `langchain_spans` | `SpansAccounted`, `ContextFollowsRuns`, `UnderLivingSpan` |
| `dispatcher_spans` | `SpansAccounted`, `CurrentIsActive` |
| `retry_attempts` | `SpansAccounted`, `FinishedRunsLeaveNothing`, `AnswersExactly`, `SuppressedForAReason`, `SecondSpanOnlyWhenOld` |
| `http_attempts` | `SpansAccounted`, `NumbersTell`, `MarkedCarryUsage` |
| `deferred_findings` | `SharedAccounted`, `RecordedFindingsReported`, `SyncKeepsStrangersOff` |
| `sdk_init` | `ExportsGuarded`, `PipelinesAgree` |

The type invariant of each module is a conjunct of one of these. Each property
states its exceptions, where the code has some, so that what a run shows is
both what holds and exactly where it does not.

Bounds, and why they are enough:

* `safety_runtime`: two callers, two calls, one request: an old runtime's poller
  meets a new runtime's, a call waits for another's lock, and a request crosses
  both; two startable configurations and one that is refused; two profile
  versions, so that a late reply is older than the stored one; a thread may fail
  to start. The proofs cover any number of each.
* `safety_stream`: texts of up to six letters over three, chunks of up to two,
  rules whose values overlap themselves and each other, holdbacks that fit and do
  not fit the longest value, a cap on the pending text and a cap on findings that
  are both reached, evaluations that may raise. `stream_split` needs seven
  letters.
* `provider_calls`: one call of each of eleven wrappers, up to seven items in
  two choices or blocks, so that each is opened, continued after the other,
  closed and flushed, and two tool calls of a choice (`MaxTool` is the highest
  index), so that they come in order or with a gap; another call may write the
  shared headers or parameters at any moment.
* `openai_objects`: three calls and two responses, so that one is created,
  continued by another call and removed by a third, also while the second is
  failing; three calls over two runs and two threads of messages, each named by
  keyword or by position, so that a list looks up an entry that a second call
  made and a third replaces or changes; a connection with two responses of two
  pieces and two spans; a stream of two messages of up to two blocks of two pieces.
* `litellm_calls`: two calls in two flows, of which one may be made inside the
  other, two scopes of the application that nest, two addresses, one marker in the
  fallback set: the set overflows, an address is used again, and a scope that is
  closed puts back the context of a call that has ended since.
* `langchain_spans`, `dispatcher_spans`: three runs or operations in two flows: a
  parent, a child, and one more that starts before or ends after either.
* `retry_attempts`: two threads, two runs, three tokens (one run starts twice
  while the other runs), one direct call, a registry of two and a map of one
  entry, age limits of one tick with a clock up to two: an attempt is young,
  exactly at the limit, and old.
* `http_attempts`: two calls of two requests each, nine kinds of call and what may
  differ, one counter at most, an age limit of zero with a clock up to one, so
  that counters are evicted by age and by the cap between two requests.
* `deferred_findings`: the loop, one more thread, one worker; a provider's
  request that leaves findings anywhere, one of LangChain, two of LlamaIndex, so
  that two tasks share the depth while a third kind uses the same buffers.
* `sdk_init`: two calls. The first differs from the default call in up to two
  arguments, in every way; the second is that default, disabled, without the key,
  or brings exporters of its own.

Symmetry is used where the permuted values are interchangeable and no liveness
is checked. Deadlock is checked in `safety_runtime`; elsewhere calls, chunks,
tokens, runs or requests run out, and the system may stop.

### Fairness

`FairSpec` of `SafetyRuntime` asks that a thread that can take a step takes one:
the operating system schedules threads, a fetch has a time-out of five seconds
(`REQUEST_TIMEOUT_SECONDS`), and `wait` returns after the interval. It asks
strong fairness of `FetchCompiles` for pollers: the service answers a poller
that keeps asking, eventually; without it `RulesArrive` could not hold, as a
failed poll changes nothing. The lock needs no strong fairness because the
number of calls is bounded. `ProviderCalls` asks only that the interpreter
collects what the application dropped; neither the provider nor the application
is assumed to go on.

### The violation

`MaskedBeforeDelivery` (`README.md:92` of the repository: masking is applied
before the text is returned to the application): `process_chunk` moves the
release boundary to the start of a finding that crosses it, and that start may
lie inside another finding, which ended before the boundary only in part; the
head of that one is released unmasked. It takes three overlapping matches, seven
characters and an unlucky cut.

### Statements that the code does not keep

Met while modelling, defined next to the properties and not run. Added to the
configuration in the column on the left (as INVARIANT, or as PROPERTY where
marked *, then without SYMMETRY; for `OpenAIObjects` by a definition that names
it), TLC shows how each fails.

| Configuration | Statement | What happens |
|---|---|---|
| `SafetyRuntime` | `StopClearsSnapshot` | a poller whose join timed out writes the store after it was cleared; nobody reads that store for long, and `RequestsKeepUp` holds |
| | `EnablingUdfTakesEffect` * | enabling UDF detectors by a second `init` has no effect until the profile or the configuration changes |
| `SafetyStream` | `RemainingTextOnce` | a chunk returned after an exception is returned again by the flush |
| `RetryAttempts` with `Supersedes = FALSE` | `FinishedRunsLeaveNothing` | LiteLLM's duplicate start leaks the first span and its token |
| `DeferredFindings` | `NoStrangers` | what a dropped span left on a worker, or on a thread where LlamaIndex next opens the span of an operation without a model, ends up on another request's span; `SyncKeepsStrangersOff` is the part that holds |
| `ProviderCalls` | `FailedCallEndsSpan`, `CancelledCallEndsSpan` | Anthropic's wrapper leaves the span of a call that raised; the asynchronous wrappers do not catch `CancelledError` |
| | `BrokenStreamIsError` | OpenAI's clean-up ends the span of a broken stream with OK |
| | `StreamsScreened`, `AnswersScreened` | Bedrock parses the request before it screens: a body that is not JSON leaves the answer as it came; raw responses are not screened but by the Responses API |
| | `MetricsOwn`, `TraceOwn` | Bedrock's metric parameters, and the application's `extra_headers`, are shared by calls |
| `LiteLLMCalls` | `AppliedOnce`, `ReturnedDeterministic`, `DetachedInFinally` | wrapper and logger may both screen; the logger's task is cancelled while it waits for its screening, which marks the response, and the wrapper returns it as it is (`instr/litellm/__init__.py:139` says that its own screening makes what the customer sees deterministic); a generator finished in another flow cannot detach |
| `LangChainSpans` | `NothingLeftAtAll` | runs that end in another order than the reverse of their starts, or in another flow, leave a context attached |
| `DispatcherSpans` | `FinishedWereWaiting` | the end event ends everything above the operation, and takes out of the dictionary what was not waiting in it |
| `SdkInit` | `ExportsAuthorized`, `DisabledMeansOff`, `EnabledMeansOn`, `ExportedOnce`, `NeverHalfBuilt` | metrics go unchecked when exporter and processors are given; the flag that disables is never reset, and does not undo an earlier call; the test for an instance and its creation are separate, so that two calls both attach exporters; a wrapper whose set-up raised stays, and the next call takes it for complete |
| `HttpAttempts` | `MarkedUsageKnown`, `RetryMeansRetry` | an InvokeModel request that is not streamed marks its call, and its attempt has no usage, which is the reason `instr/bedrock/retry_handler.py:317-328` gives for skipping streams: an event of no tokens would be taken for the call's, instead of the `bedrock.completion` span; calls of the Responses API are numbered together under the application's span |
| `OpenAIObjects`, as `Realtime!…` | `TailGiven` *, `OneResponsePerSpan`, `NoSpanOutlivesSession`, `PromptKept` * | the text held back at the end of a part is not delivered; a response that starts while another runs writes on its span; closing a connection leaves the span of a response open; input is lost when `response.create` ends a span |
| as `Assistants!…` | `FailureOfThread`, `UsageOfRun`, `EndedIsFinished`, `ListedOnce` | threads named by position share one entry, so that a list tells the failure of another thread; a retrieve writes into the entry of its thread, whatever run that is by now; it sets the end time, finished or not; each list reports the run again |
| as `AssistantEvents!…` | `BlockAsSent`, `AllScreened`, `StreamEndsSpan` | the second block gets the text of the first before its own; the end of a message leaves other blocks unscreened; a malformed message leaves the span |

A comment of `core.py` (626-629) says that the environment wins over any
argument; `_resolve_api_endpoint` (128-135), the poll interval and the holdback
let the argument win. Three behaviours that no document denies: between the end
of `stop()` and the first fetch of the next runtime no handler is registered; of
two MASK findings that overlap in part the tail of the second is not masked; and
tasks of an event loop that share a thread suppress each other's direct SDK
spans while a framework's attempt is open.

## Proofs

All theorems hold for any number of threads, requests, calls, configurations and
tokens, and any bounds that satisfy the named assumptions; the assumptions only
say that the sets are disjoint or not empty where they must be, and that the
bounds are numbers. `SafetyProofs`, `FrameworkProofs` and `SdkProofs` each hold
the theorems of two modules that have nothing to do with each other.

`SafetyProofs`, of the runtime. The properties speak of states in which the lock is free
and are not inductive. The invariant `IInv` has four parts beside the types:
`ControlInv`, what a control point implies for the lock, the global runtime and
the runtime a call works on (a call that is stopping works on the global
runtime; one that is building has no global runtime, and its own is not yet
polled); `HookInv`, which registrations were already written at each point;
`VersionInv`, that a reply in flight for a live store is not older than the
store, which rests on `OneRefresher` (a runtime is refreshed by its caller
before its poller starts and by its poller after); and `RequestInv`, that a
request with a promise holds a handler of the global runtime, whose store only
grows. `RulesNeverGoBack` follows from the same invariant, step by step.

`SafetyProofs`, of the session: for any finite set of rules, any sizes, and any
texts cut into chunks anywhere. `StreamInv` is what the state alone says: the
blocks the application received are the released text, in order and once, what
is pending starts where the last block ended, and is bounded by holdback and
cap. `KeepsPromise` and `OnlyMatchesMasked` follow, the
refinement step by step. The other two claims compare a position that was
released with what the whole text, of which only a beginning was there at that
time, has at it, so they need to know when an evaluation of a piece of a text
finds what an evaluation of the whole finds. The lemmas about the engine say it:
a match is looked for from the left, after the match before it, and the set of
matches is the only one of that kind (`ScanTakes`, `ScanUnique`, by the least
position at which two such sets differ, which needs no induction over the
recursion); what comes behind a piece does not change its matches
(`MatchesOfPrefix`), nor what comes before it if no match crosses the cut
(`MatchesOfSuffix`); and the cap on matches is reached no earlier in the whole
than in a piece (`CapOfPrefix`, `CapOfSuffix`, by an injection). `BoundaryFacts`
and `NotCut` say that a release boundary is moved in front of what it would cut.
`IsolatedInv` and `AgreesInv` are the two claims, said of what is released so
far. They assume that the rules are finitely many and their values not empty,
which the profile parser refuses (`RulesAssumption`), and that the cap on the
buffer is positive (`SizesAssumption`); the holdback, the cap on matches and the
bounds may be any numbers (`MatchesAssumption`, `BoundsAssumption`).
`IsolatedMatchesMasked` is said for a holdback that no value exceeds
(`HoldbackFits`) and of a match that touches no other occurrence, found or not:
of found matches alone it is not true, since an occurrence that the whole text
hides behind an earlier match may be found in a piece of it, and then moves the
boundary, and the cap may leave out in the whole what it admits in a piece.

`RetryAttemptsProofs`, of the registry. `EntriesInv` ties the registry to the history: an entry
records an attempt in progress, with its thread and time; an attempt in progress
that is young and was not dropped has its entry. Hence no token has two entries,
and so the reverse index finds the right bucket. Three of the four operations
that remove entries are instances of one lemma, `RemovalInv`; `OverCapSuffices`
shows that one batch is enough to get below the cap. `AnswersExactly` is its two
halves, that answers are justified and that live attempts own their thread.

Of the wrappers, under the assumption `Supersedes` (LangChain and
LlamaIndex). `RegistrySteps` shows that each step of the wrappers is a step of
the registry or leaves it alone, so that `RegistryImplemented` holds
(`Spec => RegistrySpec`) and all that was proved of the registry carries over.
The rest comes from one idea: a token is in one place, with the start callback of
its run (`Starting`), in the map (`Mapped`), with an end callback (`closing`), or
done, and `TokenFits` says for each place what its span and its attempt are.
Without `Supersedes` a replaced token is nowhere and open, which is LiteLLM's
leak.

`ProviderCallsProofs`, for any set of the eleven wrappers, any number of choices or
blocks, and responses of any length. The wrappers share the steps of a pipeline
but not their order, so the invariant is said in terms of the steps that are
still to come (`Remains`), and `PipelineOrder` says once what the eleven orders
have in common: nothing is recorded before it is masked (`ToldFits`), metered
before it is labelled, and nothing happens to the span before its last steps
(`SpanFits`). Of a stream, `HeldFits` says where a text may be that a session
holds back: with a choice or block that is not stopped, with one whose end was
not recognised, or with the item that is kept for later (`LeftOver`); when the
stream ends each of these is flushed, or the provider left it without its end, which is
`TextDelivered`. It rests on lemmas
about sequences of numbered pieces (`Protocol`, `TextAlgebra`): taking the
pieces of one key commutes with appending and with taking a beginning. `TypeOK`,
`ChoicesFit`, that the choices and tool calls that came fit into the lists, and
`PendingFits` carry the rest of `TracesTell`.

`LiteLLMCallsProofs`, for any calls, flows, nested scopes and addresses, and any
limit of the set of markers. That a flow is suppressed for a reason is not
inductive: a context lives on in the tokens of calls and of the application's
scopes, and comes back when one of them is detached. `LayersFit` therefore says
of every context that is current or kept, that whoever switched instrumentation
off in it is at work in that flow, was cancelled there with its context attached
(`Left`), or is astray; to the tokens of others a call that was left behind is
like one that is still at work (`Holding`). When a call leaves in order the
claim could break, as its context may be kept elsewhere; `NotRevived` excludes
that: a scope that was opened over the context of a call either was closed
before, or the call finds something else current and goes astray
(`LeavesNothing`). For the race of wrapper and logger, `ResponseFits` says how
often a response was screened in terms of where both are (`Turns`), and that a
mark, or a marker of an address that is still the response's own, means it was
screened or that somebody gave it up (`Seen`, `GivenUp`): a screening raised, or
the logger was cancelled in one; `MarkFacts` shows that clearing the full set of
markers only forgets.

`LangChainSpansProofs`: for any runs, kinds and flows. `RunIInv` says of each run
how its holder, the number of ends of its span and the run above it go together;
a span that has ended while its holder is still there was ended by the run above
it (`BelowOver`), which is why it may end a second time and not a third. That
nothing is left current is not inductive, since each detach brings back a context
that a token kept: `Sound` says whose layers lie in a context, current or kept,
and that only an unpaired `Reset` takes a suppression back. `Stacked` says that in
a flow where no run went astray the open runs are those current in it, and that
of two open runs one was opened before the other (no context kept for the first
holds the second and the other way round). So when a run ends innermost, the
context that comes back is that of the others, and no token kept by another run
can bring its layers back later.

`FrameworkProofs`, of LlamaIndex's dispatcher: for any operations, kinds and
flows. `LineageFits` says
that no operation is twice in a chain, so that `EndAll`, which takes a whole
chain at once, is what `end` of one after the other does. `Piled` is the stack
again, said of contexts that operations own: in a flow where none went astray,
what is current is the context of one that goes on, a context that one that goes
on remembers belongs to another that goes on and is not current, and nobody else
remembers it. `EndAllPiles` carries it past a chain of any length, some of whose
operations belong to other flows or have ended: each of those that end was on
top when its turn came, so the context it owned was current or remembered by one
that left before it, and what the last of them remembers is all that comes back.
`EndFits` of the dispatcher (`OpEndFits`) says which operations can have ended
before they were left, and that the event handler raised when one did.
`OpSpansAlwaysAccounted` and `CurrentAlwaysActive` are the two properties that the
run checks.

`HttpAttemptsProofs`. What a call, its attempts and Bedrock's context owe each
other is an invariant of that call alone (`Fits`), and `OthersFit` carries it past
the steps of others; `Metering` is the part of it that says which answered
attempts have their usage. `MarkedInv` says the marked parents are those of
attempts.
For the numbers, `CounterInv`: a counter that was never evicted is as high as the
numbers it gave, and a call's own counter is the number of its attempts.

`SdkProofs`, of `init`. The stages of a call say what it passed (`StageInv`); a wrapper
that a call has come past has an instance (`BehindInv`); one without an exporter
is being filled or its call raised (`FillInv`); what is attached was attached by
a call that was not refused (`LiveInv`).

`FrameworkProofs`, of deferred findings. That each finding is in one place, and
`RecordedFindingsReported`, are not inductive: `FreshInv` adds that a finding a
request may still make was not made before, so that adding it to one place
cannot copy it, and `CarriedInv` that what a worker found is with its request
until the request is back on the loop, so that the discard of another task
cannot reach it. `SyncKeepsStrangersOff` follows step by step: the only step that
takes a LangChain request from its start to its end discards first. The depth
needs one fact more, that no request of LlamaIndex leaves its wrapper twice, and
that they are finitely many.

`SdkProofs`, of OpenAI's stateful interfaces: for any calls, users, responses,
runs and threads, any number of pieces, spans, messages and blocks. Each of the
four parts has an invariant, kept by its own steps and not touched by the steps
of another (`ObjectsInv`).

* `ResponsesInv`. `CallAt` and `SpanAt` say where a call of each kind can be and
  where its span has ended, or why it has not; `UsageKnown`, that a finished response whose span
  lacks its usage was stored before it was finished. That an entry serves is a
  statement about several calls: the response a create is about to store is
  nobody else's until then (`CreatesAlone`, and `IdsMade`, that nobody knows a
  response that the provider has not made), and the number of cancels that
  reported a response and of entries that wait to be is at most the number of
  times it was stored (`CancelsCounted`).
* `RealtimeInv`. All places that hold text, the accumulated text, each span and each
  streaming session, are one function (`TextsIn`), of which `TextsOnce` says that
  no piece is in two places or twice in one, and that only what was sent is
  anywhere; a delta hands on the front of one place to another (`HandedOn`), the
  end of a response joins two (`Joined`), and all else gives text up
  (`GivenUp`). `CurrentWhole` is what makes `ToldWhole` inductive: while nothing mixes,
  what the span will tell and what is held back make up what was sent.
* `AssistantsInv`. An entry that a list looked up may have been replaced since; but
  it is an entry of the list's key, whose runs stay finished and whose errors
  stay errors (`AssistantsGrow`), so what it holds fits still (`EntriesApart`,
  `LookedUp`, `TellsTruly`).
* `EventsInv`. What was shown of a message, and what is held back, make up what was
  sent of it (`InMessage`); nothing is shown of a message before it begins
  (`Progress`).

Also proved and not run: `GlobalRuntimeAlwaysLives`, `IndexAlwaysAgrees`,
`SizeAlwaysBounded`.

Only model-checked: liveness (`CallsReturn`, `PollersStop`, `RulesArrive`,
`SpanEventually`), which TLAPS cannot prove, and `RetryAttempts` for LiteLLM,
where `Supersedes` is false. Every other property that a run expects to hold is
a theorem.

## What the models leave out

* Texts are told apart by their field, or cut into numbered pieces; whether an
  evaluation finds something in them is `SafetyEngine`'s. Regex and UDF rules
  differ from string lists only in where their spans come from.
* The request of a stream is forgotten once the stream is read; events and
  time metrics are left out but for the ones that are counted twice or late, and
  of the usage only whether an entry or an HTTP attempt has it.
* `ResponsesCalls` assumes that contents are traced (the default).
* `HttpAttempts` takes the framework's ownership as one switch, and marks spans
  without asking whether they are sampled. It assumes that a provider's body
  tells the usage where its SDK says so.
* In `RealtimeSession` responses are numbered in the order in which they are
  created; transcripts are texts. In `AssistantStream` an asynchronous handler is
  the SDK's, and external.
* In `RetryAttempts` a thread identifier is not given to a second thread, and the
  parent of an attempt (LangChain's memo) is left out.
* `on_llm_new_token`, batches of several prompts, and requests inside a span that
  records (in `DeferredFindings`) are left out.
* LangChain's `stream()` is not wrapped by the safety wrappers, so that there is
  nothing to model.

Not modelled at all: the profile parser (a pure function of one reply, whose
failure is one way a fetch fails), renaming of attributes and synthetic logs,
decorators and the selection of instruments (wrappers without state), the values
of request and response attributes, the vendoring scripts (build tools).

## Plan

1. `SafetyProfile`: `parse_sdk_config_response` and `compile_snapshot` as pure
   operators against a reference reading of the profile.
2. LangChain's parent resolution with its memo, and thread identifiers that are
   reused, in `RetryAttempts`.
3. An abstract specification of screening (each request is screened by some
   version in force while it ran), and `SafetyRuntime` shown to implement it.
4. In `DeferredFindings`: requests inside an enclosing span, batches of several
   prompts, streams of LlamaIndex.
5. Proofs: `RetryAttempts` without `Supersedes`, up to the leak.
