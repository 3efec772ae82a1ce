----------------------------- MODULE ProviderCalls -----------------------------
(***************************************************************************)
(* One call of an instrumented provider SDK: the wrappers of OpenAI's chat *)
(* completions, text completions, embeddings and responses, of Anthropic's *)
(* messages, Bedrock's InvokeModel and Converse, Google's generate_content *)
(* and LiteLLM's completion, and the safety wrappers of LangChain and      *)
(* LlamaIndex, whose span is told by callbacks.  A wrapper opens a span,   *)
(* masks the request, writes it on the span, makes the call, masks the     *)
(* response, writes that on the span and ends it; the order of the steps   *)
(* is the provider's Pipeline.  A streamed response is then the business   *)
(* of ProviderStreams.                                                     *)
(*                                                                         *)
(* The texts of a request and of a response are told apart by the field    *)
(* they are in, because each wrapper masks some fields and records others. *)
(* Every text holds something that the rules would mask.  Other calls of   *)
(* the application share its headers, where it passes one dict to all of   *)
(* them, and Bedrock's metric parameters.                                  *)
(***************************************************************************)
EXTENDS ProviderStreams

VARIABLES
  call,          \* [mode, async, sampled, shared]: how the call is made
  step,          \* the index in Pipeline of the step that comes next
  mine,          \* mine[f]: field f of the application's own request
  request,       \* request[f]: field f of the request as it is passed on
  answer,        \* answer[f]: field f of the response
  told,          \* told[f]: what the span says of field f
  passed,        \* history: fields for which the handler failed
  copied,        \* history: the request could be copied
  headers,       \* whose trace context the extra_headers carry
  metric_params, \* which call wrote Bedrock's shared metric parameters last
  metered        \* history: which call the recorded metrics are labelled with

local == <<mine, request, answer, told, passed, copied, headers, metric_params, metered>>
callVars == <<call, step, local>>
allVars == <<vars, callVars>>

OpenAI == {"openai", "completion", "embeddings"}
Bedrock == {"invoke", "converse"}

\* The fields of a request: the text of its messages or prompt, the system
\* prompt of Anthropic and Converse, and tool definitions, calls and schemas.
Asked == {"message", "system", "tools"}

\* The fields of a response: its text, its reasoning, and the rest, which are
\* tool calls, refusals and the answer of a Llama model.
Answered == {"text", "thinking", "data"}
Plain(fields) == [f \in fields |-> "raw"]

\* (Fault: the request is written on the span before it is masked.)
MaskTell_TellFirst ==
  <<"tell_request", "mask_request", "call", "mask_answer", "tell_answer", "end">>

\* The steps of each wrapper, in their order.  Bedrock writes the request on
\* the span when it has the response.
MaskTell == <<"mask_request", "tell_request", "call", "mask_answer", "tell_answer", "end">>
ChatPipeline == MaskTell
CompletionPipeline == MaskTell
EmbeddingsPipeline == <<"tell_request", "call", "tell_answer", "end">>
AnthropicPipeline == MaskTell
GooglePipeline == MaskTell
BedrockPipeline ==
  <<"mask_request", "call", "mask_answer", "label", "meter", "tell_request", "tell_answer",
    "end">>
ResponsesPipeline ==
  <<"mask_request", "call", "mask_answer", "keep", "tell_request", "tell_answer", "end">>
LiteLLMPipeline == MaskTell
LangChainPipeline == MaskTell
LlamaIndexPipeline == MaskTell

Pipeline ==
  CASE provider = "openai" -> ChatPipeline
    [] provider = "completion" -> CompletionPipeline
    [] provider = "embeddings" -> EmbeddingsPipeline
    [] provider = "anthropic" -> AnthropicPipeline
    [] provider = "google" -> GooglePipeline
    [] provider \in Bedrock -> BedrockPipeline
    [] provider = "responses" -> ResponsesPipeline
    [] provider = "litellm" -> LiteLLMPipeline
    [] provider = "langchain" -> LangChainPipeline
    [] provider = "llamaindex" -> LlamaIndexPipeline

\* The fields of a request, and of a response, that each wrapper masks.
ChatMasks == [prompt |-> {"message"}, answer |-> {"text"}]
CompletionMasks == [prompt |-> {"message"}, answer |-> {"text"}]
AnthropicMasks == [prompt |-> {"message", "system"}, answer |-> {"text", "thinking"}]
InvokeMasks == [prompt |-> {"message"}, answer |-> {"text"}]
ConverseMasks == [prompt |-> {"message", "system"}, answer |-> {"text"}]
GoogleMasks == [prompt |-> {"message"}, answer |-> {"text", "thinking"}]
ResponsesInput == {"message"}   \* items, their content, texts and outputs
ResponsesOutput == {"text"}     \* the content of output messages
ResponsesMasks == [prompt |-> ResponsesInput \cup {"system"}, answer |-> ResponsesOutput]
LiteLLMPrompt == {"message"}    \* messages, or nested lists of prompts
LiteLLMContent == {"text"}      \* strings and text blocks
LiteLLMMasks == [prompt |-> LiteLLMPrompt, answer |-> LiteLLMContent]
LangChainPrompt == {"message"}  \* batches of messages, or prompts
LangChainContent == {"text"}    \* strings and text blocks
LangChainMasks == [prompt |-> LangChainPrompt, answer |-> LangChainContent]
LlamaIndexPrompt == {"message"}
LlamaIndexBlocks == {"text", "thinking"}
LlamaIndexMasks ==
  [prompt |-> LlamaIndexPrompt,
   answer |-> IF call.mode = "complete" THEN {"text"} ELSE LlamaIndexBlocks]
Masks ==
  CASE provider = "openai" -> ChatMasks
    [] provider = "completion" -> CompletionMasks
    [] provider = "anthropic" -> AnthropicMasks
    [] provider = "invoke" -> InvokeMasks
    [] provider = "converse" -> ConverseMasks
    [] provider = "google" -> GoogleMasks
    [] provider = "responses" -> ResponsesMasks
    [] provider = "litellm" -> LiteLLMMasks
    [] provider = "langchain" -> LangChainMasks
    [] provider = "llamaindex" -> LlamaIndexMasks
    [] OTHER -> [prompt |-> {}, answer |-> {}]
MaskedPrompt == Masks.prompt
MaskedCompletion == Masks.answer

\* The fields each wrapper writes on the span.
ChatTells == [prompt |-> {"message", "tools"}, answer |-> {"text", "data"}]
CompletionTells == [prompt |-> {"message"}, answer |-> {"text"}]
EmbeddingsTells == [prompt |-> {"message"}, answer |-> {}]
AnthropicTells ==
  [prompt |-> {"message", "system", "tools"}, answer |-> {"text", "thinking", "data"}]
InvokeTells == [prompt |-> {"message", "tools"}, answer |-> {"text", "thinking", "data"}]
ConverseTells == [prompt |-> {"message", "system", "tools"}, answer |-> {"text"}]
GoogleTells == [prompt |-> {"message", "tools"}, answer |-> {"text"}]
ResponsesTells ==
  [prompt |-> {"message", "system", "tools"}, answer |-> {"text", "thinking", "data"}]
LiteLLMTells == [prompt |-> {"message"}, answer |-> {"text"}]
LangChainTells ==
  [prompt |-> {"message", "tools"}, answer |-> {"text", "thinking", "data"}]
LlamaIndexTells == [prompt |-> {"message"}, answer |-> {"text"}]
Tells ==
  CASE provider = "openai" -> ChatTells
    [] provider = "completion" -> CompletionTells
    [] provider = "embeddings" -> EmbeddingsTells
    [] provider = "anthropic" -> AnthropicTells
    [] provider = "invoke" -> InvokeTells
    [] provider = "converse" -> ConverseTells
    [] provider = "google" -> GoogleTells
    [] provider = "responses" -> ResponsesTells
    [] provider = "litellm" -> LiteLLMTells
    [] provider = "langchain" -> LangChainTells
    [] provider = "llamaindex" -> LlamaIndexTells
Prompts == Tells.prompt
Completions == Tells.answer

\* A call is plain (LlamaIndex: chat or complete), streamed, or made through
\* with_raw_response.
Modes ==
  [mode : IF provider = "llamaindex" THEN {"plain", "complete", "stream"}
          ELSE IF provider \in {"embeddings", "langchain"} THEN {"plain"}
          ELSE IF provider \in {"openai", "completion", "anthropic", "responses"}
            THEN {"plain", "stream", "raw"}
          ELSE {"plain", "stream"},
   async : IF provider \in Bedrock THEN {FALSE} ELSE BOOLEAN,
   sampled : BOOLEAN,
   shared : IF provider \in OpenAI THEN BOOLEAN ELSE {FALSE}]

Fresh ==
  /\ step = 1 /\ mine = Plain(Asked) /\ request = Plain(Asked)
  /\ answer = Plain(Answered) /\ told = [f \in Asked \cup Answered |-> "none"]
  /\ passed = {} /\ copied = TRUE /\ headers = "none"
  /\ metric_params = "none" /\ metered = "none"

CallInit == Init /\ call \in Modes /\ Fresh

-----------------------------------------------------------------------------
(* The steps of the wrapper. *)

At(name) == stage = "calling" /\ Pipeline[step] = name
Advance == step' = step + 1
GiveUp == step' = Len(Pipeline)

\* Suppressed by a framework that masks and traces the call itself.
Bypass ==
  /\ stage = "calling" /\ step = 1 /\ provider \notin Frameworks
  /\ stage' = "bypassed" /\ fault' = "bypassed"
  /\ UNCHANGED <<provider, text, span, completed, recorded, callVars>>

\* (Fault: the application's own request is changed.)
MineAfter_InPlace(asked, copyable) == asked

\* clone_value(): the fallback of a request that cannot be copied is the
\* application's own object.  A prompt of a text completion, and the body
\* that Bedrock decodes, are new objects in any case.
MineAfter(asked, copyable) ==
  IF copyable \/ provider \in {"completion", "invoke"} THEN mine ELSE asked

\* _apply_prompt_safety(): the fields that are looked at are masked, one by
\* one, unless the handler fails for one.
MaskRequest ==
  /\ At("mask_request")
  /\ \E failed \in SUBSET MaskedPrompt, copyable \in BOOLEAN :
       LET asked == [f \in Asked |-> IF f \in MaskedPrompt \ failed THEN "masked" ELSE "raw"]
       IN  /\ request' = asked /\ mine' = MineAfter(asked, copyable)
           /\ passed' = failed /\ copied' = copyable
  /\ Advance
  /\ UNCHANGED <<vars, call, answer, told, headers, metric_params, metered>>

\* The wrappers whose telling is not shielded: what it raises is raised to the
\* application.
Unshielded == {"responses", "litellm"}

\* The request is written on the span if that records, up to the first field
\* that cannot be written.  OpenAI replaces the trace context in the headers
\* after that; Bedrock leaves the rest of its handler.
TellRequest ==
  /\ At("tell_request") /\ provider \notin Unshielded
  /\ \E written \in SUBSET Prompts :
       /\ told' = [f \in DOMAIN told |->
                     IF call.sampled /\ f \in written THEN request[f] ELSE told[f]]
       /\ \/ written = Prompts /\ Advance
             /\ headers' = IF provider \in OpenAI THEN "own" ELSE headers
          \/ written # Prompts /\ UNCHANGED headers
             /\ IF provider \in Bedrock THEN GiveUp ELSE Advance
  /\ UNCHANGED <<vars, call, mine, request, answer, passed, copied, metric_params, metered>>

\* set_data_attributes() writes the request and then the response of a call of
\* the Responses API, and _set_prompt_attributes() of LiteLLM its prompts.
TellsUnshielded(name, fields, texts) ==
  /\ At(name) /\ provider \in Unshielded
  /\ told' = [f \in DOMAIN told |->
                IF call.sampled /\ f \in fields THEN texts[f] ELSE told[f]]
  /\ Advance
  /\ UNCHANGED <<provider, stage, text, completed, fault, call, mine, request, answer,
                 passed, copied, headers, metric_params, metered>>

TellRequestAll ==
  TellsUnshielded("tell_request", Prompts, request) /\ UNCHANGED <<span, recorded>>

TellAnswerAll ==
  /\ TellsUnshielded("tell_answer", Completions, answer)
  /\ recorded' = recorded + 1
  /\ span' = IF provider = "litellm" THEN Marked("ok") ELSE span

\* Writing raises.  LiteLLM ends the span, with an error before the call and
\* without a status after it; the span of the Responses API stays open.
TellRaises ==
  /\ provider \in Unshielded
  /\ \E name \in {"tell_request", "tell_answer"} :
       /\ At(name)
       /\ span' = IF provider = "responses" THEN span
                  ELSE Ended(IF name = "tell_request" THEN "error" ELSE "unset")
  /\ stage' = "failed" /\ fault' = "completion"
  /\ UNCHANGED <<provider, text, completed, recorded, callVars>>

\* The provider answers, and its response is not a stream.
CallAnswers ==
  /\ At("call") /\ call.mode # "stream"
  /\ answer' = Plain(Answered) /\ Advance
  /\ UNCHANGED <<vars, call, mine, request, told, passed, copied, headers, metric_params,
                 metered>>

\* _handle_stream_call() parses the body of the request before it wraps the
\* stream, and _handle_converse_stream() is for spans that record.
Wrapped ==
  CASE provider = "invoke" -> BOOLEAN
    [] provider = "converse" -> {call.sampled}
    [] OTHER -> {TRUE}

\* (The stream does not look at what was done with the request: the model
\* forgets it, so that the streams of all calls are one.)
Forget ==
  /\ call' = [mode |-> "stream", async |-> FALSE, sampled |-> TRUE, shared |-> FALSE]
  /\ step' = 1 /\ mine' = Plain(Asked) /\ request' = Plain(Asked)
  /\ answer' = Plain(Answered) /\ told' = [f \in Asked \cup Answered |-> "none"]
  /\ passed' = {} /\ copied' = TRUE /\ headers' = "none"
  /\ metric_params' = "none" /\ metered' = "none"

\* The response is a stream: it is handed to the application in the wrapper
\* that owns the span from now on, or as it came.
CallStreams ==
  /\ At("call") /\ call.mode = "stream"
  /\ \E wrapped \in Wrapped : stage' = IF wrapped THEN "streaming" ELSE "unwrapped"
  /\ Forget
  /\ UNCHANGED <<provider, text, span, completed, recorded, fault>>

\* (Fault: responses of Bedrock are screened only when the span records.)
Inspects_Sampled == call.mode # "raw" /\ (provider = "invoke" => call.sampled)

\* The response of with_raw_response has none of the fields looked at, but for
\* the Responses API, which parses it.  apply_completion_end_safety() of
\* LlamaIndex gives up on a span that does not record.
Inspects == /\ call.mode = "raw" => provider = "responses"
            /\ call.mode = "complete" => call.sampled

\* _apply_completion_safety(): the fields are masked in the response itself.
MaskAnswer ==
  /\ At("mask_answer")
  /\ \E failed \in SUBSET MaskedCompletion :
       /\ answer' = [f \in Answered |-> IF Inspects /\ f \in MaskedCompletion \ failed
                                          THEN "masked" ELSE answer[f]]
       /\ passed' = passed \cup failed
  /\ Advance
  /\ UNCHANGED <<vars, call, mine, request, told, copied, headers, metric_params, metered>>

\* _handle_call() parses the body of the request first; what is not JSON ends
\* the handler, and the response is returned as it came.
MaskAnswerRaises ==
  /\ provider = "invoke" /\ At("mask_answer")
  /\ fault' = "body" /\ GiveUp
  /\ UNCHANGED <<provider, stage, text, span, completed, recorded, call, local>>

\* The entry of a response cannot be built: the span ends untold.  One that is
\* still in progress is returned with its span open, for a later retrieve.
Keep ==
  /\ At("keep")
  /\ \/ Advance /\ UNCHANGED <<stage, fault>>
     \/ GiveUp /\ UNCHANGED <<stage, fault>>
     \/ stage' = "returned" /\ fault' = "pending" /\ UNCHANGED step
  /\ UNCHANGED <<provider, text, span, completed, recorded, call, local>>

\* InvokeModel names its model in the shared parameters; Converse does not.
Label ==
  /\ At("label")
  /\ metric_params' = IF provider = "invoke" THEN "own" ELSE metric_params
  /\ Advance
  /\ UNCHANGED <<vars, call, mine, request, answer, told, passed, copied, headers, metered>>

\* _record_usage_to_span() labels the metrics with what the parameters say
\* now; InvokeModel records usage for spans that record.
Meter ==
  /\ At("meter")
  /\ IF provider = "converse" \/ call.sampled
       THEN metered' = metric_params /\ recorded' = recorded + 1
       ELSE UNCHANGED <<metered, recorded>>
  /\ Advance
  /\ UNCHANGED <<provider, stage, text, span, completed, fault, call, mine, request, answer,
                 told, passed, copied, headers, metric_params>>

\* The response is written on the span, which set_model_response_attributes()
\* of Google marks when it is done.
TellAnswer ==
  /\ At("tell_answer") /\ provider \notin Unshielded
  /\ \E written \in SUBSET Completions :
       /\ told' = [f \in DOMAIN told |->
                     IF call.sampled /\ f \in written THEN answer[f] ELSE told[f]]
       /\ span' = IF provider = "google" /\ call.sampled /\ written = Completions
                    THEN Marked("ok") ELSE span
  /\ recorded' = recorded + (IF provider \in {"completion"} \cup Bedrock THEN 0 ELSE 1)
  /\ Advance
  /\ UNCHANGED <<provider, stage, text, completed, fault, call, mine, request, answer,
                 passed, copied, headers, metric_params, metered>>

\* The wrapper ends the span, if it is its own, and returns the response.
Replies ==
  /\ At("end") /\ stage' = "returned"
  /\ span' = IF provider \in Frameworks THEN span
              ELSE Ended(IF provider = "anthropic" THEN "ok" ELSE "unset")
  /\ UNCHANGED <<provider, text, completed, recorded, fault, callVars>>

-----------------------------------------------------------------------------
(* The call fails. *)

Fails(newSpan, recordings) ==
  /\ At("call") /\ stage' = "failed" /\ fault' = "call"
  /\ span' = newSpan
  /\ recorded' = recorded + recordings
  /\ UNCHANGED <<provider, text, completed, callVars>>

\* (Fault: the error path does not end the span.)
OpenAICallFails_LeavesSpan == provider \in OpenAI /\ Fails(Marked("error"), 1)

\* chat_wrapper(), completion_wrapper() and embeddings_wrapper(): the error
\* path records and ends the span.
OpenAICallFails ==
  provider \in OpenAI /\ Fails(Ended("error"), IF provider = "completion" THEN 0 ELSE 1)

\* use_span(end_on_exit=False) marks the span, _wrap() raises and does not
\* end it.
AnthropicCallFails == provider = "anthropic" /\ Fails(Marked("error"), 1)

\* start_as_current_span() ends the span; the streaming calls use use_span().
BedrockCallFails ==
  /\ provider \in Bedrock
  /\ Fails(IF call.mode = "stream" THEN Marked("error") ELSE Ended("error"), 0)

GoogleCallFails == provider = "google" /\ Fails(Ended("error"), 0)
LiteLLMCallFails == provider = "litellm" /\ Fails(Ended("error"), 0)

\* The error path of the Responses API writes what it knows of the request on
\* the span before it ends it, and what that raises takes the error's place.
ResponsesCallFails ==
  /\ provider = "responses" /\ At("call") /\ stage' = "failed"
  /\ \E written \in SUBSET Prompts :
       /\ told' = [f \in DOMAIN told |->
                     IF call.sampled /\ f \in written THEN request[f] ELSE told[f]]
       /\ \/ written \in {{}, Prompts} /\ span' = Ended("error") /\ fault' = "call"
          \/ written # Prompts /\ span' = Marked("error") /\ fault' = "completion"
  /\ UNCHANGED <<provider, text, completed, recorded, call, step, mine, request, answer,
                 passed, copied, headers, metric_params, metered>>

FrameworkCallFails == provider \in Frameworks /\ Fails(span, 0)

CallFails == OpenAICallFails \/ AnthropicCallFails \/ BedrockCallFails
             \/ GoogleCallFails \/ LiteLLMCallFails \/ ResponsesCallFails
             \/ FrameworkCallFails

\* The task of an asynchronous call is cancelled while it waits.  No wrapper
\* catches CancelledError, though a context manager may mark the span; only
\* that of the embeddings wrapper ends it.
Cancelled ==
  /\ stage = "calling" /\ call.async
  /\ \/ Pipeline[step] \in {"mask_request", "call"}
     \/ Pipeline[step] = "mask_answer" /\ provider \notin {"litellm", "llamaindex"}
     \/ Pipeline[step] = "tell_request" /\ provider \in {"openai", "anthropic"}
  /\ stage' = "failed" /\ fault' = "cancelled"
  /\ \E status \in {"unset", "error"} :
       span' = CASE provider = "embeddings" -> Ended(status)
                 [] provider \in Frameworks \cup Unshielded -> span
                 [] OTHER -> Marked(status)
  /\ UNCHANGED <<provider, text, completed, recorded, callVars>>

-----------------------------------------------------------------------------
(* Other calls. *)

\* A concurrent call injects its trace context into the headers they share.
OtherInjects ==
  /\ stage = "calling" /\ call.shared /\ headers # "other"
  /\ \E s \in step..Len(Pipeline) : Pipeline[s] = "call"
  /\ headers' = "other"
  /\ UNCHANGED <<vars, call, step, mine, request, answer, told, passed, copied,
                 metric_params, metered>>

\* A concurrent InvokeModel call names its own model.
OtherLabels ==
  /\ stage = "calling" /\ provider \in Bedrock /\ metric_params # "other"
  /\ metric_params' = "other"
  /\ UNCHANGED <<vars, call, step, mine, request, answer, told, passed, copied, headers,
                 metered>>

CallNext == \/ Bypass \/ MaskRequest \/ TellRequest
            \/ TellRequestAll \/ TellAnswerAll \/ TellRaises \/ Keep
            \/ CallAnswers \/ CallStreams \/ CallFails \/ Cancelled
            \/ MaskAnswer \/ MaskAnswerRaises \/ Label \/ Meter \/ TellAnswer \/ Replies
            \/ OtherInjects \/ OtherLabels

Next == CallNext \/ (StreamNext /\ UNCHANGED callVars)

\* The interpreter collects what the application dropped.
Spec == CallInit /\ [][Next]_allVars /\ WF_allVars(Collect /\ UNCHANGED callVars)

-----------------------------------------------------------------------------
(* Properties. *)

CallTypeOK ==
  /\ call \in [mode : {"plain", "complete", "stream", "raw"}, async : BOOLEAN, sampled : BOOLEAN,
               shared : BOOLEAN]
  /\ step \in 1..Len(Pipeline)
  /\ mine \in [Asked -> {"raw", "masked"}] /\ request \in [Asked -> {"raw", "masked"}]
  /\ answer \in [Answered -> {"raw", "masked"}]
  /\ told \in [Asked \cup Answered -> {"none", "raw", "masked"}]
  /\ passed \subseteq Asked \cup Answered /\ copied \in BOOLEAN
  /\ {headers, metric_params, metered} \subseteq {"none", "own", "other"}

\* What the provider gets and what the application gets back is masked in
\* every field that is looked at, whoever calls how, but for a field the
\* handler failed for, a raw response (but of the Responses API), InvokeModel
\* with a body that is not JSON, and LlamaIndex's complete() when its span does
\* not record.  The application's own request is left alone if it can be copied.
TextsScreened ==
  /\ CallTypeOK
  /\ \A f \in MaskedPrompt : f \notin passed /\ step > 1 => request[f] = "masked"
  /\ stage = "returned" =>
       \A f \in MaskedCompletion :
         \/ answer[f] = "masked" \/ f \in passed \/ fault = "body"
         \/ call.mode = "raw" /\ provider # "responses"
         \/ call.mode = "complete" /\ ~call.sampled
  /\ copied => mine = Plain(Asked)

\* The span never says another text than the one that was sent or given to
\* the application: nothing is written before it is masked.  The trace
\* context that a call sends is its own unless its headers are shared, and
\* the metrics of InvokeModel are labelled with another call's model only
\* if that call came in between.
ToldAsSent ==
  /\ \A f \in Asked : told[f] \in {"none", request[f]}
  /\ \A f \in Answered : told[f] \in {"none", answer[f]}
  /\ headers = "other" => call.shared
  /\ provider = "invoke" => metered \in {"none", metric_params} \/ metric_params = "other"

(* Claims of the repository that the code does not keep. *)

\* A stream is screened before the application reads it.
StreamsScreened == stage # "unwrapped"

\* A call that is cancelled ends its span.
CancelledCallEndsSpan == fault = "cancelled" => span.ended

\* Responses are masked before they are returned to the application.
AnswersScreened ==
  stage = "returned" => \A f \in MaskedCompletion \ passed : answer[f] = "masked"

\* The metrics of a call carry its own model.
MetricsOwn == stage = "returned" /\ provider \in Bedrock => metered # "other"

\* A call sends its own trace context.
TraceOwn == At("call") => headers # "other"
=============================================================================
