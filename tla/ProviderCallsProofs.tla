-------------------------- MODULE ProviderCallsProofs --------------------------
(***************************************************************************)
(* Theorems about ProviderCalls and the streams of ProviderStreams, for    *)
(* any set of the wrappers, any number of choices or blocks, and responses *)
(* of any length.                                                          *)
(*                                                                         *)
(* Of a call, the invariant says what may have been done when a step of    *)
(* the pipeline is still to come (Remains); of a stream, that its span and *)
(* metrics are untouched until it ends, where the text is that a session   *)
(* holds back (LeftOver), and that the pieces of a key lie in the order in *)
(* which the provider sent them.                                           *)
(***************************************************************************)
EXTENDS ProviderCalls, SequenceTheorems, FiniteSetTheorems, TLAPS

Text == Seq(Keys \X Nat)
Remains(name) == \E s \in step..Len(Pipeline) : Pipeline[s] = name
Untouched == span = [ended |-> FALSE, status |-> "unset"]

\* What the traces say of a call the wrapper is still busy with: nothing
\* before the last steps.
SpanFits ==
  stage = "calling" =>
    /\ ~span.ended /\ span.status # "error" /\ ~completed
    /\ step < Len(Pipeline) => Untouched
    /\ fault = "none" \/ (fault = "body" /\ step = Len(Pipeline))
    /\ recorded <= 1
    /\ Remains("call") \/ Remains("meter") => recorded = 0
    /\ Remains("tell_answer") /\ provider \notin Bedrock => recorded = 0

\* What is told after it is masked, and labelled before it is recorded.
ToldFits ==
  stage = "calling" =>
    /\ Remains("mask_request") => mine = Plain(Asked)
    /\ Remains("mask_request") => \A f \in Asked : told[f] = "none"
    /\ Remains("call") \/ Remains("mask_answer") =>
         \A f \in Answered : told[f] = "none"
    /\ Remains("label") => metered = "none"

\* A field of the response that may be given to the application as it came.
MayPass(f) == \/ f \in passed \/ fault = "body"
              \/ call.mode = "raw" /\ provider # "responses"
              \/ call.mode = "complete" /\ ~call.sampled

AnswerFits ==
  stage = "returned" \/ (stage = "calling" /\ ~Remains("mask_answer")) =>
    \A f \in MaskedCompletion : answer[f] = "masked" \/ MayPass(f)

\* Only the metadata of Converse ends the span of a stream that goes on.
StreamFits ==
  stage \in {"streaming", "draining"} =>
    /\ call.mode = "stream" /\ fault = "none" /\ recorded = 0
    /\ IF completed THEN provider = "converse" /\ span = [ended |-> TRUE, status |-> "unset"]
       ELSE Untouched

\* A stream that is still to be cleaned up.
EndFits ==
  /\ fault \in {"call", "cancelled", "stream", "wrapper"} => stage = "failed"
  /\ fault = "stream" /\ provider = "responses" => completed
  /\ stage \in {"ended", "dropped", "failed"} /\ fault # "completion"
     /\ fault \notin {"call", "cancelled"}
     /\ provider \in SelfCleaning /\ ~completed => recorded = 0

\* The item that is kept is a text of its last keys.
OfLast(s) == pending # <<>> /\ pending[1].kind = "text" /\ s \in pending[1].keys

\* Why the session s may hold something back.
LeftOver(s) ==
  \/ provider \in {"openai", "completion", "responses"} /\ s \notin stopped /\ sent[s] > 0
  \/ provider = "litellm" /\ s = 1 /\ \E k \in Keys : sent[k] > 0 /\ k \notin stopped
  \/ provider \in {"anthropic", "google"} /\ (s \in orphans \/ OfLast(s))
  \/ provider \in {"invoke", "converse"} /\ OfLast(s)
  \/ provider = "llamaindex" /\ s = 1 /\ pending # <<>>

HeldFits ==
  stage \in {"calling", "streaming", "draining"} =>
    \A s \in Keys : held[s] # <<>> => LeftOver(s)

PendingFits ==
  /\ provider \notin Buffers => pending = <<>>
  /\ pending # <<>> /\ pending[1].kind = "text" /\ provider \in OneBlock =>
       \E k \in Keys : pending[1].keys = {k}

\* The choices ChatStream has seen, and their tool calls, are those its lists
\* have room for.
ChoicesFit ==
  provider = "openai" /\ fault # "wrapper" =>
    /\ \A j \in named : j <= choices
    /\ \A c \in called : c[2] < tools[c[1]]

StreamIInv == /\ TypeOK /\ TextConserved /\ TailsDelivered
              /\ HeldFits /\ PendingFits /\ ChoicesFit /\ OnlyProviderFails
SpanIInv == /\ SpanFits /\ StreamFits /\ EndFits
            /\ RecordedOnce /\ SpansLeftOpen /\ FailureNotOk
CallIInv == call \in Modes /\ ToldFits /\ AnswerFits /\ TextsScreened /\ ToldAsSent
IInv == StreamIInv /\ SpanIInv /\ CallIInv

-----------------------------------------------------------------------------
(* The pipelines. *)

LEMMA PipelineShape ==
  ASSUME provider \in Providers
  PROVE  \/ provider \notin Bedrock \cup {"embeddings", "responses"} /\ Pipeline = MaskTell
         \/ provider = "embeddings" /\ Pipeline = EmbeddingsPipeline
         \/ provider \in Bedrock /\ Pipeline = BedrockPipeline
         \/ provider = "responses" /\ Pipeline = ResponsesPipeline
BY ProvidersAssumption DEF Pipeline, Bedrock, ChatPipeline, CompletionPipeline,
   AnthropicPipeline, GooglePipeline, LiteLLMPipeline, LangChainPipeline,
   LlamaIndexPipeline

\* The order of the steps, whatever the wrapper.
LEMMA PipelineOrder ==
  ASSUME provider \in Providers, NEW s \in 1..Len(Pipeline)
  PROVE  /\ Len(Pipeline) \in 4..8
         /\ Pipeline[s] = "end" <=> s = Len(Pipeline)
         /\ Pipeline[s] = "mask_request" => s = 1
         /\ s = 1 => Pipeline[s] = "mask_request" \/ provider = "embeddings"
         /\ Pipeline[s] = "tell_answer" => s = Len(Pipeline) - 1
         /\ Pipeline[s] = "meter" => provider \in Bedrock
         /\ \A t \in 1..Len(Pipeline) : Pipeline[s] = Pipeline[t] => s = t
         /\ \A t \in s..Len(Pipeline) :
              /\ Pipeline[s] \in {"mask_answer", "label", "meter", "keep", "tell_answer"}
                   => Pipeline[t] # "call"
              /\ Pipeline[s] \in {"label", "meter", "keep", "tell_answer"}
                   => Pipeline[t] # "mask_answer"
              /\ Pipeline[s] \in {"meter", "tell_answer"} => Pipeline[t] # "label"
              /\ Pipeline[s] = "tell_answer" => Pipeline[t] # "meter"
              /\ Pipeline[s] = "tell_request" /\ provider \in Bedrock
                   => Pipeline[t] # "mask_answer"
<1>1. CASE provider \notin Bedrock /\ Pipeline = MaskTell
  <2>1. /\ Len(Pipeline) = 6
        /\ Pipeline[1] = "mask_request" /\ Pipeline[2] = "tell_request"
        /\ Pipeline[3] = "call" /\ Pipeline[4] = "mask_answer"
        /\ Pipeline[5] = "tell_answer" /\ Pipeline[6] = "end"
    BY <1>1 DEF MaskTell
  <2> QED BY <1>1, <2>1
<1>2. CASE provider = "embeddings" /\ Pipeline = EmbeddingsPipeline
  <2>1. /\ Len(Pipeline) = 4
        /\ Pipeline[1] = "tell_request" /\ Pipeline[2] = "call"
        /\ Pipeline[3] = "tell_answer" /\ Pipeline[4] = "end"
    BY <1>2 DEF EmbeddingsPipeline
  <2> QED BY <1>2, <2>1 DEF Bedrock
<1>3. CASE provider \in Bedrock /\ Pipeline = BedrockPipeline
  <2>1. /\ Len(Pipeline) = 8
        /\ Pipeline[1] = "mask_request" /\ Pipeline[2] = "call"
        /\ Pipeline[3] = "mask_answer" /\ Pipeline[4] = "label"
        /\ Pipeline[5] = "meter" /\ Pipeline[6] = "tell_request"
        /\ Pipeline[7] = "tell_answer" /\ Pipeline[8] = "end"
    BY <1>3 DEF BedrockPipeline
  <2> QED BY <1>3, <2>1
<1>4. CASE provider = "responses" /\ Pipeline = ResponsesPipeline
  <2>1. /\ Len(Pipeline) = 7
        /\ Pipeline[1] = "mask_request" /\ Pipeline[2] = "call"
        /\ Pipeline[3] = "mask_answer" /\ Pipeline[4] = "keep"
        /\ Pipeline[5] = "tell_request" /\ Pipeline[6] = "tell_answer"
        /\ Pipeline[7] = "end"
    BY <1>4 DEF ResponsesPipeline
  <2> QED BY <1>4, <2>1 DEF Bedrock
<1> QED BY <1>1, <1>2, <1>3, <1>4, PipelineShape

\* A response is masked after the call, but that of embeddings.
LEMMA CallMasks ==
  ASSUME provider \in Providers, step \in 1..Len(Pipeline), At("call")
  PROVE  Remains("mask_answer") \/ provider = "embeddings"
<1>1. CASE provider = "embeddings"
  BY <1>1
<1>2. CASE Pipeline = MaskTell
  <2>1. /\ Len(Pipeline) = 6 /\ Pipeline[4] = "mask_answer"
        /\ Pipeline[5] = "tell_answer" /\ Pipeline[6] = "end"
    BY <1>2 DEF MaskTell
  <2> QED BY <2>1 DEF Remains, At
<1>3. CASE Pipeline = BedrockPipeline
  <2>1. /\ Len(Pipeline) = 8 /\ Pipeline[2] = "call" /\ Pipeline[3] = "mask_answer"
    BY <1>3 DEF BedrockPipeline
  <2>2. step = 2
    BY <2>1, PipelineOrder DEF At
  <2> QED BY <2>1, <2>2 DEF Remains
<1>4. CASE Pipeline = ResponsesPipeline
  <2>1. /\ Len(Pipeline) = 7 /\ Pipeline[2] = "call" /\ Pipeline[3] = "mask_answer"
    BY <1>4 DEF ResponsesPipeline
  <2>2. step = 2
    BY <2>1, PipelineOrder DEF At
  <2> QED BY <2>1, <2>2 DEF Remains
<1> QED BY <1>1, <1>2, <1>3, <1>4, PipelineShape

\* What is to come when a step is due.
LEMMA AtFacts ==
  ASSUME provider \in Providers, step \in 1..Len(Pipeline), NEW name, At(name)
  PROVE  /\ Remains(name)
         /\ name = "end" <=> step = Len(Pipeline)
         /\ name # "mask_request" => ~Remains("mask_request")
         /\ name \in {"mask_answer", "label", "meter", "keep", "tell_answer"}
              => ~Remains("call")
         /\ name \in {"label", "meter", "keep", "tell_answer"} => ~Remains("mask_answer")
         /\ name \in {"meter", "tell_answer"} => ~Remains("label")
         /\ name = "tell_answer" => ~Remains("meter")
         /\ name = "tell_request" /\ provider \in Bedrock => ~Remains("mask_answer")
         /\ name = "end" => ~Remains("mask_answer")
         /\ name = "meter" => provider \in Bedrock
<1>1. Pipeline[step] = name /\ Len(Pipeline) \in 4..8 /\ step \in step..Len(Pipeline)
  BY PipelineOrder DEF At
<1>2. ASSUME name # "mask_request", Remains("mask_request") PROVE FALSE
  <2>1. PICK s \in step..Len(Pipeline) : Pipeline[s] = "mask_request"
    BY <1>2 DEF Remains
  <2>2. s = 1 /\ step = 1
    BY <1>1, <2>1, PipelineOrder
  <2> QED BY <1>1, <1>2, <2>1, <2>2
<1>3. ASSUME name = "end", Remains("mask_answer") PROVE FALSE
  <2>1. PICK s \in Len(Pipeline)..Len(Pipeline) : Pipeline[s] = "mask_answer"
    BY <1>1, <1>3, PipelineOrder DEF Remains
  <2> QED BY <1>1, <2>1, PipelineOrder
<1> QED BY <1>1, <1>2, <1>3, PipelineOrder DEF Remains

\* The next step is due.
LEMMA Advances ==
  ASSUME provider \in Providers, step \in 1..Len(Pipeline), NEW name, At(name),
         name # "end", Advance, UNCHANGED provider
  PROVE  /\ Pipeline' = Pipeline
         /\ step' \in 1..Len(Pipeline) /\ step < Len(Pipeline) /\ step' > 1
         /\ \A n : Remains(n)' <=> Remains(n) /\ n # name
<1>1. Pipeline[step] = name /\ Len(Pipeline) \in 4..8 /\ step # Len(Pipeline)
  BY PipelineOrder DEF At
<1>2. Pipeline' = Pipeline
  BY DEF Pipeline
<1>3. step' \in 1..Len(Pipeline) /\ step < Len(Pipeline) /\ step' = step + 1
  BY <1>1 DEF Advance
<1>4. ASSUME NEW n, Remains(n)' PROVE Remains(n) /\ n # name
  <2>1. PICK s \in step + 1 .. Len(Pipeline) : Pipeline[s] = n
    BY <1>2, <1>3, <1>4 DEF Remains
  <2>2. s \in 1..Len(Pipeline) /\ s \in step..Len(Pipeline) /\ s # step
    BY <1>1, <2>1
  <2> QED BY <1>1, <2>1, <2>2, PipelineOrder DEF Remains
<1>5. ASSUME NEW n, Remains(n), n # name PROVE Remains(n)'
  <2>1. PICK s \in step..Len(Pipeline) : Pipeline[s] = n
    BY <1>5 DEF Remains
  <2>2. s \in step + 1 .. Len(Pipeline)
    BY <1>1, <1>5, <2>1
  <2> QED BY <1>2, <1>3, <2>1, <2>2 DEF Remains
<1> QED BY <1>2, <1>3, <1>4, <1>5

\* Only the last step is due.
LEMMA GivesUp ==
  ASSUME provider \in Providers, step \in 1..Len(Pipeline), GiveUp, UNCHANGED provider
  PROVE  /\ Pipeline' = Pipeline
         /\ step' = Len(Pipeline) /\ step' \in 1..Len(Pipeline) /\ step' > 1
         /\ \A n : Remains(n)' => n = "end"
<1>1. Len(Pipeline) \in 4..8 /\ Pipeline[Len(Pipeline)] = "end"
  BY PipelineOrder
<1>2. Pipeline' = Pipeline
  BY DEF Pipeline
<1>3. ASSUME NEW n, Remains(n)' PROVE n = "end"
  <2>1. PICK s \in Len(Pipeline)..Len(Pipeline) : Pipeline[s] = n
    BY <1>2, <1>3 DEF GiveUp, Remains
  <2> QED BY <1>1, <2>1
<1> QED BY <1>1, <1>2, <1>3 DEF GiveUp

\* The fields that a wrapper masks and tells.
LEMMA Fields ==
  ASSUME provider \in Providers
  PROVE  /\ MaskedPrompt \subseteq Asked /\ MaskedCompletion \subseteq Answered
         /\ Prompts \subseteq Asked /\ Completions \subseteq Answered
         /\ provider = "embeddings" => MaskedPrompt = {} /\ MaskedCompletion = {}
<1>1. /\ Masks.prompt \subseteq Asked /\ Masks.answer \subseteq Answered
      /\ provider = "embeddings" => Masks.prompt = {} /\ Masks.answer = {}
  BY ProvidersAssumption DEF Masks, ChatMasks, CompletionMasks, AnthropicMasks,
     InvokeMasks, ConverseMasks, GoogleMasks, ResponsesMasks, ResponsesInput,
     ResponsesOutput, LiteLLMMasks, LiteLLMPrompt, LiteLLMContent, LangChainMasks,
     LangChainPrompt, LangChainContent, LlamaIndexMasks, LlamaIndexPrompt,
     LlamaIndexBlocks, Asked, Answered
<1>2. Tells.prompt \subseteq Asked /\ Tells.answer \subseteq Answered
  BY ProvidersAssumption DEF Tells, ChatTells, CompletionTells, EmbeddingsTells,
     AnthropicTells, InvokeTells, ConverseTells, GoogleTells, ResponsesTells,
     LiteLLMTells, LangChainTells, LlamaIndexTells, Asked, Answered
<1> QED BY <1>1, <1>2 DEF MaskedPrompt, MaskedCompletion, Prompts, Completions

-----------------------------------------------------------------------------
(* The steps of a call. *)

Faults == {"none", "call", "stream", "wrapper", "completion", "cancelled", "body",
           "bypassed", "pending"}
Spans == [ended : BOOLEAN, status : {"unset", "ok", "error"}]

\* No step of the call itself touches the text of a stream.
LEMMA TextKept ==
  ASSUME StreamIInv, SpanFits, stage = "calling", UNCHANGED <<provider, text>>,
         stage' \in {"calling", "streaming", "failed", "returned", "unwrapped",
                     "bypassed"},
         span' \in Spans, completed' \in BOOLEAN, recorded' \in Nat,
         fault' \in Faults \ {"wrapper"}
  PROVE  StreamIInv'
<1> USE DEF StreamIInv, text
<1>1. TypeOK'
  BY DEF TypeOK, Faults, Spans
<1>2. fault # "wrapper"
  BY DEF SpanFits
<1>3. TextConserved'
  BY <1>2 DEF TextConserved, PendingText
<1>4. TailsDelivered' /\ OnlyProviderFails'
  BY DEF TailsDelivered, OnlyProviderFails, Faults
<1>5. HeldFits'
  BY DEF HeldFits, LeftOver, OfLast
<1>6. PendingFits' /\ ChoicesFit'
  BY <1>2 DEF PendingFits, ChoicesFit
<1> QED BY <1>1, <1>3, <1>4, <1>5, <1>6

\* set_status() and end() keep the type of the span.
LEMMA SpanTyped ==
  ASSUME span \in Spans, NEW status \in {"unset", "ok", "error"}
  PROVE  /\ Marked(status) \in Spans /\ Marked(status).ended = span.ended
         /\ Ended(status) \in Spans /\ Ended(status).ended
         /\ Ended(status).status = Marked(status).status
         /\ Marked(status) = IF span.ended \/ span.status = "ok" THEN span
                             ELSE [ended |-> FALSE, status |-> status]
<1>1. [span EXCEPT !.status = status] = [ended |-> span.ended, status |-> status]
  BY DEF Spans
<1>2. /\ Marked(status) \in Spans /\ Marked(status).ended = span.ended
      /\ Marked(status) = IF span.ended \/ span.status = "ok" THEN span
                          ELSE [ended |-> FALSE, status |-> status]
  BY <1>1 DEF Marked, Spans
<1>3. ASSUME NEW s \in Spans, NEW e \in BOOLEAN
      PROVE  [s EXCEPT !.ended = e] = [ended |-> e, status |-> s.status]
  BY DEF Spans
<1>4. Ended(status) = [ended |-> TRUE, status |-> Marked(status).status]
  BY <1>2, <1>3 DEF Ended
<1> QED BY <1>2, <1>4 DEF Spans

\* A step in the pipeline that leaves the span and the metrics alone.
LEMMA SpanKept ==
  ASSUME SpanIInv, stage = "calling", fault = "none",
         UNCHANGED <<provider, stage, span, completed, recorded, fault>>,
         Pipeline' = Pipeline, step < Len(Pipeline), step' \in Nat,
         \A n \in {"call", "meter", "tell_answer"} : Remains(n)' => Remains(n)
  PROVE  SpanIInv'
<1>1. SpanFits'
  BY DEF SpanIInv, SpanFits, Untouched
<1>2. StreamFits' /\ EndFits'
  BY DEF SpanIInv, StreamFits, EndFits
<1>3. RecordedOnce' /\ SpansLeftOpen' /\ FailureNotOk'
  BY DEF SpanIInv, SpanFits, RecordedOnce, SpansLeftOpen, FailureNotOk
<1> QED BY <1>1, <1>2, <1>3 DEF SpanIInv

LEMMA AtStart ==
  ASSUME provider \in Providers, step = 1
  PROVE  /\ step \in 1..Len(Pipeline)
         /\ Remains("mask_answer") \/ provider = "embeddings"
<1>1. CASE provider = "embeddings" /\ Pipeline = EmbeddingsPipeline
  BY <1>1 DEF EmbeddingsPipeline
<1>2. CASE Pipeline = MaskTell
  <2>1. Len(Pipeline) = 6 /\ Pipeline[4] = "mask_answer"
    BY <1>2 DEF MaskTell
  <2> QED BY <2>1 DEF Remains
<1>3. CASE provider \in Bedrock /\ Pipeline = BedrockPipeline
  <2>1. Len(Pipeline) = 8 /\ Pipeline[3] = "mask_answer"
    BY <1>3 DEF BedrockPipeline
  <2> QED BY <2>1 DEF Remains
<1>4. CASE Pipeline = ResponsesPipeline
  <2>1. Len(Pipeline) = 7 /\ Pipeline[3] = "mask_answer"
    BY <1>4 DEF ResponsesPipeline
  <2> QED BY <2>1 DEF Remains
<1> QED BY <1>1, <1>2, <1>3, <1>4, PipelineShape

LEMMA InitFits == CallInit => IInv
<1> SUFFICES ASSUME CallInit PROVE IInv
  OBVIOUS
<1> USE DEF CallInit, Init, Fresh
<1>1. TypeOK
  <2>1. Nothing \in [Keys -> Seq(Keys \X Nat)]
    BY DEF Nothing
  <2>2. /\ pending \in Seq([kind : Kinds, keys : SUBSET Keys,
                            text : [Keys -> Seq(Keys \X Nat)]])
        /\ Len(pending) <= 1
    BY EmptySeq
  <2>3. choices \in 0..Choices
    BY ChoicesAssumption
  <2>4. sent \in [Keys -> Nat] /\ recorded \in Nat /\ count \in Nat
    OBVIOUS
  <2>5. /\ span \in [ended : BOOLEAN, status : {"unset", "ok", "error"}]
        /\ completed \in BOOLEAN /\ stopped = {} /\ block = {} /\ orphans = {}
        /\ tools \in [Keys -> Nat] /\ named = {} /\ called = {}
    OBVIOUS
  <2> QED BY <2>1, <2>2, <2>3, <2>4, <2>5 DEF TypeOK
<1>2. TextConserved
  <2> SUFFICES ASSUME NEW k \in Keys
               PROVE  got[k] \o PendingText(k) \o held[k] = Pieces(k, sent[k])
    BY DEF TextConserved
  <2>1. got[k] = <<>> /\ PendingText(k) = <<>> /\ held[k] = <<>> /\ sent[k] = 0
    BY DEF Nothing, PendingText
  <2>2. Pieces(k, 0) = <<>>
    BY DEF Pieces
  <2>3. <<>> \o <<>> \o <<>> = <<>>
    OBVIOUS
  <2> QED BY <2>1, <2>2, <2>3
<1>3. TailsDelivered /\ HeldFits /\ PendingFits /\ ChoicesFit /\ OnlyProviderFails
  BY DEF TailsDelivered, HeldFits, PendingFits, ChoicesFit, OnlyProviderFails, Nothing
<1>4. SpanIInv
  BY DEF SpanIInv, SpanFits, StreamFits, EndFits, RecordedOnce, SpansLeftOpen,
     FailureNotOk, Untouched
<1>5. step \in 1..Len(Pipeline)
  BY AtStart
<1>6. Remains("mask_answer") \/ provider = "embeddings"
  BY AtStart
<1>7. AnswerFits
  BY <1>6, Fields DEF AnswerFits
<1>8. CallTypeOK
  BY <1>5 DEF CallTypeOK, Plain, Modes
<1>9. TextsScreened
  BY <1>5, <1>8 DEF TextsScreened
<1>10. ToldAsSent /\ ToldFits
  BY DEF ToldAsSent, ToldFits, Asked, Answered
<1> QED BY <1>1, <1>2, <1>3, <1>4, <1>7, <1>9, <1>10 DEF IInv, StreamIInv, CallIInv

\* What the invariant says of a call that goes on.
LEMMA CallFacts ==
  ASSUME IInv, stage = "calling"
  PROVE  /\ provider \in Providers /\ step \in 1..Len(Pipeline)
         /\ StreamIInv /\ SpanIInv /\ CallIInv /\ SpanFits /\ ToldFits
         /\ span \in Spans /\ ~span.ended /\ span.status \in {"unset", "ok"}
         /\ completed = FALSE /\ recorded \in {0, 1} /\ fault \in {"none", "body"}
         /\ step < Len(Pipeline) => fault = "none" /\ Untouched
         /\ call \in Modes /\ CallTypeOK
<1>1. /\ TypeOK /\ StreamIInv /\ SpanIInv /\ CallIInv /\ SpanFits /\ ToldFits
      /\ call \in Modes /\ CallTypeOK
  BY DEF IInv, StreamIInv, SpanIInv, CallIInv, TextsScreened
<1>2. provider \in Providers /\ step \in 1..Len(Pipeline) /\ recorded \in Nat
  BY <1>1 DEF TypeOK, CallTypeOK
<1>3. /\ span \in Spans /\ span.status \in {"unset", "ok", "error"}
      /\ completed \in BOOLEAN
  BY <1>1 DEF TypeOK, Spans
<1>4. /\ ~span.ended /\ span.status # "error" /\ ~completed /\ recorded <= 1
      /\ fault = "none" \/ (fault = "body" /\ step = Len(Pipeline))
      /\ step < Len(Pipeline) => Untouched
  BY <1>1 DEF SpanFits
<1>5. Len(Pipeline) \in Nat
  BY <1>2, PipelineOrder
<1> QED BY <1>1, <1>2, <1>3, <1>4, <1>5

\* A step that is not the last: nothing went wrong yet.
LEMMA StepFacts ==
  ASSUME IInv, NEW name, At(name), name # "end"
  PROVE  /\ stage = "calling" /\ step < Len(Pipeline)
         /\ fault = "none" /\ Untouched
BY CallFacts, AtFacts DEF At

\* The call is over, or its stream is.
LEMMA CallOver ==
  ASSUME CallIInv, UNCHANGED <<provider, callVars>>, stage' # "calling",
         stage' = "returned" => /\ stage \in {"calling", "returned"}
                                /\ stage = "calling" => ~Remains("mask_answer")
                                /\ fault = "body" => fault' = "body"
  PROVE  CallIInv'
<1> USE DEF callVars, local
<1>1. call' \in Modes' /\ ToldFits' /\ CallTypeOK' /\ ToldAsSent'
  BY DEF CallIInv, Modes, ToldFits, TextsScreened, CallTypeOK, ToldAsSent, Pipeline
<1>2. MaskedCompletion' = MaskedCompletion /\ MaskedPrompt' = MaskedPrompt
  BY DEF MaskedCompletion, MaskedPrompt, Masks, LlamaIndexMasks
<1>3. AnswerFits'
  BY <1>2 DEF CallIInv, AnswerFits, MayPass
<1>4. TextsScreened'
  BY <1>1, <1>2, <1>3 DEF CallIInv, TextsScreened, AnswerFits, MayPass
<1> QED BY <1>1, <1>3, <1>4 DEF CallIInv

LEMMA BypassKeeps == ASSUME IInv, Bypass PROVE IInv'
<1> USE DEF Bypass
<1>1. StreamIInv'
  BY CallFacts, TextKept DEF Spans, Faults
<1>2. SpanIInv'
  BY CallFacts DEF SpanIInv, SpanFits, StreamFits, EndFits, RecordedOnce, SpansLeftOpen,
     FailureNotOk
<1>3. CallIInv'
  BY CallFacts, CallOver
<1> QED BY <1>1, <1>2, <1>3 DEF IInv

\* The masks depend on nothing that a step of the call changes.
LEMMA SameMasks ==
  ASSUME UNCHANGED <<provider, call>>
  PROVE  /\ MaskedCompletion' = MaskedCompletion /\ MaskedPrompt' = MaskedPrompt
         /\ Modes' = Modes /\ Pipeline' = Pipeline
BY DEF MaskedCompletion, MaskedPrompt, Masks, LlamaIndexMasks, Modes, Pipeline

LEMMA MaskRequestKeeps == ASSUME IInv, MaskRequest PROVE IInv'
<1> USE DEF MaskRequest, vars
<1>1. /\ At("mask_request") /\ stage = "calling" /\ provider \in Providers
      /\ step \in 1..Len(Pipeline) /\ fault = "none" /\ UNCHANGED provider
  BY CallFacts, StepFacts
<1>2. /\ Pipeline' = Pipeline /\ step' \in 1..Len(Pipeline) /\ step < Len(Pipeline)
      /\ \A n : Remains(n)' <=> Remains(n) /\ n # "mask_request"
  BY <1>1, Advances
<1>3. StreamIInv'
  BY <1>1, CallFacts, TextKept DEF text, Faults
<1>4. SpanIInv'
  BY <1>1, <1>2, CallFacts, SpanKept
<1>5. CallIInv'
  <2>1. PICK failed \in SUBSET MaskedPrompt, copyable \in BOOLEAN :
          /\ request' = [f \in Asked |-> IF f \in MaskedPrompt \ failed THEN "masked"
                                         ELSE "raw"]
          /\ mine' = MineAfter(request', copyable)
          /\ passed' = failed /\ copied' = copyable
    OBVIOUS
  <2>2. /\ Remains("mask_request") /\ mine = Plain(Asked)
        /\ \A f \in Asked : told[f] = "none"
    BY <1>1, AtFacts, CallFacts DEF ToldFits
  <2>3. MaskedPrompt' = MaskedPrompt /\ MaskedCompletion' = MaskedCompletion
        /\ Modes' = Modes
    BY SameMasks
  <2>4. mine' \in [Asked -> {"raw", "masked"}] /\ (copied' => mine' = Plain(Asked))
    BY <2>1, <2>2 DEF MineAfter, Plain
  <2>5. CallTypeOK'
    BY <1>2, <2>1, <2>4, CallFacts, Fields, <1>1 DEF CallTypeOK
  <2>6. TextsScreened'
    BY <1>1, <2>1, <2>3, <2>4, <2>5, Fields DEF TextsScreened
  <2>7. ToldFits'
    BY <1>1, <1>2, CallFacts DEF ToldFits
  <2>8. ToldAsSent'
    <3>1. ToldAsSent /\ UNCHANGED <<provider, call, answer, told, headers,
                                    metric_params, metered>>
      BY <1>1, CallFacts DEF CallIInv
    <3> HIDE DEF MaskRequest
    <3> QED BY <2>2, <3>1 DEF ToldAsSent
  <2>9. AnswerFits'
    <3>1. step = 1
      BY <1>1, PipelineOrder DEF At
    <3>2. Remains("mask_answer")' \/ provider = "embeddings"
      BY <1>1, <1>2, <3>1, AtStart
    <3> QED
      BY <1>1, <2>3, <3>2, Fields DEF AnswerFits
  <2> QED BY <2>3, <2>6, <2>7, <2>8, <2>9, CallFacts, <1>1 DEF CallIInv
<1> QED BY <1>3, <1>4, <1>5 DEF IInv

\* A step is done, and the next one or the last one is due.
LEMMA Onward ==
  ASSUME IInv, NEW name, At(name), name # "end", UNCHANGED provider, Advance \/ GiveUp
  PROVE  /\ Pipeline' = Pipeline /\ step' \in 1..Len(Pipeline) /\ step' > 1
         /\ \A n : Remains(n)' => Remains(n) /\ n # name
         /\ Advance => \A n : Remains(n)' <=> Remains(n) /\ n # name
<1>1. provider \in Providers /\ step \in 1..Len(Pipeline) /\ stage = "calling"
  BY CallFacts DEF At
<1>2. CASE Advance
  BY <1>1, <1>2, Advances
<1>3. CASE GiveUp
  <2>1. /\ Pipeline' = Pipeline /\ step' = Len(Pipeline) /\ step' \in 1..Len(Pipeline)
        /\ step' > 1 /\ \A n : Remains(n)' => n = "end"
    BY <1>1, <1>3, GivesUp
  <2>2. Remains("end")
    BY <1>1, PipelineOrder DEF Remains
  <2>3. ~Advance \/ \A n : Remains(n)' <=> Remains(n) /\ n # name
    BY <1>1, Advances
  <2> QED BY <2>1, <2>2, <2>3
<1> QED BY <1>2, <1>3

\* A step that leaves the span alone keeps what is said of it and of the text.
LEMMA OnwardKeeps ==
  ASSUME IInv, NEW name, At(name), name # "end", UNCHANGED vars, Advance \/ GiveUp
  PROVE  StreamIInv' /\ SpanIInv'
<1>1. /\ stage = "calling" /\ stage' = stage /\ provider' = provider
      /\ UNCHANGED <<text, span, completed, recorded, fault>>
  BY DEF At, vars, text
<1>2. StreamIInv'
  BY <1>1, CallFacts, TextKept DEF Faults
<1>3. SpanIInv'
  BY <1>1, CallFacts, StepFacts, Onward, SpanKept
<1> QED BY <1>2, <1>3

\* Telling says what was sent, or what was answered.
LEMMA TellKeeps ==
  ASSUME IInv, NEW name \in {"tell_request", "tell_answer"}, At(name),
         UNCHANGED <<provider, stage, fault, call, mine, request, answer, passed,
                     copied, metric_params, metered>>,
         told' \in [Asked \cup Answered -> {"none", "raw", "masked"}],
         \A f \in Asked : told'[f] \in {"none", request[f]},
         \A f \in Answered : told'[f] \in {"none", answer[f]},
         name = "tell_request" => \A f \in Answered : told'[f] = told[f],
         headers' \in {"own", headers},
         Advance \/ (GiveUp /\ provider \in Bedrock /\ name = "tell_request")
  PROVE  CallIInv'
<1>1. /\ Pipeline' = Pipeline /\ step' \in 1..Len(Pipeline) /\ step' > 1
      /\ \A n : Remains(n)' => Remains(n) /\ n # name
      /\ ~Remains("mask_request")
      /\ ~Remains("mask_answer")' => ~Remains("mask_answer")
      /\ name = "tell_answer" => ~Remains("call") /\ ~Remains("mask_answer")
  BY Onward, AtFacts, CallFacts DEF At
<1>2. /\ stage = "calling" /\ CallTypeOK /\ ToldFits /\ AnswerFits /\ TextsScreened
      /\ ToldAsSent /\ call \in Modes
  BY CallFacts DEF At, CallIInv
<1>3. /\ MaskedPrompt' = MaskedPrompt /\ MaskedCompletion' = MaskedCompletion
      /\ Modes' = Modes
  BY SameMasks
<1>4. CallTypeOK'
  BY <1>1, <1>2 DEF CallTypeOK
<1>5. TextsScreened'
  <2>1. step > 1 \/ MaskedPrompt = {}
    BY CallFacts, Fields, PipelineOrder DEF At
  <2> QED BY <1>1, <1>2, <1>3, <1>4, <2>1 DEF TextsScreened
<1>6. ToldAsSent'
  BY <1>2 DEF ToldAsSent
<1>7. ToldFits'
  BY <1>1, <1>2 DEF ToldFits
<1>8. AnswerFits'
  BY <1>1, <1>2, <1>3 DEF AnswerFits, MayPass
<1> QED BY <1>2, <1>3, <1>5, <1>6, <1>7, <1>8 DEF CallIInv

LEMMA TellRequestKeeps == ASSUME IInv, TellRequest PROVE IInv'
<1>1. /\ At("tell_request") /\ UNCHANGED <<vars, provider, stage, fault>>
      /\ UNCHANGED <<call, mine, request, answer, passed, copied, metric_params, metered>>
  BY DEF TellRequest, vars
<1>2. PICK written \in SUBSET Prompts :
        /\ told' = [f \in DOMAIN told |->
                      IF call.sampled /\ f \in written THEN request[f] ELSE told[f]]
        /\ headers' \in {"own", headers}
        /\ Advance \/ (GiveUp /\ provider \in Bedrock)
  BY DEF TellRequest
<1>3. CallTypeOK /\ ToldAsSent /\ Prompts \subseteq Asked
  BY <1>1, CallFacts, Fields DEF At, CallIInv
<1>4. /\ told' \in [Asked \cup Answered -> {"none", "raw", "masked"}]
      /\ \A f \in Asked : told'[f] \in {"none", request[f]}
      /\ \A f \in Answered : told'[f] = told[f] /\ told[f] \in {"none", answer[f]}
  BY <1>2, <1>3 DEF CallTypeOK, ToldAsSent, Asked, Answered
<1>5. CallIInv'
  BY <1>1, <1>2, <1>4, TellKeeps
<1> QED BY <1>1, <1>2, <1>5, OnwardKeeps DEF IInv

LEMMA TellsUnshieldedFacts ==
  ASSUME IInv, NEW name \in {"tell_request", "tell_answer"}, NEW fields, NEW texts,
         \/ name = "tell_request" /\ fields = Prompts /\ texts = request
         \/ name = "tell_answer" /\ fields = Completions /\ texts = answer,
         TellsUnshielded(name, fields, texts)
  PROVE  /\ CallIInv' /\ At(name) /\ Advance /\ provider \in Unshielded
         /\ UNCHANGED <<provider, stage, text, completed, fault>>
<1>1. /\ At(name) /\ provider \in Unshielded /\ Advance
      /\ UNCHANGED <<provider, stage, text, completed, fault, call, mine, request, answer,
                     passed, copied, headers, metric_params, metered>>
  BY DEF TellsUnshielded
<1>2. told' = [f \in DOMAIN told |->
                 IF call.sampled /\ f \in fields THEN texts[f] ELSE told[f]]
  BY DEF TellsUnshielded
<1>3. /\ CallTypeOK /\ ToldAsSent
      /\ Prompts \subseteq Asked /\ Completions \subseteq Answered
  BY <1>1, CallFacts, Fields DEF At, CallIInv
<1>4. /\ told' \in [Asked \cup Answered -> {"none", "raw", "masked"}]
      /\ \A f \in Asked : told'[f] \in {"none", request[f]}
      /\ \A f \in Answered : told'[f] \in {"none", answer[f]}
      /\ name = "tell_request" => \A f \in Answered : told'[f] = told[f]
  <2>1. CASE name = "tell_request" /\ fields = Prompts /\ texts = request
    BY <1>2, <1>3, <2>1 DEF CallTypeOK, ToldAsSent, Asked, Answered
  <2>2. CASE name = "tell_answer" /\ fields = Completions /\ texts = answer
    BY <1>2, <1>3, <2>2 DEF CallTypeOK, ToldAsSent, Asked, Answered
  <2> QED BY <2>1, <2>2
<1> QED BY <1>1, <1>4, TellKeeps

LEMMA TellRequestAllKeeps == ASSUME IInv, TellRequestAll PROVE IInv'
<1>1. /\ CallIInv' /\ At("tell_request") /\ Advance
      /\ UNCHANGED <<provider, stage, text, completed, fault, span, recorded>>
  BY TellsUnshieldedFacts DEF TellRequestAll
<1>2. UNCHANGED vars
  BY <1>1 DEF vars, text
<1> QED BY <1>1, <1>2, OnwardKeeps DEF IInv

\* When the answer is told, the span may be marked and the metrics recorded.
LEMMA TellAnswerSpan ==
  ASSUME IInv, At("tell_answer"), Advance,
         UNCHANGED <<provider, stage, text, completed, fault>>,
         span' \in {span, Marked("ok")}, recorded' \in {recorded, recorded + 1},
         provider \in Bedrock => recorded' = recorded
  PROVE  StreamIInv' /\ SpanIInv'
<1>1. /\ stage = "calling" /\ stage' = stage /\ provider' = provider
      /\ fault = "none" /\ Untouched /\ provider \in Providers
      /\ step \in 1..Len(Pipeline) /\ completed = FALSE
  BY CallFacts, StepFacts DEF At
<1>2. /\ Pipeline' = Pipeline /\ step' = Len(Pipeline)
      /\ \A n : Remains(n)' => Remains(n) /\ n # "tell_answer"
      /\ ~Remains("call") /\ ~Remains("meter") /\ Remains("tell_answer")
  BY <1>1, Onward, AtFacts, PipelineOrder DEF At, Advance
<1>3. span' \in Spans /\ ~span'.ended /\ span'.status # "error"
  <2>1. span \in Spans /\ ~span.ended /\ span.status = "unset"
    BY <1>1, CallFacts DEF Untouched
  <2>2. /\ Marked("ok") \in Spans
        /\ Marked("ok") = [ended |-> FALSE, status |-> "ok"]
    BY <2>1, SpanTyped
  <2> QED BY <2>1, <2>2
<1>4. recorded' \in {0, 1}
  BY <1>1, <1>2, CallFacts DEF SpanFits
<1>5. StreamIInv'
  BY <1>1, <1>3, <1>4, CallFacts, TextKept DEF Faults
<1>6. SpanFits'
  BY <1>1, <1>2, <1>3, <1>4, PipelineOrder DEF SpanFits
<1>7. StreamFits' /\ EndFits' /\ RecordedOnce' /\ SpansLeftOpen' /\ FailureNotOk'
  BY <1>1, <1>4 DEF StreamFits, EndFits, RecordedOnce, SpansLeftOpen, FailureNotOk
<1> QED BY <1>5, <1>6, <1>7 DEF SpanIInv

LEMMA TellAnswerAllKeeps == ASSUME IInv, TellAnswerAll PROVE IInv'
<1>1. /\ CallIInv' /\ At("tell_answer") /\ Advance /\ provider \in Unshielded
      /\ UNCHANGED <<provider, stage, text, completed, fault>>
  BY TellsUnshieldedFacts DEF TellAnswerAll
<1>2. span' \in {span, Marked("ok")} /\ recorded' = recorded + 1
  BY DEF TellAnswerAll
<1> QED BY <1>1, <1>2, TellAnswerSpan DEF IInv, Unshielded, Bedrock

LEMMA TellAnswerKeeps == ASSUME IInv, TellAnswer PROVE IInv'
<1>1. /\ At("tell_answer") /\ Advance
      /\ UNCHANGED <<provider, stage, text, completed, fault, call, mine, request, answer,
                     passed, copied, headers, metric_params, metered>>
  BY DEF TellAnswer
<1>2. PICK written \in SUBSET Completions :
        told' = [f \in DOMAIN told |->
                   IF call.sampled /\ f \in written THEN answer[f] ELSE told[f]]
  BY DEF TellAnswer
<1>3. /\ span' \in {span, Marked("ok")} /\ recorded' \in {recorded, recorded + 1}
      /\ provider \in Bedrock => recorded' = recorded
  <2>1. recorded \in Nat
    BY <1>1, CallFacts DEF At
  <2> QED BY <2>1 DEF TellAnswer
<1>4. CallTypeOK /\ ToldAsSent /\ Completions \subseteq Answered
  BY <1>1, CallFacts, Fields DEF At, CallIInv
<1>5. /\ told' \in [Asked \cup Answered -> {"none", "raw", "masked"}]
      /\ \A f \in Asked : told'[f] \in {"none", request[f]}
      /\ \A f \in Answered : told'[f] \in {"none", answer[f]}
  BY <1>2, <1>4 DEF CallTypeOK, ToldAsSent, Asked, Answered
<1>6. CallIInv'
  BY <1>1, <1>5, TellKeeps
<1> QED BY <1>1, <1>3, <1>6, TellAnswerSpan DEF IInv

LEMMA CallAnswersKeeps == ASSUME IInv, CallAnswers PROVE IInv'
<1>1. /\ At("call") /\ answer' = Plain(Answered) /\ Advance
      /\ UNCHANGED <<vars, provider, stage, fault, call, mine, request, told, passed,
                     copied, headers, metric_params, metered>>
  BY DEF CallAnswers, vars
<1>2. /\ stage = "calling" /\ CallTypeOK /\ ToldFits /\ TextsScreened
      /\ ToldAsSent /\ call \in Modes /\ provider \in Providers
      /\ step \in 1..Len(Pipeline)
  BY <1>1, CallFacts DEF At, CallIInv
<1>3. /\ Pipeline' = Pipeline /\ step' \in 1..Len(Pipeline) /\ step' > 1
      /\ \A n : Remains(n)' <=> Remains(n) /\ n # "call"
      /\ Remains("call") /\ ~Remains("mask_request")
  BY <1>1, <1>2, Onward, AtFacts
<1>4. /\ MaskedPrompt' = MaskedPrompt /\ MaskedCompletion' = MaskedCompletion
      /\ Modes' = Modes
  BY <1>1, SameMasks
<1>5. \A f \in Answered : told[f] = "none"
  BY <1>2, <1>3 DEF ToldFits
<1>6. CallTypeOK'
  BY <1>1, <1>2, <1>3 DEF CallTypeOK, Plain
<1>7. TextsScreened'
  <2>1. step > 1 \/ MaskedPrompt = {}
    BY <1>1, <1>2, Fields, PipelineOrder DEF At
  <2> QED BY <1>1, <1>2, <1>3, <1>4, <1>6, <2>1 DEF TextsScreened
<1>8. ToldAsSent' /\ ToldFits'
  BY <1>1, <1>2, <1>3, <1>5 DEF ToldAsSent, ToldFits
<1>9. AnswerFits'
  <2>1. Remains("mask_answer") \/ provider = "embeddings"
    BY <1>1, <1>2, CallMasks
  <2> QED BY <1>1, <1>2, <1>3, <1>4, <2>1, Fields DEF AnswerFits
<1> QED
  BY <1>1, <1>2, <1>4, <1>7, <1>8, <1>9, OnwardKeeps DEF IInv, CallIInv

LEMMA MaskAnswerKeeps == ASSUME IInv, MaskAnswer PROVE IInv'
<1>1. /\ At("mask_answer") /\ Advance
      /\ UNCHANGED <<vars, provider, stage, fault, call, mine, request, told, copied,
                     headers, metric_params, metered>>
  BY DEF MaskAnswer, vars
<1>2. PICK failed \in SUBSET MaskedCompletion :
        /\ answer' = [f \in Answered |-> IF Inspects /\ f \in MaskedCompletion \ failed
                                           THEN "masked" ELSE answer[f]]
        /\ passed' = passed \cup failed
  BY DEF MaskAnswer
<1>3. /\ stage = "calling" /\ CallTypeOK /\ ToldFits /\ TextsScreened
      /\ ToldAsSent /\ call \in Modes /\ provider \in Providers
      /\ step \in 1..Len(Pipeline)
  BY <1>1, CallFacts DEF At, CallIInv
<1>4. /\ Pipeline' = Pipeline /\ step' \in 1..Len(Pipeline) /\ step' > 1
      /\ \A n : Remains(n)' <=> Remains(n) /\ n # "mask_answer"
      /\ Remains("mask_answer") /\ ~Remains("mask_request") /\ ~Remains("call")
  BY <1>1, <1>3, Onward, AtFacts
<1>5. /\ MaskedPrompt' = MaskedPrompt /\ MaskedCompletion' = MaskedCompletion
      /\ Modes' = Modes /\ MaskedPrompt \subseteq Asked /\ MaskedCompletion \subseteq Answered
  BY <1>1, <1>3, SameMasks, Fields
<1>6. \A f \in Answered : told[f] = "none"
  BY <1>3, <1>4 DEF ToldFits
<1>7. answer' \in [Answered -> {"raw", "masked"}]
  BY <1>2, <1>3 DEF CallTypeOK
<1>8. CallTypeOK'
  BY <1>1, <1>2, <1>3, <1>4, <1>5, <1>7 DEF CallTypeOK
<1>9. TextsScreened'
  <2>1. step > 1 \/ MaskedPrompt = {}
    BY <1>1, <1>3, Fields, PipelineOrder DEF At
  <2> QED BY <1>1, <1>2, <1>3, <1>4, <1>5, <1>8, <2>1 DEF TextsScreened
<1>10. ToldAsSent' /\ ToldFits'
  BY <1>1, <1>3, <1>4, <1>6 DEF ToldAsSent, ToldFits
<1>11. AnswerFits'
  <2>1. Inspects \/ (call.mode = "raw" /\ provider # "responses")
                 \/ (call.mode = "complete" /\ ~call.sampled)
    BY DEF Inspects
  <2>2. \A f \in MaskedCompletion : Inspects /\ f \notin failed => answer'[f] = "masked"
    BY <1>2, <1>5
  <2> QED BY <1>1, <1>2, <1>5, <2>1, <2>2 DEF AnswerFits, MayPass
<1> QED
  BY <1>1, <1>3, <1>5, <1>9, <1>10, <1>11, OnwardKeeps DEF IInv, CallIInv

LEMMA LabelKeeps == ASSUME IInv, Label PROVE IInv'
<1>1. /\ At("label") /\ Advance
      /\ UNCHANGED <<vars, provider, stage, fault, call, mine, request, answer, told,
                     passed, copied, headers, metered>>
      /\ metric_params' \in {"own", metric_params}
  BY DEF Label, vars
<1>2. /\ stage = "calling" /\ CallTypeOK /\ ToldFits /\ AnswerFits /\ TextsScreened
      /\ ToldAsSent /\ call \in Modes /\ provider \in Providers
      /\ step \in 1..Len(Pipeline)
  BY <1>1, CallFacts DEF At, CallIInv
<1>3. /\ Pipeline' = Pipeline /\ step' \in 1..Len(Pipeline) /\ step' > 1
      /\ \A n : Remains(n)' <=> Remains(n) /\ n # "label"
      /\ Remains("label") /\ ~Remains("mask_request")
  BY <1>1, <1>2, Onward, AtFacts
<1>4. /\ MaskedPrompt' = MaskedPrompt /\ MaskedCompletion' = MaskedCompletion
      /\ Modes' = Modes
  BY <1>1, SameMasks
<1>5. CallTypeOK'
  BY <1>1, <1>2, <1>3 DEF CallTypeOK
<1>6. TextsScreened'
  <2>1. step > 1 \/ MaskedPrompt = {}
    BY <1>1, <1>2, Fields, PipelineOrder DEF At
  <2> QED BY <1>1, <1>2, <1>3, <1>4, <1>5, <2>1 DEF TextsScreened
<1>7. metered = "none"
  BY <1>2, <1>3 DEF ToldFits
<1>8. ToldAsSent' /\ ToldFits'
  BY <1>1, <1>2, <1>3, <1>7 DEF ToldAsSent, ToldFits
<1>9. AnswerFits'
  BY <1>1, <1>2, <1>3, <1>4 DEF AnswerFits, MayPass
<1> QED
  BY <1>1, <1>2, <1>4, <1>6, <1>8, <1>9, OnwardKeeps DEF IInv, CallIInv

LEMMA MeterKeeps == ASSUME IInv, Meter PROVE IInv'
<1>1. /\ At("meter") /\ Advance
      /\ UNCHANGED <<provider, stage, text, span, completed, fault, call, mine, request,
                     answer, told, passed, copied, headers, metric_params>>
      /\ metered' \in {metered, metric_params} /\ recorded' \in {recorded, recorded + 1}
  BY DEF Meter
<1>2. /\ stage = "calling" /\ CallTypeOK /\ ToldFits /\ AnswerFits /\ TextsScreened
      /\ ToldAsSent /\ call \in Modes /\ provider \in Providers
      /\ step \in 1..Len(Pipeline) /\ fault = "none" /\ Untouched
  BY <1>1, CallFacts, StepFacts DEF At, CallIInv
<1>3. /\ Pipeline' = Pipeline /\ step' \in 1..Len(Pipeline) /\ step' > 1
      /\ \A n : Remains(n)' <=> Remains(n) /\ n # "meter"
      /\ Remains("meter") /\ ~Remains("mask_request") /\ ~Remains("call")
      /\ ~Remains("label") /\ provider \in Bedrock
  BY <1>1, <1>2, Onward, AtFacts
<1>4. /\ MaskedPrompt' = MaskedPrompt /\ MaskedCompletion' = MaskedCompletion
      /\ Modes' = Modes
  BY <1>1, SameMasks
<1>5. CallTypeOK'
  BY <1>1, <1>2, <1>3 DEF CallTypeOK
<1>6. TextsScreened'
  <2>1. step > 1 \/ MaskedPrompt = {}
    BY <1>1, <1>2, Fields, PipelineOrder DEF At
  <2> QED BY <1>1, <1>2, <1>3, <1>4, <1>5, <2>1 DEF TextsScreened
<1>7. ToldAsSent' /\ ToldFits'
  BY <1>1, <1>2, <1>3 DEF ToldAsSent, ToldFits
<1>8. AnswerFits'
  BY <1>1, <1>2, <1>3, <1>4 DEF AnswerFits, MayPass
<1>9. recorded = 0 /\ recorded' \in {0, 1}
  BY <1>1, <1>2, <1>3, CallFacts DEF SpanFits
<1>10. StreamIInv'
  BY <1>1, <1>2, <1>9, CallFacts, TextKept DEF Faults
<1>11. SpanFits'
  BY <1>1, <1>2, <1>3, <1>9, CallFacts DEF SpanFits, Untouched
<1>12. StreamFits' /\ EndFits' /\ RecordedOnce' /\ SpansLeftOpen' /\ FailureNotOk'
  BY <1>1, <1>2, <1>9 DEF StreamFits, EndFits, RecordedOnce, SpansLeftOpen, FailureNotOk
<1> QED
  BY <1>1, <1>2, <1>4, <1>6, <1>7, <1>8, <1>10, <1>11, <1>12
  DEF IInv, SpanIInv, CallIInv

LEMMA MaskAnswerRaisesKeeps == ASSUME IInv, MaskAnswerRaises PROVE IInv'
<1>1. /\ At("mask_answer") /\ GiveUp /\ fault' = "body"
      /\ UNCHANGED <<provider, stage, text, span, completed, recorded, call, mine, request,
                     answer, told, passed, copied, headers, metric_params, metered>>
  BY DEF MaskAnswerRaises, local
<1>2. /\ stage = "calling" /\ CallTypeOK /\ ToldFits /\ TextsScreened
      /\ ToldAsSent /\ call \in Modes /\ provider \in Providers
      /\ step \in 1..Len(Pipeline) /\ fault = "none" /\ Untouched
  BY <1>1, CallFacts, StepFacts DEF At, CallIInv
<1>3. /\ Pipeline' = Pipeline /\ step' \in 1..Len(Pipeline) /\ step' > 1
      /\ step' = Len(Pipeline) /\ \A n : Remains(n)' => n = "end"
  BY <1>1, <1>2, GivesUp
<1>4. /\ MaskedPrompt' = MaskedPrompt /\ MaskedCompletion' = MaskedCompletion
      /\ Modes' = Modes
  BY <1>1, SameMasks
<1>5. CallTypeOK'
  BY <1>1, <1>2, <1>3 DEF CallTypeOK
<1>6. TextsScreened'
  <2>1. step > 1 \/ MaskedPrompt = {}
    BY <1>1, <1>2, Fields, PipelineOrder DEF At
  <2> QED BY <1>1, <1>2, <1>3, <1>4, <1>5, <2>1 DEF TextsScreened
<1>7. ToldAsSent' /\ ToldFits'
  BY <1>1, <1>2, <1>3 DEF ToldAsSent, ToldFits
<1>8. AnswerFits'
  BY <1>1 DEF AnswerFits, MayPass
<1>9. StreamIInv'
  BY <1>1, <1>2, CallFacts, TextKept DEF Faults
<1>10. SpanFits'
  BY <1>1, <1>2, <1>3, CallFacts DEF SpanFits
<1>11. StreamFits' /\ EndFits' /\ RecordedOnce' /\ SpansLeftOpen' /\ FailureNotOk'
  BY <1>1, <1>2, CallFacts
  DEF StreamFits, EndFits, RecordedOnce, SpansLeftOpen, FailureNotOk
<1> QED
  BY <1>1, <1>2, <1>4, <1>6, <1>7, <1>8, <1>9, <1>10, <1>11 DEF IInv, SpanIInv, CallIInv

LEMMA KeepKeeps == ASSUME IInv, Keep PROVE IInv'
<1>1. /\ At("keep")
      /\ UNCHANGED <<provider, text, span, completed, recorded, call, mine, request,
                     answer, told, passed, copied, headers, metric_params, metered>>
      /\ \/ (Advance \/ GiveUp) /\ UNCHANGED <<stage, fault>>
         \/ stage' = "returned" /\ fault' = "pending" /\ UNCHANGED step
  BY DEF Keep, local
<1>2. /\ stage = "calling" /\ CallTypeOK /\ ToldFits /\ AnswerFits /\ TextsScreened
      /\ ToldAsSent /\ call \in Modes /\ provider \in Providers
      /\ step \in 1..Len(Pipeline) /\ fault = "none" /\ Untouched
      /\ ~Remains("mask_request") /\ ~Remains("mask_answer")
  BY <1>1, CallFacts, StepFacts, AtFacts DEF At, CallIInv
<1>3. CASE (Advance \/ GiveUp) /\ UNCHANGED <<stage, fault>>
  <2>1. /\ Pipeline' = Pipeline /\ step' \in 1..Len(Pipeline) /\ step' > 1
        /\ \A n : Remains(n)' => Remains(n) /\ n # "keep"
    BY <1>1, <1>3, Onward
  <2>2. /\ MaskedPrompt' = MaskedPrompt /\ MaskedCompletion' = MaskedCompletion
        /\ Modes' = Modes
    BY <1>1, SameMasks
  <2>3. CallTypeOK'
    BY <1>1, <1>2, <2>1 DEF CallTypeOK
  <2>4. TextsScreened'
    <3>1. step > 1 \/ MaskedPrompt = {}
      BY <1>1, <1>2, Fields, PipelineOrder DEF At
    <3> QED BY <1>1, <1>2, <1>3, <2>1, <2>2, <2>3, <3>1 DEF TextsScreened
  <2>5. ToldAsSent' /\ ToldFits'
    BY <1>1, <1>2, <1>3, <2>1 DEF ToldAsSent, ToldFits
  <2>6. AnswerFits'
    BY <1>1, <1>2, <1>3, <2>1, <2>2 DEF AnswerFits, MayPass
  <2>7. StreamIInv' /\ SpanIInv'
    BY <1>1, <1>3, OnwardKeeps DEF vars, text
  <2> QED BY <1>1, <1>2, <2>2, <2>4, <2>5, <2>6, <2>7 DEF IInv, CallIInv
<1>4. CASE stage' = "returned" /\ fault' = "pending" /\ UNCHANGED step
  <2>1. StreamIInv'
    BY <1>1, <1>2, <1>4, CallFacts, TextKept DEF Faults
  <2>2. SpanIInv'
    BY <1>1, <1>2, <1>4, CallFacts
    DEF SpanIInv, SpanFits, StreamFits, EndFits, RecordedOnce, SpansLeftOpen, FailureNotOk
  <2>3. CallIInv'
    BY <1>1, <1>2, <1>4, CallFacts, CallOver DEF callVars, local
  <2> QED BY <2>1, <2>2, <2>3 DEF IInv
<1> QED BY <1>1, <1>3, <1>4

\* A call that is over: its span is ended, or left open as SpansLeftOpen lists.
LEMMA SpanOver ==
  ASSUME IInv, stage = "calling", stage' \in {"failed", "returned"},
         UNCHANGED <<provider, completed>>,
         span' \in Spans, recorded' \in {0, 1},
         fault' \in {"none", "body", "call", "cancelled", "completion"},
         fault' \in {"call", "cancelled"} => stage' = "failed" /\ span'.status # "ok",
         stage' = "failed" => fault' \in {"call", "cancelled", "completion"},
         \/ span'.ended \/ provider \in Frameworks
         \/ provider \in {"anthropic", "invoke", "converse"} /\ fault' = "call"
         \/ fault' = "cancelled" /\ provider # "embeddings"
         \/ provider \in {"invoke", "responses"} /\ fault' = "completion"
  PROVE  SpanIInv'
<1>1. SpanFits' /\ StreamFits' /\ EndFits'
  BY DEF SpanFits, StreamFits, EndFits
<1>2. RecordedOnce' /\ FailureNotOk' /\ SpansLeftOpen'
  BY DEF RecordedOnce, FailureNotOk, SpansLeftOpen
<1> QED BY <1>1, <1>2 DEF SpanIInv

LEMMA RepliesKeeps == ASSUME IInv, Replies PROVE IInv'
<1>1. /\ At("end") /\ stage' = "returned"
      /\ UNCHANGED <<provider, text, completed, recorded, fault, callVars>>
      /\ span' = IF provider \in Frameworks THEN span
                 ELSE Ended(IF provider = "anthropic" THEN "ok" ELSE "unset")
  BY DEF Replies
<1>2. /\ stage = "calling" /\ ~Remains("mask_answer") /\ fault \in {"none", "body"}
      /\ recorded \in {0, 1} /\ span \in Spans /\ completed = FALSE
  BY <1>1, CallFacts, AtFacts DEF At
<1>3. span' \in Spans /\ (provider \notin Frameworks => span'.ended)
  BY <1>1, <1>2, SpanTyped
<1>4. StreamIInv'
  BY <1>1, <1>2, <1>3, CallFacts, TextKept DEF Faults
<1>5. SpanIInv'
  BY <1>1, <1>2, <1>3, SpanOver
<1>6. CallIInv'
  BY <1>1, <1>2, CallFacts, CallOver
<1> QED BY <1>4, <1>5, <1>6 DEF IInv

LEMMA TellRaisesKeeps == ASSUME IInv, TellRaises PROVE IInv'
<1>1. /\ stage = "calling" /\ provider \in Unshielded
      /\ stage' = "failed" /\ fault' = "completion"
      /\ UNCHANGED <<provider, text, completed, recorded, callVars>>
      /\ \/ provider = "responses" /\ span' = span
         \/ provider # "responses" /\ span' \in {Ended("error"), Ended("unset")}
  BY DEF TellRaises, At
<1>2. /\ recorded \in {0, 1} /\ span \in Spans /\ completed = FALSE
  BY <1>1, CallFacts
<1>3. span' \in Spans /\ (provider # "responses" => span'.ended)
  BY <1>1, <1>2, SpanTyped
<1>4. StreamIInv'
  BY <1>1, <1>2, <1>3, CallFacts, TextKept DEF Faults
<1>5. SpanIInv'
  BY <1>1, <1>2, <1>3, SpanOver
<1>6. CallIInv'
  BY <1>1, CallFacts, CallOver
<1> QED BY <1>4, <1>5, <1>6 DEF IInv

LEMMA CallStreamsKeeps == ASSUME IInv, CallStreams PROVE IInv'
<1>1. /\ At("call") /\ call.mode = "stream" /\ stage' \in {"streaming", "unwrapped"}
      /\ Forget /\ UNCHANGED <<provider, text, span, completed, recorded, fault>>
  BY DEF CallStreams
<1>9. stage' = "unwrapped" => provider \in {"invoke", "converse"}
  <2>1. PICK wrapped \in Wrapped : stage' = IF wrapped THEN "streaming" ELSE "unwrapped"
    BY DEF CallStreams
  <2> QED BY <2>1 DEF Wrapped
<1>2. /\ stage = "calling" /\ fault = "none" /\ Untouched /\ recorded = 0
      /\ completed = FALSE /\ span \in Spans /\ call \in Modes
      /\ provider \in Providers /\ step \in 1..Len(Pipeline)
  BY <1>1, CallFacts, StepFacts, AtFacts DEF At, SpanFits
<1>3. StreamIInv'
  BY <1>1, <1>2, CallFacts, TextKept DEF Faults
<1>4. SpanIInv'
  BY <1>1, <1>2, <1>9 DEF SpanIInv, SpanFits, StreamFits, EndFits, RecordedOnce,
     SpansLeftOpen, FailureNotOk, Untouched, Forget
<1>5. call' \in Modes'
  <2>1. Modes' = Modes
    BY <1>1 DEF Modes
  <2> QED BY <1>1, <1>2, <2>1 DEF Modes, Forget
<1>6. CallTypeOK'
  <2>1. step' \in 1..Len(Pipeline)'
    <3>1. Pipeline' = Pipeline /\ step' = 1
      BY <1>1 DEF Pipeline, Forget
    <3>2. Len(Pipeline) \in 4..8
      BY <1>2, PipelineOrder
    <3> QED BY <3>1, <3>2
  <2> QED BY <1>1, <2>1 DEF Forget, CallTypeOK, Plain
<1>7. TextsScreened'
  BY <1>1, <1>6 DEF Forget, TextsScreened
<1>8. ToldAsSent' /\ ToldFits' /\ AnswerFits'
  BY <1>1 DEF Forget, ToldAsSent, ToldFits, AnswerFits, Asked, Answered
<1> QED BY <1>3, <1>4, <1>5, <1>7, <1>8 DEF IInv, CallIInv

\* The call fails, for whatever provider.
LEMMA FailsKeeps ==
  ASSUME IInv, NEW newSpan \in Spans, NEW n \in {0, 1}, Fails(newSpan, n),
         newSpan.status # "ok",
         newSpan.ended \/ provider \in {"anthropic", "invoke", "converse"} \cup Frameworks
  PROVE  IInv'
<1>1. /\ At("call") /\ stage' = "failed" /\ fault' = "call"
      /\ span' = newSpan /\ recorded' = recorded + n
      /\ UNCHANGED <<provider, text, completed, callVars>>
  BY DEF Fails
<1>2. stage = "calling" /\ recorded = 0 /\ completed = FALSE
  BY <1>1, CallFacts, AtFacts DEF At, SpanFits
<1>3. StreamIInv'
  BY <1>1, <1>2, CallFacts, TextKept DEF Faults
<1>4. SpanIInv'
  BY <1>1, <1>2, SpanOver
<1>5. CallIInv'
  BY <1>1, <1>2, CallFacts, CallOver
<1> QED BY <1>3, <1>4, <1>5 DEF IInv

LEMMA CallFailsKeeps == ASSUME IInv, CallFails PROVE IInv'
<1>1. At("call")
  BY DEF CallFails, OpenAICallFails, AnthropicCallFails, BedrockCallFails,
     GoogleCallFails, LiteLLMCallFails, ResponsesCallFails, FrameworkCallFails, Fails
<1>2. /\ stage = "calling" /\ Untouched /\ span \in Spans
      /\ recorded = 0 /\ completed = FALSE
  BY <1>1, CallFacts, StepFacts, AtFacts DEF At, SpanFits
<1>3. /\ Marked("error") \in Spans /\ Marked("error").status = "error"
      /\ Ended("error") \in Spans /\ Ended("error").status = "error"
      /\ Ended("error").ended
  <2>1. ~span.ended /\ span.status = "unset"
    BY <1>2 DEF Untouched
  <2>2. Marked("error") = [ended |-> FALSE, status |-> "error"]
    BY <1>2, <2>1, SpanTyped
  <2> QED BY <1>2, <2>2, SpanTyped
<1>4. CASE OpenAICallFails \/ GoogleCallFails \/ LiteLLMCallFails
  BY <1>3, <1>4, FailsKeeps DEF OpenAICallFails, GoogleCallFails, LiteLLMCallFails
<1>5. CASE AnthropicCallFails
  BY <1>3, <1>5, FailsKeeps DEF AnthropicCallFails
<1>6. CASE BedrockCallFails
  BY <1>3, <1>6, FailsKeeps DEF BedrockCallFails, Bedrock
<1>7. CASE FrameworkCallFails
  <2>1. span.status # "ok"
    BY <1>2 DEF Untouched
  <2> QED BY <1>2, <1>7, <2>1, FailsKeeps DEF FrameworkCallFails
<1>8. CASE ResponsesCallFails
  <2>1. PICK written \in SUBSET Prompts :
          /\ told' = [f \in DOMAIN told |->
                        IF call.sampled /\ f \in written THEN request[f] ELSE told[f]]
          /\ \/ span' = Ended("error") /\ fault' = "call"
             \/ span' = Marked("error") /\ fault' = "completion"
    BY <1>8 DEF ResponsesCallFails
  <2>2. /\ provider = "responses" /\ stage' = "failed"
        /\ UNCHANGED <<provider, text, completed, recorded, call, step, mine, request,
                       answer, passed, copied, headers, metric_params, metered>>
    BY <1>8 DEF ResponsesCallFails
  <2>3. StreamIInv'
    BY <1>2, <1>3, <2>1, <2>2, CallFacts, TextKept DEF Faults
  <2>4. SpanIInv'
    BY <1>2, <1>3, <2>1, <2>2, SpanOver
  <2>5. /\ CallTypeOK /\ ToldAsSent /\ TextsScreened /\ call \in Modes
        /\ Prompts \subseteq Asked
    BY <1>2, CallFacts, Fields DEF CallIInv
  <2>6. /\ told' \in [Asked \cup Answered -> {"none", "raw", "masked"}]
        /\ \A f \in Asked : told'[f] \in {"none", request[f]}
        /\ \A f \in Answered : told'[f] = told[f]
    BY <2>1, <2>5 DEF CallTypeOK, ToldAsSent, Asked, Answered
  <2>7. /\ MaskedPrompt' = MaskedPrompt /\ Modes' = Modes /\ Pipeline' = Pipeline
    BY <2>2, SameMasks
  <2>8. CallTypeOK'
    BY <2>2, <2>5, <2>6, <2>7 DEF CallTypeOK
  <2>9. TextsScreened' /\ ToldAsSent'
    BY <2>2, <2>5, <2>6, <2>7, <2>8 DEF TextsScreened, ToldAsSent
  <2>10. ToldFits' /\ AnswerFits'
    BY <2>2 DEF ToldFits, AnswerFits
  <2> QED BY <2>2, <2>3, <2>4, <2>5, <2>7, <2>9, <2>10 DEF IInv, CallIInv
<1> QED BY <1>4, <1>5, <1>6, <1>7, <1>8 DEF CallFails

LEMMA CancelledKeeps == ASSUME IInv, Cancelled PROVE IInv'
<1>1. /\ stage = "calling" /\ stage' = "failed" /\ fault' = "cancelled"
      /\ Pipeline[step] \in {"mask_request", "call", "mask_answer", "tell_request"}
      /\ UNCHANGED <<provider, text, completed, recorded, callVars>>
  BY DEF Cancelled
<1>2. PICK status \in {"unset", "error"} :
        \/ provider = "embeddings" /\ span' = Ended(status)
        \/ provider # "embeddings" /\ span' \in {span, Marked(status)}
  BY DEF Cancelled, Frameworks, Unshielded
<1>3. /\ Untouched /\ span \in Spans /\ recorded \in {0, 1} /\ completed = FALSE
  <2>1. At(Pipeline[step]) /\ Pipeline[step] # "end"
    BY <1>1 DEF At
  <2> QED BY <1>1, <2>1, CallFacts, StepFacts
<1>4. /\ Marked(status) \in Spans /\ Marked(status).status # "ok"
      /\ Ended(status) \in Spans /\ Ended(status).status # "ok" /\ Ended(status).ended
      /\ span.status # "ok"
  <2>1. ~span.ended /\ span.status = "unset"
    BY <1>3 DEF Untouched
  <2>2. Marked(status) = [ended |-> FALSE, status |-> status]
    BY <1>3, <2>1, SpanTyped
  <2>3. Ended(status).status = Marked(status).status /\ Ended(status).ended
    BY <1>3, SpanTyped
  <2>4. Marked(status) \in Spans /\ Ended(status) \in Spans
    BY <1>3, SpanTyped
  <2>5. Marked(status).status = status /\ status # "ok"
    BY <2>2
  <2> QED BY <2>1, <2>3, <2>4, <2>5
<1>5. /\ span' \in Spans /\ span'.status # "ok"
      /\ provider = "embeddings" => span'.ended
  BY <1>2, <1>3, <1>4
<1>6. StreamIInv'
  BY <1>1, <1>3, <1>5, CallFacts, TextKept DEF Faults
<1>7. SpanIInv'
  BY <1>1, <1>3, <1>5, SpanOver
<1>8. CallIInv'
  BY <1>1, CallFacts, CallOver
<1> QED BY <1>6, <1>7, <1>8 DEF IInv

\* Other calls only write on what they share with this one.
LEMMA OthersKeep == ASSUME IInv, OtherInjects \/ OtherLabels PROVE IInv'
<1>1. /\ stage = "calling" /\ provider' = provider /\ stage' = stage
      /\ UNCHANGED <<vars, text, span, completed, recorded, fault>>
      /\ UNCHANGED <<call, step, mine, request, answer, told, passed, copied, metered>>
      /\ headers' = headers \/ (headers' = "other" /\ call.shared)
      /\ metric_params' = metric_params \/ metric_params' = "other"
  BY DEF OtherInjects, OtherLabels, vars, text
<1>2. /\ CallTypeOK /\ ToldFits /\ AnswerFits /\ TextsScreened /\ ToldAsSent
      /\ call \in Modes
  BY <1>1, CallFacts DEF CallIInv
<1>3. /\ MaskedPrompt' = MaskedPrompt /\ MaskedCompletion' = MaskedCompletion
      /\ Modes' = Modes /\ Pipeline' = Pipeline
  BY <1>1, SameMasks
<1>4. StreamIInv'
  BY <1>1, CallFacts, TextKept DEF Faults
<1>5. SpanIInv'
  BY <1>1, <1>3, CallFacts DEF SpanIInv, SpanFits, StreamFits, EndFits, RecordedOnce,
     SpansLeftOpen, FailureNotOk, Untouched, Remains
<1>6. CallTypeOK'
  BY <1>1, <1>2, <1>3 DEF CallTypeOK
<1>7. TextsScreened'
  BY <1>1, <1>2, <1>3, <1>6 DEF TextsScreened
<1>8. ToldAsSent' /\ ToldFits'
  BY <1>1, <1>2, <1>3 DEF ToldAsSent, ToldFits, Remains
<1>9. AnswerFits'
  BY <1>1, <1>2, <1>3 DEF AnswerFits, MayPass, Remains
<1> QED BY <1>1, <1>2, <1>3, <1>4, <1>5, <1>7, <1>8, <1>9 DEF IInv, CallIInv

LEMMA CallNextKeeps == ASSUME IInv, CallNext PROVE IInv'
BY BypassKeeps, MaskRequestKeeps, TellRequestKeeps, TellRequestAllKeeps,
   TellAnswerAllKeeps, TellRaisesKeeps, KeepKeeps, CallAnswersKeeps, CallStreamsKeeps,
   CallFailsKeeps, CancelledKeeps, MaskAnswerKeeps, MaskAnswerRaisesKeeps, LabelKeeps,
   MeterKeeps, TellAnswerKeeps, RepliesKeeps, OthersKeep
   DEF CallNext

-----------------------------------------------------------------------------
(* The text of a stream. *)

Ending(kind, keys) == IF kind = "stop" THEN keys ELSE {}

\* What the provider's protocol says of an item.
Protocol(kind, keys, fresh) ==
  /\ fresh \subseteq keys /\ keys \cap stopped = {}
  /\ kind = "text" => fresh = keys
  /\ kind \in {"text", "stop"} /\ provider # "google" => \E k \in Keys : keys = {k}
  /\ kind = "stop" /\ provider \in OneBlock \cup {"responses"} => fresh = {}
  /\ kind = "other" => fresh = {}
  /\ kind = "other" /\ provider # "openai" => keys = {}
  /\ kind = "other" => keys = {} \/ \E k \in Keys : keys = {k}
  /\ kind = "final" => /\ keys = {} /\ fresh = {}
                       /\ provider \in OneBlock \cup {"responses"}
  /\ kind = "final" /\ provider = "responses" =>
       \A k \in Keys : sent[k] > 0 => k \in stopped
  /\ provider \in {"google", "llamaindex"} => kind \in {"text", "other"}
  /\ provider = "llamaindex" => keys \subseteq {1}

LEMMA SendFacts ==
  ASSUME NEW kind \in Kinds, NEW keys \in SUBSET Keys, NEW fresh \in SUBSET Keys,
         Sends(kind, keys, fresh)
  PROVE  Protocol(kind, keys, fresh)
<1>1. IsFiniteSet(keys) /\ (Cardinality(keys) = 1 => \E k \in Keys : keys = {k})
  <2>1. IsFiniteSet(Keys)
    BY ChoicesAssumption, FS_Interval DEF Keys
  <2>2. IsFiniteSet(keys)
    BY <2>1, FS_Subset
  <2> QED BY <2>2, FS_Singleton
<1>2. /\ fresh \subseteq keys /\ keys \cap stopped = {}
      /\ kind = "text" => /\ fresh = keys
                          /\ Cardinality(keys) = 1 \/ provider = "google"
                          /\ provider = "llamaindex" => keys = {1}
  BY DEF Sends
<1>3. kind = "stop" => /\ Cardinality(keys) = 1
                       /\ provider \notin {"google", "llamaindex"}
                       /\ provider \in OneBlock \cup {"responses"} => fresh = {}
  BY DEF Sends
<1>4. kind = "other" => keys = {} \/ (provider = "openai" /\ Cardinality(keys) = 1
                                      /\ fresh = {})
  BY DEF Sends
<1>5. kind = "final" => /\ keys = {}
                        /\ \/ provider \in OneBlock
                           \/ /\ provider = "responses"
                              /\ {k \in Keys : sent[k] > 0} = stopped
  BY DEF Sends
<1> QED BY <1>1, <1>2, <1>3, <1>4, <1>5 DEF Protocol, Kinds, OneBlock

\* The pieces of a key that a session hands out or keeps are among those it
\* held.
LEMMA CutTyped ==
  ASSUME TypeOK, NEW fresh \in SUBSET Keys, NEW cut \in Cuts(fresh)
  PROVE  /\ DOMAIN cut = fresh
         /\ Out(cut) \in [Keys -> Text] /\ Rest(cut) \in [Keys -> Text]
         /\ \A k \in Keys : /\ Slot(k) \in Keys
                            /\ k \notin fresh => Out(cut)[k] = <<>>
         /\ \A s \in Keys : Rest(cut)[s] # held[s] => \E k \in fresh : Slot(k) = s
<1>1. /\ DOMAIN cut = fresh
      /\ \A k \in fresh : cut[k] \in Nat /\ cut[k] <= Len(Holds(k))
  BY ItemsAssumption DEF Cuts
<1>2. \A k \in Keys : Slot(k) \in Keys
  BY ChoicesAssumption DEF Slot, Keys
<1>3. ASSUME NEW k \in Keys
      PROVE  Holds(k) \in Text
  <2>1. held[Slot(k)] \in Text /\ <<k, sent[k] + 1>> \in Keys \X Nat
    BY <1>2 DEF TypeOK, Text
  <2> QED BY <2>1, AppendProperties DEF Holds, Text
<1>4. ASSUME NEW k \in fresh
      PROVE  /\ SubSeq(Holds(k), 1, cut[k]) \in Text
             /\ SubSeq(Holds(k), cut[k] + 1, Len(Holds(k))) \in Text
  <2>1. Holds(k) \in Seq(Keys \X Nat) /\ Len(Holds(k)) \in Nat
    BY <1>3, LenProperties DEF Text
  <2>2. \A i \in 1..Len(Holds(k)) : Holds(k)[i] \in Keys \X Nat
    BY <2>1, ElementOfSeq
  <2>3. /\ cut[k] \in Int /\ cut[k] + 1 \in Int /\ 1 \in Int /\ Len(Holds(k)) \in Int
        /\ \A i \in 1..cut[k] : i \in 1..Len(Holds(k))
        /\ \A i \in cut[k] + 1 .. Len(Holds(k)) : i \in 1..Len(Holds(k))
    BY <1>1, <2>1
  <2>4. SubSeq(Holds(k), 1, cut[k]) \in Seq(Keys \X Nat)
    BY <2>2, <2>3, SubSeqProperties
  <2>5. SubSeq(Holds(k), cut[k] + 1, Len(Holds(k))) \in Seq(Keys \X Nat)
    BY <2>2, <2>3, SubSeqProperties
  <2> QED BY <2>4, <2>5 DEF Text
<1>5. <<>> \in Text
  BY EmptySeq DEF Text
<1>6. Out(cut) \in [Keys -> Text] /\ \A k \in Keys : k \notin fresh => Out(cut)[k] = <<>>
  BY <1>1, <1>4, <1>5 DEF Out
<1>7. ASSUME NEW s \in Keys
      PROVE  /\ Rest(cut)[s] \in Text
             /\ Rest(cut)[s] # held[s] => \E k \in fresh : Slot(k) = s
  <2> DEFINE users == {k \in fresh : Slot(k) = s}
             user == CHOOSE k \in users : TRUE
  <2>1. Rest(cut)[s] = IF users = {} THEN held[s]
                       ELSE SubSeq(Holds(user), cut[user] + 1, Len(Holds(user)))
    BY <1>1 DEF Rest
  <2>2. users # {} => user \in fresh /\ Slot(user) = s
    OBVIOUS
  <2>3. held[s] \in Text
    BY DEF TypeOK, Text
  <2> HIDE DEF users, user
  <2> QED BY <1>4, <2>1, <2>2, <2>3
<1>8. Rest(cut) \in [Keys -> Text]
  <2>1. Rest(cut) = [s \in Keys |-> Rest(cut)[s]]
    BY DEF Rest
  <2> QED BY <1>7, <2>1
<1> QED BY <1>1, <1>2, <1>6, <1>7, <1>8

\* What is handed out and what is kept make up what was held and has come.
LEMMA CutSplits ==
  ASSUME TypeOK, provider = "litellm" => Choices = 1,
         NEW fresh \in SUBSET Keys, NEW cut \in Cuts(fresh), NEW k \in Keys
  PROVE  /\ Slot(k) = k
         /\ k \in fresh =>
              Out(cut)[k] \o Rest(cut)[k] = Append(held[k], <<k, sent[k] + 1>>)
         /\ k \notin fresh => Out(cut)[k] \o Rest(cut)[k] = held[k]
<1>1. \A j \in Keys : Slot(j) = j
  BY ChoicesAssumption DEF Slot, Keys
<1>2. held[k] \in Text /\ sent[k] \in Nat /\ DOMAIN cut = fresh
  BY CutTyped DEF TypeOK, Text
<1>3. CASE k \notin fresh
  <2>1. Out(cut)[k] = <<>> /\ Rest(cut)[k] = held[k]
    BY <1>1, <1>3, CutTyped
  <2> QED BY <1>1, <1>2, <1>3, <2>1, ConcatEmptySeq DEF Text
<1>4. CASE k \in fresh
  <2>1. Holds(k) = Append(held[k], <<k, sent[k] + 1>>)
    BY <1>1 DEF Holds
  <2>2. Holds(k) \in Seq(Keys \X Nat) /\ Len(Holds(k)) \in Nat \ {0}
    <3>1. <<k, sent[k] + 1>> \in Keys \X Nat /\ held[k] \in Seq(Keys \X Nat)
      BY <1>2 DEF Text
    <3>2. Len(held[k]) \in Nat
      BY <3>1, LenProperties
    <3> QED BY <2>1, <3>1, <3>2, AppendProperties
  <2>3. cut[k] \in 0..Len(Holds(k))
    BY <1>4, <2>2, ItemsAssumption DEF Cuts
  <2>4. Out(cut)[k] = SubSeq(Holds(k), 1, cut[k])
    BY <1>2, <1>4 DEF Out
  <2>5. Rest(cut)[k] = SubSeq(Holds(k), cut[k] + 1, Len(Holds(k)))
    <3> DEFINE users == {j \in fresh : Slot(j) = k}
               user == CHOOSE j \in users : TRUE
    <3>1. users = {k}
      BY <1>1, <1>4
    <3>2. Rest(cut)[k] = IF users = {} THEN held[k]
                         ELSE SubSeq(Holds(user), cut[user] + 1, Len(Holds(user)))
      BY <1>2 DEF Rest
    <3>3. user = k
      BY <3>1
    <3> HIDE DEF users, user
    <3> QED BY <3>1, <3>2, <3>3
  <2>6. Out(cut)[k] \o Rest(cut)[k] = SubSeq(Holds(k), 1, Len(Holds(k)))
    <3>1. /\ 1 \in 1..Len(Holds(k)) + 1 /\ cut[k] \in 1 - 1 .. Len(Holds(k))
          /\ Len(Holds(k)) \in cut[k]..Len(Holds(k))
      BY <2>2, <2>3
    <3> QED BY <2>2, <2>4, <2>5, <3>1, ConcatAdjacentSubSeq
  <2> QED BY <1>1, <1>4, <2>1, <2>2, <2>6, SubSeqFull
<1> QED BY <1>3, <1>4

\* The next piece comes last.
LEMMA PiecesGrow ==
  ASSUME NEW k \in Keys, NEW n \in Nat
  PROVE  Append(Pieces(k, n), <<k, n + 1>>) = Pieces(k, n + 1)
<1> DEFINE s == Append(Pieces(k, n), <<k, n + 1>>)
           t == Pieces(k, n + 1)
<1>1. Pieces(k, n) \in Text /\ t \in Text /\ <<k, n + 1>> \in Keys \X Nat
  BY IsASeq DEF Pieces, Text
<1>2. Len(Pieces(k, n)) = n /\ Len(t) = n + 1
  BY DEF Pieces
<1>3. s \in Text /\ Len(s) = n + 1
  BY <1>1, <1>2, AppendProperties DEF Text
<1>4. ASSUME NEW i \in 1..n + 1
      PROVE  s[i] = t[i]
  BY <1>1, <1>2, AppendProperties DEF Pieces, Text
<1> QED BY <1>1, <1>2, <1>3, <1>4, SeqEqual DEF Text

\* Texts are put together in any order.
LEMMA TextAlgebra ==
  /\ <<>> \in Text
  /\ \A g, h \in Text : g \o h \in Text
  /\ \A g \in Text : g \o <<>> = g /\ <<>> \o g = g
  /\ \A g, h, o \in Text : (g \o h) \o o = g \o (h \o o)
  /\ \A k \in Keys, n \in Nat : <<<<k, n>>>> \in Text
  /\ \A g \in Text, k \in Keys, n \in Nat : Append(g, <<k, n>>) = g \o <<<<k, n>>>>
<1> DEFINE S == Keys \X Nat
<1>1. Text = Seq(S) /\ \A k \in Keys, n \in Nat : <<k, n>> \in S
  BY DEF Text
<1>2. \A k \in Keys, n \in Nat : <<<<k, n>>>> \in Text
  BY DEF Text
<1> HIDE DEF S
<1>3. <<>> \in Text /\ \A g, h \in Text : g \o h \in Text
  BY <1>1, EmptySeq, ConcatProperties
<1>4. \A g \in Text : g \o <<>> = g /\ <<>> \o g = g
  BY <1>1, ConcatEmptySeq
<1>5. \A g, h, o \in Text : (g \o h) \o o = g \o (h \o o)
  BY <1>1, ConcatAssociative
<1>6. \A g \in Text, k \in Keys, n \in Nat : Append(g, <<k, n>>) = g \o <<<<k, n>>>>
  BY <1>1, AppendIsConcat
<1> QED BY <1>2, <1>3, <1>4, <1>5, <1>6

\* A step that splits what is held, and what has come, keeps the text of a key.
LEMMA Conserves ==
  ASSUME NEW k \in Keys, NEW n \in Nat, NEW g \in Text, NEW h \in Text,
         g \o h = Pieces(k, n)
  PROVE  g \o Append(h, <<k, n + 1>>) = Pieces(k, n + 1)
<1> DEFINE m == n + 1
<1>1. m \in Nat /\ Append(Pieces(k, n), <<k, m>>) = Pieces(k, m)
  BY PiecesGrow
<1> SUFFICES g \o Append(h, <<k, m>>) = Pieces(k, m)
  OBVIOUS
<1> HIDE DEF m
<1>2. /\ <<<<k, m>>>> \in Text /\ g \o h \in Text
      /\ \A t \in Text : Append(t, <<k, m>>) = t \o <<<<k, m>>>>
  BY <1>1, TextAlgebra
<1>3. g \o (h \o <<<<k, m>>>>) = (g \o h) \o <<<<k, m>>>>
  BY <1>2, TextAlgebra
<1> QED BY <1>1, <1>2, <1>3

\* What is put behind the text of an item is no longer held back.
LEMMA Moves ==
  ASSUME NEW g \in Text, NEW o \in Text, NEW r \in Text
  PROVE  /\ ((g \o o) \o r) \o <<>> \o <<>> = g \o (o \o r)
         /\ ((g \o o) \o <<>>) \o <<>> \o r = g \o (o \o r)
<1>1. (g \o o) \o r = g \o (o \o r) /\ g \o o \in Text /\ (g \o o) \o r \in Text
  BY TextAlgebra
<1> QED BY <1>1, TextAlgebra

\* What the invariant says of a stream that goes on.
LEMMA StreamingFacts ==
  ASSUME IInv, stage \in {"streaming", "draining"}
  PROVE  /\ TypeOK /\ StreamIInv /\ SpanIInv /\ CallIInv /\ provider \in Providers
         /\ fault = "none" /\ recorded = 0 /\ span \in Spans /\ span.status = "unset"
         /\ completed \in BOOLEAN
         /\ completed => provider = "converse" /\ span.ended
         /\ ~completed => ~span.ended
         /\ call.mode = "stream" /\ provider \notin {"embeddings", "langchain"}
<1>1. /\ TypeOK /\ StreamIInv /\ SpanIInv /\ CallIInv /\ StreamFits /\ call \in Modes
  BY DEF IInv, StreamIInv, SpanIInv, CallIInv
<1>2. provider \in Providers /\ span \in Spans /\ completed \in BOOLEAN
  BY <1>1 DEF TypeOK, Spans
<1>3. provider \notin {"embeddings", "langchain"}
  BY <1>1 DEF StreamFits, Modes
<1> QED BY <1>1, <1>2, <1>3 DEF StreamFits, Untouched

\* The provider's side of an item.
LEMMA SentTyped ==
  ASSUME TypeOK, NEW kind \in Kinds, NEW keys \in SUBSET Keys, NEW fresh \in SUBSET Keys,
         Sends(kind, keys, fresh), Sent(kind, keys, fresh)
  PROVE  /\ sent' \in [Keys -> Nat] /\ stopped' \subseteq Keys /\ block' \subseteq Keys
         /\ count' \in Nat /\ named' \subseteq Keys /\ named' = named \cup keys
         /\ \A k \in Keys : sent'[k] = IF k \in fresh THEN sent[k] + 1 ELSE sent[k]
BY DEF TypeOK, Sent

\* Pieces that come in are handed out, or held back.
LEMMA ScreenKeeps ==
  ASSUME StreamIInv, provider \in {"openai", "litellm", "completion", "responses"},
         fault = "none", stage = "streaming",
         NEW kind \in Kinds, NEW keys \in SUBSET Keys, NEW fresh \in SUBSET Keys,
         Sends(kind, keys, fresh), Sent(kind, keys, fresh), Screen(kind, keys, fresh),
         UNCHANGED <<provider, stage, pending, orphans, span, completed, recorded, fault>>,
         choices' \in 0..Choices, ChoicesFit',
         tools' \in [Keys -> Nat], called' \subseteq Keys \X (0..MaxTool)
  PROVE  StreamIInv'
<1>0. Protocol(kind, keys, fresh)
  BY SendFacts
<1>1. TypeOK /\ TextConserved /\ HeldFits /\ pending = <<>>
  BY DEF StreamIInv, PendingFits, Buffers
<1> DEFINE ending == Ending(kind, keys)
<1>2. PICK cut \in Cuts(fresh) :
        /\ got' = [k \in Keys |-> got[k] \o Out(cut)[k]
                                  \o IF k \in ending THEN Rest(cut)[Slot(k)] ELSE <<>>]
        /\ held' = Emptied(ending, Rest(cut))
  BY DEF Screen, HandOver, Ending
<1>3. /\ Out(cut) \in [Keys -> Text] /\ Rest(cut) \in [Keys -> Text] /\ <<>> \in Text
      /\ \A k \in Keys : Slot(k) \in Keys
      /\ \A s \in Keys : Rest(cut)[s] # held[s] => \E k \in fresh : Slot(k) = s
      /\ ending \subseteq Keys
  BY <1>1, CutTyped, TextAlgebra DEF Ending
<1>4. /\ got \in [Keys -> Text] /\ held \in [Keys -> Text] /\ sent \in [Keys -> Nat]
  BY <1>1 DEF TypeOK, Text
<1>5. /\ \A s \in Keys : held'[s] = IF \E k \in ending : Slot(k) = s THEN <<>>
                                    ELSE Rest(cut)[s]
      /\ held' \in [Keys -> Text]
  BY <1>2, <1>3 DEF Emptied
<1>6. \A k \in Keys :
        /\ got'[k] = (got[k] \o Out(cut)[k])
                     \o (IF k \in ending THEN Rest(cut)[Slot(k)] ELSE <<>>)
        /\ got'[k] \in Text
  <2> TAKE k \in Keys
  <2>1. got'[k] = (got[k] \o Out(cut)[k])
                  \o (IF k \in ending THEN Rest(cut)[Slot(k)] ELSE <<>>)
    BY <1>2
  <2>2. (IF k \in ending THEN Rest(cut)[Slot(k)] ELSE <<>>) \in Text
    BY <1>3
  <2>3. got[k] \o Out(cut)[k] \in Text
    BY <1>3, <1>4, TextAlgebra
  <2> QED BY <2>1, <2>2, <2>3, TextAlgebra
<1>7. got' \in [Keys -> Text]
  BY <1>2, <1>6
<1>8. /\ sent' \in [Keys -> Nat] /\ stopped' \subseteq Keys /\ block' \subseteq Keys
      /\ count' \in Nat /\ named' \subseteq Keys
      /\ \A k \in Keys : sent'[k] = IF k \in fresh THEN sent[k] + 1 ELSE sent[k]
  BY <1>1, SentTyped
<1>9. TypeOK'
  BY <1>1, <1>5, <1>7, <1>8 DEF TypeOK, Text
<1>10. TextConserved'
  <2> SUFFICES ASSUME provider = "litellm" => Choices = 1, NEW k \in Keys
               PROVE  got'[k] \o <<>> \o held'[k] = Pieces(k, sent'[k])
    BY <1>1 DEF TextConserved, PendingText, Pieces
  <2>1. got[k] \o held[k] = Pieces(k, sent[k])
    <3>1. got[k] \o <<>> \o held[k] = Pieces(k, sent[k])
      BY <1>1 DEF TextConserved, PendingText
    <3>2. got[k] \in Text
      BY <1>4
    <3> QED BY <3>1, <3>2, TextAlgebra
  <2>2. /\ k \in fresh =>
             Out(cut)[k] \o Rest(cut)[k] = Append(held[k], <<k, sent[k] + 1>>)
        /\ k \notin fresh => Out(cut)[k] \o Rest(cut)[k] = held[k]
    BY <1>1, CutSplits
  <2>3. got[k] \o (Out(cut)[k] \o Rest(cut)[k]) = Pieces(k, sent'[k])
    <3>1. Out(cut)[k] \o Rest(cut)[k] \in Text
      BY <1>3, TextAlgebra
    <3>2. /\ sent[k] \in Nat /\ sent'[k] \in Nat
          /\ got[k] \in Text /\ held[k] \in Text
      BY <1>4, <1>8
    <3>3. CASE k \in fresh
      <4>1. sent'[k] = sent[k] + 1
        BY <1>8, <3>3
      <4>2. Out(cut)[k] \o Rest(cut)[k] = Append(held[k], <<k, sent[k] + 1>>)
        BY <2>2, <3>3
      <4>3. got[k] \o Append(held[k], <<k, sent[k] + 1>>) = Pieces(k, sent[k] + 1)
        BY <2>1, <3>2, Conserves
      <4> QED BY <4>1, <4>2, <4>3
    <3>4. CASE k \notin fresh
      <4>1. sent'[k] = sent[k] /\ Out(cut)[k] \o Rest(cut)[k] = held[k]
        BY <1>8, <2>2, <3>4
      <4> QED BY <2>1, <4>1
    <3> QED BY <3>3, <3>4
  <2>4. \A j \in Keys : Slot(j) = j
    BY <1>1, CutSplits
  <2>5. got'[k] = (got[k] \o Out(cut)[k]) \o (IF k \in ending THEN Rest(cut)[k] ELSE <<>>)
    BY <1>6, <2>4
  <2>6. held'[k] = IF k \in ending THEN <<>> ELSE Rest(cut)[k]
    BY <1>3, <1>5, <2>4
  <2>7. got[k] \in Text /\ Out(cut)[k] \in Text /\ Rest(cut)[k] \in Text
    BY <1>3, <1>4
  <2>8. CASE k \in ending
    <3>1. got'[k] = (got[k] \o Out(cut)[k]) \o Rest(cut)[k] /\ held'[k] = <<>>
      BY <2>5, <2>6, <2>8
    <3>2. ((got[k] \o Out(cut)[k]) \o Rest(cut)[k]) \o <<>> \o <<>>
            = got[k] \o (Out(cut)[k] \o Rest(cut)[k])
      BY <2>7, Moves
    <3> QED BY <2>3, <3>1, <3>2
  <2>9. CASE k \notin ending
    <3>1. got'[k] = (got[k] \o Out(cut)[k]) \o <<>> /\ held'[k] = Rest(cut)[k]
      BY <2>5, <2>6, <2>9
    <3>2. ((got[k] \o Out(cut)[k]) \o <<>>) \o <<>> \o Rest(cut)[k]
            = got[k] \o (Out(cut)[k] \o Rest(cut)[k])
      BY <2>7, Moves
    <3> QED BY <2>3, <3>1, <3>2
  <2> QED BY <2>8, <2>9
<1>11. HeldFits'
  <2> SUFFICES ASSUME NEW s \in Keys, held'[s] # <<>>
               PROVE  LeftOver(s)'
    BY DEF HeldFits
  <2>1. held'[s] = Rest(cut)[s] /\ \A k \in ending : Slot(k) # s
    BY <1>5
  <2>2. (\E k \in fresh : Slot(k) = s) \/ held[s] # <<>>
    BY <1>3, <2>1
  <2>3. /\ fresh \subseteq keys /\ keys \cap stopped = {}
        /\ kind # "final" => stopped' = stopped \cup ending
        /\ kind = "final" => /\ fresh = {} /\ provider = "responses"
                             /\ \A k \in Keys : sent[k] > 0 => k \in stopped
        /\ kind \in {"text", "stop"} => \E k \in Keys : keys = {k}
        /\ kind = "other" => fresh = {}
    <3>1. /\ kind = "stop" => stopped' = stopped \cup keys /\ ending = keys
          /\ kind # "stop" => ending = {}
          /\ kind \notin {"stop", "final"} => stopped' = stopped
      BY DEF Sent, Ending
    <3>2. /\ kind \in {"text", "stop"} => \E k \in Keys : keys = {k}
          /\ kind = "final" => provider = "responses"
      <4>1. provider \notin OneBlock /\ provider # "google"
        BY DEF OneBlock
      <4>2. kind \in {"text", "stop"} /\ provider # "google" => \E k \in Keys : keys = {k}
        BY <1>0 DEF Protocol
      <4>3. kind = "final" => provider \in OneBlock \cup {"responses"}
        BY <1>0 DEF Protocol
      <4> QED BY <4>1, <4>2, <4>3
    <3>3. /\ fresh \subseteq keys /\ keys \cap stopped = {}
          /\ kind = "other" => fresh = {}
          /\ kind = "final" => fresh = {}
          /\ kind = "final" /\ provider = "responses"
               => \A k \in Keys : sent[k] > 0 => k \in stopped
      BY <1>0 DEF Protocol
    <3> QED BY <3>1, <3>2, <3>3
  <2>4. CASE \E k \in fresh : Slot(k) = s
    <3>1. PICK k \in fresh : Slot(k) = s
      BY <2>4
    <3>2. k \in Keys /\ k \notin stopped /\ k \notin ending /\ kind # "final"
      BY <2>1, <2>3, <3>1
    <3>3. k \notin stopped' /\ sent'[k] > 0
      BY <1>4, <1>8, <2>3, <3>2
    <3> QED BY <3>1, <3>2, <3>3 DEF LeftOver, Slot
  <2>5. CASE held[s] # <<>>
    <3>1. LeftOver(s)
      BY <2>5 DEF HeldFits, StreamIInv
    <3>2. \A k \in Keys : sent[k] > 0 => sent'[k] > 0
      BY <1>4, <1>8
    <3>3. CASE provider # "litellm"
      <4>1. s \notin stopped /\ sent[s] > 0 /\ s \notin ending
        BY <2>1, <3>1, <3>3 DEF LeftOver, Slot
      <4> QED BY <2>3, <3>2, <3>3, <4>1 DEF LeftOver
    <3>4. CASE provider = "litellm"
      <4>1. s = 1 /\ ending = {} /\ kind # "final"
        BY <2>1, <2>3, <3>1, <3>4 DEF LeftOver, Slot
      <4> QED BY <2>3, <3>1, <3>2, <3>4, <4>1 DEF LeftOver
    <3> QED BY <3>3, <3>4
  <2> QED BY <2>2, <2>4, <2>5
<1>12. TailsDelivered' /\ PendingFits' /\ OnlyProviderFails'
  BY <1>1 DEF TailsDelivered, PendingFits, OnlyProviderFails
<1> QED BY <1>9, <1>10, <1>11, <1>12 DEF StreamIInv

\* A stream that goes on, and whose span is left alone.
LEMMA GoesOn ==
  ASSUME IInv, stage \in {"streaming", "draining"}, stage' \in {"streaming", "draining"},
         UNCHANGED <<provider, recorded, fault, callVars>>,
         \/ UNCHANGED <<span, completed>>
         \/ /\ provider = "converse" /\ completed' = TRUE
            /\ span' = [ended |-> TRUE, status |-> "unset"]
  PROVE  SpanIInv' /\ CallIInv'
<1>1. CallIInv'
  BY CallOver DEF IInv
<1>2. SpanFits' /\ EndFits' /\ SpansLeftOpen' /\ RecordedOnce' /\ FailureNotOk'
  BY StreamingFacts DEF SpanFits, EndFits, SpansLeftOpen, RecordedOnce, FailureNotOk
<1>3. StreamFits'
  BY StreamingFacts DEF IInv, SpanIInv, StreamFits, Untouched, callVars
<1> QED BY <1>1, <1>2, <1>3 DEF SpanIInv

\* Those that hand an item on at once, but for ChatStream.
LEMMA PassedOn ==
  ASSUME IInv, provider \in {"litellm", "completion", "responses"}, stage = "streaming",
         NEW kind \in Kinds, NEW keys \in SUBSET Keys, NEW fresh \in SUBSET Keys,
         Sends(kind, keys, fresh), Sent(kind, keys, fresh), Screen(kind, keys, fresh),
         UNCHANGED <<provider, stage, pending, orphans, choices, toolCalls, span, completed,
                     recorded, fault, callVars>>
  PROVE  IInv'
<1>1. SpanIInv' /\ CallIInv'
  BY GoesOn
<1>2. /\ choices' \in 0..Choices /\ ChoicesFit'
      /\ tools' \in [Keys -> Nat] /\ called' \subseteq Keys \X (0..MaxTool)
  BY StreamingFacts DEF TypeOK, ChoicesFit, toolCalls
<1>3. StreamIInv'
  BY <1>2, StreamingFacts, ScreenKeeps
<1> QED BY <1>1, <1>3 DEF IInv

\* A choice is appended if the list is too short, and one at most.
LEMMA Appended ==
  ASSUME choices \in 0..Choices, NEW keys \in SUBSET Keys
  PROVE  /\ Accumulated(keys) \in 0..Choices
         /\ choices <= Accumulated(keys)
         /\ (\E k \in keys : k > Accumulated(keys)) => Accumulated(keys) = choices + 1
BY ChoicesAssumption DEF Accumulated, Keys

LEMMA OpenAIChunkKeeps ==
  ASSUME IInv, UNCHANGED callVars,
         NEW kind \in Kinds, NEW keys \in SUBSET Keys, NEW fresh \in SUBSET Keys,
         OpenAIChunk(kind, keys, fresh)
  PROVE  IInv'
<1>1. /\ provider = "openai" /\ stage = "streaming"
      /\ Sends(kind, keys, fresh) /\ Sent(kind, keys, fresh) /\ Screen(kind, keys, fresh)
      /\ choices' = Accumulated(keys) /\ \A k \in keys : k <= choices'
      /\ UNCHANGED <<provider, stage, pending, orphans, tools, called, span, completed,
                     recorded, fault>>
  BY DEF OpenAIChunk, toolCalls
<1>2. SpanIInv' /\ CallIInv'
  BY <1>1, GoesOn
<1>3. /\ TypeOK /\ fault = "none" /\ choices \in 0..Choices /\ sent \in [Keys -> Nat]
      /\ tools \in [Keys -> Nat] /\ called \subseteq Keys \X (0..MaxTool)
      /\ ChoicesFit /\ StreamIInv
  BY <1>1, StreamingFacts DEF TypeOK, StreamIInv
<1>4. choices' \in 0..Choices /\ choices <= choices'
  BY <1>1, <1>3, Appended
<1>5. ChoicesFit'
  <2>1. ASSUME NEW j \in named' PROVE j <= choices'
    <3>0. named' \subseteq Keys /\ named' = named \cup keys
      BY <1>1, <1>3, SentTyped
    <3>1. j \in Keys /\ (j \in keys \/ j \in named)
      BY <2>1, <3>0
    <3>2. CASE j \in keys
      BY <1>1, <3>2
    <3>3. CASE j \in named
      BY <1>1, <1>3, <1>4, <3>1, <3>3 DEF ChoicesFit, Keys
    <3> QED BY <3>1, <3>2, <3>3
  <2> QED BY <1>1, <1>3, <2>1 DEF ChoicesFit
<1>6. StreamIInv'
  BY <1>1, <1>3, <1>4, <1>5, ScreenKeeps
<1> QED BY <1>2, <1>6 DEF IInv

LEMMA OpenAIChunkRaisesKeeps ==
  ASSUME IInv, UNCHANGED callVars,
         NEW kind \in Kinds, NEW keys \in SUBSET Keys, NEW fresh \in SUBSET Keys,
         OpenAIChunkRaises(kind, keys, fresh)
  PROVE  IInv'
<1>1. /\ provider = "openai" /\ stage = "streaming"
      /\ Sends(kind, keys, fresh) /\ Sent(kind, keys, fresh)
      /\ choices' = Accumulated(keys) /\ \E k \in keys : k > choices'
      /\ stage' = "failed" /\ fault' = "wrapper"
      /\ UNCHANGED <<provider, pending, got, orphans, tools, called, span, completed,
                     recorded>>
  BY DEF OpenAIChunkRaises, toolCalls
<1>0. Protocol(kind, keys, fresh)
  BY <1>1, SendFacts
<1>2. PICK cut \in Cuts(fresh) : held' = Rest(cut)
  BY DEF OpenAIChunkRaises
<1>3. /\ TypeOK /\ fault = "none" /\ choices \in 0..Choices /\ sent \in [Keys -> Nat]
      /\ ChoicesFit /\ PendingFits /\ recorded = 0 /\ completed = FALSE
  BY <1>1, StreamingFacts DEF TypeOK, StreamIInv
<1>4. choices' \in 0..Choices /\ choices' = choices + 1
  BY <1>1, <1>3, Appended
<1>5. TypeOK'
  <2>1. held' \in [Keys -> Text]
    BY <1>2, <1>3, CutTyped
  <2>2. /\ sent' \in [Keys -> Nat] /\ stopped' \subseteq Keys /\ block' \subseteq Keys
        /\ count' \in Nat /\ named' \subseteq Keys
    BY <1>1, <1>3, SentTyped
  <2> QED BY <1>1, <1>3, <1>4, <2>1, <2>2 DEF TypeOK, Text
<1>6. OnlyProviderFails'
  <2>1. PICK k \in keys : k > choices'
    BY <1>1
  <2>2. kind \in {"text", "stop", "other"} /\ fresh \subseteq keys /\ keys = {k}
    <3>1. /\ kind = "final" => provider \in OneBlock \cup {"responses"}
          /\ kind \in {"text", "stop"} /\ provider # "google" => \E j \in Keys : keys = {j}
          /\ kind = "other" => keys = {} \/ \E j \in Keys : keys = {j}
          /\ fresh \subseteq keys
      BY <1>0 DEF Protocol
    <3> QED BY <1>1, <2>1, <3>1 DEF OneBlock, Kinds
  <2>3. /\ choices + 1 \in Keys /\ choices + 1 < Choices /\ choices + 1 # k
    <3>1. k \in 1..Choices /\ choices \in Nat /\ Choices \in Nat /\ choices + 1 < k
      BY <1>3, <1>4, <2>1, ChoicesAssumption DEF Keys
    <3> QED BY <3>1 DEF Keys
  <2>4. named' = named \cup keys
    BY <1>1, <1>3, SentTyped
  <2>5. choices + 1 \notin named
    BY <1>1, <1>3 DEF ChoicesFit
  <2>6. k \in named' /\ choices + 1 \notin named' /\ choices + 1 < k
    BY <1>3, <1>4, <2>1, <2>2, <2>3, <2>4, <2>5 DEF Keys
  <2> QED BY <2>3, <2>6 DEF OnlyProviderFails
<1>7. StreamIInv'
  <2>1. TextConserved' /\ ChoicesFit'
    BY <1>1 DEF TextConserved, ChoicesFit
  <2>2. TailsDelivered' /\ HeldFits'
    BY <1>1 DEF TailsDelivered, HeldFits
  <2>3. PendingFits'
    BY <1>1, <1>3 DEF PendingFits, Buffers
  <2> QED BY <1>5, <1>6, <2>1, <2>2, <2>3 DEF StreamIInv
<1>8. SpanIInv'
  BY <1>1, <1>3 DEF SpanIInv, SpanFits, StreamFits, EndFits, SpansLeftOpen, RecordedOnce,
     FailureNotOk, SelfCleaning
<1>9. CallIInv'
  BY <1>1, CallOver DEF IInv
<1> QED BY <1>7, <1>8, <1>9 DEF IInv

\* The provider's and the wrapper's side of a part of a tool call.
LEMMA ToolFacts ==
  ASSUME IInv, NEW k \in Keys, NEW n \in 0..MaxTool, ToolDelta(k, n)
  PROVE  /\ provider = "openai" /\ stage = "streaming" /\ fault = "none"
         /\ TypeOK /\ StreamIInv /\ recorded = 0 /\ completed = FALSE
         /\ Sends("other", {k}, {}) /\ Sent("other", {k}, {})
         /\ choices' \in 0..Choices
         /\ tools' \in [Keys -> Nat] /\ called' \subseteq Keys \X (0..MaxTool)
         /\ called' = called \cup {<<k, n>>} /\ named' \subseteq Keys
         /\ \A j \in named' : j <= choices'
         /\ \A c \in called : c[2] < tools[c[1]]
         /\ tools' = WithTool(k, n)
<1>1. /\ provider = "openai" /\ stage = "streaming"
      /\ Sends("other", {k}, {}) /\ Sent("other", {k}, {})
      /\ choices' = Accumulated({k}) /\ k <= choices'
      /\ tools' = WithTool(k, n) /\ called' = called \cup {<<k, n>>}
  BY DEF ToolDelta
<1>2. /\ TypeOK /\ StreamIInv /\ ChoicesFit /\ fault = "none" /\ recorded = 0
      /\ completed = FALSE /\ choices \in 0..Choices /\ tools \in [Keys -> Nat]
      /\ named \subseteq Keys /\ called \subseteq Keys \X (0..MaxTool)
  BY <1>1, StreamingFacts DEF TypeOK, StreamIInv
<1>3. choices' \in 0..Choices /\ choices <= choices'
  BY <1>1, <1>2, Appended
<1>4. named' = named \cup {k}
  BY <1>1 DEF Sent
<1>5. tools' \in [Keys -> Nat]
  BY <1>1, <1>2 DEF WithTool
<1>6. \A j \in named' : j <= choices'
  BY <1>1, <1>2, <1>3, <1>4 DEF ChoicesFit, Keys
<1> QED BY <1>1, <1>2, <1>3, <1>4, <1>5, <1>6 DEF ChoicesFit

LEMMA OpenAIToolKeeps ==
  ASSUME IInv, UNCHANGED callVars, NEW k \in Keys, NEW n \in 0..MaxTool, OpenAITool(k, n)
  PROVE  IInv'
<1>1. /\ ToolDelta(k, n) /\ n < tools'[k] /\ Screen("other", {k}, {})
      /\ UNCHANGED <<provider, stage, pending, orphans, span, completed, recorded, fault>>
  BY DEF OpenAITool
<1>2. SpanIInv' /\ CallIInv'
  BY <1>1, ToolFacts, GoesOn
<1>3. ChoicesFit'
  <2>1. \A c \in called' : c[2] < tools'[c[1]]
    <3> TAKE c \in called'
    <3>1. c = <<k, n>> \/ c \in called
      BY <1>1, ToolFacts
    <3>2. tools \in [Keys -> Nat] /\ called \subseteq Keys \X (0..MaxTool)
      BY <1>1, ToolFacts DEF TypeOK
    <3>3. CASE c \in called
      <4>1. PICK a \in Keys, b \in 0..MaxTool : c = <<a, b>>
        BY <3>2, <3>3
      <4>2. b < tools[a]
        BY <1>1, <3>3, <4>1, ToolFacts
      <4>3. tools' = WithTool(k, n)
        BY <1>1, ToolFacts
      <4>4. tools'[a] \in Nat /\ tools[a] <= tools'[a]
        BY <3>2, <4>1, <4>3 DEF WithTool
      <4> QED BY <3>2, <4>1, <4>2, <4>4, ToolAssumption
    <3> QED BY <1>1, <3>1, <3>3
  <2> QED BY <1>1, <2>1, ToolFacts DEF ChoicesFit
<1>4. StreamIInv'
  <2>1. "other" \in Kinds /\ {k} \in SUBSET Keys /\ {} \in SUBSET Keys
    BY DEF Kinds
  <2> QED BY <1>1, <1>3, <2>1, ToolFacts, ScreenKeeps
<1> QED BY <1>2, <1>4 DEF IInv

LEMMA OpenAIToolRaisesKeeps ==
  ASSUME IInv, UNCHANGED callVars, NEW k \in Keys, NEW n \in 0..MaxTool,
         OpenAIToolRaises(k, n)
  PROVE  IInv'
<1>1. /\ ToolDelta(k, n) /\ n >= tools'[k] /\ stage' = "failed" /\ fault' = "wrapper"
      /\ UNCHANGED <<provider, held, pending, got, orphans, span, completed, recorded>>
  BY DEF OpenAIToolRaises
<1>2. /\ TypeOK /\ StreamIInv /\ PendingFits /\ provider = "openai"
      /\ recorded = 0 /\ completed = FALSE /\ tools \in [Keys -> Nat]
      /\ called \subseteq Keys \X (0..MaxTool)
  BY <1>1, ToolFacts DEF StreamIInv, TypeOK
<1>3. TypeOK'
  <2>1. /\ sent' \in [Keys -> Nat] /\ stopped' \subseteq Keys /\ block' \subseteq Keys
        /\ count' \in Nat
    <3>1. "other" \in Kinds /\ {k} \in SUBSET Keys /\ {} \in SUBSET Keys
      BY DEF Kinds
    <3>2. Sends("other", {k}, {}) /\ Sent("other", {k}, {})
      BY <1>1, ToolFacts
    <3> QED BY <1>2, <3>1, <3>2, SentTyped
  <2> QED BY <1>1, <1>2, <2>1, ToolFacts DEF TypeOK
<1>4. OnlyProviderFails'
  <2>1. tools[k] <= n /\ tools'[k] = tools[k] + 1
    BY <1>1, <1>2, ToolAssumption, ToolFacts DEF WithTool
  <2>2. tools[k] \in 0..MaxTool /\ tools[k] < n
    BY <1>1, <1>2, <2>1, ToolAssumption
  <2>3. <<k, tools[k]>> \notin called'
    <3>1. <<k, tools[k]>> \notin called
      <4>1. ASSUME <<k, tools[k]>> \in called PROVE FALSE
        <5>1. \A c \in called : c[2] < tools[c[1]]
          BY <1>1, ToolFacts
        <5>2. tools[k] < tools[k]
          BY <4>1, <5>1
        <5> QED BY <1>2, <5>2
      <4> QED BY <4>1
    <3>2. called' = called \cup {<<k, n>>}
      BY <1>1, ToolFacts
    <3> QED BY <1>2, <2>2, <3>1, <3>2, ToolAssumption
  <2>4. <<k, n>> \in called'
    BY <1>1, ToolFacts
  <2> QED BY <2>2, <2>3, <2>4 DEF OnlyProviderFails
<1>5. StreamIInv'
  <2>1. TextConserved' /\ ChoicesFit'
    BY <1>1 DEF TextConserved, ChoicesFit
  <2>2. TailsDelivered' /\ HeldFits'
    BY <1>1 DEF TailsDelivered, HeldFits
  <2>3. PendingFits'
    BY <1>1, <1>2 DEF PendingFits, Buffers
  <2> QED BY <1>3, <1>4, <2>1, <2>2, <2>3 DEF StreamIInv
<1>6. SpanIInv'
  BY <1>1, <1>2, StreamingFacts, ToolFacts DEF SpanIInv, SpanFits, StreamFits, EndFits,
     SpansLeftOpen, RecordedOnce, FailureNotOk, SelfCleaning
<1>7. CallIInv'
  BY <1>1, ToolFacts, CallOver DEF IInv
<1> QED BY <1>5, <1>6, <1>7 DEF IInv

\* Nothing that comes in belongs to the text that a flush takes out.
LEMMA FlushFacts ==
  ASSUME PendingFits, pending # <<>>, provider \in Buffers,
         NEW kind \in Kinds, NEW keys \in SUBSET Keys, NEW fresh \in SUBSET Keys,
         Sends(kind, keys, fresh), NEW out, NEW item,
         item = [kind |-> kind, keys |-> keys, text |-> out]
  PROVE  /\ Flushes(pending[1], item) \subseteq pending[1].keys
         /\ Flushes(pending[1], item) \cap fresh = {}
         /\ provider \in {"invoke", "converse"} /\ pending[1].kind = "text" =>
              \/ pending[1].keys = Flushes(pending[1], item)
              \/ kind = "text" /\ keys = pending[1].keys
<1>0. Protocol(kind, keys, fresh)
  BY SendFacts
<1>1. /\ fresh \subseteq keys
      /\ provider \in OneBlock /\ kind \in {"stop", "other", "final"} => fresh = {}
      /\ provider \in OneBlock /\ kind = "text" => \E k \in Keys : keys = {k}
  <2>1. provider \in OneBlock => provider # "google" /\ provider \in OneBlock \cup {"responses"}
    BY DEF OneBlock
  <2>2. fresh \subseteq keys
    BY <1>0 DEF Protocol
  <2>3. kind = "stop" /\ provider \in OneBlock \cup {"responses"} => fresh = {}
    BY <1>0 DEF Protocol
  <2>4. kind \in {"other", "final"} => fresh = {}
    BY <1>0 DEF Protocol
  <2>5. kind \in {"text", "stop"} /\ provider # "google" => \E k \in Keys : keys = {k}
    BY <1>0 DEF Protocol
  <2> QED BY <2>1, <2>2, <2>3, <2>4, <2>5
<1>2. provider \in OneBlock /\ pending[1].kind = "text" => \E k \in Keys : pending[1].keys = {k}
  BY DEF PendingFits
<1>3. CASE provider = "anthropic"
  <2>1. Flushes(pending[1], item) = AnthropicFlushes(pending[1], item)
    BY <1>3 DEF Flushes
  <2> QED BY <1>1, <1>3, <2>1 DEF AnthropicFlushes, OneBlock
<1>4. CASE provider \in {"invoke", "converse"}
  <2>1. Flushes(pending[1], item) = BedrockFlushes(pending[1], item)
    BY <1>4 DEF Flushes
  <2>2. kind \in {"text", "stop", "other", "final"} /\ provider \in OneBlock
    BY <1>4 DEF Kinds, OneBlock
  <2> QED BY <1>1, <1>2, <1>4, <2>1, <2>2 DEF BedrockFlushes
<1>5. CASE provider \in {"google", "llamaindex"}
  <2>1. Flushes(pending[1], item) = {}
    BY <1>5 DEF Flushes
  <2> QED BY <1>5, <2>1
<1> QED BY <1>3, <1>4, <1>5 DEF Buffers

\* What Anthropic and Google leave behind, the provider interrupted.
LEMMA InterruptedFacts ==
  ASSUME NEW kind \in Kinds, NEW keys \in SUBSET Keys, NEW fresh \in SUBSET Keys,
         Sends(kind, keys, fresh), NEW item, item.kind = kind
  PROVE  /\ Interrupted(pending[1], item) \subseteq pending[1].keys
         /\ provider \in {"anthropic", "google"} /\ pending[1].kind = "text" =>
              pending[1].keys \subseteq Flushes(pending[1], item)
                                       \cup Interrupted(pending[1], item)
<1>1. Interrupted(pending[1], item) \subseteq pending[1].keys
  BY DEF Interrupted
<1>2. CASE provider = "anthropic"
  <2>1. Flushes(pending[1], item) = AnthropicFlushes(pending[1], item)
    BY <1>2 DEF Flushes
  <2> QED BY <1>1, <1>2, <2>1 DEF AnthropicFlushes, Interrupted
<1>3. CASE provider = "google"
  <2>1. kind \notin {"stop", "final"}
    BY <1>3, SendFacts DEF Protocol, OneBlock
  <2> QED BY <1>1, <1>3, <2>1 DEF Interrupted
<1> QED BY <1>1, <1>2, <1>3

\* What the end of Converse's metadata does to the span.
LEMMA ObservedFacts ==
  ASSUME IInv, stage \in {"streaming", "draining"}, NEW item, Observed(item)
  PROVE  /\ \/ UNCHANGED <<span, completed>>
            \/ /\ provider = "converse" /\ completed' = TRUE
               /\ span' = [ended |-> TRUE, status |-> "unset"]
         /\ span' \in Spans /\ completed' \in BOOLEAN
<1>1. span \in Spans /\ span.status = "unset" /\ completed \in BOOLEAN
  BY StreamingFacts
<1>2. CASE provider = "converse" /\ item.kind = "final"
  <2>1. span' = Ended("unset") /\ completed' = TRUE
    BY <1>2 DEF Observed
  <2>2. Ended("unset") \in Spans /\ Ended("unset").ended
        /\ Ended("unset").status = Marked("unset").status
        /\ Marked("unset") = IF span.ended \/ span.status = "ok" THEN span
                             ELSE [ended |-> FALSE, status |-> "unset"]
    BY <1>1, SpanTyped
  <2>3. Ended("unset").status = "unset"
    BY <1>1, <2>2
  <2>4. \A s \in Spans : s = [ended |-> s.ended, status |-> s.status]
    BY DEF Spans
  <2> QED BY <1>2, <2>1, <2>2, <2>3, <2>4 DEF Spans
<1>3. CASE ~(provider = "converse" /\ item.kind = "final")
  BY <1>1, <1>3 DEF Observed
<1> QED BY <1>2, <1>3

\* What a session hands out and what it keeps follow the text so far.
LEMMA SplitKeeps ==
  ASSUME TypeOK, provider # "litellm",
         NEW fresh \in SUBSET Keys, NEW cut \in Cuts(fresh), NEW k \in Keys,
         NEW g \in Text, g \o held[k] = Pieces(k, sent[k])
  PROVE  /\ k \in fresh =>
              g \o (Out(cut)[k] \o Rest(cut)[k]) = Pieces(k, sent[k] + 1)
         /\ k \notin fresh =>
              g \o (Out(cut)[k] \o Rest(cut)[k]) = Pieces(k, sent[k])
<1>1. held[k] \in Text /\ sent[k] \in Nat
  BY DEF TypeOK, Text
<1>2. CASE k \in fresh
  <2>1. Out(cut)[k] \o Rest(cut)[k] = Append(held[k], <<k, sent[k] + 1>>)
    BY <1>2, CutSplits
  <2>2. g \o Append(held[k], <<k, sent[k] + 1>>) = Pieces(k, sent[k] + 1)
    BY <1>1, Conserves
  <2> QED BY <1>2, <2>1, <2>2
<1>3. CASE k \notin fresh
  BY <1>3, CutSplits
<1> QED BY <1>2, <1>3

\* What is held back of a new piece is a text of the item at hand.
LEMMA NewsFits ==
  ASSUME provider \in Buffers, NEW kind \in Kinds, NEW keys, NEW fresh,
         Protocol(kind, keys, fresh), fresh # {}
  PROVE  /\ kind = "text" /\ fresh \subseteq keys
         /\ provider = "llamaindex" => fresh \subseteq {1}
<1>1. kind \notin {"other", "final"}
  BY DEF Protocol
<1>2. kind # "stop"
  BY DEF Protocol, Buffers, OneBlock
<1> QED BY <1>1, <1>2 DEF Protocol, Kinds

\* A stream that goes on keeps the type of what no item touches.
LEMMA StaysTyped ==
  ASSUME TypeOK, UNCHANGED <<provider, stage, choices, tools, called, recorded, fault>>,
         sent' \in [Keys -> Nat], stopped' \subseteq Keys, block' \subseteq Keys,
         count' \in Nat, named' \subseteq Keys, orphans' \subseteq Keys,
         held' \in [Keys -> Text], got' \in [Keys -> Text], Len(pending') = 1,
         pending' \in Seq([kind : Kinds, keys : SUBSET Keys,
                           text : [Keys -> Seq(Keys \X Nat)]]),
         span' \in Spans, completed' \in BOOLEAN
  PROVE  TypeOK'
BY DEF TypeOK, Text, Spans

\* The first item of a wrapper that is one item behind.
LEMMA FirstItemKeeps ==
  ASSUME IInv, provider \in Buffers, stage = "streaming", pending = <<>>,
         NEW kind \in Kinds, NEW keys \in SUBSET Keys, NEW fresh \in SUBSET Keys,
         Sends(kind, keys, fresh), Sent(kind, keys, fresh), NEW cut \in Cuts(fresh),
         pending' = <<[kind |-> kind, keys |-> keys, text |-> Out(cut)]>>,
         held' = Rest(cut),
         UNCHANGED <<got, orphans, span, completed, provider, stage, choices, tools, called,
                     recorded, fault>>
  PROVE  StreamIInv'
<1>0. Protocol(kind, keys, fresh)
  BY SendFacts
<1>1. /\ TypeOK /\ TextConserved /\ HeldFits /\ fault = "none"
      /\ got \in [Keys -> Text] /\ held \in [Keys -> Text] /\ sent \in [Keys -> Nat]
  BY StreamingFacts DEF StreamIInv, TypeOK, Text
<1>2. /\ Out(cut) \in [Keys -> Text] /\ Rest(cut) \in [Keys -> Text]
      /\ \A s \in Keys : Rest(cut)[s] # held[s] => \E k \in fresh : Slot(k) = s
  BY <1>1, CutTyped
<1>3. /\ sent' \in [Keys -> Nat] /\ stopped' \subseteq Keys /\ block' \subseteq Keys
      /\ count' \in Nat /\ named' \subseteq Keys
      /\ \A k \in Keys : sent'[k] = IF k \in fresh THEN sent[k] + 1 ELSE sent[k]
  BY <1>1, SentTyped
<1>4. /\ Len(pending') = 1 /\ pending' # <<>>
      /\ pending'[1] = [kind |-> kind, keys |-> keys, text |-> Out(cut)]
      /\ pending' \in Seq([kind : Kinds, keys : SUBSET Keys,
                           text : [Keys -> Seq(Keys \X Nat)]])
  BY <1>2 DEF Text
<1>5. TypeOK'
  <2>1. orphans' \subseteq Keys /\ span' \in Spans /\ completed' \in BOOLEAN
    BY <1>1 DEF TypeOK, Spans
  <2> QED BY <1>1, <1>2, <1>3, <1>4, <2>1, StaysTyped
<1>6. TextConserved'
  <2> SUFFICES ASSUME NEW k \in Keys
               PROVE  got'[k] \o Out(cut)[k] \o held'[k] = Pieces(k, sent'[k])
    BY <1>4 DEF TextConserved, PendingText, Pieces
  <2>1. /\ got[k] \in Text /\ held[k] \in Text /\ sent[k] \in Nat
        /\ Out(cut)[k] \in Text /\ Rest(cut)[k] \in Text
    BY <1>1, <1>2
  <2>2. got[k] \o held[k] = Pieces(k, sent[k])
    <3>1. got[k] \o <<>> \o held[k] = Pieces(k, sent[k])
      BY <1>1 DEF TextConserved, PendingText, Buffers
    <3> QED BY <2>1, <3>1, TextAlgebra
  <2>3. got[k] \o (Out(cut)[k] \o Rest(cut)[k]) = Pieces(k, sent'[k])
    <3>1. provider # "litellm" /\ sent'[k] = IF k \in fresh THEN sent[k] + 1 ELSE sent[k]
      BY <1>3 DEF Buffers
    <3>2. /\ k \in fresh =>
               got[k] \o (Out(cut)[k] \o Rest(cut)[k]) = Pieces(k, sent[k] + 1)
          /\ k \notin fresh =>
               got[k] \o (Out(cut)[k] \o Rest(cut)[k]) = Pieces(k, sent[k])
      BY <1>1, <2>1, <2>2, <3>1, SplitKeeps
    <3> QED BY <3>1, <3>2
  <2> QED BY <2>1, <2>3, TextAlgebra
<1>7. HeldFits'
  <2> SUFFICES ASSUME NEW s \in Keys, held'[s] # <<>>
               PROVE  LeftOver(s)'
    BY DEF HeldFits
  <2>1. (\E k \in fresh : Slot(k) = s) \/ held[s] # <<>>
    BY <1>2
  <2>2. s \in fresh \/ held[s] # <<>>
    BY <2>1 DEF Slot, Buffers
  <2>3. CASE s \in fresh
    <3>1. /\ kind = "text" /\ s \in keys
          /\ provider = "llamaindex" => s = 1
      BY <1>0, <2>3, NewsFits
    <3> QED BY <1>4, <3>1 DEF LeftOver, OfLast, Buffers
  <2>4. CASE held[s] # <<>>
    BY <1>1, <1>4, <2>4 DEF HeldFits, LeftOver, OfLast, Buffers
  <2> QED BY <2>2, <2>3, <2>4
<1>8. PendingFits'
  <2>1. kind = "text" /\ provider \in OneBlock => \E k \in Keys : keys = {k}
    <3>1. kind \in {"text", "stop"} /\ provider # "google" => \E k \in Keys : keys = {k}
      BY <1>0 DEF Protocol
    <3> QED BY <3>1 DEF OneBlock
  <2> QED BY <1>4, <2>1 DEF PendingFits
<1>9. TailsDelivered' /\ OnlyProviderFails' /\ ChoicesFit'
  BY <1>1 DEF TailsDelivered, OnlyProviderFails, ChoicesFit, Buffers
<1> QED BY <1>5, <1>6, <1>7, <1>8, <1>9 DEF StreamIInv

\* The item that is kept.
LEMMA LastFacts ==
  ASSUME TypeOK, pending # <<>>
  PROVE  /\ got \in [Keys -> Text] /\ held \in [Keys -> Text] /\ sent \in [Keys -> Nat]
         /\ orphans \subseteq Keys
         /\ pending[1].keys \subseteq Keys /\ pending[1].text \in [Keys -> Text]
<1> DEFINE Items == [kind : Kinds, keys : SUBSET Keys, text : [Keys -> Text]]
<1>1. pending[1] \in Items
  <2>1. pending \in Seq(Items)
    BY DEF TypeOK, Text
  <2> HIDE DEF Items
  <2>2. Len(pending) \in Nat \ {0}
    BY <2>1, EmptySeq
  <2>3. 1 \in 1..Len(pending)
    BY <2>2
  <2> QED BY <2>1, <2>3, ElementOfSeq
<1>2. /\ got \in [Keys -> Text] /\ held \in [Keys -> Text] /\ sent \in [Keys -> Nat]
      /\ orphans \subseteq Keys
  BY DEF TypeOK, Text
<1> QED BY <1>1, <1>2

\* An item takes over from the one before it.
LEMMA NextItemKeeps ==
  ASSUME IInv, provider \in Buffers, stage = "streaming", pending # <<>>,
         NEW kind \in Kinds, NEW keys \in SUBSET Keys, NEW fresh \in SUBSET Keys,
         Sends(kind, keys, fresh), Sent(kind, keys, fresh), NEW cut \in Cuts(fresh),
         NEW flushed, flushed \subseteq pending[1].keys, flushed \cap fresh = {},
         provider \in {"invoke", "converse"} /\ pending[1].kind = "text" =>
              \/ pending[1].keys = flushed
              \/ kind = "text" /\ keys = pending[1].keys,
         pending' = <<[kind |-> kind, keys |-> keys, text |-> Out(cut)]>>,
         held' = Emptied(flushed, Rest(cut)),
         HandOver(pending[1], flushed, Rest(cut)),
         NEW interrupted, interrupted \subseteq pending[1].keys,
         provider \in {"anthropic", "google"} /\ pending[1].kind = "text" =>
              pending[1].keys \subseteq flushed \cup interrupted,
         orphans' = (orphans \cup interrupted) \ fresh,
         span' \in Spans, completed' \in BOOLEAN,
         UNCHANGED <<provider, stage, choices, tools, called, recorded, fault>>
  PROVE  StreamIInv'
<1>0. Protocol(kind, keys, fresh)
  BY SendFacts
<1> DEFINE last == pending[1]
<1>1. /\ TypeOK /\ TextConserved /\ HeldFits /\ fault = "none" /\ recorded = 0
      /\ got \in [Keys -> Text] /\ held \in [Keys -> Text] /\ sent \in [Keys -> Nat]
      /\ last.keys \subseteq Keys /\ last.text \in [Keys -> Text] /\ orphans \subseteq Keys
  <2>1. TypeOK /\ TextConserved /\ HeldFits /\ fault = "none" /\ recorded = 0
    BY StreamingFacts DEF StreamIInv
  <2> QED BY <2>1, LastFacts
<1>2. /\ Out(cut) \in [Keys -> Text] /\ Rest(cut) \in [Keys -> Text]
      /\ \A k \in Keys : k \notin fresh => Out(cut)[k] = <<>>
      /\ \A s \in Keys : Rest(cut)[s] # held[s] => \E k \in fresh : Slot(k) = s
  BY <1>1, CutTyped
<1>3. /\ sent' \in [Keys -> Nat] /\ stopped' \subseteq Keys /\ block' \subseteq Keys
      /\ count' \in Nat /\ named' \subseteq Keys
      /\ \A k \in Keys : sent'[k] = IF k \in fresh THEN sent[k] + 1 ELSE sent[k]
  BY <1>1, SentTyped
<1>4. /\ Len(pending') = 1 /\ pending' # <<>>
      /\ pending'[1] = [kind |-> kind, keys |-> keys, text |-> Out(cut)]
      /\ pending' \in Seq([kind : Kinds, keys : SUBSET Keys,
                           text : [Keys -> Seq(Keys \X Nat)]])
  BY <1>2 DEF Text
<1>5. \A k \in Keys : Slot(k) = k
  BY DEF Slot, Buffers
<1>6. /\ held' \in [Keys -> Text]
      /\ \A s \in Keys : held'[s] = IF s \in flushed THEN <<>> ELSE Rest(cut)[s]
  BY <1>1, <1>2, <1>5, TextAlgebra DEF Emptied
<1>7. \A k \in Keys :
        /\ got'[k] = (got[k] \o last.text[k])
                     \o (IF k \in flushed THEN Rest(cut)[k] ELSE <<>>)
        /\ got'[k] \in Text
  <2> TAKE k \in Keys
  <2>1. got'[k] = (got[k] \o last.text[k])
                  \o (IF k \in flushed THEN Rest(cut)[k] ELSE <<>>)
    BY <1>5 DEF HandOver
  <2>2. /\ (IF k \in flushed THEN Rest(cut)[k] ELSE <<>>) \in Text
        /\ got[k] \o last.text[k] \in Text
    BY <1>1, <1>2, TextAlgebra
  <2> QED BY <2>1, <2>2, TextAlgebra
<1>8. got' \in [Keys -> Text]
  <2>1. got' = [k \in Keys |-> got'[k]]
    BY DEF HandOver
  <2> QED BY <1>7, <2>1
<1>9. TypeOK'
  <2>1. orphans' \subseteq Keys
    BY <1>1
  <2> QED BY <1>1, <1>3, <1>4, <1>6, <1>8, <2>1, StaysTyped
<1>10. TextConserved'
  <2> SUFFICES ASSUME NEW k \in Keys
               PROVE  got'[k] \o Out(cut)[k] \o held'[k] = Pieces(k, sent'[k])
    BY <1>4 DEF TextConserved, PendingText, Pieces
  <2>1. /\ got[k] \in Text /\ held[k] \in Text /\ sent[k] \in Nat /\ last.text[k] \in Text
        /\ Out(cut)[k] \in Text /\ Rest(cut)[k] \in Text
    BY <1>1, <1>2
  <2> DEFINE g == got[k] \o last.text[k]
  <2>2. g \in Text
    BY <2>1, TextAlgebra
  <2>3. g \o held[k] = Pieces(k, sent[k])
    BY <1>1 DEF TextConserved, PendingText, Buffers
  <2>4. got'[k] = g \o (IF k \in flushed THEN Rest(cut)[k] ELSE <<>>)
    BY <1>7
  <2> HIDE DEF g
  <2>5. g \o (Out(cut)[k] \o Rest(cut)[k]) = Pieces(k, sent'[k])
    <3>1. provider # "litellm" /\ sent'[k] = IF k \in fresh THEN sent[k] + 1 ELSE sent[k]
      BY <1>3 DEF Buffers
    <3>2. /\ k \in fresh =>
               g \o (Out(cut)[k] \o Rest(cut)[k]) = Pieces(k, sent[k] + 1)
          /\ k \notin fresh =>
               g \o (Out(cut)[k] \o Rest(cut)[k]) = Pieces(k, sent[k])
      BY <1>1, <2>2, <2>3, <3>1, SplitKeeps
    <3> QED BY <3>1, <3>2
  <2>6. CASE k \in flushed
    <3>1. Out(cut)[k] = <<>> /\ got'[k] = g \o Rest(cut)[k] /\ held'[k] = <<>>
      BY <1>2, <1>6, <2>4, <2>6
    <3>2. g \o Rest(cut)[k] = Pieces(k, sent'[k]) /\ g \o Rest(cut)[k] \in Text
      BY <2>1, <2>2, <2>5, <3>1, TextAlgebra
    <3> QED BY <3>1, <3>2, TextAlgebra
  <2>7. CASE k \notin flushed
    <3>1. got'[k] = g /\ held'[k] = Rest(cut)[k]
      BY <1>6, <2>2, <2>4, <2>7, TextAlgebra
    <3>2. g \o Out(cut)[k] \o Rest(cut)[k] = g \o (Out(cut)[k] \o Rest(cut)[k])
      BY <2>1, <2>2, TextAlgebra
    <3> QED BY <2>5, <3>1, <3>2
  <2> QED BY <2>6, <2>7
<1>11. HeldFits'
  <2> SUFFICES ASSUME NEW s \in Keys, held'[s] # <<>>
               PROVE  LeftOver(s)'
    BY DEF HeldFits
  <2>1. s \notin flushed /\ (s \in fresh \/ held[s] # <<>>)
    BY <1>2, <1>5, <1>6
  <2>2. CASE s \in fresh
    <3>1. /\ kind = "text" /\ s \in keys
          /\ provider = "llamaindex" => s = 1
      BY <1>0, <2>2, NewsFits
    <3> QED BY <1>4, <3>1 DEF LeftOver, OfLast, Buffers
  <2>3. CASE s \notin fresh
    <3>1. LeftOver(s)
      BY <1>1, <2>1, <2>3 DEF HeldFits
    <3>2. CASE provider \in {"anthropic", "google"}
      <4>1. s \in orphans \/ s \in interrupted
        BY <2>1, <3>1, <3>2 DEF LeftOver, OfLast
      <4>2. s \in orphans'
        BY <2>1, <2>3, <4>1
      <4> QED BY <3>2, <4>2 DEF LeftOver
    <3>3. CASE provider \in {"invoke", "converse"}
      <4>1. last.kind = "text" /\ s \in last.keys
        BY <3>1, <3>3 DEF LeftOver, OfLast
      <4>2. kind = "text" /\ s \in keys
        BY <2>1, <3>3, <4>1
      <4> QED BY <1>4, <3>3, <4>2 DEF LeftOver, OfLast
    <3>4. CASE provider = "llamaindex"
      BY <1>4, <3>1, <3>4 DEF LeftOver
    <3> QED BY <3>2, <3>3, <3>4 DEF Buffers
  <2> QED BY <2>2, <2>3
<1>12. PendingFits'
  <2>1. kind = "text" /\ provider \in OneBlock => \E k \in Keys : keys = {k}
    <3>1. kind \in {"text", "stop"} /\ provider # "google" => \E k \in Keys : keys = {k}
      BY <1>0 DEF Protocol
    <3> QED BY <3>1 DEF OneBlock
  <2> QED BY <1>4, <2>1 DEF PendingFits
<1>13. TailsDelivered' /\ OnlyProviderFails' /\ ChoicesFit'
  BY <1>1 DEF TailsDelivered, OnlyProviderFails, ChoicesFit, Buffers
<1> QED BY <1>9, <1>10, <1>11, <1>12, <1>13 DEF StreamIInv

LEMMA BufferedChunkKeeps ==
  ASSUME IInv, UNCHANGED callVars,
         NEW kind \in Kinds, NEW keys \in SUBSET Keys, NEW fresh \in SUBSET Keys,
         BufferedChunk(kind, keys, fresh)
  PROVE  IInv'
<1>1. /\ provider \in Buffers /\ stage = "streaming"
      /\ Sends(kind, keys, fresh) /\ Sent(kind, keys, fresh)
      /\ UNCHANGED <<provider, stage, choices, tools, called, recorded, fault>>
  BY DEF BufferedChunk, toolCalls
<1> DEFINE Item(cut) == [kind |-> kind, keys |-> keys, text |-> Out(cut)]
<1>2. PICK cut \in Cuts(fresh) :
        /\ pending' = <<Item(cut)>>
        /\ pending = <<>> => held' = Rest(cut) /\ UNCHANGED <<got, orphans, span, completed>>
        /\ pending # <<>> =>
             LET flushed == Flushes(pending[1], Item(cut))
             IN  /\ held' = Emptied(flushed, Rest(cut))
                 /\ HandOver(pending[1], flushed, Rest(cut))
                 /\ orphans' = (orphans \cup Interrupted(pending[1], Item(cut))) \ fresh
                 /\ Observed(pending[1])
  BY DEF BufferedChunk
<1>3. CASE pending = <<>>
  <2>1. StreamIInv'
    BY <1>1, <1>2, <1>3, FirstItemKeeps
  <2>2. SpanIInv' /\ CallIInv'
    BY <1>1, <1>2, <1>3, GoesOn
  <2> QED BY <2>1, <2>2 DEF IInv
<1>4. CASE pending # <<>>
  <2> DEFINE flushed == Flushes(pending[1], Item(cut))
             interrupted == Interrupted(pending[1], Item(cut))
  <2>1. /\ flushed \subseteq pending[1].keys /\ flushed \cap fresh = {}
        /\ provider \in {"invoke", "converse"} /\ pending[1].kind = "text" =>
             \/ pending[1].keys = flushed
             \/ kind = "text" /\ keys = pending[1].keys
        /\ interrupted \subseteq pending[1].keys
        /\ provider \in {"anthropic", "google"} /\ pending[1].kind = "text" =>
             pending[1].keys \subseteq flushed \cup interrupted
    <3>1. PendingFits
      BY DEF IInv, StreamIInv
    <3>2. Item(cut) = [kind |-> kind, keys |-> keys, text |-> Out(cut)]
          /\ Item(cut).kind = kind
      OBVIOUS
    <3> HIDE DEF Item
    <3>3. /\ flushed \subseteq pending[1].keys /\ flushed \cap fresh = {}
          /\ provider \in {"invoke", "converse"} /\ pending[1].kind = "text" =>
               \/ pending[1].keys = flushed
               \/ kind = "text" /\ keys = pending[1].keys
      BY <1>1, <1>4, <3>1, <3>2, FlushFacts
    <3>4. /\ interrupted \subseteq pending[1].keys
          /\ provider \in {"anthropic", "google"} /\ pending[1].kind = "text" =>
               pending[1].keys \subseteq flushed \cup interrupted
      BY <1>1, <3>2, InterruptedFacts
    <3> QED BY <3>3, <3>4
  <2>2. /\ span' \in Spans /\ completed' \in BOOLEAN
        /\ \/ UNCHANGED <<span, completed>>
           \/ /\ provider = "converse" /\ completed' = TRUE
              /\ span' = [ended |-> TRUE, status |-> "unset"]
    BY <1>1, <1>2, <1>4, ObservedFacts
  <2> HIDE DEF flushed, interrupted
  <2>3. /\ held' = Emptied(flushed, Rest(cut)) /\ HandOver(pending[1], flushed, Rest(cut))
        /\ orphans' = (orphans \cup interrupted) \ fresh
        /\ pending' = <<[kind |-> kind, keys |-> keys, text |-> Out(cut)]>>
    BY <1>2, <1>4 DEF flushed, interrupted
  <2>4. StreamIInv'
    BY <1>1, <1>4, <2>1, <2>2, <2>3, NextItemKeeps
  <2>5. SpanIInv' /\ CallIInv'
    BY <1>1, <2>2, GoesOn
  <2> QED BY <2>4, <2>5 DEF IInv
<1> QED BY <1>3, <1>4

LEMMA LastItemKeeps == ASSUME IInv, UNCHANGED callVars, LastItem PROVE IInv'
<1> DEFINE last == pending[1]
           flushed == LastFlushes(last)
<1>1. /\ stage = "streaming" /\ pending # <<>> /\ pending' = <<>> /\ stage' = "draining"
      /\ HandOver(last, flushed, held) /\ held' = Emptied(flushed, held) /\ Observed(last)
      /\ UNCHANGED <<provider, sent, stopped, block, count, orphans, choices, tools, named,
                     called, recorded, fault>>
  BY DEF LastItem, toolCalls
<1>2. /\ TypeOK /\ TextConserved /\ HeldFits /\ ChoicesFit /\ fault = "none"
      /\ recorded = 0 /\ provider \in Buffers
  BY <1>1, StreamingFacts DEF StreamIInv, PendingFits
<1>3. /\ got \in [Keys -> Text] /\ held \in [Keys -> Text] /\ sent \in [Keys -> Nat]
      /\ last.keys \subseteq Keys /\ last.text \in [Keys -> Text]
  BY <1>1, <1>2, LastFacts
<1>4. /\ span' \in Spans /\ completed' \in BOOLEAN
      /\ \/ UNCHANGED <<span, completed>>
         \/ /\ provider = "converse" /\ completed' = TRUE
            /\ span' = [ended |-> TRUE, status |-> "unset"]
  BY <1>1, ObservedFacts
<1>5. /\ flushed \subseteq Keys
      /\ \A s \in Keys : LeftOver(s) => s \in orphans \/ s \in flushed
      /\ \A s \in Keys : LeftOver(s) /\ s \notin flushed =>
                           provider \in {"anthropic", "google"} /\ s \in orphans
  BY <1>2, <1>3, ChoicesAssumption DEF LastFlushes, LeftOver, OfLast, Buffers, Keys
<1>6. \A k \in Keys : Slot(k) = k
  BY <1>2 DEF Slot, Buffers
<1> HIDE DEF flushed
<1>7. /\ held' \in [Keys -> Text]
      /\ \A s \in Keys : held'[s] = IF s \in flushed THEN <<>> ELSE held[s]
  BY <1>1, <1>3, <1>5, <1>6, TextAlgebra DEF Emptied
<1>8. \A k \in Keys :
        /\ got'[k] = (got[k] \o last.text[k]) \o (IF k \in flushed THEN held[k] ELSE <<>>)
        /\ got'[k] \in Text
  <2> TAKE k \in Keys
  <2>1. got'[k] = (got[k] \o last.text[k]) \o (IF k \in flushed THEN held[k] ELSE <<>>)
    BY <1>1, <1>6 DEF HandOver
  <2>2. /\ (IF k \in flushed THEN held[k] ELSE <<>>) \in Text
        /\ got[k] \o last.text[k] \in Text
    BY <1>3, TextAlgebra
  <2> QED BY <2>1, <2>2, TextAlgebra
<1>9. got' \in [Keys -> Text]
  <2>1. got' = [k \in Keys |-> got'[k]]
    BY <1>1 DEF HandOver
  <2> QED BY <1>8, <2>1
<1>10. TypeOK'
  <2>1. /\ pending' \in Seq([kind : Kinds, keys : SUBSET Keys,
                             text : [Keys -> Seq(Keys \X Nat)]])
        /\ Len(pending') <= 1
    BY <1>1, EmptySeq
  <2> QED BY <1>1, <1>2, <1>4, <1>7, <1>9, <2>1 DEF TypeOK, Text, Spans
<1>11. TextConserved'
  <2> SUFFICES ASSUME NEW k \in Keys
               PROVE  got'[k] \o <<>> \o held'[k] = Pieces(k, sent[k])
    BY <1>1 DEF TextConserved, PendingText, Pieces
  <2> DEFINE g == got[k] \o last.text[k]
  <2>1. g \in Text /\ held[k] \in Text
    BY <1>3, TextAlgebra
  <2>2. g \o held[k] = Pieces(k, sent[k])
    BY <1>1, <1>2 DEF TextConserved, PendingText, Buffers
  <2>3. got'[k] = g \o (IF k \in flushed THEN held[k] ELSE <<>>)
    BY <1>8
  <2> HIDE DEF g
  <2>4. CASE k \in flushed
    <3>1. got'[k] = g \o held[k] /\ held'[k] = <<>> /\ got'[k] \in Text
      BY <1>7, <1>8, <2>3, <2>4
    <3> QED BY <2>2, <3>1, TextAlgebra
  <2>5. CASE k \notin flushed
    <3>1. got'[k] = g /\ held'[k] = held[k]
      BY <1>7, <2>1, <2>3, <2>5, TextAlgebra
    <3>2. g \o <<>> = g
      BY <2>1, TextAlgebra
    <3> QED BY <2>2, <3>1, <3>2
  <2> QED BY <2>4, <2>5
<1>12. HeldFits'
  <2> SUFFICES ASSUME NEW s \in Keys, held'[s] # <<>>
               PROVE  LeftOver(s)'
    BY DEF HeldFits
  <2>1. s \notin flushed /\ LeftOver(s)
    BY <1>1, <1>2, <1>7 DEF HeldFits
  <2>2. provider \in {"anthropic", "google"} /\ s \in orphans
    BY <1>5, <2>1
  <2> QED BY <1>1, <2>2 DEF LeftOver
<1>13. PendingFits' /\ TailsDelivered' /\ OnlyProviderFails' /\ ChoicesFit'
  BY <1>1, <1>2 DEF PendingFits, TailsDelivered, OnlyProviderFails, ChoicesFit, Buffers
<1>14. SpanIInv' /\ CallIInv'
  BY <1>1, <1>4, GoesOn
<1> QED BY <1>10, <1>11, <1>12, <1>13, <1>14 DEF IInv, StreamIInv

-----------------------------------------------------------------------------
(* The end of a stream. *)

Over == {"ended", "failed", "dropped"}

\* What ends a stream leaves its text where it is.
LEMMA TextStays ==
  ASSUME StreamIInv, UNCHANGED <<provider, text>>, stage' \in Over,
         span' \in Spans, completed' \in BOOLEAN, recorded' \in Nat, fault' \in Faults,
         fault' = "wrapper" <=> fault = "wrapper",
         stage' = "ended" =>
           stage = "ended" \/ (stage \in {"streaming", "draining"} /\ pending = <<>>)
  PROVE  StreamIInv'
<1> USE DEF StreamIInv, text, Over
<1>1. TypeOK'
  BY DEF TypeOK, Faults, Spans
<1>2. TextConserved'
  BY DEF TextConserved, PendingText
<1>3. TailsDelivered'
  BY DEF TailsDelivered, HeldFits, LeftOver, OfLast
<1>4. HeldFits' /\ PendingFits'
  BY DEF HeldFits, PendingFits
<1>5. OnlyProviderFails' /\ ChoicesFit'
  BY DEF OnlyProviderFails, ChoicesFit
<1> QED BY <1>1, <1>2, <1>3, <1>4, <1>5

\* A stream is over.
LEMMA Finishes ==
  ASSUME IInv, stage \in {"streaming", "draining"}, stage' \in Over,
         UNCHANGED <<provider, text, callVars>>, stage' = "ended" => pending = <<>>,
         span' \in Spans, completed' \in BOOLEAN, recorded' \in {0, 1},
         fault' \in {"none", "completion", "stream"},
         fault' = "stream" => /\ stage' = "failed"
                              /\ provider # "openai" => span'.status # "ok"
                              /\ provider = "responses" => completed',
         provider \in SelfCleaning =>
           completed' \/ recorded' = 0 \/ fault' = "completion",
         \/ span'.ended
         \/ provider \in SelfCleaning /\ ~completed'
         \/ provider \in {"completion", "invoke", "converse", "google", "llamaindex"}
            /\ fault' = "stream"
         \/ provider # "litellm" /\ stage' = "dropped"
            /\ (provider \in SelfCleaning => ~completed')
         \/ provider = "litellm" /\ stage' = "dropped" /\ count = 0
         \/ provider = "invoke" /\ fault' = "completion"
         \/ provider = "llamaindex"
  PROVE  IInv'
<1>1. /\ StreamIInv /\ fault = "none" /\ provider \in Providers
      /\ provider \notin {"embeddings", "langchain"}
  BY StreamingFacts
<1>2. StreamIInv'
  BY <1>1, TextStays DEF Faults
<1>3. CallIInv'
  BY CallOver DEF IInv, Over
<1>4. SpanFits' /\ StreamFits' /\ EndFits' /\ RecordedOnce' /\ FailureNotOk'
  BY DEF SpanFits, StreamFits, EndFits, RecordedOnce, FailureNotOk, Over
<1>5. SpansLeftOpen'
  BY <1>1, ProvidersAssumption DEF SpansLeftOpen, SelfCleaning, Frameworks, text
<1> QED BY <1>2, <1>3, <1>4, <1>5 DEF IInv, SpanIInv

\* What ends the span of a stream that goes on.
LEMMA StreamSpans ==
  ASSUME IInv, stage \in {"streaming", "draining"}, NEW status \in {"unset", "ok", "error"}
  PROVE  /\ Ended(status) \in Spans /\ Ended(status).ended
         /\ ~completed => Ended(status).status = status
<1>1. span \in Spans /\ span.status = "unset" /\ (~completed => ~span.ended)
  BY StreamingFacts
<1>2. /\ Ended(status) \in Spans /\ Ended(status).ended
      /\ Ended(status).status = Marked(status).status
      /\ Marked(status) = IF span.ended \/ span.status = "ok" THEN span
                          ELSE [ended |-> FALSE, status |-> status]
  BY <1>1, SpanTyped
<1> QED BY <1>1, <1>2

LEMMA StreamEndsKeeps == ASSUME IInv, UNCHANGED callVars, StreamEnds PROVE IInv'
<1>1. /\ stage \in {"streaming", "draining"} /\ stage' = "ended" /\ pending = <<>>
      /\ UNCHANGED <<provider, text>>
  BY DEF StreamEnds, OpenAIEnds, OpenAIEndRaises, AnthropicEnds, InvokeEnds,
     InvokeEndRaises, ConverseEnds, GoogleEnds, LiteLLMEnds, CompletionEnds,
     LlamaIndexEnds, ResponsesEnds, ResponsesEndRaises, AtEnd
<1>2. /\ fault = "none" /\ recorded = 0 /\ span \in Spans /\ completed \in BOOLEAN
      /\ completed => provider = "converse" /\ span.ended
  BY <1>1, StreamingFacts
<1>3. \A status \in {"unset", "ok", "error"} : Ended(status) \in Spans /\ Ended(status).ended
  BY <1>1, StreamSpans
<1>4. CASE OpenAIEnds \/ AnthropicEnds \/ ResponsesEnds
  <2>1. /\ span' = Ended("ok") /\ completed' = TRUE /\ recorded' = 1 /\ fault' = fault
    BY <1>2, <1>4 DEF OpenAIEnds, AnthropicEnds, ResponsesEnds
  <2> QED BY <1>1, <1>2, <1>3, <2>1, Finishes DEF Over
<1>5. CASE OpenAIEndRaises
  <2>1. /\ provider = "openai" /\ fault' = "completion" /\ recorded' \in {0, 1}
        /\ UNCHANGED <<span, completed>>
    BY <1>2, <1>5 DEF OpenAIEndRaises
  <2> QED BY <1>1, <1>2, <2>1, Finishes DEF Over, SelfCleaning
<1>6. CASE InvokeEnds \/ GoogleEnds \/ LiteLLMEnds \/ CompletionEnds
  <2>1. /\ \E status \in {"unset", "ok", "error"} : span' = Ended(status)
        /\ provider \notin SelfCleaning /\ UNCHANGED <<completed, recorded, fault>>
    BY <1>6 DEF InvokeEnds, GoogleEnds, LiteLLMEnds, CompletionEnds, SelfCleaning
  <2> QED BY <1>1, <1>2, <1>3, <2>1, Finishes DEF Over
<1>7. CASE InvokeEndRaises
  <2>1. /\ provider = "invoke" /\ fault' = "completion"
        /\ UNCHANGED <<span, completed, recorded>>
    BY <1>7 DEF InvokeEndRaises
  <2> QED BY <1>1, <1>2, <2>1, Finishes DEF Over, SelfCleaning
<1>8. CASE ConverseEnds
  <2>1. /\ provider = "converse" /\ span' \in {span, Ended("unset")}
        /\ span' = span => completed \/ span'.ended
        /\ completed' = TRUE /\ UNCHANGED <<recorded, fault>>
    BY <1>3, <1>8 DEF ConverseEnds
  <2>2. span' \in Spans /\ span'.ended
    BY <1>2, <1>3, <2>1
  <2> QED BY <1>1, <1>2, <2>1, <2>2, Finishes DEF Over
<1>9. CASE LlamaIndexEnds
  <2>1. provider = "llamaindex" /\ UNCHANGED <<span, completed, recorded, fault>>
    BY <1>9 DEF LlamaIndexEnds
  <2> QED BY <1>1, <1>2, <2>1, Finishes DEF Over, SelfCleaning
<1>10. CASE ResponsesEndRaises
  <2>1. /\ span' = Ended("error") /\ completed' = TRUE /\ fault' = "completion"
        /\ UNCHANGED recorded
    BY <1>10 DEF ResponsesEndRaises
  <2> QED BY <1>1, <1>2, <1>3, <2>1, Finishes DEF Over
<1> QED BY <1>4, <1>5, <1>6, <1>7, <1>8, <1>9, <1>10 DEF StreamEnds

LEMMA StreamBreaksKeeps == ASSUME IInv, UNCHANGED callVars, StreamBreaks PROVE IInv'
<1>1. /\ stage = "streaming" /\ stage' = "failed" /\ fault' = "stream"
      /\ UNCHANGED <<provider, text>>
  BY DEF StreamBreaks, OpenAIBreaks, AnthropicBreaks, LiteLLMBreaks, ResponsesBreaks,
     OthersBreak, Breaks
<1>2. /\ recorded = 0 /\ span \in Spans /\ completed \in BOOLEAN /\ span.status = "unset"
      /\ completed => provider = "converse" /\ span.ended
  BY <1>1, StreamingFacts
<1>3. \A status \in {"unset", "ok", "error"} :
        /\ Ended(status) \in Spans /\ Ended(status).ended
        /\ ~completed => Ended(status).status = status
  BY <1>1, StreamSpans
<1>4. CASE OpenAIBreaks
  <2>1. /\ provider = "openai" /\ span' = Ended("ok") /\ completed' = TRUE /\ recorded' = 1
    BY <1>2, <1>4 DEF OpenAIBreaks, EnsureCleanup
  <2> QED BY <1>1, <1>3, <2>1, Finishes DEF Over
<1>5. CASE AnthropicBreaks \/ LiteLLMBreaks \/ ResponsesBreaks
  <2>1. /\ provider # "converse" /\ span' = Ended("error") /\ recorded' = recorded
        /\ completed' \in BOOLEAN
        /\ provider \in SelfCleaning => completed'
    BY <1>2, <1>5 DEF AnthropicBreaks, LiteLLMBreaks, ResponsesBreaks, SelfCleaning
  <2>2. span'.status # "ok" /\ span' \in Spans /\ span'.ended
    BY <1>2, <1>3, <2>1
  <2> QED BY <1>1, <1>2, <2>1, <2>2, Finishes DEF Over, SelfCleaning
<1>6. CASE OthersBreak
  <2>1. /\ provider \in {"completion", "invoke", "converse", "google", "llamaindex"}
        /\ UNCHANGED <<span, completed, recorded>>
    BY <1>6 DEF OthersBreak
  <2> QED BY <1>1, <1>2, <2>1, Finishes DEF Over, SelfCleaning
<1> QED BY <1>4, <1>5, <1>6 DEF StreamBreaks

LEMMA DropsKeeps == ASSUME IInv, UNCHANGED callVars, Drops PROVE IInv'
<1>1. /\ stage \in {"streaming", "draining"} /\ stage' = "dropped"
      /\ span' = IF provider = "litellm" /\ count > 0 THEN Ended("unset") ELSE span
      /\ UNCHANGED <<provider, text, completed, recorded, fault>>
  BY DEF Drops
<1>2. /\ recorded = 0 /\ span \in Spans /\ completed \in BOOLEAN /\ fault = "none"
      /\ completed => provider = "converse" /\ span.ended
      /\ count \in Nat
  BY <1>1, StreamingFacts DEF TypeOK
<1>3. Ended("unset") \in Spans /\ Ended("unset").ended
  BY <1>1, StreamSpans
<1>4. span' \in Spans
  BY <1>1, <1>2, <1>3
<1>5. CASE provider = "litellm"
  <2>1. span'.ended \/ count = 0
    BY <1>1, <1>2, <1>3, <1>5
  <2> QED BY <1>1, <1>2, <1>4, <1>5, <2>1, Finishes DEF Over, SelfCleaning
<1>6. CASE provider # "litellm"
  BY <1>1, <1>2, <1>4, <1>6, Finishes DEF Over, SelfCleaning
<1> QED BY <1>5, <1>6

LEMMA CollectKeeps == ASSUME IInv, UNCHANGED callVars, Collect PROVE IInv'
<1>1. /\ provider \in SelfCleaning /\ ~completed
      /\ stage \in {"ended", "dropped"} \/ (stage = "failed" /\ fault \in {"stream", "wrapper"})
      /\ span' = Ended("ok") /\ completed' = TRUE /\ recorded' = recorded + 1
      /\ UNCHANGED <<provider, stage, text, fault>>
  BY DEF Collect, EnsureCleanup
<1>2. /\ StreamIInv /\ SpanIInv /\ CallIInv /\ EndFits /\ TypeOK
      /\ span \in Spans /\ recorded \in Nat /\ fault \in Faults /\ stage' \in Over
  BY <1>1 DEF IInv, StreamIInv, SpanIInv, TypeOK, Spans, Faults, Over
<1>3. span' \in Spans /\ span'.ended
  BY <1>1, <1>2, SpanTyped
<1>4. StreamIInv'
  BY <1>1, <1>2, <1>3, TextStays DEF Over
<1>5. CallIInv'
  BY <1>1, <1>2, CallOver DEF Over
<1>6. fault \notin {"call", "cancelled"} /\ (fault = "stream" => provider = "openai")
  BY <1>1, <1>2 DEF EndFits, SelfCleaning
<1>7. fault # "completion" => recorded = 0
  BY <1>1, <1>2, <1>6 DEF EndFits
<1>8. RecordedOnce' /\ FailureNotOk' /\ SpansLeftOpen'
  BY <1>1, <1>2, <1>3, <1>6, <1>7 DEF RecordedOnce, FailureNotOk, SpansLeftOpen
<1>9. SpanFits' /\ StreamFits' /\ EndFits'
  BY <1>1, <1>2 DEF SpanFits, StreamFits, EndFits, Over
<1> QED BY <1>4, <1>5, <1>8, <1>9 DEF IInv, SpanIInv

LEMMA CollectRaisesKeeps == ASSUME IInv, UNCHANGED callVars, CollectRaises PROVE IInv'
<1>1. /\ provider = "responses" /\ stage = "dropped" /\ completed' = TRUE
      /\ fault' = "completion" /\ UNCHANGED <<provider, stage, text, span, recorded>>
  BY DEF CollectRaises
<1>2. /\ StreamIInv /\ CallIInv /\ EndFits /\ TypeOK /\ span \in Spans /\ recorded \in Nat
      /\ stage' \in Over
  BY <1>1 DEF IInv, StreamIInv, SpanIInv, TypeOK, Spans, Over
<1>3. fault # "wrapper"
  BY <1>1, <1>2 DEF EndFits
<1>4. StreamIInv'
  BY <1>1, <1>2, <1>3, TextStays DEF Over, Faults
<1>5. CallIInv'
  BY <1>1, <1>2, CallOver DEF Over
<1>6. SpanIInv'
  BY <1>1 DEF SpanIInv, SpanFits, StreamFits, EndFits, RecordedOnce, FailureNotOk,
     SpansLeftOpen
<1> QED BY <1>4, <1>5, <1>6 DEF IInv

LEMMA ChunkKeeps == ASSUME IInv, UNCHANGED callVars, Chunk PROVE IInv'
<1>1. PICK kind \in Kinds, keys \in SUBSET Keys, fresh \in SUBSET Keys :
        \/ OpenAIChunk(kind, keys, fresh)
        \/ OpenAIChunkRaises(kind, keys, fresh)
        \/ LiteLLMChunk(kind, keys, fresh)
        \/ CompletionChunk(kind, keys, fresh)
        \/ ResponsesChunk(kind, keys, fresh)
        \/ BufferedChunk(kind, keys, fresh)
  BY DEF Chunk
<1>2. CASE \/ LiteLLMChunk(kind, keys, fresh)
           \/ CompletionChunk(kind, keys, fresh)
           \/ ResponsesChunk(kind, keys, fresh)
  <2>1. /\ provider \in {"litellm", "completion", "responses"} /\ stage = "streaming"
        /\ Sends(kind, keys, fresh) /\ Sent(kind, keys, fresh) /\ Screen(kind, keys, fresh)
        /\ UNCHANGED <<provider, stage, pending, orphans, choices, toolCalls, span, completed,
                       recorded, fault>>
    BY <1>2 DEF LiteLLMChunk, CompletionChunk, ResponsesChunk
  <2> QED BY <2>1, PassedOn
<1>3. CASE OpenAIChunk(kind, keys, fresh)
  BY <1>3, OpenAIChunkKeeps
<1>4. CASE OpenAIChunkRaises(kind, keys, fresh)
  BY <1>4, OpenAIChunkRaisesKeeps
<1>5. CASE BufferedChunk(kind, keys, fresh)
  BY <1>5, BufferedChunkKeeps
<1> QED BY <1>1, <1>2, <1>3, <1>4, <1>5

LEMMA ToolChunkKeeps == ASSUME IInv, UNCHANGED callVars, ToolChunk PROVE IInv'
BY OpenAIToolKeeps, OpenAIToolRaisesKeeps DEF ToolChunk

LEMMA StreamNextKeeps == ASSUME IInv, UNCHANGED callVars, StreamNext PROVE IInv'
BY ChunkKeeps, ToolChunkKeeps, LastItemKeeps, StreamEndsKeeps, StreamBreaksKeeps, DropsKeeps,
   CollectKeeps, CollectRaisesKeeps DEF StreamNext

LEMMA StutterKeeps == ASSUME IInv, UNCHANGED allVars PROVE IInv'
<1> USE DEF allVars, vars, callVars, local
<1>1. StreamIInv'
  <2>1. StreamIInv
    BY DEF IInv
  <2>2. TypeOK' /\ TextConserved'
    BY <2>1 DEF StreamIInv, TypeOK, TextConserved, PendingText
  <2>3. TailsDelivered' /\ HeldFits'
    BY <2>1 DEF StreamIInv, TailsDelivered, HeldFits, LeftOver, OfLast
  <2>4. PendingFits' /\ ChoicesFit' /\ OnlyProviderFails'
    BY <2>1 DEF StreamIInv, PendingFits, ChoicesFit, OnlyProviderFails
  <2> QED BY <2>2, <2>3, <2>4 DEF StreamIInv
<1>2. SpanIInv'
  BY DEF IInv, SpanIInv, SpanFits, StreamFits, EndFits, RecordedOnce, SpansLeftOpen,
     FailureNotOk, Untouched, Remains, Pipeline
<1>3. CallIInv'
  BY SameMasks DEF IInv, CallIInv, ToldFits, AnswerFits, MayPass, TextsScreened,
     CallTypeOK, ToldAsSent, Remains
<1> QED BY <1>1, <1>2, <1>3 DEF IInv

-----------------------------------------------------------------------------
(* The theorems. *)

\* The invariant holds in every state of every call and stream.
THEOREM Invariant == Spec => []IInv
<1>1. IInv /\ [Next]_allVars => IInv'
  BY CallNextKeeps, StreamNextKeeps, StutterKeeps DEF Next
<1> QED BY InitFits, <1>1, PTL DEF Spec

\* The wrappers neither lose nor double a piece of a response, nor put it
\* under another key, however the sessions hold text back; and of a stream
\* that was read to its end, only what TailsDelivered names stays behind.
THEOREM TextAlwaysDelivered == Spec => []TextDelivered
<1>1. IInv => TextDelivered
  BY DEF IInv, StreamIInv, TextDelivered
<1> QED BY <1>1, Invariant, PTL

\* Whatever happens to a call and its stream, its metrics are recorded once,
\* its span is ended or one of those SpansLeftOpen names, and a failure is
\* not reported as a success, but by an OpenAI stream.
THEOREM TracesAlwaysTell == Spec => []TracesTell
<1>1. IInv => TracesTell
  BY DEF IInv, StreamIInv, SpanIInv, TracesTell
<1> QED BY <1>1, Invariant, PTL

\* What the provider gets and what the application gets back is masked, in
\* every way the steps of a call can fail.
THEOREM TextsAlwaysScreened == Spec => []TextsScreened
<1>1. IInv => TextsScreened
  BY DEF IInv, CallIInv
<1> QED BY <1>1, Invariant, PTL

\* A span tells the text that was sent or handed out, never what it was
\* before it was masked.
THEOREM AlwaysToldAsSent == Spec => []ToldAsSent
<1>1. IInv => ToldAsSent
  BY DEF IInv, CallIInv
<1> QED BY <1>1, Invariant, PTL
=============================================================================
