---------------------------- MODULE ProviderStreams ----------------------------
(***************************************************************************)
(* The streamed response of one call of an instrumented provider SDK:      *)
(* ChatStream, ResponseStream and the generator of text completions of     *)
(* OpenAI, AnthropicStream, the two stream wrappers of Bedrock, the        *)
(* generators of Google, LiteLLM and LlamaIndex.  ProviderCalls models the *)
(* call itself.                                                            *)
(*                                                                         *)
(* The text of a choice or content block (a key) is a sequence of pieces   *)
(* <<key, 1>>, <<key, 2>>, ...  A safety session holds pieces back and     *)
(* hands out a beginning of what it holds (TextSession); the wrapper puts  *)
(* what comes back into the item at hand, and its flush rule decides where *)
(* the rest goes.  The provider sends any items its protocol allows, may   *)
(* break the connection, and the application may stop reading.             *)
(***************************************************************************)
EXTENDS Integers, FiniteSets, Sequences

CONSTANTS Providers,  \* the wrappers to model
          Choices,    \* number of choices (OpenAI) or content blocks
          MaxItems,   \* bound: items of one response
          MaxTool     \* bound: highest index of a tool call of a choice

ASSUME ProvidersAssumption ==
  Providers \subseteq {"openai", "completion", "embeddings", "anthropic", "invoke",
                       "converse", "google", "litellm", "llamaindex", "responses",
                       "langchain"}
ASSUME ChoicesAssumption == Choices \in Nat \ {0}
ASSUME ItemsAssumption == MaxItems \in Nat
ASSUME ToolAssumption == MaxTool \in Nat

VARIABLES
  provider,   \* whose wrapper it is
  stage,      \* what the application has seen of the call
  sent,       \* sent[k]: pieces of key k the provider sent
  stopped,    \* keys the provider marked as finished
  block,      \* the content block that is open, at most one
  held,       \* held[k]: what the session of key k holds back
  pending,    \* the item the wrapper keeps until it has the next one
  got,        \* got[k]: pieces the application was given as text of key k
  count,      \* number of items so far
  orphans,    \* history: keys whose last text something else followed than its end
  span,       \* [ended, status] of the span of the call
  completed,  \* _cleanup_completed, _instrumentation_completed, _self_span_ended
  recorded,   \* how often the metrics of the response were recorded
  choices,    \* len(_complete_response["choices"]) of ChatStream
  tools,      \* tools[k]: len(message["tool_calls"]) of choice k
  named,      \* history: keys the provider sent an item of
  called,     \* history: <<k, n>>, tool call n of choice k came
  fault       \* history: what went wrong

vars == <<provider, stage, sent, stopped, block, held, pending, got, count,
          orphans, span, completed, recorded, choices, tools, named, called, fault>>
toolCalls == <<tools, called>>
text == <<sent, stopped, block, held, pending, got, count, orphans, choices, tools, named,
          called>>

Keys == 1..Choices
Kinds == {"text", "stop", "other", "final"}
OneBlock == {"anthropic", "invoke", "converse"}
Buffers == {"anthropic", "invoke", "converse", "google", "llamaindex"}
Frameworks == {"langchain", "llamaindex"}
Nothing == [k \in Keys |-> <<>>]

Init ==
  /\ provider \in Providers
  /\ stage = "calling"
  /\ sent = [k \in Keys |-> 0] /\ stopped = {} /\ block = {}
  /\ held = Nothing /\ pending = <<>> /\ got = Nothing
  /\ count = 0 /\ orphans = {}
  /\ span = [ended |-> FALSE, status |-> "unset"]
  /\ completed = FALSE /\ recorded = 0 /\ choices = 0 /\ fault = "none"
  /\ tools = [k \in Keys |-> 0] /\ named = {} /\ called = {}

-----------------------------------------------------------------------------
(* The span. *)

\* set_status() writes while the span records, and nothing replaces OK;
\* end() stops the recording.
Marked(status) ==
  IF span.ended \/ span.status = "ok" THEN span ELSE [span EXCEPT !.status = status]
Ended(status) == [Marked(status) EXCEPT !.ended = TRUE]

-----------------------------------------------------------------------------
(* The items of a response. *)

\* What the provider may send next.  keys: what the item is about; fresh: the
\* keys it brings a piece of text of.  Only OpenAI and LiteLLM put the end of
\* a choice into an item that can carry text; Google may send several parts.
Sends(kind, keys, fresh) ==
  /\ count < MaxItems
  /\ fresh \subseteq keys /\ keys \cap stopped = {}
  /\ CASE kind = "text" -> /\ fresh = keys /\ keys # {}
                           /\ Cardinality(keys) = 1 \/ provider = "google"
                           /\ provider \in OneBlock => block \subseteq keys
                           /\ provider = "llamaindex" => keys = {1}
       [] kind = "stop" -> /\ Cardinality(keys) = 1
                           /\ provider \notin {"google", "llamaindex"}
                           /\ provider \in OneBlock \cup {"responses"} => fresh = {}
                           /\ provider \in OneBlock => block \subseteq keys
       [] kind = "other" -> keys = {} \/ /\ provider = "openai"
                                         /\ Cardinality(keys) = 1 /\ fresh = {}
       [] kind = "final" ->
            /\ keys = {} /\ ~completed
            /\ \/ provider \in OneBlock /\ block = {}
                  /\ \A i \in DOMAIN pending : pending[i].kind # "final"
               \/ provider = "responses" /\ {k \in Keys : sent[k] > 0} = stopped

\* What that does to the provider's side.
Sent(kind, keys, fresh) ==
  /\ count' = count + 1
  /\ sent' = [k \in Keys |-> IF k \in fresh THEN sent[k] + 1 ELSE sent[k]]
  /\ stopped' = IF kind = "stop" THEN stopped \cup keys
                ELSE IF kind = "final" THEN Keys ELSE stopped
  /\ block' = IF provider \notin OneBlock \/ kind = "other" THEN block
              ELSE IF kind = "text" THEN keys ELSE {}
  /\ named' = named \cup keys

\* (Fault: all choices of a chunk share one session.)
Slot_Shared(k) == 1

\* The session that the text of key k goes through.  LiteLLM takes the
\* position of the choice in the chunk, and a chunk has one choice.
Slot(k) == IF provider = "litellm" THEN 1 ELSE k

\* CompletionTextStreamGroup.process(): the session takes the fresh piece of
\* key k and hands out the first cut[k] of the pieces it holds then.
Holds(k) == Append(held[Slot(k)], <<k, sent[k] + 1>>)
Cuts(fresh) == {cut \in [fresh -> 0..MaxItems] : \A k \in fresh : cut[k] <= Len(Holds(k))}
Out(cut) == [k \in Keys |-> IF k \in DOMAIN cut THEN SubSeq(Holds(k), 1, cut[k]) ELSE <<>>]
Rest(cut) ==
  [s \in Keys |->
     LET users == {k \in DOMAIN cut : Slot(k) = s}
     IN  IF users = {} THEN held[s]
         ELSE LET k == CHOOSE k \in users : TRUE
              IN  SubSeq(Holds(k), cut[k] + 1, Len(Holds(k)))]

\* (Fault: the rest replaces the text of the item.)
HandOver_Replaces(item, keys, rest) ==
  got' = [k \in Keys |-> got[k] \o IF k \in keys THEN rest[Slot(k)] ELSE item.text[k]]

\* The item goes to the application, and with it what
\* CompletionTextStreamGroup.flush() returns for these keys.
HandOver(item, keys, rest) ==
  got' = [k \in Keys |-> got[k] \o item.text[k]
                         \o IF k \in keys THEN rest[Slot(k)] ELSE <<>>]
Emptied(keys, rest) ==
  [s \in Keys |-> IF \E k \in keys : Slot(k) = s THEN <<>> ELSE rest[s]]

\* An item arrives at a wrapper that passes it on at once: the end of a
\* choice flushes its session into the same item.
Screen(kind, keys, fresh) ==
  \E cut \in Cuts(fresh) :
    LET item == [kind |-> kind, keys |-> keys, text |-> Out(cut)]
        ending == IF kind = "stop" THEN keys ELSE {}
    IN  /\ HandOver(item, ending, Rest(cut))
        /\ held' = Emptied(ending, Rest(cut))

\* (Fault: a choice is appended for every chunk.)
Accumulated_Every(keys) == choices + Cardinality(keys)

\* (Fault: nothing is appended for the choice that comes next.)
Accumulated_Late(keys) == choices + (IF \E k \in keys : choices < k - 1 THEN 1 ELSE 0)

\* len(choices) after _accumulate_stream_items(), which appends one at most.
Accumulated(keys) == choices + (IF \E k \in keys : choices <= k - 1 THEN 1 ELSE 0)

\* The same for the tool calls of choice k, when number n comes.
WithTool(k, n) == [tools EXCEPT ![k] = IF @ <= n THEN @ + 1 ELSE @]

\* ChatStream.__next__(): the item is screened and accumulated.
OpenAIChunk(kind, keys, fresh) ==
  /\ provider = "openai" /\ stage = "streaming"
  /\ Sends(kind, keys, fresh) /\ Sent(kind, keys, fresh)
  /\ choices' = Accumulated(keys)
  /\ \A k \in keys : k <= choices'
  /\ Screen(kind, keys, fresh)
  /\ UNCHANGED <<provider, stage, pending, orphans, toolCalls, span, completed, recorded,
                 fault>>

\* A choice comes before one with a lower index: the list is too short, and
\* the IndexError reaches the application in place of the item.
OpenAIChunkRaises(kind, keys, fresh) ==
  /\ provider = "openai" /\ stage = "streaming"
  /\ Sends(kind, keys, fresh) /\ Sent(kind, keys, fresh)
  /\ choices' = Accumulated(keys)
  /\ \E k \in keys : k > choices'
  /\ \E cut \in Cuts(fresh) : held' = Rest(cut)
  /\ stage' = "failed" /\ fault' = "wrapper"
  /\ UNCHANGED <<provider, pending, got, orphans, toolCalls, span, completed, recorded>>

\* The delta of choice k brings a part of its tool call number n, and no text.
ToolDelta(k, n) ==
  /\ provider = "openai" /\ stage = "streaming"
  /\ Sends("other", {k}, {}) /\ Sent("other", {k}, {})
  /\ choices' = Accumulated({k}) /\ k <= choices'
  /\ tools' = WithTool(k, n) /\ called' = called \cup {<<k, n>>}

OpenAITool(k, n) ==
  /\ ToolDelta(k, n) /\ n < tools'[k]
  /\ Screen("other", {k}, {})
  /\ UNCHANGED <<provider, stage, pending, orphans, span, completed, recorded, fault>>

\* A tool call comes before one with a lower index: the list is too short,
\* like that of the choices.
OpenAIToolRaises(k, n) ==
  /\ ToolDelta(k, n) /\ n >= tools'[k]
  /\ stage' = "failed" /\ fault' = "wrapper"
  /\ UNCHANGED <<provider, held, pending, got, orphans, span, completed, recorded>>

\* _mask_streaming_chunk() in the generator of LiteLLM.
LiteLLMChunk(kind, keys, fresh) ==
  /\ provider = "litellm" /\ stage = "streaming"
  /\ Sends(kind, keys, fresh) /\ Sent(kind, keys, fresh)
  /\ Screen(kind, keys, fresh)
  /\ UNCHANGED <<provider, stage, pending, orphans, choices, toolCalls, span, completed,
                 recorded, fault>>

\* The generator of text completions; what accumulating raises is hidden.
CompletionChunk(kind, keys, fresh) ==
  /\ provider = "completion" /\ stage = "streaming"
  /\ Sends(kind, keys, fresh) /\ Sent(kind, keys, fresh)
  /\ Screen(kind, keys, fresh)
  /\ UNCHANGED <<provider, stage, pending, orphans, choices, toolCalls, span, completed,
                 recorded, fault>>

\* ResponsesStreamingSafety.process_chunk(): a delta goes through the session
\* of its part, and the event that ends the part carries the rest.
ResponsesChunk(kind, keys, fresh) ==
  /\ provider = "responses" /\ stage = "streaming"
  /\ Sends(kind, keys, fresh) /\ Sent(kind, keys, fresh)
  /\ Screen(kind, keys, fresh)
  /\ UNCHANGED <<provider, stage, pending, orphans, choices, toolCalls, span, completed,
                 recorded, fault>>

\* (Fault: the end of a block flushes nothing.)
AnthropicFlushes_FinalOnly(last, item) ==
  IF last.kind = "text" /\ item.kind = "final" THEN last.keys ELSE {}

\* AnthropicStreamingSafety._flush_key(): only the end of a block or message.
AnthropicFlushes(last, item) ==
  IF last.kind = "text" /\ item.kind \in {"stop", "final"} THEN last.keys ELSE {}

\* (Fault: flushed only when another text follows.)
BedrockFlushes_TextOnly(last, item) ==
  IF last.kind = "text" /\ item.kind = "text" /\ item.keys # last.keys
    THEN last.keys ELSE {}

\* flush_transition() of Bedrock: anything but more text of the same block.
BedrockFlushes(last, item) ==
  IF last.kind = "text" /\ ~(item.kind = "text" /\ item.keys = last.keys)
    THEN last.keys ELSE {}

Flushes(last, item) ==
  CASE provider = "anthropic" -> AnthropicFlushes(last, item)
    [] provider \in {"invoke", "converse"} -> BedrockFlushes(last, item)
    [] OTHER -> {}

\* BedrockConverseSafetyStream._observe_event(): the metadata ends the span.
Observed(item) ==
  IF provider = "converse" /\ item.kind = "final"
    THEN span' = Ended("unset") /\ completed' = TRUE
    ELSE UNCHANGED <<span, completed>>

\* The keys whose text the provider does not end with the item after it: a
\* text block of Anthropic goes on with a ping, a part of Google has no end.
Interrupted(last, item) ==
  IF last.kind = "text" /\ item.kind \notin {"stop", "final"} THEN last.keys ELSE {}

\* An item arrives at a wrapper that is one item behind: it is screened, the
\* item before it gets the rest of its own text and goes to the application.
BufferedChunk(kind, keys, fresh) ==
  /\ provider \in Buffers /\ stage = "streaming"
  /\ Sends(kind, keys, fresh) /\ Sent(kind, keys, fresh)
  /\ \E cut \in Cuts(fresh) :
       LET item == [kind |-> kind, keys |-> keys, text |-> Out(cut)]
       IN  /\ pending' = <<item>>
           /\ IF pending = <<>>
                THEN held' = Rest(cut) /\ UNCHANGED <<got, orphans, span, completed>>
                ELSE LET last == pending[1]
                         flushed == Flushes(last, item)
                     IN  /\ held' = Emptied(flushed, Rest(cut))
                         /\ HandOver(last, flushed, Rest(cut))
                         /\ orphans' = (orphans \cup Interrupted(last, item)) \ fresh
                         /\ Observed(last)
  /\ UNCHANGED <<provider, stage, choices, toolCalls, recorded, fault>>

\* flush_pending_item() and its likes at the end of the stream.
LastFlushes(last) ==
  IF provider = "llamaindex" THEN {1}
  ELSE IF last.kind = "text" THEN last.keys ELSE {}

\* The provider's stream is exhausted: the item kept so far is the last one.
LastItem ==
  /\ stage = "streaming" /\ pending # <<>>
  /\ LET flushed == LastFlushes(pending[1])
     IN  /\ HandOver(pending[1], flushed, held)
         /\ held' = Emptied(flushed, held)
         /\ Observed(pending[1])
  /\ pending' = <<>> /\ stage' = "draining"
  /\ UNCHANGED <<provider, sent, stopped, block, count, orphans, choices, toolCalls, named,
                 recorded, fault>>

-----------------------------------------------------------------------------
(* The end of a stream. *)

AtEnd == /\ stage \in {"streaming", "draining"} /\ pending = <<>>
         /\ stage' = "ended"

\* _process_complete_response(), with the lock held; it is skipped after the
\* clean-up.
OpenAIEnds ==
  /\ provider = "openai" /\ AtEnd
  /\ span' = Ended("ok") /\ completed' = TRUE /\ recorded' = recorded + 1
  /\ UNCHANGED <<provider, text, fault>>

\* It raises on the way, before or after the metrics: @dont_throw hides it.
OpenAIEndRaises ==
  /\ provider = "openai" /\ AtEnd
  /\ recorded' \in {recorded, recorded + 1}
  /\ fault' = "completion"
  /\ UNCHANGED <<provider, text, span, completed>>

\* (Fault: the clean-up does not look at the flag.)
EnsureCleanup_Again == /\ span' = Ended("ok") /\ completed' = completed
                       /\ recorded' = recorded + 1

\* (Fault: the span is marked and not ended.)
EnsureCleanup_LeavesSpan ==
  IF completed THEN UNCHANGED <<span, completed, recorded>>
  ELSE /\ span' = Marked("ok") /\ completed' = TRUE
       /\ recorded' = recorded + 1

\* _ensure_cleanup(): the partial metrics, OK, and the end of the span.
EnsureCleanup ==
  IF completed THEN UNCHANGED <<span, completed, recorded>>
  ELSE /\ span' = Ended("ok") /\ completed' = TRUE
       /\ recorded' = recorded + 1

\* _complete_instrumentation() of AnthropicStream.
AnthropicEnds ==
  /\ provider = "anthropic" /\ AtEnd
  /\ span' = Ended("ok") /\ completed' = TRUE /\ recorded' = recorded + 1
  /\ UNCHANGED <<provider, text, fault>>

\* stream_done() of _handle_stream_call().
InvokeEnds ==
  /\ provider = "invoke" /\ AtEnd
  /\ span' = Ended("unset")
  /\ UNCHANGED <<provider, text, completed, recorded, fault>>

\* It raises before span.end(): @dont_throw hides it.
InvokeEndRaises ==
  /\ provider = "invoke" /\ AtEnd /\ fault' = "completion"
  /\ UNCHANGED <<provider, text, span, completed, recorded>>

\* The end of BedrockConverseSafetyStream.__iter__().
ConverseEnds ==
  /\ provider = "converse" /\ AtEnd
  /\ span' = (IF completed THEN span ELSE Ended("unset")) /\ completed' = TRUE
  /\ UNCHANGED <<provider, text, recorded, fault>>

\* finalize_response() of Google.
GoogleEnds ==
  /\ provider = "google" /\ AtEnd
  /\ span' = Ended("ok")
  /\ UNCHANGED <<provider, text, completed, recorded, fault>>

\* _finalize_streaming_span() and the finally clause.
LiteLLMEnds ==
  /\ provider = "litellm" /\ AtEnd
  /\ span' = Ended("ok")
  /\ UNCHANGED <<provider, text, completed, recorded, fault>>

\* The end of _build_from_streaming_response() of text completions.
CompletionEnds ==
  /\ provider = "completion" /\ AtEnd
  /\ span' = Ended("ok")
  /\ UNCHANGED <<provider, text, completed, recorded, fault>>

\* ResponseStream._process_complete_response().
ResponsesEnds ==
  /\ provider = "responses" /\ AtEnd
  /\ span' = Ended("ok") /\ completed' = TRUE /\ recorded' = recorded + 1
  /\ UNCHANGED <<provider, text, fault>>

\* Something in it raises; the span ends as a failure.
ResponsesEndRaises ==
  /\ provider = "responses" /\ AtEnd
  /\ span' = Ended("error") /\ completed' = TRUE
  /\ fault' = "completion"
  /\ UNCHANGED <<provider, text, recorded>>

\* LlamaIndex's own span is not the wrapper's.
LlamaIndexEnds ==
  /\ provider = "llamaindex" /\ AtEnd
  /\ UNCHANGED <<provider, text, span, completed, recorded, fault>>

StreamEnds == OpenAIEnds \/ OpenAIEndRaises \/ AnthropicEnds \/ InvokeEnds
              \/ InvokeEndRaises \/ ConverseEnds \/ GoogleEnds \/ LiteLLMEnds
              \/ CompletionEnds \/ LlamaIndexEnds \/ ResponsesEnds \/ ResponsesEndRaises

Breaks == /\ stage = "streaming" /\ stage' = "failed" /\ fault' = "stream"
          /\ UNCHANGED <<provider, text>>

\* The provider's iterator raises.  ChatStream cleans up, which ends the span
\* with OK, and sets the error only if the span still records.
OpenAIBreaks == provider = "openai" /\ Breaks /\ EnsureCleanup

\* (Fault: the stream is completed as if it had ended.)
AnthropicBreaks_Completes ==
  /\ provider = "anthropic" /\ Breaks
  /\ span' = Ended("ok") /\ completed' = TRUE /\ recorded' = recorded + 1

\* AnthropicStream.__next__(): the error path; the buffered item stays there.
AnthropicBreaks ==
  /\ provider = "anthropic" /\ Breaks
  /\ span' = Ended("error") /\ completed' = TRUE /\ UNCHANGED recorded

\* The except and finally clauses of LiteLLM's generator.
LiteLLMBreaks ==
  /\ provider = "litellm" /\ Breaks
  /\ span' = Ended("error") /\ UNCHANGED <<completed, recorded>>

\* ResponseStream._handle_exception().
ResponsesBreaks ==
  /\ provider = "responses" /\ Breaks
  /\ span' = Ended("error") /\ completed' = TRUE /\ UNCHANGED recorded

\* The generators of text completions, Bedrock, Google and LlamaIndex catch
\* nothing.
OthersBreak ==
  /\ provider \in {"completion", "invoke", "converse", "google", "llamaindex"}
  /\ Breaks
  /\ UNCHANGED <<span, completed, recorded>>

StreamBreaks == OpenAIBreaks \/ AnthropicBreaks \/ LiteLLMBreaks \/ ResponsesBreaks
                \/ OthersBreak

\* The application stops reading.  LiteLLM's finally clause runs if the
\* generator was started.
Drops ==
  /\ stage \in {"streaming", "draining"} /\ stage' = "dropped"
  /\ span' = IF provider = "litellm" /\ count > 0 THEN Ended("unset") ELSE span
  /\ UNCHANGED <<provider, text, completed, recorded, fault>>

\* Who cleans up when the application is done with the stream.
SelfCleaning == {"openai", "responses"}

\* ChatStream.__exit__() or __del__(), and ResponseStream.__del__().  (A call
\* that failed before it had a stream has nothing to clean up.)
Collect ==
  /\ provider \in SelfCleaning /\ ~completed
  /\ \/ stage \in {"ended", "dropped"}
     \/ stage = "failed" /\ fault \in {"stream", "wrapper"}
  /\ EnsureCleanup
  /\ UNCHANGED <<provider, stage, text, fault>>

\* The clean-up of ResponseStream raises before the span is ended, and takes
\* itself for done.
CollectRaises ==
  /\ provider = "responses" /\ stage = "dropped" /\ ~completed
  /\ completed' = TRUE /\ fault' = "completion"
  /\ UNCHANGED <<provider, stage, text, span, recorded>>

Chunk == \E kind \in Kinds, keys, fresh \in SUBSET Keys :
           \/ OpenAIChunk(kind, keys, fresh)
           \/ OpenAIChunkRaises(kind, keys, fresh)
           \/ LiteLLMChunk(kind, keys, fresh)
           \/ CompletionChunk(kind, keys, fresh)
           \/ ResponsesChunk(kind, keys, fresh)
           \/ BufferedChunk(kind, keys, fresh)
ToolChunk == \E k \in Keys, n \in 0..MaxTool : OpenAITool(k, n) \/ OpenAIToolRaises(k, n)

StreamNext == Chunk \/ ToolChunk \/ LastItem \/ StreamEnds \/ StreamBreaks \/ Drops
              \/ Collect \/ CollectRaises

-----------------------------------------------------------------------------
(* Properties. *)

Pieces(k, n) == [i \in 1..n |-> <<k, i>>]
PendingText(k) == IF pending = <<>> THEN <<>> ELSE pending[1].text[k]

\* Every variable has its type.
TypeOK ==
  /\ provider \in Providers
  /\ stage \in {"calling", "streaming", "draining", "ended", "failed", "returned",
                "dropped", "unwrapped", "bypassed"}
  /\ sent \in [Keys -> Nat] /\ stopped \subseteq Keys /\ block \subseteq Keys
  /\ held \in [Keys -> Seq(Keys \X Nat)] /\ got \in [Keys -> Seq(Keys \X Nat)]
  /\ pending \in Seq([kind : Kinds, keys : SUBSET Keys,
                      text : [Keys -> Seq(Keys \X Nat)]]) /\ Len(pending) <= 1
  /\ span \in [ended : BOOLEAN, status : {"unset", "ok", "error"}]
  /\ count \in Nat /\ orphans \subseteq Keys /\ choices \in 0..Choices
  /\ tools \in [Keys -> Nat] /\ named \subseteq Keys /\ called \subseteq Keys \X (0..MaxTool)
  /\ completed \in BOOLEAN /\ recorded \in Nat
  /\ fault \in {"none", "call", "stream", "wrapper", "completion", "cancelled", "body",
               "bypassed", "pending"}

\* Whatever the sessions hold back and wherever the flushes put it, the text
\* of a choice or block reaches the application, the buffered item and the
\* session once, in order and under its own key.  (LiteLLM mixes the choices
\* when there are several; an item whose processing raised is lost.)
TextConserved ==
  (provider = "litellm" => Choices = 1) /\ fault # "wrapper" =>
    \A k \in Keys : got[k] \o PendingText(k) \o held[k] = Pieces(k, sent[k])

\* When the application has read a stream to its end, nothing is held back
\* any more, but for a choice or part the provider did not finish (OpenAI,
\* LiteLLM), and a block or part after whose last text the provider sent
\* something other than its end: a ping between the last text of a block and
\* its end (Anthropic), or anything but the final item after the last text of a
\* part (Google).
TailsDelivered ==
  stage = "ended" =>
    \A s \in Keys : held[s] # <<>> =>
      \/ provider \in {"openai", "completion", "responses"} /\ s \notin stopped
      \/ provider = "litellm" /\ \E k \in Keys : sent[k] > 0 /\ k \notin stopped
      \/ provider \in {"anthropic", "google"} /\ s \in orphans

\* The application gets the text it was sent, all of it where the stream was
\* read to its end.
TextDelivered == TextConserved /\ TailsDelivered

\* The metrics of a response are recorded at most once, however the stream
\* ends and whoever cleans up, unless completing it raised half-way.
RecordedOnce == recorded > 1 => fault = "completion"

\* The spans that are left open when the application is done with the call:
\* OpenAI's until the clean-up; one whose provider call raised (Anthropic,
\* Bedrock) or was cancelled; a stream that broke (text completions, Bedrock,
\* Google) or was dropped (those, Anthropic, and LiteLLM before the first
\* item); one whose completion raised (Bedrock, Responses) or whose response
\* is still in progress; and that of a stream of Bedrock that goes back as it
\* came, because the body of an InvokeModel request is not JSON or the span of
\* a Converse call does not record.
SpansLeftOpen ==
  stage \in {"ended", "failed", "returned", "dropped", "unwrapped"}
  /\ ~span.ended /\ provider \notin Frameworks =>
       \/ provider \in SelfCleaning /\ ~completed /\ fault # "call"
       \/ provider \in {"anthropic", "invoke", "converse"} /\ fault = "call"
       \/ fault = "cancelled" /\ provider # "embeddings"
       \/ provider \in {"completion", "invoke", "converse", "google"} /\ fault = "stream"
       \/ provider \in {"completion", "anthropic", "invoke", "converse", "google"}
          /\ stage = "dropped"
       \/ provider = "litellm" /\ stage = "dropped" /\ count = 0
       \/ provider \in {"invoke", "responses"} /\ fault = "completion"
       \/ fault = "pending"
       \/ provider \in {"invoke", "converse"} /\ stage = "unwrapped"

\* No call that failed is reported as a success, but for an OpenAI stream.
FailureNotOk ==
  fault \in {"call", "stream", "cancelled"} /\ provider # "openai" => span.status # "ok"

\* The wrapper fails a stream of its own accord only when a choice, or a tool
\* call of a choice, comes before one with a lower index.
OnlyProviderFails ==
  fault = "wrapper" =>
    \/ \E k \in named, j \in Keys : j < k /\ j \notin named
    \/ \E c \in called, m \in 0..MaxTool : m < c[2] /\ <<c[1], m>> \notin called

\* What the traces tell of a stream is right: metrics are not counted twice,
\* open spans and failures are those listed, whatever happens to the stream.
TracesTell ==
  TypeOK /\ RecordedOnce /\ SpansLeftOpen /\ FailureNotOk /\ OnlyProviderFails

\* Once the application is done with a stream of OpenAI, its span ends,
\* whether the stream was read, broke, was dropped, or completing it raised,
\* unless the clean-up of ResponseStream itself raises.
SpanEventually ==
  /\ provider \in SelfCleaning /\ stage \in {"ended", "failed", "dropped"}
  /\ fault # "cancelled"
  ~> span.ended \/ (provider = "responses" /\ fault = "completion")

(* Claims of the repository that the code does not keep. *)

\* "We close the span manually": a span whose call raised is ended.
FailedCallEndsSpan == fault = "call" => span.ended

\* A stream that broke is reported as an error.
BrokenStreamIsError ==
  fault = "stream" /\ span.ended => span.status = "error"
=============================================================================
