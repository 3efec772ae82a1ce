---------------------------- MODULE AssistantStream ----------------------------
(***************************************************************************)
(* One streamed run of OpenAI's Assistants API: the wrapper of             *)
(* runs.create_and_stream(), and EventHandleWrapper, which stands between  *)
(* the SDK and the application's event handler, with the streaming safety  *)
(* of its texts.                                                           *)
(*                                                                         *)
(* A message has one or more blocks of text; a text is a sequence of       *)
(* pieces <<message, block, n>>.  The application's handler may raise from *)
(* any callback.                                                           *)
(***************************************************************************)
EXTENDS Naturals, Sequences

CONSTANTS MaxMessages,  \* bound: messages of the run
          MaxBlocks,    \* bound: blocks of text of a message
          MaxPieces     \* bound: pieces of a text

VARIABLES
  stage,        \* what the SDK does next
  message,      \* number of the message that is being received
  block,        \* number of the block of text, 0 between messages
  sent,         \* pieces of this block the provider has sent
  text_index,   \* _current_text_index
  holding,      \* what the streaming session of text_index holds back
  accumulated,  \* _accumulated_text[text_index], <<>> if there is none
  shown,        \* shown[m]: what on_text_done showed, a text per block
  finals,       \* finals[m]: what on_message_done showed, likewise
  steps,        \* token counts that on_run_step_done has added up
  usage,        \* whether the span carries the counts
  span          \* [ended, status] of the span openai.assistant.run_stream

assistantStream == <<stage, message, block, sent, text_index, holding, accumulated,
                     shown, finals, steps, usage, span>>
texts == <<message, block, sent, text_index, holding, accumulated, shown, finals>>

Messages == 1..MaxMessages
Raw == <<<<0, 0, 0>>>>  \* a text that was not screened

Init ==
  /\ stage = "calling" /\ message = 0 /\ block = 0 /\ sent = 0
  /\ text_index = 0 /\ holding = <<>> /\ accumulated = <<>>
  /\ shown = [m \in Messages |-> <<>>] /\ finals = [m \in Messages |-> <<>>]
  /\ steps = 0 /\ usage = FALSE
  /\ span = [ended |-> 0, status |-> "unset"]

-----------------------------------------------------------------------------
(* runs_create_and_stream_wrapper() *)

\* A call without an event handler, which the SDK allows, does not get to
\* the SDK: KeyError, outside of the try that would end the span.
NoHandler ==
  /\ stage = "calling" /\ stage' = "broken"
  /\ UNCHANGED <<texts, steps, usage, span>>

Call ==
  /\ stage = "calling"
  /\ \/ stage' = "events" /\ UNCHANGED span
     \/ stage' = "raised" /\ span' = [ended |-> 1, status |-> "error"]
  /\ UNCHANGED <<texts, steps, usage>>

-----------------------------------------------------------------------------
(* The callbacks.  One that raises in the application's handler comes back *)
(* to the SDK, as a broken connection does.                                *)

Raises(next) == stage' \in {next, "exception"}

TextCreated ==
  /\ stage = "events"
  /\ \/ message < MaxMessages /\ block = 0 /\ message' = message + 1 /\ block' = 1
     \/ block \in 1..(MaxBlocks - 1) /\ block' = block + 1 /\ UNCHANGED message
  /\ sent' = 0 /\ Raises("text")
  /\ UNCHANGED <<text_index, holding, accumulated, shown, finals, steps, usage, span>>

\* on_text_delta(): the delta becomes what the session hands out, and the
\* snapshot all it has handed out.
TextDelta ==
  /\ stage = "text" /\ sent < MaxPieces /\ sent' = sent + 1 /\ Raises("text")
  /\ LET whole == Append(holding, <<message, block, sent + 1>>)
     IN \E kept \in 0..Len(whole) :
          /\ holding' = SubSeq(whole, Len(whole) - kept + 1, Len(whole))
          /\ accumulated' = accumulated \o SubSeq(whole, 1, Len(whole) - kept)
  /\ UNCHANGED <<message, block, text_index, shown, finals, steps, usage, span>>

\* (Fault: what the session holds back is left in it.)
Flushed_Keeps == accumulated

\* flush_text()
Flushed == accumulated \o holding

\* on_text_done(): the text becomes all that was handed out under its index.
TextDone ==
  /\ stage = "text" /\ sent > 0 /\ Raises("events")
  /\ holding' = <<>> /\ accumulated' = Flushed
  /\ shown' = [shown EXCEPT ![message] = Append(@, Flushed)]
  /\ UNCHANGED <<message, block, sent, text_index, finals, steps, usage, span>>

\* on_message_done(): the first block with a text becomes that, the others
\* stay what they are.  The index only moves on if the handler returns.
MessageDone ==
  /\ stage = "events" /\ block > 0 /\ Raises("events")
  /\ finals' = [finals EXCEPT ![message] = [b \in 1..block |-> IF b = 1 THEN accumulated ELSE Raw]]
  /\ block' = 0
  /\ IF stage' = "events" THEN text_index' = text_index + 1 /\ accumulated' = <<>>
                          ELSE UNCHANGED <<text_index, accumulated>>
  /\ UNCHANGED <<message, sent, holding, shown, steps, usage, span>>

RunStepDone ==
  /\ stage = "events" /\ block = 0 /\ steps < MaxMessages /\ Raises("events")
  /\ steps' = steps + 1
  /\ UNCHANGED <<texts, usage, span>>

\* The connection breaks, or times out (on_timeout changes nothing).
Break ==
  /\ stage \in {"events", "text"} /\ stage' = "exception"
  /\ UNCHANGED <<texts, steps, usage, span>>

\* on_exception(): the span is marked, and not ended.
OnException ==
  /\ stage = "exception" /\ stage' = "end"
  /\ span' = [span EXCEPT !.status = "error"]
  /\ UNCHANGED <<texts, steps, usage>>

Exhausted ==
  /\ stage = "events" /\ block = 0 /\ stage' = "end"
  /\ UNCHANGED <<texts, steps, usage, span>>

\* on_end(), which the SDK calls however the stream ended: the span ends
\* unless the application's on_end raises.
OnEnd ==
  /\ stage = "end" /\ usage' = TRUE
  /\ \/ stage' = "finished" /\ span' = [span EXCEPT !.ended = @ + 1]
     \/ stage' = "broken" /\ UNCHANGED span
  /\ UNCHANGED <<texts, steps>>

Next ==
  \/ NoHandler \/ Call
  \/ TextCreated \/ TextDelta \/ TextDone \/ MessageDone \/ RunStepDone
  \/ Break \/ OnException \/ Exhausted \/ OnEnd

Spec == Init /\ [][Next]_assistantStream

-----------------------------------------------------------------------------
(* Properties. *)

Pieces == Messages \X (1..MaxBlocks) \X (1..MaxPieces)

TypeOK ==
  /\ stage \in {"calling", "broken", "raised", "events", "text", "exception", "end", "finished"}
  /\ message \in 0..MaxMessages /\ block \in 0..MaxBlocks /\ sent \in 0..MaxPieces
  /\ text_index \in 0..MaxMessages
  /\ holding \in Seq(Pieces) /\ accumulated \in Seq(Pieces)
  /\ shown \in [Messages -> Seq(Seq(Pieces))]
  /\ finals \in [Messages -> Seq(Seq(Pieces) \cup {Raw})]
  /\ steps \in 0..MaxMessages /\ usage \in BOOLEAN
  /\ span \in [ended : 0..1, status : {"unset", "error"}]

\* A stream that the SDK has brought to its end has ended its span, whichever
\* callback raised on the way, except the last one, and with the counts of
\* the finished steps.  The span tells an error if the call failed, or if the
\* run was left within a message (EventHandleWrapper).
StreamAccounted ==
  /\ span.ended = 1 <=> stage \in {"raised", "finished"}
  /\ stage = "finished" => usage
  /\ stage = "raised" => span.status = "error"
  /\ (stage \in {"end", "finished"} /\ block > 0) => span.status = "error"

\* The text of a message is shown whole and in order when it is done, however
\* much of it the session had held back, and the text of another message is
\* not mixed into it (flush_text, _current_text_index).
ShownWhole ==
  \A m \in Messages : Len(shown[m]) > 0 =>
    LET first == shown[m][1]
    IN /\ Len(first) > 0 /\ first = [n \in 1..Len(first) |-> <<m, 1, n>>]
       /\ (m = message /\ block = 1 /\ stage = "events") => Len(first) = sent

\* A message of one text is the same when the text is done and when the
\* message is (apply_message_safety).
MessageAsShown ==
  \A m \in Messages : Len(finals[m]) = 1 => finals[m] = shown[m]

-----------------------------------------------------------------------------
(* Claims that the code does not keep. *)

\* Each block of a message is shown its own text.
BlockAsSent ==
  \A m \in Messages : \A b \in DOMAIN shown[m] :
    \A i \in DOMAIN shown[m][b] : shown[m][b][i][2] = b

\* All that is shown was screened ("Masking is applied before the instrumented
\* provider/framework returns the text", src/README.md:92).
AllScreened == \A m \in Messages : \A b \in DOMAIN finals[m] : finals[m][b] # Raw

\* No span is left open.
StreamEndsSpan == stage = "broken" => span.ended = 1
=============================================================================
