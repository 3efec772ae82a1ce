---------------------------- MODULE RealtimeSession ----------------------------
(***************************************************************************)
(* One connection of OpenAI's Realtime API through its wrappers.  The      *)
(* application's tasks send items, ask for responses, cancel them and      *)
(* receive, by recv() or by iterating; the server may also begin responses *)
(* by itself, several at once, and report errors at any time.              *)
(*                                                                         *)
(* RealtimeSessionState holds one response span, one response identifier   *)
(* and one accumulated text, whatever response an event belongs to.  Text  *)
(* is a sequence of pieces <<response, n>>; texts and audio transcripts    *)
(* are treated alike.  Handlers run between two awaits, so each is a step. *)
(***************************************************************************)
EXTENDS Naturals, Sequences

CONSTANTS Responses,  \* 1..n: the responses the server may begin
          MaxPieces,  \* bound: pieces of text in a response
          MaxSpans    \* bound: response spans

VARIABLES
  connection,   \* "none", "open", "ended", "refused"
  sessionSpan,  \* [ended, status]
  spans,        \* the response spans so far: [ended, status, prompt, told, of]
  current,      \* state.response_span: an index, 0 for None
  current_id,   \* state.current_response_id, 0 for None
  accumulated,  \* state.accumulated_text
  input_text,   \* whether state.input_text holds the text of an item
  holding,      \* holding[k]: what the streaming session of key k holds back
  tails,        \* tails[k]: what response.done flushed out of it
  server,       \* server[r]: [state, sent]
  undisturbed   \* history: what the current span will tell, if nothing mixes

realtimeState == <<connection, sessionSpan, spans, current, current_id, accumulated,
                   input_text, holding, tails, server, undisturbed>>
texts == <<accumulated, holding, tails>>

NoText == [k \in {0} \cup Responses |-> <<>>]
Active == {r \in Responses : server[r].state = "active"}

Init ==
  /\ connection = "none" /\ sessionSpan = [ended |-> FALSE, status |-> "unset"]
  /\ spans = <<>> /\ current = 0 /\ current_id = 0
  /\ accumulated = <<>> /\ input_text = FALSE
  /\ holding = NoText /\ tails = NoText
  /\ server = [r \in Responses |-> [state |-> "none", sent |-> 0]]
  /\ undisturbed = "nothing"

-----------------------------------------------------------------------------
(* RealtimeConnectionManagerWrapper, and the ends of a connection. *)

\* __aenter__: the span of the session is there before the connection is, and
\* stays if there will be none.
Enter ==
  /\ connection = "none" /\ connection' \in {"open", "refused"}
  /\ UNCHANGED <<sessionSpan, spans, current, current_id, texts, input_text,
                 server, undisturbed>>

SessionEnds(status) == sessionSpan' = [ended |-> TRUE, status |-> status]

\* close() ends the span of the session, and nothing else.
Close ==
  /\ connection = "open" /\ connection' = "ended" /\ SessionEnds("ok")
  /\ UNCHANGED <<spans, current, current_id, texts, input_text, server, undisturbed>>

\* __aexit__ of the manager, with and without an error.  (After close() it
\* finds the span ended, and changes nothing.)
Leave ==
  /\ connection = "open" /\ connection' = "ended"
  /\ \E status \in {"ok", "error"} : SessionEnds(status)
  /\ UNCHANGED <<spans, current, current_id, texts, input_text, server, undisturbed>>

-----------------------------------------------------------------------------
(* The span of a response. *)

EndSpan(status, text, of) ==
  [spans EXCEPT ![current] = [ended |-> @.ended + 1, status |-> status,
                              prompt |-> @.prompt, told |-> text, of |-> of]]

\* (Fault: the text stays for the next response.)
Reset_KeepsText ==
  /\ current' = 0 /\ current_id' = 0
  /\ input_text' = FALSE /\ UNCHANGED accumulated

\* reset_response_state()
Reset ==
  /\ current' = 0 /\ current_id' = 0
  /\ input_text' = FALSE /\ accumulated' = <<>>

\* The connection's own __aexit__, when it is used as a context manager: an
\* error ends the span of the response too, but _end_session_span then says
\* that the session was fine.
LeaveConnection ==
  /\ connection = "open" /\ connection' = "ended" /\ SessionEnds("ok")
  /\ \/ current # 0 /\ spans' = EndSpan("error", <<>>, {}) /\ Reset
     \/ UNCHANGED <<spans, current, current_id, accumulated, input_text>>
  /\ UNCHANGED <<holding, tails, server, undisturbed>>

NewSpan(prompt) == [ended |-> 0, status |-> "unset", prompt |-> prompt,
                    told |-> <<>>, of |-> {}]

\* A span that begins while nothing else goes on.
Undisturbed(text) == IF Active = {} /\ text = <<>> THEN "nothing" ELSE "mixed"

\* start_response_span(end_existing, set_input): for a response.create, by
\* send() or response.create(), a span that is there is ended first, which
\* also forgets the input that was just added.
CreateResponse ==
  /\ connection = "open" /\ Len(spans) < MaxSpans
  /\ IF current = 0
       THEN /\ spans' = Append(spans, NewSpan(input_text))
            /\ undisturbed' = Undisturbed(accumulated)
            /\ UNCHANGED <<accumulated, current_id, input_text>>
       ELSE /\ spans' = Append(EndSpan("ok", <<>>, {}), NewSpan(FALSE))
            /\ undisturbed' = Undisturbed(<<>>)
            /\ accumulated' = <<>> /\ current_id' = 0 /\ input_text' = FALSE
  /\ current' = Len(spans) + 1
  /\ holding' = NoText /\ tails' = NoText
  /\ UNCHANGED <<connection, sessionSpan, server>>

\* cancel(): after the await, whatever span is there now is ended.
Cancel ==
  /\ connection = "open" /\ current # 0
  /\ spans' = EndSpan("ok", <<>>, {}) /\ Reset
  /\ UNCHANGED <<connection, sessionSpan, holding, tails, server, undisturbed>>

\* conversation.item.create, by send() or item.create().
AddItem ==
  /\ connection = "open" /\ input_text' = TRUE
  /\ UNCHANGED <<connection, sessionSpan, spans, current, current_id, texts,
                 server, undisturbed>>

-----------------------------------------------------------------------------
(* RealtimeEventProcessor.expand_and_process_event(), for recv() and for   *)
(* the iterator: the event is first given to RealtimeStreamingSafety, which *)
(* returns that one event again, and then to its handler.                   *)

\* handle_response_created(): only the iterator asks for a span.
Created(r, start_span_if_none) ==
  LET starts == start_span_if_none /\ current = 0
  IN /\ connection = "open" /\ server[r].state = "none"
     /\ \A q \in Responses : q < r => server[q].state # "none"
     /\ starts => Len(spans) < MaxSpans
     /\ server' = [server EXCEPT ![r].state = "active"]
     /\ spans' = IF starts THEN Append(spans, NewSpan(FALSE)) ELSE spans
     /\ current' = IF starts THEN Len(spans) + 1 ELSE current
     /\ current_id' = r
     /\ holding' = NoText /\ tails' = NoText
     /\ undisturbed' = IF (IF starts THEN Undisturbed(accumulated) ELSE undisturbed) = "nothing"
                         THEN "response" ELSE "mixed"
     /\ UNCHANGED <<connection, sessionSpan, accumulated, input_text>>

\* A session holds back an end of what it has (TextSession).
Divided(whole, kept) == SubSeq(whole, 1, Len(whole) - kept)
Rest(whole, kept) == SubSeq(whole, Len(whole) - kept + 1, Len(whole))

\* response.text.delta: the session is that of the identifier in the state,
\* not of the one in the event.
TextDelta(r) ==
  /\ connection = "open" /\ r \in Active /\ server[r].sent < MaxPieces
  /\ server' = [server EXCEPT ![r].sent = @ + 1]
  /\ LET whole == Append(holding[current_id], <<r, server[r].sent + 1>>)
     IN \E kept \in 0..Len(whole) :
          /\ holding' = [holding EXCEPT ![current_id] = Rest(whole, kept)]
          /\ accumulated' = accumulated \o Divided(whole, kept)
  /\ UNCHANGED <<connection, sessionSpan, spans, current, current_id, input_text,
                 tails, undisturbed>>

\* response.done: the session is flushed, for the span alone; without a span
\* nothing is reset.
Done(r) ==
  /\ connection = "open" /\ r \in Active
  /\ server' = [server EXCEPT ![r].state = "done"]
  /\ holding' = [holding EXCEPT ![current_id] = <<>>]
  /\ IF current = 0
       THEN /\ tails' = [tails EXCEPT ![current_id] = holding[current_id]]
            /\ UNCHANGED <<spans, current, current_id, accumulated, input_text>>
       ELSE /\ tails' = [tails EXCEPT ![current_id] = <<>>]
            /\ spans' = EndSpan("ok", accumulated \o holding[current_id],
                                IF undisturbed = "response" THEN {r} ELSE {})
            /\ Reset
  /\ UNCHANGED <<connection, sessionSpan, undisturbed>>

\* An error event, which need not be about a response.
ErrorEvent ==
  /\ connection = "open" /\ current # 0
  /\ spans' = EndSpan("error", <<>>, {}) /\ Reset
  /\ UNCHANGED <<connection, sessionSpan, holding, tails, server, undisturbed>>

-----------------------------------------------------------------------------
Next ==
  \/ Enter \/ Close \/ Leave \/ LeaveConnection
  \/ CreateResponse \/ Cancel \/ AddItem \/ ErrorEvent
  \/ \E r \in Responses :
       \/ \E start_span_if_none \in BOOLEAN : Created(r, start_span_if_none)
       \/ TextDelta(r) \/ Done(r)

Spec == Init /\ [][Next]_realtimeState

-----------------------------------------------------------------------------
(* Properties. *)

Pieces == Responses \X (1..MaxPieces)
Numbered == DOMAIN spans

TypeOK ==
  /\ connection \in {"none", "open", "ended", "refused"}
  /\ sessionSpan \in [ended : BOOLEAN, status : {"unset", "ok", "error"}]
  /\ spans \in Seq([ended : Nat, status : {"unset", "ok", "error"}, prompt : BOOLEAN,
                    told : Seq(Pieces), of : SUBSET Responses])
  /\ current \in 0..Len(spans) /\ current_id \in {0} \cup Responses
  /\ accumulated \in Seq(Pieces) /\ input_text \in BOOLEAN
  /\ holding \in [{0} \cup Responses -> Seq(Pieces)]
  /\ tails \in [{0} \cup Responses -> Seq(Pieces)]
  /\ server \in [Responses -> [state : {"none", "active", "done"}, sent : 0..MaxPieces]]
  /\ undisturbed \in {"nothing", "response", "mixed"}

\* A response span that is not the current one has ended, once; the current
\* one has not, so that no order of requests, events and errors loses a span
\* while the connection lives (start_response_span, reset_response_state).
OneOpenSpan ==
  \A s \in Numbered : spans[s].ended = IF s = current THEN 0 ELSE 1

\* The span of the session ends with the connection, and not before.
SessionAccounted == sessionSpan.ended <=> connection = "ended"

\* What a span tells, and, for 0, what waits to be told.
Told(s) == IF s = 0 THEN accumulated ELSE spans[s].told

\* No piece of text is told by two spans, or twice by one, and none is both
\* told and still waiting to be (reset_response_state, consume_done_tails).
ToldOnce ==
  \A s, t \in 0..Len(spans) : \A i \in DOMAIN Told(s), j \in DOMAIN Told(t) :
    Told(s)[i] = Told(t)[j] => s = t /\ i = j

\* A response that has the session to itself from its span's beginning to
\* its end is told by this span: all of it, also the end that the streaming
\* safety held back until response.done, and nothing else
\* (handle_response_created, handle_text_delta, handle_response_done).
ToldWhole ==
  \A s \in Numbered : \A r \in spans[s].of :
    spans[s].told = [n \in 1..server[r].sent |-> <<r, n>>]

-----------------------------------------------------------------------------
(* Claims that the code does not keep. *)

\* What was held back is given to the application in the end ("masked deltas
\* split into multiple events ... are queued", realtime_wrappers.py:23-24).
TailGiven ==
  [][\A r \in Responses : Done(r) => holding[current_id] = <<>>]_realtimeState

\* A span tells the text of one response.
OneResponsePerSpan ==
  \A s \in Numbered : \A i, j \in DOMAIN spans[s].told :
    spans[s].told[i][1] = spans[s].told[j][1]

\* A session that was left by an error has an error as its status, and no
\* response span outlives it.
NoSpanOutlivesSession == connection = "ended" => current = 0

\* Input that was added is the prompt of the response that is then asked for.
PromptKept ==
  [][CreateResponse /\ input_text => spans'[current'].prompt]_realtimeState
=============================================================================
