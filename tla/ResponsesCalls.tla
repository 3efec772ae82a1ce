---------------------------- MODULE ResponsesCalls ----------------------------
(***************************************************************************)
(* The OpenAI Responses API through its wrappers: responses that are       *)
(* created, fetched again, continued by a stream and cancelled by several  *)
(* threads or tasks at once, and the module's dictionary `responses`,      *)
(* which carries what is known of a response from one call to the next.    *)
(*                                                                         *)
(* No lock guards the dictionary.  A call reads it after the provider has  *)
(* answered, builds new data from what it read, and writes it back; only   *)
(* the ends of one stream exclude each other, by a lock and a flag.        *)
(***************************************************************************)
EXTENDS Naturals, FiniteSets

CONSTANTS Calls,   \* the calls of the wrapped methods; also their contexts
          Ids      \* the identifiers that the provider may give a response

VARIABLES
  responses,  \* responses[i]: <<>> or <<traced data>>
  foreign,    \* responses that other processes made
  server,     \* server[i]: the provider's side of the response
  call,       \* call[c]: [pc, kind, id, tools, input, status]
  held,       \* held[c]: the data that the call read, <<>> if none
  seen,       \* seen[c]: what the chunks of a stream have told
  cleaned,    \* streams whose _cleanup_completed is set
  span,       \* span[c]: [on, ends, status, usage, parent]
  first,      \* history: how a stream ended first
  early,      \* history: responses stored without their usage
  stored      \* history: how often a response was put into the dictionary

vars == <<responses, foreign, server, call, held, seen, cleaned, span, first, early, stored>>
stream == <<foreign, seen, cleaned, first>>

Kinds == {"create", "retrieve", "cancel", "stream"}
Unused == [on |-> FALSE, ends |-> 0, status |-> "unset", usage |-> FALSE, parent |-> {}]

Init ==
  /\ responses = [i \in Ids |-> <<>>]
  /\ foreign \in SUBSET Ids
  /\ server \in [Ids -> {"none", "working", "completed"}]
  /\ \A i \in Ids : i \in foreign <=> server[i] # "none"
  /\ call = [c \in Calls |-> [pc |-> "idle", kind |-> "create", id |-> {},
                              tools |-> FALSE, input |-> FALSE, status |-> "none"]]
  /\ held = [c \in Calls |-> <<>>]
  /\ seen = [c \in Calls |-> "nothing"] /\ cleaned = {}
  /\ span = [c \in Calls |-> Unused]
  /\ first = [c \in Calls |-> "none"]
  /\ early = {} /\ stored = [i \in Ids |-> 0]

\* TracedData, of which the properties tell apart: whether input, tools and
\* usage are there or None, and the trace context, {} for None.
Data(input, tools, usage, context) ==
  [input |-> input, tools |-> tools, usage |-> usage, context |-> context]

At(c, pc) == call[c].pc = pc
Goto(c, pc) == call' = [call EXCEPT ![c].pc = pc]
Ended(c, status, usage) ==
  [span EXCEPT ![c] = [on |-> @.on, ends |-> @.ends + 1, status |-> status, usage |-> usage,
                       parent |-> @.parent]]
Store(i, data) ==
  /\ responses' = [responses EXCEPT ![i] = <<data>>]
  /\ stored' = [stored EXCEPT ![i] = @ + 1]
  /\ early' = IF data.usage THEN early ELSE early \cup {i}

-----------------------------------------------------------------------------
(* The provider, and the beginning of a call. *)

\* External: a background response is completed.  One that fails is one that
\* never is; no wrapper tells it from one that is worked on.
ServerFinishes(i) ==
  /\ server[i] = "working" /\ server' = [server EXCEPT ![i] = "completed"]
  /\ UNCHANGED <<responses, call, held, stream, span, early, stored>>

\* The application knows a response from another process, from a create
\* that has returned, or from a chunk.
Tells(c) ==
  \/ call[c].kind = "create" /\ call[c].pc = "returned"
  \/ call[c].kind = "stream" /\ seen[c] # "nothing"
Known == foreign \cup UNION {call[c].id : c \in {d \in Calls : Tells(d)}}

\* A retrieve and a cancel name a response, a stream may continue one.
Names(k, i) ==
  \/ k \in {"create", "stream"} /\ i = {}
  \/ k # "create" /\ \E j \in Known : i = {j}

\* The wrappers open the span before the request; cancel opens none.  A
\* create may do without an input, when it names a prompt that the provider
\* keeps; a stream without one has an empty input.
Begin(c, k, i, tools, input) ==
  /\ At(c, "idle") /\ Names(k, i)
  /\ (tools => k \in {"create", "stream"}) /\ (input => k = "create")
  /\ call' = [call EXCEPT ![c] = [@ EXCEPT !.pc = "calling", !.kind = k,
                                  !.id = i, !.tools = tools, !.input = input]]
  /\ span' = [span EXCEPT ![c].on = k # "cancel"]
  /\ UNCHANGED <<responses, server, held, stream, early, stored>>

\* (Fault: the handler re-raises and leaves the span to nobody.)
Fail_LeavesSpan(c) ==
  /\ At(c, "calling") /\ Goto(c, "raised") /\ UNCHANGED span
  /\ UNCHANGED <<responses, server, held, stream, early, stored>>

\* The request fails, and names no entry by keyword: the span records the
\* error, if there is one.
Fail(c) ==
  /\ At(c, "calling") /\ Goto(c, "raised")
  /\ span' = IF span[c].on THEN Ended(c, "error", FALSE) ELSE span
  /\ UNCHANGED <<responses, server, held, stream, early, stored>>

\* The request of a retrieve fails, and there is an entry of its response.
FailFinds(c) ==
  /\ At(c, "calling") /\ call[c].kind \in {"retrieve", "stream"}
  /\ \E i \in call[c].id : responses[i] # <<>>
  /\ Goto(c, "failing")
  /\ UNCHANGED <<responses, server, held, stream, span, early, stored>>

\* The entry is read, which a cancel may have taken out meanwhile: KeyError.
\* The span gets the error and the entry's data, which stops the wrapper if
\* its input is None; else, or if there is no data to be made of it, it ends.
FailTells(c) ==
  /\ At(c, "failing")
  /\ \E i \in call[c].id :
       /\ held' = [held EXCEPT ![c] = responses[i]]
       /\ IF responses[i] = <<>> THEN Goto(c, "broken") /\ UNCHANGED span
          ELSE \/ Goto(c, "raised") /\ span' = Ended(c, "error", FALSE)
               \/ IF responses[i][1].input
                    THEN Goto(c, "raised") /\ span' = Ended(c, "error", responses[i][1].usage)
                    ELSE Goto(c, "broken") /\ span' = [span EXCEPT ![c].status = "error"]
  /\ UNCHANGED <<responses, server, stream, early, stored>>

\* A task is cancelled while it waits, for the provider or for the screening
\* of the answer: CancelledError is no Exception, and nobody ends the span.
Interrupt(c) ==
  /\ At(c, "calling") \/ At(c, "answered")
  /\ Goto(c, "interrupted")
  /\ UNCHANGED <<responses, server, held, stream, span, early, stored>>

-----------------------------------------------------------------------------
(* responses_get_or_create_wrapper(), and its asynchronous twin. *)

\* The answer to a create or a retrieve, which may be outdated when it
\* arrives.
Answer(c) ==
  /\ At(c, "calling")
  /\ \/ /\ call[c].kind = "create"
        /\ \E i \in Ids, s \in {"working", "completed"} :
             /\ server[i] = "none" /\ server' = [server EXCEPT ![i] = s]
             /\ call' = [call EXCEPT ![c] = [@ EXCEPT !.pc = "answered", !.id = {i},
                                             !.status = s]]
     \/ /\ call[c].kind = "retrieve"
        /\ \E i \in call[c].id :
             call' = [call EXCEPT ![c] = [@ EXCEPT !.pc = "answered",
                                          !.status = server[i]]]
        /\ UNCHANGED server
  /\ UNCHANGED <<responses, held, stream, span, early, stored>>

\* The entry is read.  One that was stored without tools holds None, to
\* which no list can be added: TypeError, and nobody ends the span.
Merge(c) ==
  /\ At(c, "answered")
  /\ \E i \in call[c].id :
       /\ held' = [held EXCEPT ![c] = responses[i]]
       /\ Goto(c, IF responses[i] # <<>> /\ ~responses[i][1].tools
                    THEN "broken" ELSE "merged")
  /\ UNCHANGED <<responses, server, stream, span, early, stored>>

\* What was read wins over the answer, and over the request.
Merged(c) ==
  IF held[c] = <<>> THEN Data(call[c].input, call[c].tools,
                              call[c].status = "completed", {c})
  ELSE [held[c][1] EXCEPT !.tools = TRUE]

\* (Fault: the span ends whatever the status is, and at completion again.)
Keep_EndsTwice(c) ==
  /\ At(c, "merged") /\ Goto(c, "returned")
  /\ \E i \in call[c].id : Store(i, Merged(c))
  /\ span' = [span EXCEPT ![c].ends = IF call[c].status = "completed" THEN 2 ELSE 1]
  /\ UNCHANGED <<server, held, stream>>

\* The new data is stored; if the response is complete the span gets its
\* attributes, which cannot be made of an input that is None, and ends.
Keep(c) ==
  /\ At(c, "merged")
  /\ \E i \in call[c].id : Store(i, Merged(c))
  /\ IF call[c].status # "completed" THEN Goto(c, "returned") /\ UNCHANGED span
     ELSE IF Merged(c).input
       THEN Goto(c, "returned") /\ span' = Ended(c, "unset", Merged(c).usage)
       ELSE Goto(c, "broken") /\ UNCHANGED span
  /\ UNCHANGED <<server, held, stream>>

\* The data cannot be built.
KeepFails(c) ==
  /\ At(c, "merged") /\ Goto(c, "unkept")
  /\ span' = Ended(c, "unset", FALSE)
  /\ UNCHANGED <<responses, server, held, stream, early, stored>>

-----------------------------------------------------------------------------
(* responses_cancel_wrapper(), and its asynchronous twin. *)

CancelAnswer(c) ==
  /\ At(c, "calling") /\ call[c].kind = "cancel" /\ Goto(c, "cancelled")
  /\ \E i \in call[c].id :
       server' = [server EXCEPT ![i] = IF @ = "working" THEN "cancelled" ELSE @]
  /\ UNCHANGED <<responses, held, stream, span, early, stored>>

\* (Fault: the entry is looked at and stays.)
Pop_Gets(c) ==
  /\ At(c, "cancelled") /\ Goto(c, "returned")
  /\ \E i \in call[c].id :
       span' = IF responses[i] = <<>> THEN span
               ELSE [span EXCEPT ![c] = [@ EXCEPT !.on = TRUE, !.ends = @ + 1]]
  /\ UNCHANGED <<responses, server, held, stream, early, stored>>

\* The entry is taken out, and makes a span in the context it carries.
Pop(c) ==
  /\ At(c, "cancelled")
  /\ \E i \in call[c].id :
       /\ responses' = [responses EXCEPT ![i] = <<>>]
       /\ IF responses[i] = <<>> THEN Goto(c, "returned") /\ UNCHANGED span
          ELSE LET data == responses[i][1] IN
            /\ Goto(c, IF data.input THEN "returned" ELSE "broken")
            /\ span' = [span EXCEPT ![c] =
                 [on |-> TRUE, ends |-> IF data.input THEN @.ends + 1 ELSE @.ends,
                  status |-> @.status, usage |-> data.usage,
                  parent |-> IF data.context = {} THEN {c} ELSE data.context]]
  /\ UNCHANGED <<server, held, stream, early, stored>>

-----------------------------------------------------------------------------
(* ResponseStream. *)

\* The constructor takes over what is known of the response it continues.
Open(c) ==
  /\ At(c, "calling") /\ call[c].kind = "stream"
  /\ held' = [held EXCEPT ![c] =
                IF \E j \in call[c].id : responses[j] # <<>>
                  THEN responses[CHOOSE j \in call[c].id : TRUE] ELSE <<>>]
  /\ \E i \in Ids :
       /\ server[i] = "none" /\ server' = [server EXCEPT ![i] = "working"]
       /\ call' = [call EXCEPT ![c] = [@ EXCEPT !.pc = "reading", !.id = {i}]]
  /\ UNCHANGED <<responses, stream, span, early, stored>>

\* A chunk carries the response as it is: at first, or complete.
Chunk(c) ==
  /\ At(c, "reading")
  /\ \E i \in call[c].id :
       \/ seen[c] = "nothing" /\ seen' = [seen EXCEPT ![c] = "begun"]
       \/ /\ seen[c] = "begun" /\ server[i] = "completed"
          /\ seen' = [seen EXCEPT ![c] = "complete"]
  /\ UNCHANGED <<responses, foreign, server, call, held, cleaned, span, first,
                 early, stored>>

\* The data of the stream: its own usage over the one it took over.
Streamed(c) ==
  Data(held[c] = <<>> \/ held[c][1].input,
       call[c].tools \/ (held[c] # <<>> /\ held[c][1].tools),
       seen[c] = "complete" \/ (held[c] # <<>> /\ held[c][1].usage),
       IF held[c] = <<>> THEN {} ELSE held[c][1].context)

\* (Fault: the flag is set and not looked at.)
Finish_NoFlag(c, how, status) ==
  /\ cleaned' = cleaned \cup {c}
  /\ first' = [first EXCEPT ![c] = IF @ = "none" THEN how ELSE @]
  /\ span' = IF status = "none" THEN span ELSE Ended(c, status, FALSE)

\* Each of the three ends runs under the lock and looks at the flag first;
\* "none": the attributes cannot be made, and the error is swallowed.
Finish(c, how, status) ==
  IF c \in cleaned THEN UNCHANGED <<cleaned, first, span>>
  ELSE /\ cleaned' = cleaned \cup {c}
       /\ first' = [first EXCEPT ![c] = IF @ = "none" THEN how ELSE @]
       /\ span' = IF status = "none" THEN span ELSE Ended(c, status, Streamed(c).usage)

\* _process_complete_response(): the stream is exhausted, or a with block
\* is left without an exception, exhausted or not.
Complete(c) ==
  /\ At(c, "reading")
  /\ Finish(c, "complete", IF Streamed(c).input THEN "ok" ELSE "error")
  /\ IF c \in cleaned \/ seen[c] = "nothing" THEN UNCHANGED <<responses, early, stored>>
     ELSE \E i \in call[c].id : Store(i, Streamed(c))
  /\ UNCHANGED <<foreign, server, call, held, seen>>

\* _handle_exception()
Break(c) ==
  /\ At(c, "reading") /\ Finish(c, "exception", "error")
  /\ UNCHANGED <<responses, foreign, server, call, held, seen, early, stored>>

\* _ensure_cleanup(), by close(), and by the collector at last.
Cleanup(c) ==
  /\ At(c, "reading")
  /\ Finish(c, "cleanup", IF Streamed(c).input THEN "ok" ELSE "none")
  /\ \/ UNCHANGED call
     \/ Goto(c, "gone")
  /\ UNCHANGED <<responses, foreign, server, held, seen, early, stored>>

-----------------------------------------------------------------------------
Next ==
  \/ \E i \in Ids : ServerFinishes(i)
  \/ \E c \in Calls :
       \/ \E k \in Kinds, i \in SUBSET Ids, tools, input \in BOOLEAN :
            Begin(c, k, i, tools, input)
       \/ Fail(c) \/ FailFinds(c) \/ FailTells(c) \/ Interrupt(c)
       \/ Answer(c) \/ Merge(c) \/ Keep(c) \/ KeepFails(c)
       \/ CancelAnswer(c) \/ Pop(c)
       \/ Open(c) \/ Chunk(c) \/ Complete(c) \/ Break(c) \/ Cleanup(c)

Spec == Init /\ [][Next]_vars

-----------------------------------------------------------------------------
(* Properties. *)

Status == {"none", "working", "completed", "cancelled"}
Entries == {<<>>} \cup {<<d>> : d \in [input : BOOLEAN, tools : BOOLEAN,
                                      usage : BOOLEAN, context : SUBSET Calls]}

TypeOK ==
  /\ responses \in [Ids -> Entries] /\ foreign \subseteq Ids
  /\ server \in [Ids -> Status]
  /\ call \in [Calls -> [pc : {"idle", "calling", "failing", "raised", "interrupted",
                              "answered", "merged", "broken", "returned", "unkept",
                              "cancelled", "reading", "gone"},
                        kind : Kinds, id : SUBSET Ids, tools : BOOLEAN,
                        input : BOOLEAN, status : Status]]
  /\ held \in [Calls -> Entries]
  /\ seen \in [Calls -> {"nothing", "begun", "complete"}]
  /\ cleaned \subseteq Calls
  /\ span \in [Calls -> [on : BOOLEAN, ends : 0..1, status : {"unset", "ok", "error"},
                        usage : BOOLEAN, parent : SUBSET Calls]]
  /\ first \in [Calls -> {"none", "complete", "exception", "cleanup"}]
  /\ early \subseteq Ids
  /\ stored \in [Ids -> Nat]

\* A call that has come to its end has left its span open only if the
\* response was not complete, if its task was cancelled while it waited, or
\* if an entry stopped the wrapper itself: one that lacks tools or input, or
\* that a cancel took out before it was read (responses_wrappers.py,
\* responses_get_or_create_wrapper and ResponseStream).
SpansLeftOpen ==
  \A c \in Calls : (span[c].on /\ span[c].ends = 0) =>
    \/ call[c].pc \in {"calling", "failing", "interrupted", "answered", "merged"}
    \/ call[c].pc = "broken" /\ (held[c] # <<>> => ~held[c][1].tools \/ ~held[c][1].input)
    \/ call[c].pc = "returned" /\ call[c].status # "completed"
    \/ call[c].pc \in {"reading", "gone"} /\ (c \in cleaned => ~Streamed(c).input)

\* The span of a stream says how the stream ended first: an exception that
\* comes after close(), or a collection after an exception, changes nothing
\* (ResponseStream._handle_exception, _ensure_cleanup).
FirstEndingTells ==
  \A c \in Calls : span[c].ends = 1 =>
    /\ first[c] = "exception" => span[c].status = "error"
    /\ first[c] = "cleanup" => span[c].status = "ok"

\* A call whose request failed tells it, and one that is answered does not
\* (responses_get_or_create_wrapper: the handler around the request alone).
FailuresTold ==
  \A c \in Calls :
    /\ call[c].pc = "raised" /\ span[c].on => span[c].status = "error"
    /\ call[c].pc \in {"answered", "merged", "returned", "unkept"} => span[c].status = "unset"

\* Each call's span ends once and tells how the call ended, or is left open
\* for a reason.
SpansAccounted == TypeOK /\ SpansLeftOpen /\ FirstEndingTells /\ FailuresTold

\* The wrapper itself never stops the call that makes a response of an input,
\* only those that make one of a stored prompt, or that fetch or cancel one
\* (responses_get_or_create_wrapper: what it reads of other calls is added to
\* the request's tools outside of any try).
CreatesReturn ==
  \A c \in Calls : call[c].pc = "broken" =>
    \/ call[c].kind \in {"retrieve", "cancel"}
    \/ call[c].kind = "create" /\ ~call[c].input
    \/ call[c].kind = "stream" /\ call[c].id # {}

\* What is put into the dictionary once is reported as cancelled once,
\* however many calls cancel the response (responses_cancel_wrapper).
CancelledOnce ==
  \A i \in Ids :
    Cardinality({c \in Calls : call[c].kind = "cancel" /\ call[c].id = {i} /\ span[c].on})
      <= stored[i]

\* A complete response is reported without its usage only if a call had
\* stored it without: then no later call ever reports it.
UsageLostEarly ==
  \A c \in Calls :
    (call[c].pc = "returned" /\ call[c].status = "completed" /\ ~span[c].usage)
    => \A i \in call[c].id : i \in early

\* What one call leaves in the dictionary serves the others, and does no more
\* harm to them than this.
EntriesServe == CreatesReturn /\ CancelledOnce /\ UsageLostEarly
=============================================================================
