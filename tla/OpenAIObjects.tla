----------------------------- MODULE OpenAIObjects -----------------------------
(***************************************************************************)
(* The stateful APIs of OpenAI's SDK that OpenAIV1Instrumentor wraps       *)
(* beside its completions: responses, realtime sessions, assistants' runs  *)
(* and their streams.  They share no state, so a behaviour exercises one   *)
(* of them, the part.                                                      *)
(***************************************************************************)
EXTENDS Naturals, Sequences

CONSTANTS Calls, Ids,      \* of the Responses API; the runs are numbered by Ids too
          Users, Threads,  \* of the Assistants API
          MaxResponses,    \* bound: responses of a realtime connection
          MaxPieces,       \* bound: pieces of a text, of both kinds of events
          MaxSpans,        \* bound: response spans of a realtime connection
          MaxMessages,     \* bound: messages of a streamed run
          MaxBlocks        \* bound: blocks of text of a message

ASSUME ObjectsAssumption ==
  /\ MaxResponses \in Nat /\ MaxPieces \in Nat /\ MaxSpans \in Nat
  /\ MaxMessages \in Nat /\ MaxBlocks \in Nat \ {0}

VARIABLES
  part,
  responses, foreign, server, call, held, seen, cleaned, span, first, early, stored,
  connection, sessionSpan, spans, current, current_id, accumulated, input_text,
  holding, tails, realtimeServer, undisturbed,
  runs, entries, provider, user, listed,
  stage, message, block, sent, text_index, streamHolding, streamAccumulated,
  shown, finals, steps, usage, streamSpan

ResponseCalls == INSTANCE ResponsesCalls
Realtime == INSTANCE RealtimeSession
              WITH Responses <- 1..MaxResponses, server <- realtimeServer
Assistants == INSTANCE AssistantRuns WITH Runs <- Ids
AssistantEvents == INSTANCE AssistantStream
              WITH holding <- streamHolding, accumulated <- streamAccumulated,
                   span <- streamSpan

ofResponses == <<responses, foreign, server, call, held, seen, cleaned, span, first,
                 early, stored>>
ofRealtime == <<connection, sessionSpan, spans, current, current_id, accumulated,
                input_text, holding, tails, realtimeServer, undisturbed>>
ofAssistants == <<runs, entries, provider, user, listed>>
ofEvents == <<stage, message, block, sent, text_index, streamHolding, streamAccumulated,
              shown, finals, steps, usage, streamSpan>>

ObjectsInit ==
  /\ part \in {"responses", "realtime", "assistants", "events"}
  /\ ResponseCalls!Init /\ Realtime!Init /\ Assistants!Init /\ AssistantEvents!Init
  /\ part # "responses" => foreign = {}
  /\ part # "assistants" => \A u \in Users : user[u].thread = CHOOSE t \in Threads : TRUE

ObjectsNext ==
  \/ /\ part = "responses" /\ ResponseCalls!Next
     /\ UNCHANGED <<part, ofRealtime, ofAssistants, ofEvents>>
  \/ /\ part = "realtime" /\ Realtime!Next
     /\ UNCHANGED <<part, ofResponses, ofAssistants, ofEvents>>
  \/ /\ part = "assistants" /\ Assistants!Next
     /\ UNCHANGED <<part, ofResponses, ofRealtime, ofEvents>>
  \/ /\ part = "events" /\ AssistantEvents!Next
     /\ UNCHANGED <<part, ofResponses, ofRealtime, ofAssistants>>

objectsVars == <<part, ofResponses, ofRealtime, ofAssistants, ofEvents>>

ObjectsSpec == ObjectsInit /\ [][ObjectsNext]_objectsVars

-----------------------------------------------------------------------------
(* Properties. *)

\* The spans of all four are ended once and tell how it ended, or are open
\* for a reason (responses_wrappers.py, realtime_wrappers.py,
\* assistant_wrappers.py, event_handler_wrapper.py).
SpansTell ==
  /\ ResponseCalls!SpansAccounted
  /\ Realtime!TypeOK /\ Realtime!OneOpenSpan /\ Realtime!SessionAccounted
  /\ Assistants!TypeOK /\ Assistants!ListsAccounted
  /\ AssistantEvents!TypeOK /\ AssistantEvents!StreamAccounted

\* What a call leaves in a shared dictionary serves the calls that find it
\* there, whatever was replaced or changed meanwhile (`responses` of
\* responses_wrappers.py, `runs` of assistant_wrappers.py).
SharedEntriesServe == ResponseCalls!EntriesServe /\ Assistants!UsageOfThread

\* The texts of events, which come in pieces, cut by the streaming safety,
\* are told and shown once, in order, whole, and each by itself
\* (realtime_wrappers.py, event_handler_wrapper.py).
EventTextsTold ==
  /\ Realtime!ToldOnce /\ Realtime!ToldWhole
  /\ AssistantEvents!ShownWhole /\ AssistantEvents!MessageAsShown
=============================================================================
