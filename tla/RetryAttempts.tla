---------------------------- MODULE RetryAttempts ----------------------------
(***************************************************************************)
(* Attempt spans: the framework wrappers that open and close them, and the *)
(* provider-SDK wrappers that must keep out of the way.                    *)
(*                                                                         *)
(* A run is one attempt as a framework sees it (a litellm_call_id, a       *)
(* LangChain run_id, a LlamaIndex dispatcher id).  Its start callback      *)
(* opens a span, registers a token (module RetryRegistry) and enters both  *)
(* in the wrapper's attempt map; an end callback, on any thread, takes the *)
(* entry out, ends the span and unregisters the token.  The three wrappers *)
(* (litellm/__init__.py, langchain/retry_handler.py and                    *)
(* llamaindex/retry_handler.py) share the code but for one thing, a start  *)
(* callback that fires twice for one run: see Supersedes.                  *)
(*                                                                         *)
(* A span is named by the token registered with it.  A thread may be an    *)
(* event loop, so runs and calls on one thread interleave.                 *)
(***************************************************************************)
EXTENDS RetryRegistry

CONSTANTS Run,         \* correlation ids of the framework
          Call,        \* HTTP attempts of an SDK that no framework makes
          NoToken, NoRun,
          Supersedes,  \* is the entry that a second start replaces closed?
          MapMax,      \* _FR_RETRY_ATTEMPT_MAP_MAX
          MapBatch,    \* _FR_RETRY_ATTEMPT_EVICT_BATCH
          MapTtl       \* _FR_RETRY_ATTEMPT_MAP_TTL_SEC

ASSUME NothingAssumption == NoToken \notin Token /\ NoRun \notin Run
ASSUME MapAssumption == /\ Supersedes \in BOOLEAN /\ MapTtl \in Nat
                        /\ MapMax \in Nat /\ MapBatch \in Nat
                        /\ 0 < MapBatch /\ MapBatch <= MapMax

VARIABLES
  run,      \* run -> where it is, on which thread, its latest token and time
  map,      \* _FR_RETRY_ATTEMPT_MAP
  span,     \* token -> what became of the span opened with it
  owner,    \* history: token -> its run
  closing,  \* token -> what an end callback has yet to end, "no" if nothing
  doubled,  \* history: tokens whose attempt the SDK wrapper spanned as well
  call      \* what the SDK wrapper did for each call, and on which thread

attemptVars == <<run, map, span, owner, closing, doubled, call>>
allVars == <<vars, attemptVars>>

NoEntry == [token |-> NoToken, started |-> 0]

Init == /\ RegistryInit
        /\ run = [r \in Run |-> [at |-> "idle", tid |-> Nobody,
                                 token |-> NoToken, now |-> 0]]
        /\ map = [r \in Run |-> NoEntry]
        /\ span = [t \in Token |-> "none"]
        /\ owner = [t \in Token |-> NoRun]
        /\ closing = [t \in Token |-> "no"]
        /\ doubled = {}
        /\ call = [c \in Call |-> [did |-> "nothing", tid |-> Nobody]]

InMap(m) == {r \in Run : m[r] # NoEntry}
TokensIn(m, R) == {m[r].token : r \in R}
Without(m, R) == [r \in Run |-> IF r \in R THEN NoEntry ELSE m[r]]

\* (Fault: on the error path the status is set, the span not ended.)
End_NotOnError(T, how) ==
  span' = [t \in Token |-> IF t \notin T \/ how = "error" THEN span[t]
                           ELSE IF span[t] = "open" THEN how ELSE "twice"]

\* span.end(): OpenTelemetry ignores, and warns of, a second one.
End(T, how) == span' = [t \in Token |->
                          IF t \notin T THEN span[t]
                          ELSE IF span[t] = "open" THEN how ELSE "twice"]

-----------------------------------------------------------------------------
(* The start callback. *)

\* The span is started, and the clock read for the registration.  A run whose
\* start callback fired already may see it fire again: LiteLLM calls both the
\* sync and the async hook on some paths.
StartSpan(r, tid, t) ==
  /\ \/ run[r].at = "idle"
     \/ run[r].at = "running" /\ run[r].tid = tid
  /\ span[t] = "none"
  /\ span' = [span EXCEPT ![t] = "open"]
  /\ owner' = [owner EXCEPT ![t] = r]
  /\ run' = [run EXCEPT ![r] = [at |-> "register", tid |-> tid, token |-> t,
                                now |-> clock]]
  /\ UNCHANGED <<vars, map, closing, doubled, call>>

RegisterToken(r) ==
  /\ run[r].at = "register"
  /\ Register(run[r].tid, run[r].token, run[r].now)
  /\ run' = [run EXCEPT ![r] = [at |-> "insert", tid |-> run[r].tid,
                                token |-> run[r].token, now |-> clock]]
  /\ UNCHANGED <<clock, map, span, owner, closing, doubled, call>>

StaleRuns(now) == {r \in InMap(map) : map[r].started + MapTtl < now}

\* _enforce_attempt_max_locked(), before the new entry is put in.
RunsOverCap(m) ==
  IF Cardinality(InMap(m)) <= MapMax
    THEN {{}}
    ELSE {out \in SUBSET InMap(m) :
            /\ Cardinality(out) = MapBatch
            /\ \A o \in out, k \in InMap(m) \ out : m[o].started <= m[k].started}

\* (Fault: the time at which the entry expires is stored.)
NewEntry_Expiry(r) == [token |-> run[r].token, started |-> run[r].now + MapTtl]

NewEntry(r) == [token |-> run[r].token, started |-> run[r].now]

\* Under the map's lock: stale entries go, then those over the cap, then the
\* one this run had; each span is ended as an error and its token
\* unregistered, and the new entry is put in.  LiteLLM just overwrites.
InsertEntry(r) ==
  LET fresh == Without(map, StaleRuns(run[r].now))
  IN  /\ run[r].at = "insert"
      /\ \E out \in RunsOverCap(fresh) :
           LET kept == Without(fresh, out)
               prev == IF Supersedes /\ r \in InMap(kept) THEN {r} ELSE {}
               gone == TokensIn(map, StaleRuns(run[r].now) \cup out \cup prev)
           IN  /\ map' = [kept EXCEPT ![r] = NewEntry(r)]
               /\ End(gone, "error")
               /\ Unregister(gone)
      /\ run' = [run EXCEPT ![r].at = "running"]
      /\ UNCHANGED <<clock, owner, closing, doubled, call>>

-----------------------------------------------------------------------------
(* The end of a run. *)

\* (Fault: the entry is read and not taken out.)
Finalize_KeepsEntry(r) ==
  /\ run[r].at \in {"running", "over"}
  /\ run' = [run EXCEPT ![r].at = "over"]
  /\ closing' = [t \in Token |-> IF map[r].token = t THEN "span"
                                 ELSE closing[t]]
  /\ UNCHANGED <<vars, map, span, owner, doubled, call>>

\* An end callback (success or failure, sync or async, perhaps more than one)
\* takes the entry out, if it is still there.
Finalize(r) ==
  /\ run[r].at \in {"running", "over"}
  /\ run' = [run EXCEPT ![r].at = "over"]
  /\ map' = [map EXCEPT ![r] = NoEntry]
  /\ closing' = [t \in Token |-> IF map[r].token = t THEN "span"
                                 ELSE closing[t]]
  /\ UNCHANGED <<vars, span, owner, doubled, call>>

\* Outside the lock the callback ends the span and then unregisters the token.
EndSpan(t) ==
  /\ closing[t] = "span"
  /\ closing' = [closing EXCEPT ![t] = "token"]
  /\ \E how \in {"ok", "error"} : End({t}, how)
  /\ UNCHANGED <<vars, run, map, owner, doubled, call>>

\* (Fault: an attempt that failed returns before it unregisters.)
EndToken_IfOk(t) ==
  /\ closing[t] = "token"
  /\ closing' = [closing EXCEPT ![t] = "no"]
  /\ IF span[t] = "ok" THEN Unregister({t}) ELSE UNCHANGED registryVars
  /\ UNCHANGED <<clock, run, map, span, owner, doubled, call>>

EndToken(t) ==
  /\ closing[t] = "token"
  /\ closing' = [closing EXCEPT ![t] = "no"]
  /\ Unregister({t})
  /\ UNCHANGED <<clock, run, map, span, owner, doubled, call>>

\* The framework fails and no end callback comes.
Crash(r) == /\ run[r].at = "running"
            /\ run' = [run EXCEPT ![r].at = "crashed"]
            /\ UNCHANGED <<vars, map, span, owner, closing, doubled, call>>

-----------------------------------------------------------------------------
(* The wrappers of the provider SDKs. *)

\* An HTTP attempt made inside a run, by the same thread, whose context does
\* not carry the suppression key: only the registry keeps it silent.
SendInRun(r) ==
  /\ run[r].at = "running"
  /\ IsFrameworkOwned(run[r].tid, clock)
  /\ doubled' = IF Owned(run[r].tid, clock) THEN doubled
                ELSE doubled \cup {run[r].token}
  /\ UNCHANGED <<clock, run, map, span, owner, closing, call>>

\* An HTTP attempt that the application makes with the SDK itself.
SendDirectly(c, tid) ==
  /\ call[c].did = "nothing"
  /\ IsFrameworkOwned(tid, clock)
  /\ call' = [call EXCEPT ![c] =
                [did |-> IF Owned(tid, clock) THEN "suppressed" ELSE "span",
                 tid |-> tid]]
  /\ UNCHANGED <<clock, run, map, span, owner, closing, doubled>>

\* The end of a parent span, whose instrumentation may clear the thread with
\* clear_for_thread(), exported for that.
ClearThread(tid) == ClearForThread(tid) /\ UNCHANGED <<clock, attemptVars>>

-----------------------------------------------------------------------------
Next == \/ \E r \in Run : \/ \E tid \in Thread, t \in Token : StartSpan(r, tid, t)
                          \/ RegisterToken(r) \/ InsertEntry(r)
                          \/ Finalize(r) \/ Crash(r) \/ SendInRun(r)
        \/ \E t \in Token : EndSpan(t) \/ EndToken(t)
        \/ \E c \in Call, tid \in Thread : SendDirectly(c, tid)
        \/ \E tid \in Thread : ClearThread(tid)
        \/ Tick /\ UNCHANGED <<registryVars, attemptVars>>

Spec == Init /\ [][Next]_allVars

-----------------------------------------------------------------------------
(* Properties. *)

\* Every variable has its type.
TypeOK ==
  /\ RegistryTypeOK
  /\ run \in [Run -> [at : {"idle", "register", "insert", "running", "over",
                            "crashed"},
                      tid : Thread \cup {Nobody}, token : Token \cup {NoToken},
                      now : Time]]
  /\ map \in [Run -> [token : Token \cup {NoToken}, started : Time]]
  /\ span \in [Token -> {"none", "open", "ok", "error", "twice"}]
  /\ owner \in [Token -> Run \cup {NoRun}]
  /\ closing \in [Token -> {"no", "span", "token"}]
  /\ doubled \subseteq Token
  /\ call \in [Call -> [did : {"nothing", "suppressed", "span"},
                        tid : Thread \cup {Nobody}]]

\* No span is ended twice, although end callbacks, evictions on other threads
\* and a second start callback may all reach for the same attempt.
SpansEndOnce == \A t \in Token : span[t] # "twice"

\* When a run is over and its end callbacks are through, nothing of it is
\* left: no token of it marks a thread, and no span of it is open.
FinishedRunsLeaveNothing ==
  \A t \in Token :
    (owner[t] # NoRun /\ run[owner[t]].at = "over" /\ closing[t] = "no")
      => span[t] # "open" /\ t \notin TokensOf(registry)

\* A span is open exactly as long as its attempt can still be closed: it is
\* being started, has an entry in the map, or an end callback holds it.
OpenSpansReachable ==
  \A t \in Token :
    span[t] = "open" =>
      \/ closing[t] = "span"
      \/ \E r \in Run : map[r].token = t
      \/ \E r \in Run : run[r].token = t /\ run[r].at \in {"register", "insert"}

\* The spans of the attempts are accounted for: none is lost, none ended
\* again, whoever closes it.
SpansAccounted == TypeOK /\ SpansEndOnce /\ OpenSpansReachable

\* An SDK call of the application goes without a span only because an attempt
\* on its thread is still in progress, or crashed within the time limit.
SuppressedForAReason ==
  [][\A c \in Call :
       call'[c].did = "suppressed" /\ call[c].did = "nothing" =>
         \E t \in Token : /\ owner[t] # NoRun
                          /\ span[t] = "open" \/ closing[t] = "token"
                          /\ run[owner[t]].tid = call'[c].tid
                          /\ attempt[t].started + Ttl >= clock]_allVars

\* Inside a run the SDK's wrapper adds no second span for the attempt, unless
\* the attempt is older than one of the two limits, fell victim to a cap, or
\* was cleared from its thread.
SecondSpanOnlyWhenOld ==
  [][\A t \in Token :
       t \in doubled' \ doubled =>
         \/ attempt[t].started + Ttl < clock
         \/ t \in dropped \/ attempt[t].is = "over"
         \/ span[t] = "error"]_allVars
=============================================================================
