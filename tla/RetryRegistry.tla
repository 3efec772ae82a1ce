---------------------------- MODULE RetryRegistry ----------------------------
(***************************************************************************)
(* The registry of framework attempts that all the instrumentations share  *)
(* (_vendor/.../instrumentation/fortifyroot/retry_registry.py).            *)
(*                                                                         *)
(* A framework wrapper registers a token on its thread for each HTTP       *)
(* attempt and unregisters it, possibly on another thread, when the        *)
(* attempt is over; the wrappers of the provider SDKs ask whether their    *)
(* thread is "framework-owned", and if so emit no span of their own.       *)
(*                                                                         *)
(* Every operation runs under _REGISTRY_LOCK and is one step.  The clock,  *)
(* however, is read before the lock is taken, so an operation works with   *)
(* any earlier reading of it.                                              *)
(***************************************************************************)
EXTENDS Naturals, FiniteSets

CONSTANTS Thread,      \* OS threads
          Token,       \* the tokens that can be minted (uuid4: none twice)
          Nobody,      \* "not in the dictionary"
          MaxEntries,  \* _REGISTRY_MAX
          EvictBatch,  \* _REGISTRY_EVICT_BATCH
          Ttl,         \* _REGISTRY_STALE_TTL_SEC
          MaxTime      \* bound: readings of the clock

ASSUME NobodyAssumption == Nobody \notin Thread
ASSUME CapAssumption == /\ MaxEntries \in Nat /\ EvictBatch \in Nat
                        /\ 0 < EvictBatch /\ EvictBatch <= MaxEntries
ASSUME TimeAssumption == Ttl \in Nat /\ MaxTime \in Nat

VARIABLES
  clock,       \* time.monotonic()
  registry,    \* the entries of all buckets of _REGISTRY
  tokenToTid,  \* _TOKEN_TO_TID
  attempt,     \* history: what became of each token
  dropped      \* history: tokens evicted over the cap

registryVars == <<registry, tokenToTid, attempt, dropped>>
vars == <<clock, registryVars>>

Time == 0..MaxTime
Entry == [token : Token, tid : Thread, started : Time]
Attempt == [is : {"new", "open", "over"}, tid : Thread \cup {Nobody},
            started : Time]
TokensOf(entries) == {e.token : e \in entries}
Open == {t \in Token : attempt[t].is = "open"}

RegistryInit == /\ clock = 0
                /\ registry = {}
                /\ tokenToTid = [t \in Token |-> Nobody]
                /\ attempt = [t \in Token |->
                                [is |-> "new", tid |-> Nobody, started |-> 0]]
                /\ dropped = {}

\* The tokens T leave the reverse index.
Forget(index, T) == [t \in Token |-> IF t \in T THEN Nobody ELSE index[t]]

\* The attempts of the tokens T are over.
Close(T) == attempt' = [t \in Token |->
                          [is |-> IF t \in T THEN "over" ELSE attempt[t].is,
                           tid |-> attempt[t].tid,
                           started |-> attempt[t].started]]

\* (Fault: the cap applies to each bucket and not to their sum.)
OverCap_OfBucket(entries) ==
  IF \A tid \in Thread :
       Cardinality({e \in entries : e.tid = tid}) <= MaxEntries
    THEN {{}}
    ELSE {out \in SUBSET entries :
            /\ Cardinality(out) = EvictBatch
            /\ \A o \in out, k \in entries \ out : o.started <= k.started}

\* _enforce_max_locked(): the sets of entries that may be evicted, the oldest
\* first.  Among equally old ones the order of the random tokens decides.
OverCap(entries) ==
  IF Cardinality(entries) <= MaxEntries
    THEN {{}}
    ELSE {out \in SUBSET entries :
            /\ Cardinality(out) = EvictBatch
            /\ \A o \in out, k \in entries \ out : o.started <= k.started}

\* (Fault: the time at which the token expires is stored.)
Register_Expiry(tid, t, now) ==
  LET all == registry \cup {[token |-> t, tid |-> tid, started |-> now + Ttl]}
  IN  /\ attempt[t].is = "new"
      /\ attempt' = [attempt EXCEPT
                       ![t] = [is |-> "open", tid |-> tid, started |-> now]]
      /\ \E out \in OverCap(all) :
           /\ registry' = all \ out
           /\ tokenToTid' = Forget([tokenToTid EXCEPT ![t] = tid],
                                   TokensOf(out))
           /\ dropped' = dropped \cup TokensOf(out)

\* register_framework_attempt() on thread tid at the reading now.
Register(tid, t, now) ==
  LET all == registry \cup {[token |-> t, tid |-> tid, started |-> now]}
  IN  /\ attempt[t].is = "new"
      /\ attempt' = [attempt EXCEPT
                       ![t] = [is |-> "open", tid |-> tid, started |-> now]]
      /\ \E out \in OverCap(all) :
           /\ registry' = all \ out
           /\ tokenToTid' = Forget([tokenToTid EXCEPT ![t] = tid],
                                   TokensOf(out))
           /\ dropped' = dropped \cup TokensOf(out)

\* (Fault: the bucket of the current thread is searched.)
Unregister_OnThisThread(T) ==
  /\ \E here \in Thread :
       registry' = {e \in registry : ~(e.token \in T /\ e.tid = here)}
  /\ tokenToTid' = Forget(tokenToTid, T)
  /\ Close(T)
  /\ UNCHANGED dropped

\* unregister_framework_attempt() for each of the tokens T: the reverse index
\* names the bucket, a token it does not know is ignored.
Unregister(T) ==
  /\ registry' = {e \in registry : ~(e.token \in T
                                     /\ e.tid = tokenToTid[e.token])}
  /\ tokenToTid' = Forget(tokenToTid, T)
  /\ Close(T)
  /\ UNCHANGED dropped

\* (Fault: an attempt exactly as old as the limit is stale.)
Stale_AtLimit(tid, now) ==
  {e \in registry : e.tid = tid /\ e.started + Ttl <= now}

\* (Fault: attempts do not become stale.)
Stale_Never(tid, now) == {}

\* The entries of thread tid that _evict_stale_for_tid_locked() removes.
Stale(tid, now) == {e \in registry : e.tid = tid /\ e.started + Ttl < now}

\* The answer of is_framework_owned().
Owned(tid, now) == \E e \in registry \ Stale(tid, now) : e.tid = tid

\* is_framework_owned(): what is stale on the thread is evicted first.
IsFrameworkOwned(tid, now) ==
  /\ registry' = registry \ Stale(tid, now)
  /\ tokenToTid' = Forget(tokenToTid, TokensOf(Stale(tid, now)))
  /\ UNCHANGED <<attempt, dropped>>

\* clear_for_thread(): what is left on the thread counts as orphaned.
ClearForThread(tid) ==
  LET bucket == {e \in registry : e.tid = tid}
  IN  /\ registry' = registry \ bucket
      /\ tokenToTid' = Forget(tokenToTid, TokensOf(bucket))
      /\ Close(TokensOf(bucket))
      /\ UNCHANGED dropped

Tick == clock < MaxTime /\ clock' = clock + 1

RegistryNext ==
  \/ /\ UNCHANGED clock
     /\ \/ \E tid \in Thread, t \in Token, now \in 0..clock :
             Register(tid, t, now)
        \/ \E T \in SUBSET Token :
             (\A t \in T : attempt[t].is # "new") /\ Unregister(T)
        \/ \E tid \in Thread, now \in 0..clock : IsFrameworkOwned(tid, now)
        \/ \E tid \in Thread : ClearForThread(tid)
  \/ Tick /\ UNCHANGED registryVars

RegistrySpec == RegistryInit /\ [][RegistryNext]_vars

-----------------------------------------------------------------------------
(* Properties. *)

\* Every variable has its type, and a token that was not minted is unknown.
RegistryTypeOK ==
  /\ clock \in Time
  /\ registry \subseteq Entry
  /\ tokenToTid \in [Token -> Thread \cup {Nobody}]
  /\ attempt \in [Token -> Attempt]
  /\ dropped \subseteq Token

\* The reverse index and the buckets agree: a token is in exactly the bucket
\* that the index names, so that it can be unregistered from any thread, and
\* one that has left its bucket by any of the five ways is forgotten.
IndexAgrees ==
  \A t \in Token, tid \in Thread :
    tokenToTid[t] = tid <=> \E e \in registry : e.token = t /\ e.tid = tid

\* A thread is called framework-owned only because of an attempt registered
\* on it that is neither finished nor cleared and not older than the limit,
\* so a leaked token cannot suppress spans for ever.
AnswersJustified ==
  \A tid \in Thread, now \in 0..clock :
    Owned(tid, now) =>
      \E t \in Open : /\ attempt[t].tid = tid
                      /\ attempt[t].started + Ttl >= now

\* The thread of an attempt in progress is called framework-owned until the
\* attempt is older than the limit, unless the cap evicted it: no operation of
\* another thread, and no late reading of the clock, takes that away.
LiveAttemptsOwn ==
  \A t \in Open \ dropped :
    attempt[t].started + Ttl >= clock =>
      \A now \in 0..clock : Owned(attempt[t].tid, now)

\* The registry answers for a reason and for every reason: a thread is called
\* framework-owned exactly on account of young attempts in progress on it,
\* save those that the cap dropped.
AnswersExactly == AnswersJustified /\ LiveAttemptsOwn

\* The registry never holds more than _REGISTRY_MAX entries.
SizeBounded == Cardinality(registry) <= MaxEntries
=============================================================================
