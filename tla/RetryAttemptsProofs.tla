------------------------- MODULE RetryAttemptsProofs -------------------------
(***************************************************************************)
(* Theorems about RetryRegistry and RetryAttempts, for any threads,        *)
(* tokens, runs, cap and limits, and a wrapper that closes the entry it    *)
(* replaces (LangChain, LlamaIndex).                                       *)
(*                                                                         *)
(* The safety properties of the registry are not inductive.  EntriesInv    *)
(* ties the registry to the history of each token: an entry records an     *)
(* attempt in progress as it was registered, and an attempt in progress    *)
(* that is neither too old nor dropped has its entry.  It follows that no  *)
(* token has two entries, which is what makes the reverse index good       *)
(* enough to find the bucket of a token.                                   *)
(*                                                                         *)
(* Every step of the wrappers is one of the registry or leaves it alone,   *)
(* so that what is shown of the registry holds of them.  A token is at any *)
(* time in one place: with the start callback of its run (Starting), in    *)
(* the map (Mapped), with an end callback (closing), or done; TokenFits    *)
(* says what its span and its attempt are in each of them.                 *)
(***************************************************************************)
EXTENDS RetryAttempts, FiniteSetTheorems, TLAPS

\* The attempt that the entry e was registered for is in progress.
Records(e) == /\ attempt[e.token].is = "open"
              /\ attempt[e.token].tid = e.tid
              /\ attempt[e.token].started = e.started

EntriesInv ==
  /\ \A e \in registry : Records(e)
  /\ \A t \in Open : attempt[t].tid \in Thread /\ attempt[t].started =< clock
  /\ \A t \in Open \ dropped :
       attempt[t].started + Ttl >= clock => \E e \in registry : e.token = t

SizeInv == IsFiniteSet(registry) /\ SizeBounded

IInv == RegistryTypeOK /\ IndexAgrees /\ EntriesInv /\ SizeInv

-----------------------------------------------------------------------------
(* The helpers. *)

\* No token has two entries.
LEMMA OneEntry ==
  ASSUME RegistryTypeOK, EntriesInv,
         NEW e \in registry, NEW f \in registry, e.token = f.token
  PROVE  e = f
<1>1. e.tid = f.tid /\ e.started = f.started
  BY DEF EntriesInv, Records
<1>2. e \in Entry /\ f \in Entry
  BY DEF RegistryTypeOK
<1> QED
  BY <1>1, <1>2 DEF Entry

\* Every set that OverCap allows out consists of entries.
LEMMA OverCapTakes ==
  ASSUME NEW entries, NEW out \in OverCap(entries)
  PROVE  out \subseteq entries
BY DEF OverCap

\* What OverCap leaves of a set one larger than the cap is within the cap.
LEMMA OverCapSuffices ==
  ASSUME NEW entries, IsFiniteSet(entries),
         Cardinality(entries) =< MaxEntries + 1,
         NEW out \in OverCap(entries)
  PROVE  /\ IsFiniteSet(entries \ out)
         /\ Cardinality(entries \ out) =< MaxEntries
<1>1. out \subseteq entries
  BY OverCapTakes
<1>2. /\ IsFiniteSet(entries \ out)
      /\ entries \cap out = out
  BY <1>1, FS_Subset
<1>3. Cardinality(entries \ out) = Cardinality(entries) - Cardinality(out)
  BY <1>2, FS_Difference
<1>4. Cardinality(entries) \in Nat
  BY FS_CardinalityType
<1>5. CASE Cardinality(entries) =< MaxEntries
  <2>1. out = {}
    BY <1>5 DEF OverCap
  <2>2. entries \ out = entries
    BY <2>1
  <2> QED
    BY <1>2, <1>5, <2>2
<1>6. CASE ~(Cardinality(entries) =< MaxEntries)
  <2>1. Cardinality(out) = EvictBatch
    BY <1>6 DEF OverCap
  <2> QED
    BY <1>2, <1>3, <1>4, <2>1, CapAssumption
<1> QED
  BY <1>5, <1>6

\* Given the index, unregistering removes exactly the entries of the tokens.
LEMMA UnregisterRemoves ==
  ASSUME RegistryTypeOK, IndexAgrees, NEW T, Unregister(T)
  PROVE  registry' = {e \in registry : e.token \notin T}
<1>1. \A e \in registry : tokenToTid[e.token] = e.tid
  BY DEF IndexAgrees, RegistryTypeOK, Entry
<1> QED
  BY <1>1 DEF Unregister

-----------------------------------------------------------------------------
(* The operations preserve the invariant. *)

\* The empty registry satisfies it.
LEMMA InitInv == RegistryInit => IInv
<1> SUFFICES ASSUME RegistryInit PROVE IInv
  OBVIOUS
<1> USE DEF RegistryInit
<1>1. RegistryTypeOK
  BY TimeAssumption DEF RegistryTypeOK, Attempt, Time
<1>2. IndexAgrees
  BY NobodyAssumption DEF IndexAgrees
<1>3. EntriesInv
  BY DEF EntriesInv, Open
<1>4. SizeInv
  BY FS_EmptySet, CapAssumption DEF SizeInv, SizeBounded
<1> QED
  BY <1>1, <1>2, <1>3, <1>4 DEF IInv

\* Registering a new token, with whatever the cap evicts.
LEMMA RegisterInv ==
  ASSUME IInv, UNCHANGED clock, NEW tid \in Thread, NEW t \in Token,
         NEW now \in 0..clock, Register(tid, t, now)
  PROVE  IInv'
<1> USE DEF IInv
<1> DEFINE new == [token |-> t, tid |-> tid, started |-> now]
           all == registry \cup {new}
<1>1. PICK out \in OverCap(all) :
        /\ registry' = all \ out
        /\ tokenToTid' = Forget([tokenToTid EXCEPT ![t] = tid], TokensOf(out))
        /\ dropped' = dropped \cup TokensOf(out)
  BY DEF Register
<1>2. /\ attempt[t].is = "new"
      /\ attempt' = [attempt EXCEPT
                       ![t] = [is |-> "open", tid |-> tid, started |-> now]]
  BY DEF Register
<1>3. now \in Time /\ now =< clock /\ clock \in Nat
  BY TimeAssumption DEF RegistryTypeOK, Time
<1>4. out \subseteq all /\ all \subseteq Entry /\ new \in Entry
  BY <1>3, OverCapTakes DEF RegistryTypeOK, Entry
<1>5. \A e \in registry : e.token # t
  BY <1>2 DEF EntriesInv, Records
<1>6. /\ attempt'[t] = [is |-> "open", tid |-> tid, started |-> now]
      /\ attempt'[t].tid = tid /\ attempt'[t].started = now
      /\ \A u \in Token \ {t} : attempt'[u] = attempt[u]
  BY <1>2 DEF RegistryTypeOK
<1>7. \A e, f \in all : e.token = f.token => e = f
  BY <1>5, OneEntry
<1>8. RegistryTypeOK'
  <2>1. TokensOf(out) \subseteq Token
    BY <1>4 DEF TokensOf, Entry
  <2>2. tokenToTid' \in [Token -> Thread \cup {Nobody}]
    BY <1>1 DEF Forget, RegistryTypeOK
  <2>3. attempt' \in [Token -> Attempt]
    BY <1>2, <1>3 DEF RegistryTypeOK, Attempt
  <2> QED
    BY <1>1, <1>4, <2>1, <2>2, <2>3 DEF RegistryTypeOK
<1>9. IndexAgrees'
  <2> SUFFICES ASSUME NEW u \in Token, NEW v \in Thread
               PROVE  tokenToTid'[u] = v
                        <=> \E e \in registry' : e.token = u /\ e.tid = v
    BY DEF IndexAgrees
  <2>1. tokenToTid'[u] = IF u \in TokensOf(out) THEN Nobody
                         ELSE IF u = t THEN tid ELSE tokenToTid[u]
    BY <1>1 DEF Forget, RegistryTypeOK
  <2>2. CASE u \in TokensOf(out)
    <3>1. \A e \in registry' : e.token # u
      BY <1>1, <1>4, <1>7, <2>2 DEF TokensOf
    <3> QED
      BY <2>1, <2>2, <3>1, NobodyAssumption
  <2>3. CASE u \notin TokensOf(out)
    <3>1. \A e \in all : e.token = u => e \in registry'
      BY <1>1, <2>3 DEF TokensOf
    <3>2. CASE u = t
      <4>1. new \in registry' /\ new.token = u /\ new.tid = tid
        BY <3>1, <3>2
      <4>2. \A e \in registry' : e.token = u => e = new
        BY <1>1, <1>5, <3>2
      <4> HIDE DEF new
      <4> QED
        BY <2>1, <2>3, <3>2, <4>1, <4>2
    <3>3. CASE u # t
      <4>1. (\E e \in registry' : e.token = u /\ e.tid = v)
              <=> \E e \in registry : e.token = u /\ e.tid = v
        BY <1>1, <3>1, <3>3
      <4> QED
        BY <2>1, <2>3, <3>3, <4>1 DEF IndexAgrees
    <3> QED
      BY <3>2, <3>3
  <2> QED
    BY <2>2, <2>3
<1>10. EntriesInv'
  <2>1. ASSUME NEW e \in registry' PROVE Records(e)'
    <3>1. CASE e = new
      BY <1>6, <3>1 DEF Records
    <3>2. CASE e \in registry
      BY <1>4, <1>5, <1>6, <3>2 DEF EntriesInv, Entry, Records
    <3> QED
      BY <1>1, <3>1, <3>2
  <2>2. \A u \in Open' : /\ attempt'[u].tid \in Thread
                         /\ attempt'[u].started =< clock'
    BY <1>3, <1>6 DEF Open, EntriesInv
  <2>3. ASSUME NEW u \in Open' \ dropped', attempt'[u].started + Ttl >= clock'
        PROVE  \E e \in registry' : e.token = u
    <3>1. u \notin TokensOf(out) /\ u \notin dropped
      BY <1>1, <2>3
    <3>2. \E e \in all : e.token = u
      <4>1. CASE u = t
        <5>1. new.token = u /\ new \in all
          BY <4>1
        <5> QED
          BY <5>1
      <4>2. CASE u # t
        <5>1. u \in Open /\ attempt[u].started + Ttl >= clock
          BY <1>6, <2>3, <4>2 DEF Open
        <5> QED
          BY <3>1, <5>1 DEF EntriesInv
      <4> QED
        BY <4>1, <4>2
    <3> QED
      BY <1>1, <3>1, <3>2 DEF TokensOf
  <2> QED
    BY <2>1, <2>2, <2>3 DEF EntriesInv
<1>11. SizeInv'
  <2>1. IsFiniteSet(all) /\ Cardinality(all) =< MaxEntries + 1
    <3>1. /\ IsFiniteSet(all)
          /\ \/ Cardinality(all) = Cardinality(registry)
             \/ Cardinality(all) = Cardinality(registry) + 1
      BY FS_AddElement DEF SizeInv
    <3>2. Cardinality(registry) \in Nat
      BY FS_CardinalityType DEF SizeInv
    <3> QED
      BY <3>1, <3>2, CapAssumption DEF SizeInv, SizeBounded
  <2> QED
    BY <1>1, <2>1, OverCapSuffices DEF SizeInv, SizeBounded
<1> QED
  BY <1>8, <1>9, <1>10, <1>11

\* Any step that takes out all the entries of some tokens, forgets those
\* tokens, and leaves an attempt in progress only if its entry is left alone
\* or it has become too old.
LEMMA RemovalInv ==
  ASSUME IInv, UNCHANGED <<clock, dropped>>, NEW T \in SUBSET Token,
         registry' = {e \in registry : e.token \notin T},
         tokenToTid' = Forget(tokenToTid, T),
         attempt' \in [Token -> Attempt],
         \A t \in Token \ T : attempt'[t] = attempt[t],
         \A t \in T : \/ attempt'[t].is = "over"
                      \/ /\ attempt'[t] = attempt[t]
                         /\ attempt[t].started + Ttl < clock
  PROVE  IInv'
<1> USE DEF IInv
<1>1. RegistryTypeOK'
  BY DEF RegistryTypeOK, Forget
<1>2. IndexAgrees'
  <2> SUFFICES ASSUME NEW u \in Token, NEW v \in Thread
               PROVE  tokenToTid'[u] = v
                        <=> \E e \in registry' : e.token = u /\ e.tid = v
    BY DEF IndexAgrees
  <2>1. tokenToTid'[u] = IF u \in T THEN Nobody ELSE tokenToTid[u]
    BY DEF Forget
  <2> QED
    BY <2>1, NobodyAssumption DEF IndexAgrees
<1>3. EntriesInv'
  <2>1. \A e \in registry : e.token \in Token
    BY DEF RegistryTypeOK, Entry
  <2>2. \A u \in Token : attempt[u].started \in Nat /\ clock \in Nat
    BY TimeAssumption DEF RegistryTypeOK, Attempt, Time
  <2>3. \A e \in registry' : Records(e)'
    BY <2>1 DEF EntriesInv, Records
  <2>4. \A u \in Open' : /\ attempt'[u].tid \in Thread
                         /\ attempt'[u].started =< clock'
    BY DEF EntriesInv, Open
  <2>5. ASSUME NEW u \in Open' \ dropped', attempt'[u].started + Ttl >= clock'
        PROVE  \E e \in registry' : e.token = u
    <3>1. u \in Token /\ u \notin T /\ attempt'[u] = attempt[u]
      BY <2>2, <2>5, TimeAssumption DEF Open
    <3> QED
      BY <2>5, <3>1 DEF Open, EntriesInv
  <2> QED
    BY <2>3, <2>4, <2>5 DEF EntriesInv
<1>4. SizeInv'
  <2>1. registry' \subseteq registry
    OBVIOUS
  <2>2. /\ IsFiniteSet(registry')
        /\ Cardinality(registry') =< Cardinality(registry)
    BY <2>1, FS_Subset DEF SizeInv
  <2>3. Cardinality(registry') \in Nat /\ Cardinality(registry) \in Nat
    BY <2>2, FS_CardinalityType DEF SizeInv
  <2> QED
    BY <2>2, <2>3, CapAssumption DEF SizeInv, SizeBounded
<1> QED
  BY <1>1, <1>2, <1>3, <1>4

\* What Close does to each attempt.
LEMMA CloseEnds ==
  ASSUME RegistryTypeOK, NEW T \in SUBSET Token, Close(T)
  PROVE  /\ attempt' \in [Token -> Attempt]
         /\ \A t \in Token \ T : attempt'[t] = attempt[t]
         /\ \A t \in T : attempt'[t].is = "over"
BY DEF RegistryTypeOK, Close, Attempt

\* Unregistering any tokens.
LEMMA UnregisterInv ==
  ASSUME IInv, UNCHANGED clock, NEW T \in SUBSET Token, Unregister(T)
  PROVE  IInv'
<1>1. registry' = {e \in registry : e.token \notin T}
  BY UnregisterRemoves DEF IInv
<1>2. /\ tokenToTid' = Forget(tokenToTid, T)
      /\ Close(T) /\ UNCHANGED dropped
  BY DEF Unregister
<1> QED
  BY <1>1, <1>2, CloseEnds, RemovalInv DEF IInv

\* Asking whether a thread is framework-owned, which evicts what is stale.
LEMMA OwnedInv ==
  ASSUME IInv, UNCHANGED clock, NEW tid \in Thread, NEW now \in 0..clock,
         IsFrameworkOwned(tid, now)
  PROVE  IInv'
<1> USE DEF IInv
<1> DEFINE T == TokensOf(Stale(tid, now))
<1>1. /\ T \in SUBSET Token
      /\ \A e \in registry : e.token \in Token /\ e.started \in Nat
      /\ clock \in Nat /\ now \in Nat /\ now =< clock
  BY TimeAssumption
  DEF TokensOf, Stale, RegistryTypeOK, Entry, Time
<1>2. registry' = {e \in registry : e.token \notin T}
  BY OneEntry DEF IsFrameworkOwned, TokensOf, Stale
<1>3. \A t \in T : attempt[t].started + Ttl < clock
  <2> SUFFICES ASSUME NEW e \in Stale(tid, now)
               PROVE  attempt[e.token].started + Ttl < clock
    BY DEF TokensOf
  <2>1. e \in registry /\ e.started + Ttl < now
    BY DEF Stale
  <2>2. attempt[e.token].started = e.started
    BY <2>1 DEF EntriesInv, Records
  <2> QED
    BY <1>1, <2>1, <2>2, TimeAssumption
<1>4. /\ tokenToTid' = Forget(tokenToTid, T)
      /\ attempt' = attempt /\ UNCHANGED dropped
  BY DEF IsFrameworkOwned
<1>5. attempt' \in [Token -> Attempt]
  BY <1>4 DEF RegistryTypeOK
<1> HIDE DEF T
<1> QED
  BY <1>1, <1>2, <1>3, <1>4, <1>5, RemovalInv

\* Clearing a thread.
LEMMA ClearInv ==
  ASSUME IInv, UNCHANGED clock, NEW tid \in Thread, ClearForThread(tid)
  PROVE  IInv'
<1> USE DEF IInv
<1> DEFINE T == TokensOf({e \in registry : e.tid = tid})
<1>1. T \in SUBSET Token
  BY DEF TokensOf, RegistryTypeOK, Entry
<1>2. registry' = {e \in registry : e.token \notin T}
  BY OneEntry DEF ClearForThread, TokensOf
<1>3. /\ tokenToTid' = Forget(tokenToTid, T)
      /\ Close(T) /\ UNCHANGED dropped
  BY DEF ClearForThread
<1> HIDE DEF T
<1> QED
  BY <1>1, <1>2, <1>3, CloseEnds, RemovalInv

\* Time passes: an attempt may become too old, none becomes younger.
LEMMA TickInv ==
  ASSUME IInv, Tick, UNCHANGED registryVars
  PROVE  IInv'
<1> USE DEF IInv, registryVars
<1>1. clock \in Nat /\ clock' = clock + 1 /\ clock' \in Time
  BY TimeAssumption DEF Tick, RegistryTypeOK, Time
<1>2. RegistryTypeOK' /\ IndexAgrees' /\ SizeInv'
  BY <1>1 DEF RegistryTypeOK, IndexAgrees, SizeInv, SizeBounded
<1>3. EntriesInv'
  <2>1. \A u \in Token : attempt[u].started \in Nat
    BY DEF RegistryTypeOK, Attempt, Time
  <2>2. \A u \in Open : attempt[u].started =< clock'
    BY <1>1, <2>1 DEF EntriesInv, Open
  <2>3. \A u \in Open : attempt[u].started + Ttl >= clock'
                          => attempt[u].started + Ttl >= clock
    BY <1>1, <2>1, TimeAssumption DEF Open
  <2>4. Open' = Open
    BY DEF Open
  <2> QED
    BY <2>2, <2>3, <2>4 DEF EntriesInv, Records
<1> QED
  BY <1>2, <1>3

\* Every step of the registry.
LEMMA StepInv == IInv /\ [RegistryNext]_vars => IInv'
<1> SUFFICES ASSUME IInv, [RegistryNext]_vars PROVE IInv'
  OBVIOUS
<1>1. CASE \E tid \in Thread, t \in Token, now \in 0..clock :
             UNCHANGED clock /\ Register(tid, t, now)
  BY <1>1, RegisterInv
<1>2. CASE \E T \in SUBSET Token : UNCHANGED clock /\ Unregister(T)
  BY <1>2, UnregisterInv
<1>3. CASE \E tid \in Thread, now \in 0..clock :
             UNCHANGED clock /\ IsFrameworkOwned(tid, now)
  BY <1>3, OwnedInv
<1>4. CASE \E tid \in Thread : UNCHANGED clock /\ ClearForThread(tid)
  BY <1>4, ClearInv
<1>5. CASE Tick /\ UNCHANGED registryVars
  BY <1>5, TickInv
<1>6. CASE UNCHANGED vars
  BY <1>6 DEF vars, registryVars, IInv, RegistryTypeOK, IndexAgrees,
              EntriesInv, Records, SizeInv, SizeBounded, Open
<1> QED
  BY <1>1, <1>2, <1>3, <1>4, <1>5, <1>6 DEF RegistryNext

-----------------------------------------------------------------------------
(* The theorems. *)

\* The inductive invariant holds in every state.
THEOREM RegistryInvariant == RegistrySpec => []IInv
<1>1. RegistryInit => IInv
  BY InitInv
<1>2. IInv /\ [RegistryNext]_vars => IInv'
  BY StepInv
<1> QED
  BY <1>1, <1>2, PTL DEF RegistrySpec

\* The registry, the reverse index and the histories keep their types.
THEOREM RegistryTypeCorrect == RegistrySpec => []RegistryTypeOK
<1>1. IInv => RegistryTypeOK
  BY DEF IInv
<1> QED
  BY <1>1, RegistryInvariant, PTL

\* _TOKEN_TO_TID always names the bucket of a registered token and no other.
THEOREM IndexAlwaysAgrees == RegistrySpec => []IndexAgrees
<1>1. IInv => IndexAgrees
  BY DEF IInv
<1> QED
  BY <1>1, RegistryInvariant, PTL

\* is_framework_owned() says yes only on account of an attempt in progress
\* that was registered on the thread and is not older than the limit.
THEOREM AnswersAlwaysJustified == RegistrySpec => []AnswersJustified
<1>1. IInv => AnswersJustified
  <2> SUFFICES ASSUME IInv, NEW tid \in Thread, NEW now \in 0..clock,
                      Owned(tid, now)
               PROVE  \E t \in Open : /\ attempt[t].tid = tid
                                      /\ attempt[t].started + Ttl >= now
    BY DEF AnswersJustified
  <2>1. PICK e \in registry : e.tid = tid /\ ~(e.started + Ttl < now)
    BY DEF Owned, Stale
  <2>2. e.token \in Token /\ e.started \in Nat /\ now \in Nat
    BY TimeAssumption DEF IInv, RegistryTypeOK, Entry, Time
  <2>3. e.token \in Open /\ attempt[e.token].tid = tid
    BY <2>1, <2>2 DEF IInv, EntriesInv, Records, Open
  <2>4. attempt[e.token].started + Ttl >= now
    BY <2>1, <2>2, TimeAssumption DEF IInv, EntriesInv, Records
  <2> QED
    BY <2>3, <2>4
<1> QED
  BY <1>1, RegistryInvariant, PTL

\* The thread of a young attempt in progress is called framework-owned at
\* every reading of the clock, unless the cap dropped the attempt.
THEOREM LiveAttemptsAlwaysOwn == RegistrySpec => []LiveAttemptsOwn
<1>1. IInv => LiveAttemptsOwn
  <2> SUFFICES ASSUME IInv, NEW t \in Open \ dropped,
                      attempt[t].started + Ttl >= clock, NEW now \in 0..clock
               PROVE  Owned(attempt[t].tid, now)
    BY DEF LiveAttemptsOwn
  <2>1. PICK e \in registry : e.token = t
    BY DEF IInv, EntriesInv, Records
  <2>2. e.tid = attempt[t].tid /\ e.started = attempt[t].started
    BY <2>1 DEF IInv, EntriesInv, Records
  <2>3. e.started \in Nat /\ clock \in Nat /\ now \in Nat /\ now =< clock
    BY TimeAssumption DEF IInv, RegistryTypeOK, Entry, Time
  <2>4. ~(e.started + Ttl < now)
    BY <2>2, <2>3, TimeAssumption
  <2> QED
    BY <2>2, <2>4 DEF Owned, Stale
<1> QED
  BY <1>1, RegistryInvariant, PTL

\* The registry never outgrows _REGISTRY_MAX, whatever its batch size.
THEOREM SizeAlwaysBounded == RegistrySpec => []SizeBounded
<1>1. IInv => SizeBounded
  BY DEF IInv, SizeInv
<1> QED
  BY <1>1, RegistryInvariant, PTL

\* The registry calls a thread framework-owned exactly on account of the young
\* attempts in progress on it, save those that the cap dropped.
THEOREM AnswersAlwaysExact == RegistrySpec => []AnswersExactly
<1>1. AnswersJustified /\ LiveAttemptsOwn => AnswersExactly
  BY DEF AnswersExactly
<1> QED
  BY <1>1, AnswersAlwaysJustified, LiveAttemptsAlwaysOwn, PTL

-----------------------------------------------------------------------------
(* The wrappers. *)

Mapped(t) == owner[t] # NoRun /\ map[owner[t]].token = t
Starting(t) == /\ owner[t] # NoRun /\ run[owner[t]].token = t
               /\ run[owner[t]].at \in {"register", "insert"}

RunFits(r) ==
  /\ map[r] = NoEntry <=> map[r].token = NoToken
  /\ map[r].token # NoToken => owner[map[r].token] = r
  /\ run[r].token # NoToken => owner[run[r].token] = r
  /\ run[r].at = "idle" <=> run[r].token = NoToken
  /\ run[r].at \in {"idle", "over"} => map[r].token = NoToken
  /\ run[r].at # "idle" => run[r].tid \in Thread
  /\ run[r].now <= clock

TokenFits(t) ==
  /\ owner[t] = NoRun <=> span[t] = "none"
  /\ owner[t] = NoRun => closing[t] = "no" /\ attempt[t].is = "new"
  /\ owner[t] # NoRun => run[owner[t]].at # "idle"
  /\ attempt[t].is # "new" => attempt[t].tid = run[owner[t]].tid
  /\ attempt[t].is = "new" /\ owner[t] # NoRun =>
       run[owner[t]].token = t /\ run[owner[t]].at = "register"
  /\ owner[t] # NoRun /\ run[owner[t]].token = t /\ run[owner[t]].at = "register"
       => attempt[t].is = "new"
  /\ closing[t] = "span" => span[t] = "open" /\ ~Mapped(t) /\ ~Starting(t)
  /\ closing[t] = "token" =>
       span[t] \in {"ok", "error"} /\ ~Mapped(t) /\ ~Starting(t)
  /\ Mapped(t) => span[t] = "open" /\ ~Starting(t)
  /\ Starting(t) => span[t] = "open"
  /\ span[t] = "open" => closing[t] = "span" \/ Mapped(t) \/ Starting(t)
  /\ attempt[t].is = "open" => span[t] = "open" \/ closing[t] = "token"
  /\ span[t] # "twice"

\* The types of what RetryAttempts adds to the registry.
AttemptsTypeOK ==
  /\ run \in [Run -> [at : {"idle", "register", "insert", "running", "over",
                            "crashed"},
                      tid : Thread \cup {Nobody}, token : Token \cup {NoToken},
                      now : Time]]
  /\ map \in [Run -> [token : Token \cup {NoToken}, started : Time]]
  /\ span \in [Token -> {"none", "open", "ok", "error", "twice"}]
  /\ owner \in [Token -> Run \cup {NoRun}]
  /\ closing \in [Token -> {"no", "span", "token"}]
  /\ doubled \subseteq Token
  /\ call \in [Call -> [did : {"nothing", "suppressed", "span"},
                        tid : Thread \cup {Nobody}]]

AInv == /\ IInv /\ AttemptsTypeOK
        /\ \A r \in Run : RunFits(r)
        /\ \A t \in Token : TokenFits(t)

-----------------------------------------------------------------------------
(* What the steps have in common. *)

LEMMA InitFits == Init => AInv
<1> SUFFICES ASSUME Init PROVE AInv
  OBVIOUS
<1> USE DEF Init
<1>1. IInv
  BY InitInv
<1>2. AttemptsTypeOK
  <2>1. 0 \in Time
    BY TimeAssumption DEF Time
  <2> QED BY <2>1 DEF AttemptsTypeOK, NoEntry
<1>3. \A r \in Run : RunFits(r)
  BY TimeAssumption DEF RunFits, NoEntry, RegistryInit
<1>4. \A t \in Token : TokenFits(t)
  BY DEF TokenFits, Mapped, Starting, RegistryInit
<1> QED BY <1>1, <1>2, <1>3, <1>4 DEF AInv

\* What is in the map, and in whose hands.
LEMMA InMapFacts ==
  ASSUME AInv, NEW q \in InMap(map)
  PROVE  /\ q \in Run /\ map[q].token \in Token /\ owner[map[q].token] = q
         /\ Mapped(map[q].token)
BY NothingAssumption DEF AInv, InMap, RunFits, AttemptsTypeOK, Mapped

\* The history of the attempts after a registry's operation on the tokens T.
LEMMA CloseFacts ==
  ASSUME AInv, NEW T, Close(T)
  PROVE  \A t \in Token : /\ attempt'[t].tid = attempt[t].tid
                          /\ attempt'[t].is = IF t \in T THEN "over"
                                              ELSE attempt[t].is
BY DEF Close

\* What the start callback closes as it enters its attempt in the map.
LEMMA Gone ==
  ASSUME AInv, NEW r \in Run, InsertEntry(r)
  PROVE  \E T \in SUBSET Token :
           /\ \A t \in T : Mapped(t)
           /\ End(T, "error") /\ Unregister(T) /\ UNCHANGED clock
           /\ Supersedes => \A t \in T : owner[t] = r \/ map'[owner[t]] = NoEntry
           /\ Supersedes => map[r].token \in T \cup {NoToken}
           /\ \A q \in Run \ {r} : map'[q] \in {map[q], NoEntry}
           /\ \A q \in Run \ {r} :
                map[q] # NoEntry /\ map'[q] = NoEntry => map[q].token \in T
           /\ map'[r] = NewEntry(r)
<1> DEFINE stale == StaleRuns(run[r].now)
           fresh == Without(map, stale)
<1>1. PICK out \in RunsOverCap(fresh) :
        LET kept == Without(fresh, out)
            prev == IF Supersedes /\ r \in InMap(kept) THEN {r} ELSE {}
            gone == TokensIn(map, stale \cup out \cup prev)
        IN  /\ map' = [kept EXCEPT ![r] = NewEntry(r)]
            /\ End(gone, "error") /\ Unregister(gone)
  BY DEF InsertEntry
<1> DEFINE kept == Without(fresh, out)
           prev == IF Supersedes /\ r \in InMap(kept) THEN {r} ELSE {}
           all == stale \cup out \cup prev
           T == TokensIn(map, all)
<1>2. map' = [kept EXCEPT ![r] = NewEntry(r)] /\ End(T, "error") /\ Unregister(T)
  BY <1>1
<1>3. stale \subseteq InMap(map)
  BY DEF StaleRuns
<1>4. out \subseteq InMap(fresh)
  BY DEF RunsOverCap
<1>5. InMap(fresh) \subseteq InMap(map) /\ InMap(kept) \subseteq InMap(map)
  BY DEF InMap, Without
<1>6. all \subseteq InMap(map)
  BY <1>3, <1>4, <1>5
<1>7. T \subseteq Token /\ \A t \in T : Mapped(t) /\ owner[t] \in all /\ t = map[owner[t]].token
  BY <1>6, InMapFacts DEF TokensIn
<1>8. \A q \in Run : kept[q] = IF q \in stale \cup out THEN NoEntry ELSE map[q]
  BY DEF Without
<1>9. /\ map'[r] = NewEntry(r)
      /\ \A q \in Run \ {r} : map'[q] = kept[q]
  BY <1>2 DEF Without
<1>10. \A q \in all : map[q].token \in T
  BY DEF TokensIn
<1>11. \A t \in T : owner[t] = r \/ map'[owner[t]] = NoEntry
  <2>1. SUFFICES ASSUME NEW t \in T, owner[t] # r PROVE map'[owner[t]] = NoEntry
    OBVIOUS
  <2>2. owner[t] \in all /\ owner[t] \in Run /\ owner[t] \notin prev
    BY <1>6, <1>7, <2>1, InMapFacts
  <2> QED BY <1>8, <1>9, <2>1, <2>2
<1>12. Supersedes => map[r].token \in T \cup {NoToken}
  <2>1. SUFFICES ASSUME Supersedes, map[r].token # NoToken PROVE r \in all
    BY <1>10
  <2>2. map[r] # NoEntry
    BY <2>1 DEF NoEntry
  <2>3. CASE r \in stale \cup out
    BY <2>3
  <2>4. CASE r \notin stale \cup out
    <3>1. kept[r] # NoEntry
      BY <1>8, <2>2, <2>4
    <3> QED BY <2>1, <3>1 DEF InMap
  <2> QED BY <2>3, <2>4
<1>13. \A q \in Run \ {r} :
         /\ map'[q] \in {map[q], NoEntry}
         /\ map[q] # NoEntry /\ map'[q] = NoEntry => map[q].token \in T
  BY <1>8, <1>9, <1>10
<1>14. UNCHANGED clock
  BY DEF InsertEntry
<1> HIDE DEF T
<1> QED BY <1>2, <1>7, <1>9, <1>11, <1>12, <1>13, <1>14

LEMMA RegistrySteps ==
  ASSUME AInv, [Next]_allVars PROVE [RegistryNext]_vars
<1>1. ASSUME NEW r \in Run, RegisterToken(r) PROVE RegistryNext
  <2>1. /\ run[r].tid \in Thread /\ run[r].token \in Token
        /\ run[r].now \in 0..clock
    BY <1>1, TimeAssumption DEF RegisterToken, AInv, RunFits, AttemptsTypeOK,
       IInv, RegistryTypeOK, Time
  <2> QED BY <1>1, <2>1 DEF RegisterToken, RegistryNext
<1>2. ASSUME NEW r \in Run, InsertEntry(r) PROVE RegistryNext
  <2>1. PICK T \in SUBSET Token :
          (\A t \in T : Mapped(t)) /\ Unregister(T) /\ UNCHANGED clock
    BY <1>2, Gone
  <2>2. \A t \in T : attempt[t].is # "new"
    BY <2>1 DEF AInv, TokenFits, Mapped, Starting
  <2> QED BY <2>1, <2>2 DEF RegistryNext
<1>3. ASSUME NEW t \in Token, EndToken(t) PROVE RegistryNext
  <2>1. attempt[t].is # "new"
    BY <1>3, NothingAssumption DEF EndToken, AInv, TokenFits, Starting, AttemptsTypeOK
  <2> QED BY <1>3, <2>1 DEF EndToken, RegistryNext
<1>4. ASSUME NEW tid \in Thread, IsFrameworkOwned(tid, clock), UNCHANGED clock
      PROVE  RegistryNext
  <2>1. clock \in 0..clock
    BY TimeAssumption DEF AInv, IInv, RegistryTypeOK, Time
  <2> QED BY <1>4, <2>1 DEF RegistryNext
<1>5. ASSUME NEW r \in Run, SendInRun(r) PROVE RegistryNext
  <2>1. run[r].tid \in Thread
    BY <1>5 DEF SendInRun, AInv, RunFits
  <2> QED BY <1>4, <1>5, <2>1 DEF SendInRun
<1>6. ASSUME NEW c \in Call, NEW tid \in Thread, SendDirectly(c, tid)
      PROVE  RegistryNext
  BY <1>4, <1>6 DEF SendDirectly
<1>7. ASSUME NEW tid \in Thread, ClearThread(tid) PROVE RegistryNext
  BY <1>7 DEF ClearThread, RegistryNext
<1>8. ASSUME Tick /\ UNCHANGED <<registryVars, attemptVars>> PROVE RegistryNext
  BY <1>8 DEF RegistryNext
<1>9. ASSUME \/ \E r \in Run : \/ \E tid \in Thread, t \in Token : StartSpan(r, tid, t)
                               \/ Finalize(r) \/ Crash(r)
             \/ \E t \in Token : EndSpan(t)
             \/ UNCHANGED allVars
      PROVE  UNCHANGED vars
  BY <1>9 DEF StartSpan, Finalize, Crash, EndSpan, allVars, vars
<1> QED BY <1>1, <1>2, <1>3, <1>5, <1>6, <1>7, <1>8, <1>9 DEF Next

-----------------------------------------------------------------------------
(* The steps. *)

LEMMA StartSpanFits ==
  ASSUME AInv, NEW r \in Run, NEW tid \in Thread, NEW t \in Token,
         StartSpan(r, tid, t)
  PROVE  /\ AttemptsTypeOK' /\ \A q \in Run : RunFits(q)'
         /\ \A k \in Token : TokenFits(k)'
<1> USE DEF AInv
<1>1. /\ run[r].at = "idle" \/ (run[r].at = "running" /\ run[r].tid = tid)
      /\ span[t] = "none"
      /\ span' = [span EXCEPT ![t] = "open"]
      /\ owner' = [owner EXCEPT ![t] = r]
      /\ run' = [run EXCEPT ![r] = [at |-> "register", tid |-> tid, token |-> t,
                                    now |-> clock]]
      /\ UNCHANGED <<clock, attempt, map, closing, doubled, call>>
  BY DEF StartSpan, vars, registryVars
<1>2. AttemptsTypeOK'
  BY <1>1 DEF AttemptsTypeOK, IInv, RegistryTypeOK
<1>3. owner[t] = NoRun /\ closing[t] = "no" /\ attempt[t].is = "new"
  BY <1>1 DEF TokenFits
<1>4. /\ span'[t] = "open" /\ owner'[t] = r
      /\ \A k \in Token \ {t} : span'[k] = span[k] /\ owner'[k] = owner[k]
      /\ run'[r] = [at |-> "register", tid |-> tid, token |-> t, now |-> clock]
      /\ \A q \in Run \ {r} : run'[q] = run[q]
  BY <1>1 DEF AttemptsTypeOK
<1>5. r # NoRun /\ t # NoToken /\ clock <= clock
  BY NothingAssumption, TimeAssumption DEF IInv, RegistryTypeOK, Time
<1>6. \A q \in Run : map[q].token # t /\ run[q].token # t
  BY <1>3, <1>5, NothingAssumption DEF RunFits
<1>7. \A q \in Run : RunFits(q)'
  BY <1>1, <1>4, <1>5, <1>6 DEF RunFits, AttemptsTypeOK
<1>8. TokenFits(t)'
  BY <1>1, <1>3, <1>4, <1>5, <1>6 DEF TokenFits, Mapped, Starting
<1>9. \A k \in Token \ {t} : TokenFits(k)'
  BY <1>1, <1>4, <1>5 DEF TokenFits, Mapped, Starting
<1> QED BY <1>2, <1>7, <1>8, <1>9

LEMMA RegisterTokenFits ==
  ASSUME AInv, NEW r \in Run, RegisterToken(r)
  PROVE  /\ AttemptsTypeOK' /\ \A q \in Run : RunFits(q)'
         /\ \A k \in Token : TokenFits(k)'
<1> USE DEF AInv
<1>a. run[r].at = "register" /\ run[r].token \in Token
  BY DEF RegisterToken, RunFits, AttemptsTypeOK
<1>b. PICK t \in Token : t = run[r].token
  BY <1>a
<1>1. /\ run[r].at = "register"
      /\ attempt' = [attempt EXCEPT ![t] =
                       [is |-> "open", tid |-> run[r].tid, started |-> run[r].now]]
      /\ run' = [run EXCEPT ![r] = [at |-> "insert", tid |-> run[r].tid,
                                    token |-> t, now |-> clock]]
      /\ UNCHANGED <<clock, map, span, owner, closing, doubled, call>>
  BY <1>b DEF RegisterToken, Register
<1>2. t \in Token /\ owner[t] = r /\ r # NoRun /\ run[r].tid \in Thread
  BY <1>1, <1>b, NothingAssumption DEF RunFits, AttemptsTypeOK
<1>3. AttemptsTypeOK'
  BY <1>1, <1>2 DEF AttemptsTypeOK, IInv, RegistryTypeOK
<1>4. /\ run'[r] = [at |-> "insert", tid |-> run[r].tid, token |-> t,
                    now |-> clock]
      /\ \A q \in Run \ {r} : run'[q] = run[q]
      /\ attempt'[t].is = "open" /\ attempt'[t].tid = run[r].tid
      /\ \A k \in Token \ {t} : attempt'[k] = attempt[k]
  BY <1>1, <1>2 DEF AttemptsTypeOK, IInv, RegistryTypeOK
<1>5. clock <= clock
  BY TimeAssumption DEF IInv, RegistryTypeOK, Time
<1>6. \A q \in Run : RunFits(q)'
  BY <1>1, <1>2, <1>4, <1>5, <1>b DEF RunFits
<1>7. TokenFits(t)'
  BY <1>1, <1>2, <1>4, <1>b DEF TokenFits, Mapped, Starting
<1>8. \A k \in Token \ {t} : TokenFits(k)'
  BY <1>1, <1>2, <1>4, <1>b DEF TokenFits, Mapped, Starting
<1> QED BY <1>3, <1>6, <1>7, <1>8

LEMMA FinalizeFits ==
  ASSUME AInv, NEW r \in Run, Finalize(r)
  PROVE  /\ AttemptsTypeOK' /\ \A q \in Run : RunFits(q)'
         /\ \A k \in Token : TokenFits(k)'
<1> USE DEF AInv
<1>1. /\ run[r].at \in {"running", "over"}
      /\ run' = [run EXCEPT ![r].at = "over"]
      /\ map' = [map EXCEPT ![r] = NoEntry]
      /\ closing' = [t \in Token |-> IF map[r].token = t THEN "span"
                                     ELSE closing[t]]
      /\ UNCHANGED <<clock, attempt, span, owner, doubled, call>>
  BY DEF Finalize, vars, registryVars
<1>2. AttemptsTypeOK'
  <2>1. run' \in [Run -> [at : {"idle", "register", "insert", "running", "over",
                                "crashed"},
                          tid : Thread \cup {Nobody},
                          token : Token \cup {NoToken}, now : Time]]
    <3>1. run' = [run EXCEPT ![r].at = "over"]
      BY <1>1
    <3>2. run \in [Run -> [at : {"idle", "register", "insert", "running", "over",
                                 "crashed"},
                           tid : Thread \cup {Nobody},
                           token : Token \cup {NoToken}, now : Time]]
      BY DEF AttemptsTypeOK
    <3> HIDE DEF AInv
    <3> QED BY <3>1, <3>2
  <2>2. NoEntry \in [token : Token \cup {NoToken}, started : Time]
    BY TimeAssumption DEF NoEntry, Time
  <2>3. map' \in [Run -> [token : Token \cup {NoToken}, started : Time]]
    BY <1>1, <2>2 DEF AttemptsTypeOK
  <2>4. closing' \in [Token -> {"no", "span", "token"}]
    BY <1>1 DEF AttemptsTypeOK
  <2> QED BY <1>1, <2>1, <2>3, <2>4 DEF AttemptsTypeOK
<1>3. /\ run'[r].at = "over" /\ run'[r].token = run[r].token
      /\ run'[r].tid = run[r].tid /\ run'[r].now = run[r].now
      /\ \A q \in Run \ {r} : run'[q] = run[q] /\ map'[q] = map[q]
      /\ map'[r] = NoEntry
  BY <1>1 DEF AttemptsTypeOK
<1>4. NoEntry.token = NoToken
  BY DEF NoEntry
<1>5. \A q \in Run : RunFits(q)'
  BY <1>1, <1>3, <1>4 DEF RunFits
<1>6. \A k \in Token : TokenFits(k)'
  <2>1. SUFFICES ASSUME NEW k \in Token PROVE TokenFits(k)'
    OBVIOUS
  <2>2. closing'[k] = IF map[r].token = k THEN "span" ELSE closing[k]
    BY <1>1
  <2>3. owner[k] \in Run \cup {NoRun} /\ NoRun \notin Run /\ k # NoToken
    BY NothingAssumption DEF AttemptsTypeOK
  <2>4. CASE map[r].token = k
    <3>1. owner[k] = r /\ Mapped(k)
      BY <2>3, <2>4 DEF RunFits, Mapped
    <3> QED BY <1>1, <1>3, <1>4, <2>2, <2>3, <2>4, <3>1 DEF TokenFits, Mapped, Starting
  <2>5. CASE map[r].token # k
    BY <1>1, <1>3, <1>4, <2>2, <2>3, <2>5 DEF TokenFits, Mapped, Starting
  <2> QED BY <2>4, <2>5
<1> QED BY <1>2, <1>5, <1>6

LEMMA CrashFits ==
  ASSUME AInv, NEW r \in Run, Crash(r)
  PROVE  /\ AttemptsTypeOK' /\ \A q \in Run : RunFits(q)'
         /\ \A k \in Token : TokenFits(k)'
<1> USE DEF AInv
<1>1. /\ run[r].at = "running" /\ run' = [run EXCEPT ![r].at = "crashed"]
      /\ UNCHANGED <<clock, attempt, map, span, owner, closing, doubled, call>>
  BY DEF Crash, vars, registryVars
<1>2. AttemptsTypeOK'
  <2>1. run' \in [Run -> [at : {"idle", "register", "insert", "running", "over",
                                "crashed"},
                          tid : Thread \cup {Nobody},
                          token : Token \cup {NoToken}, now : Time]]
    BY <1>1 DEF AttemptsTypeOK
  <2> QED BY <1>1, <2>1 DEF AttemptsTypeOK
<1>3. /\ run'[r].at = "crashed" /\ run'[r].token = run[r].token
      /\ run'[r].tid = run[r].tid /\ run'[r].now = run[r].now
      /\ \A q \in Run \ {r} : run'[q] = run[q]
  BY <1>1 DEF AttemptsTypeOK
<1>4. \A q \in Run : RunFits(q)'
  BY <1>1, <1>3 DEF RunFits
<1>5. \A k \in Token : owner[k] \in Run \cup {NoRun}
  BY DEF AttemptsTypeOK
<1>6. \A k \in Token : TokenFits(k)'
  BY <1>1, <1>3, <1>5 DEF TokenFits, Mapped, Starting
<1> QED BY <1>2, <1>4, <1>6

LEMMA EndSpanFits ==
  ASSUME AInv, NEW t \in Token, EndSpan(t)
  PROVE  /\ AttemptsTypeOK' /\ \A q \in Run : RunFits(q)'
         /\ \A k \in Token : TokenFits(k)'
<1> USE DEF AInv
<1>1. PICK how \in {"ok", "error"} : End({t}, how)
  BY DEF EndSpan
<1>2. /\ closing[t] = "span" /\ closing' = [closing EXCEPT ![t] = "token"]
      /\ UNCHANGED <<clock, attempt, run, map, owner, doubled, call>>
  BY DEF EndSpan, vars, registryVars
<1>3. span[t] = "open" /\ ~Mapped(t) /\ ~Starting(t)
  BY <1>2 DEF TokenFits
<1>4. /\ span'[t] = how /\ closing'[t] = "token"
      /\ \A k \in Token \ {t} : span'[k] = span[k] /\ closing'[k] = closing[k]
  BY <1>1, <1>2, <1>3 DEF End, AttemptsTypeOK
<1>5. AttemptsTypeOK'
  <2>1. span' \in [Token -> {"none", "open", "ok", "error", "twice"}]
    BY <1>1 DEF End, AttemptsTypeOK
  <2> QED BY <1>2, <2>1 DEF AttemptsTypeOK
<1>6. \A q \in Run : RunFits(q)'
  BY <1>2 DEF RunFits
<1>7. \A k \in Token : TokenFits(k)'
  BY <1>2, <1>3, <1>4 DEF TokenFits, Mapped, Starting
<1> QED BY <1>5, <1>6, <1>7

LEMMA EndTokenFits ==
  ASSUME AInv, NEW t \in Token, EndToken(t)
  PROVE  /\ AttemptsTypeOK' /\ \A q \in Run : RunFits(q)'
         /\ \A k \in Token : TokenFits(k)'
<1> USE DEF AInv
<1>1. /\ closing[t] = "token" /\ closing' = [closing EXCEPT ![t] = "no"]
      /\ UNCHANGED <<clock, run, map, span, owner, doubled, call>>
      /\ Close({t})
  BY DEF EndToken, Unregister
<1>2. \A k \in Token : /\ attempt'[k].tid = attempt[k].tid
                       /\ attempt'[k].is = IF k \in {t} THEN "over"
                                           ELSE attempt[k].is
  BY <1>1, CloseFacts
<1>3. /\ closing'[t] = "no"
      /\ \A k \in Token \ {t} : closing'[k] = closing[k]
  BY <1>1 DEF AttemptsTypeOK
<1>4. AttemptsTypeOK'
  BY <1>1 DEF AttemptsTypeOK
<1>5. \A q \in Run : RunFits(q)'
  BY <1>1 DEF RunFits
<1>6. attempt[t].is # "new" /\ ~Starting(t) /\ ~Mapped(t) /\ span[t] \in {"ok", "error"}
  BY <1>1 DEF TokenFits, Starting
<1>7. TokenFits(t)'
  BY <1>1, <1>2, <1>3, <1>6 DEF TokenFits, Mapped, Starting
<1>8. \A k \in Token \ {t} : TokenFits(k)'
  BY <1>1, <1>2, <1>3 DEF TokenFits, Mapped, Starting
<1> QED BY <1>4, <1>5, <1>7, <1>8

LEMMA InsertEntryFits ==
  ASSUME Supersedes, AInv, NEW r \in Run, InsertEntry(r)
  PROVE  /\ AttemptsTypeOK' /\ \A q \in Run : RunFits(q)'
         /\ \A k \in Token : TokenFits(k)'
<1> USE DEF AInv
<1>1. PICK T \in SUBSET Token :
        /\ \A t \in T : Mapped(t)
        /\ End(T, "error") /\ Unregister(T) /\ UNCHANGED clock
        /\ \A t \in T : owner[t] = r \/ map'[owner[t]] = NoEntry
        /\ map[r].token \in T \cup {NoToken}
        /\ \A q \in Run \ {r} : map'[q] \in {map[q], NoEntry}
        /\ \A q \in Run \ {r} :
             map[q] # NoEntry /\ map'[q] = NoEntry => map[q].token \in T
        /\ map'[r] = NewEntry(r)
  BY Gone
<1>2. /\ run[r].at = "insert" /\ run' = [run EXCEPT ![r].at = "running"]
      /\ UNCHANGED <<clock, owner, closing, doubled, call>>
      /\ \E m : map' = [Without(Without(map, StaleRuns(run[r].now)), m)
                          EXCEPT ![r] = NewEntry(r)]
  BY DEF InsertEntry
<1>3. /\ run'[r].at = "running" /\ run'[r].token = run[r].token
      /\ run'[r].tid = run[r].tid /\ run'[r].now = run[r].now
      /\ \A q \in Run \ {r} : run'[q] = run[q]
  BY <1>2 DEF AttemptsTypeOK
<1>4. PICK t \in Token : t = run[r].token
  BY <1>2, NothingAssumption DEF RunFits, AttemptsTypeOK
<1>5. /\ NoEntry \in [token : Token \cup {NoToken}, started : Time]
      /\ NoEntry.token = NoToken
      /\ NewEntry(r) \in [token : Token \cup {NoToken}, started : Time]
      /\ NewEntry(r).token = t /\ NewEntry(r) # NoEntry
  BY <1>4, TimeAssumption, NothingAssumption
     DEF NoEntry, NewEntry, AttemptsTypeOK, Time
<1>6. AttemptsTypeOK'
  <2>1. run' \in [Run -> [at : {"idle", "register", "insert", "running", "over",
                                "crashed"},
                          tid : Thread \cup {Nobody},
                          token : Token \cup {NoToken}, now : Time]]
    <3>1. run' = [run EXCEPT ![r].at = "running"]
      BY <1>2
    <3>2. run \in [Run -> [at : {"idle", "register", "insert", "running", "over",
                                 "crashed"},
                           tid : Thread \cup {Nobody},
                           token : Token \cup {NoToken}, now : Time]]
      BY DEF AttemptsTypeOK
    <3> HIDE DEF AInv
    <3> QED BY <3>1, <3>2
  <2>2. map' \in [Run -> [token : Token \cup {NoToken}, started : Time]]
    <3>1. PICK m : map' = [Without(Without(map, StaleRuns(run[r].now)), m)
                             EXCEPT ![r] = NewEntry(r)]
      BY <1>2
    <3>2. DOMAIN map' = Run /\ map' = [q \in Run |-> map'[q]]
      BY <3>1 DEF Without
    <3>3. \A q \in Run : map[q] \in [token : Token \cup {NoToken}, started : Time]
      BY DEF AttemptsTypeOK
    <3>4. \A q \in Run : map'[q] \in [token : Token \cup {NoToken}, started : Time]
      BY <1>1, <1>5, <3>3
    <3> QED BY <3>2, <3>4
  <2>3. span' \in [Token -> {"none", "open", "ok", "error", "twice"}]
    BY <1>1 DEF End, AttemptsTypeOK
  <2> QED BY <1>2, <2>1, <2>2, <2>3 DEF AttemptsTypeOK
<1>7. owner[t] = r /\ r # NoRun /\ Starting(t) /\ t \notin T /\ t # NoToken
  BY <1>1, <1>2, <1>4, NothingAssumption DEF RunFits, TokenFits, Starting
<1>8. \A q \in Run : RunFits(q)'
  <2>1. RunFits(r)'
    BY <1>1, <1>2, <1>3, <1>4, <1>5, <1>7 DEF RunFits
  <2>2. \A q \in Run \ {r} : RunFits(q)'
    BY <1>1, <1>2, <1>3, <1>5 DEF RunFits
  <2> QED BY <2>1, <2>2
<1>9. Close(T)
  BY <1>1 DEF Unregister
<1>10. \A k \in Token : /\ attempt'[k].tid = attempt[k].tid
                        /\ attempt'[k].is = IF k \in T THEN "over"
                                            ELSE attempt[k].is
  BY <1>9, CloseFacts
<1>11. \A k \in T : span[k] = "open" /\ span'[k] = "error"
  BY <1>1 DEF TokenFits, End
<1>12. \A k \in Token \ T : span'[k] = span[k]
  BY <1>1 DEF End
<1>13. TokenFits(t)'
  <2>1. /\ span[t] = "open" /\ span'[t] = "open" /\ owner'[t] = r
        /\ closing'[t] = closing[t]
    BY <1>2, <1>7, <1>10, <1>12 DEF TokenFits
  <2>2. attempt[t].is # "new" /\ attempt[t].tid = run[r].tid
    BY <1>2, <1>4, <1>7 DEF TokenFits
  <2>3. map'[r].token = t
    BY <1>1, <1>5
  <2>4. closing[t] = "no"
    BY <1>7 DEF TokenFits, AttemptsTypeOK
  <2> QED BY <1>3, <1>7, <1>10, <2>1, <2>2, <2>3, <2>4
          DEF TokenFits, Mapped, Starting
<1>14. \A k \in T : TokenFits(k)'
  <2>1. SUFFICES ASSUME NEW k \in T PROVE TokenFits(k)'
    OBVIOUS
  <2>2. k \in Token /\ Mapped(k) /\ ~Starting(k) /\ k # t /\ owner[k] \in Run
    BY <1>1, <1>7, NothingAssumption DEF TokenFits, Mapped, AttemptsTypeOK
  <2>3. ~Mapped(k)'
    BY <1>1, <1>2, <1>5, <2>2, NothingAssumption DEF Mapped
  <2>4. ~Starting(k)'
    BY <1>2, <1>3, <2>2 DEF Starting
  <2>5. closing[k] = "no"
    BY <1>1, <2>2 DEF TokenFits, AttemptsTypeOK
  <2>6. /\ attempt'[k].is = "over" /\ attempt[k].is # "new"
        /\ attempt'[k].tid = attempt[k].tid
    BY <1>10, <2>2 DEF TokenFits, Starting, Mapped
  <2> QED BY <1>2, <1>3, <1>11, <2>2, <2>3, <2>4, <2>5, <2>6 DEF TokenFits
<1>15. \A k \in Token \ (T \cup {t}) : TokenFits(k)'
  <2>1. SUFFICES ASSUME NEW k \in Token, k \notin T, k # t PROVE TokenFits(k)'
    OBVIOUS
  <2>2. owner[k] \in Run \cup {NoRun} /\ NoRun \notin Run /\ k # NoToken
    BY NothingAssumption DEF AttemptsTypeOK
  <2>3. Mapped(k)' <=> Mapped(k)
    <3>1. CASE owner[k] = r
      BY <1>1, <1>2, <1>5, <2>1, <2>2, <3>1 DEF Mapped
    <3>2. CASE owner[k] # r /\ owner[k] \in Run
      <4>1. map'[owner[k]] \in {map[owner[k]], NoEntry}
        BY <1>1, <3>2
      <4>2. map[owner[k]].token = k => map[owner[k]] # NoEntry
        BY <1>5, <2>2
      <4> QED BY <1>1, <1>2, <1>5, <2>1, <2>2, <3>2, <4>1, <4>2 DEF Mapped
    <3>3. CASE owner[k] = NoRun
      BY <1>2, <3>3 DEF Mapped
    <3> QED BY <2>2, <3>1, <3>2, <3>3
  <2>4. Starting(k)' <=> Starting(k)
    BY <1>2, <1>3, <1>4, <2>1, <2>2 DEF Starting
  <2>5. span'[k] = span[k] /\ attempt'[k].is = attempt[k].is
        /\ attempt'[k].tid = attempt[k].tid
    BY <1>10, <1>12, <2>1
  <2> QED BY <1>2, <1>3, <1>4, <2>1, <2>2, <2>3, <2>4, <2>5 DEF TokenFits
<1> QED BY <1>6, <1>8, <1>13, <1>14, <1>15

\* The steps of the SDKs' wrappers, and of time.
LEMMA OthersFit ==
  ASSUME AInv, UNCHANGED <<run, map, span, owner, closing>>,
         \A k \in Token : /\ attempt'[k].tid = attempt[k].tid
                          /\ attempt'[k].is \in {"over", attempt[k].is}
                          /\ attempt[k].is = "new" => attempt'[k].is = "new",
         clock <= clock', IInv', AttemptsTypeOK'
  PROVE  /\ AttemptsTypeOK' /\ \A q \in Run : RunFits(q)'
         /\ \A k \in Token : TokenFits(k)'
<1> USE DEF AInv
<1>1. \A q \in Run : RunFits(q)'
  <2>1. \A q \in Run : run[q].now \in Nat
    BY TimeAssumption DEF AttemptsTypeOK, Time
  <2>2. clock \in Nat /\ clock' \in Nat
    BY TimeAssumption DEF IInv, RegistryTypeOK, Time
  <2> QED BY <2>1, <2>2 DEF RunFits
<1>2. \A k \in Token : TokenFits(k)'
  BY DEF TokenFits, Mapped, Starting
<1> QED BY <1>1, <1>2

LEMMA NextFits == ASSUME Supersedes, AInv, [Next]_allVars PROVE AInv'
<1> DEFINE Fits == /\ AttemptsTypeOK' /\ \A q \in Run : RunFits(q)'
                   /\ \A k \in Token : TokenFits(k)'
<1>1. IInv'
  BY RegistrySteps, StepInv DEF AInv
<1>2. ASSUME NEW r \in Run, NEW tid \in Thread, NEW t \in Token,
             StartSpan(r, tid, t)
      PROVE  Fits
  BY <1>2, StartSpanFits
<1>3. ASSUME NEW r \in Run, RegisterToken(r) PROVE Fits
  BY <1>3, RegisterTokenFits
<1>4. ASSUME NEW r \in Run, InsertEntry(r) PROVE Fits
  BY <1>4, InsertEntryFits
<1>5. ASSUME NEW r \in Run, Finalize(r) PROVE Fits
  BY <1>5, FinalizeFits
<1>6. ASSUME NEW r \in Run, Crash(r) PROVE Fits
  BY <1>6, CrashFits
<1>7. ASSUME NEW t \in Token, EndSpan(t) PROVE Fits
  BY <1>7, EndSpanFits
<1>8. ASSUME NEW t \in Token, EndToken(t) PROVE Fits
  BY <1>8, EndTokenFits
<1>a. clock \in Nat /\ clock <= clock
  BY TimeAssumption DEF AInv, IInv, RegistryTypeOK, Time
<1>9. ASSUME NEW r \in Run, SendInRun(r) PROVE Fits
  <2>1. /\ UNCHANGED <<clock, attempt, run, map, span, owner, closing, call>>
        /\ doubled' \in {doubled, doubled \cup {run[r].token}}
        /\ run[r].token \in Token
    BY <1>9 DEF SendInRun, IsFrameworkOwned, AInv, RunFits, AttemptsTypeOK
  <2>2. AttemptsTypeOK'
    BY <2>1 DEF AInv, AttemptsTypeOK
  <2> QED BY <1>1, <1>a, <2>1, <2>2, OthersFit
<1>10. ASSUME NEW c \in Call, NEW tid \in Thread, SendDirectly(c, tid) PROVE Fits
  <2>1. /\ UNCHANGED <<clock, attempt, run, map, span, owner, closing, doubled>>
        /\ \E did \in {"suppressed", "span"} :
             call' = [call EXCEPT ![c] = [did |-> did, tid |-> tid]]
    BY <1>10 DEF SendDirectly, IsFrameworkOwned
  <2>2. AttemptsTypeOK'
    BY <2>1 DEF AInv, AttemptsTypeOK
  <2> QED BY <1>1, <1>a, <2>1, <2>2, OthersFit
<1>11. ASSUME NEW tid \in Thread, ClearThread(tid) PROVE Fits
  <2>1. /\ UNCHANGED <<clock, run, map, span, owner, closing, doubled, call>>
        /\ Close(TokensOf({e \in registry : e.tid = tid}))
    BY <1>11 DEF ClearThread, ClearForThread, attemptVars
  <2>2. \A k \in TokensOf({e \in registry : e.tid = tid}) : attempt[k].is = "open"
    BY DEF AInv, IInv, EntriesInv, Records, TokensOf
  <2>3. \A k \in Token : /\ attempt'[k].tid = attempt[k].tid
                         /\ attempt'[k].is \in {"over", attempt[k].is}
                         /\ attempt[k].is = "new" => attempt'[k].is = "new"
    BY <2>1, <2>2, CloseFacts
  <2>4. AttemptsTypeOK'
    BY <2>1 DEF AInv, AttemptsTypeOK
  <2> QED BY <1>1, <1>a, <2>1, <2>3, <2>4, OthersFit
<1>12. ASSUME Tick /\ UNCHANGED <<registryVars, attemptVars>> PROVE Fits
  <2>1. /\ UNCHANGED <<attempt, run, map, span, owner, closing, doubled, call>>
        /\ clock' = clock + 1
    BY <1>12 DEF Tick, registryVars, attemptVars
  <2>2. AttemptsTypeOK'
    BY <2>1 DEF AInv, AttemptsTypeOK
  <2> QED BY <1>1, <1>a, <2>1, <2>2, OthersFit
<1>13. ASSUME UNCHANGED allVars PROVE Fits
  <2>1. UNCHANGED <<clock, attempt, run, map, span, owner, closing, doubled, call>>
    BY <1>13 DEF allVars, vars, registryVars, attemptVars
  <2>2. AttemptsTypeOK'
    BY <2>1 DEF AInv, AttemptsTypeOK
  <2> QED BY <1>1, <1>a, <2>1, <2>2, OthersFit
<1>14. Fits
  <2> HIDE DEF Fits
  <2> QED BY <1>2, <1>3, <1>4, <1>5, <1>6, <1>7, <1>8, <1>9, <1>10, <1>11, <1>12,
             <1>13 DEF Next
<1> QED BY <1>1, <1>14 DEF AInv

-----------------------------------------------------------------------------
(* The theorems. *)

\* The inductive invariant of the attempt spans.
THEOREM AttemptsInvariant == Supersedes => (Spec => []AInv)
<1> SUFFICES ASSUME Supersedes PROVE Spec => []AInv
  OBVIOUS
<1>1. Init => AInv
  BY InitFits
<1>2. AInv /\ [Next]_allVars => AInv'
  BY NextFits
<1> QED BY <1>1, <1>2, PTL DEF Spec

\* The wrappers of the frameworks and of the SDKs use the registry as its
\* specification says, so that all that was shown of it holds with them.
THEOREM RegistryImplemented == Supersedes => (Spec => RegistrySpec)
<1> SUFFICES ASSUME Supersedes PROVE Spec => RegistrySpec
  OBVIOUS
<1>1. Init => RegistryInit
  BY DEF Init
<1>2. AInv /\ [Next]_allVars => [RegistryNext]_vars
  BY RegistrySteps
<1> QED BY <1>1, <1>2, AttemptsInvariant, PTL DEF Spec, RegistrySpec

\* No span of an attempt is ended twice, and none is open that nobody can close,
\* whoever closes it: end callbacks, evictions, or another start callback.
THEOREM SpansAlwaysAccounted == Supersedes => (Spec => []SpansAccounted)
<1> SUFFICES ASSUME Supersedes PROVE Spec => []SpansAccounted
  OBVIOUS
<1>1. AInv => SpansAccounted
  <2>1. SUFFICES ASSUME AInv PROVE SpansAccounted
    OBVIOUS
  <2>2. TypeOK
    BY <2>1 DEF AInv, IInv, AttemptsTypeOK, TypeOK
  <2>3. SpansEndOnce
    BY <2>1 DEF AInv, TokenFits, SpansEndOnce
  <2>4. OpenSpansReachable
    <3>1. SUFFICES ASSUME NEW t \in Token, span[t] = "open"
                   PROVE  \/ closing[t] = "span"
                          \/ \E r \in Run : map[r].token = t
                          \/ \E r \in Run : run[r].token = t
                               /\ run[r].at \in {"register", "insert"}
      BY DEF OpenSpansReachable
    <3>2. closing[t] = "span" \/ Mapped(t) \/ Starting(t)
      BY <2>1, <3>1 DEF AInv, TokenFits
    <3>3. owner[t] # NoRun => owner[t] \in Run
      BY <2>1 DEF AInv, AttemptsTypeOK
    <3> QED BY <3>2, <3>3 DEF Mapped, Starting
  <2> QED BY <2>2, <2>3, <2>4 DEF SpansAccounted
<1> QED BY <1>1, AttemptsInvariant, PTL

\* A run that is over leaves neither an open span nor a token on a thread.
THEOREM FinishedAlwaysLeaveNothing ==
  Supersedes => (Spec => []FinishedRunsLeaveNothing)
<1> SUFFICES ASSUME Supersedes PROVE Spec => []FinishedRunsLeaveNothing
  OBVIOUS
<1>1. AInv => FinishedRunsLeaveNothing
  <2>1. SUFFICES ASSUME AInv, NEW t \in Token, owner[t] # NoRun,
                        run[owner[t]].at = "over", closing[t] = "no"
                 PROVE  span[t] # "open" /\ t \notin TokensOf(registry)
    BY DEF FinishedRunsLeaveNothing
  <2>2. owner[t] \in Run /\ t # NoToken
    BY <2>1, NothingAssumption DEF AInv, AttemptsTypeOK
  <2>3. ~Mapped(t) /\ ~Starting(t)
    BY <2>1, <2>2 DEF AInv, RunFits, Mapped, Starting
  <2>4. span[t] # "open"
    BY <2>1, <2>3 DEF AInv, TokenFits
  <2>5. attempt[t].is # "open"
    BY <2>1, <2>4 DEF AInv, TokenFits
  <2> QED BY <2>1, <2>4, <2>5 DEF AInv, IInv, EntriesInv, Records, TokensOf
<1> QED BY <1>1, AttemptsInvariant, PTL

\* With the wrappers around it, too, the registry answers for a reason and for
\* every reason.
THEOREM AnswersStayExact == Supersedes => (Spec => []AnswersExactly)
BY RegistryImplemented, AnswersAlwaysExact, PTL

\* An SDK call of the application is suppressed only on account of an attempt
\* on its own thread that is in progress and within the limit of age.
THEOREM AlwaysSuppressedForAReason == Supersedes => (Spec => SuppressedForAReason)
<1> SUFFICES ASSUME Supersedes PROVE Spec => SuppressedForAReason
  OBVIOUS
<1>1. AInv /\ [Next]_allVars =>
        [\A c \in Call :
           call'[c].did = "suppressed" /\ call[c].did = "nothing" =>
             \E t \in Token : /\ owner[t] # NoRun
                              /\ span[t] = "open" \/ closing[t] = "token"
                              /\ run[owner[t]].tid = call'[c].tid
                              /\ attempt[t].started + Ttl >= clock]_allVars
  <2>1. SUFFICES ASSUME AInv, Next, NEW c \in Call,
                        call'[c].did = "suppressed", call[c].did = "nothing"
                 PROVE  \E t \in Token :
                          /\ owner[t] # NoRun
                          /\ span[t] = "open" \/ closing[t] = "token"
                          /\ run[owner[t]].tid = call'[c].tid
                          /\ attempt[t].started + Ttl >= clock
    OBVIOUS
  <2>2. PICK d \in Call, tid \in Thread : SendDirectly(d, tid)
    BY <2>1 DEF Next, StartSpan, RegisterToken, InsertEntry, Finalize, Crash,
       SendInRun, EndSpan, EndToken, ClearThread, attemptVars
  <2>3. d = c /\ call'[c].tid = tid /\ Owned(tid, clock)
    BY <2>1, <2>2 DEF SendDirectly, AInv, AttemptsTypeOK
  <2>4. PICK e \in registry : e.tid = tid /\ ~(e.started + Ttl < clock)
    BY <2>3 DEF Owned, Stale
  <2>5. e.token \in Token /\ e.started \in Nat /\ clock \in Nat
    BY <2>1, TimeAssumption DEF AInv, IInv, RegistryTypeOK, Entry, Time
  <2>6. Records(e)
    BY <2>1 DEF AInv, IInv, EntriesInv
  <2>7. /\ attempt[e.token].is = "open" /\ attempt[e.token].tid = tid
        /\ attempt[e.token].started + Ttl >= clock
    BY <2>4, <2>5, <2>6, TimeAssumption DEF Records
  <2>8. /\ owner[e.token] # NoRun /\ run[owner[e.token]].tid = tid
        /\ span[e.token] = "open" \/ closing[e.token] = "token"
    BY <2>1, <2>5, <2>7 DEF AInv, TokenFits
  <2> QED BY <2>3, <2>5, <2>7, <2>8
<1> QED BY <1>1, AttemptsInvariant, PTL DEF Spec, SuppressedForAReason

\* Inside a run an attempt gets a second span only when it is older than a
\* limit, was dropped by a cap, or was cleared.
THEOREM SecondSpanAlwaysOnlyWhenOld == Supersedes => (Spec => SecondSpanOnlyWhenOld)
<1> SUFFICES ASSUME Supersedes PROVE Spec => SecondSpanOnlyWhenOld
  OBVIOUS
<1>1. AInv /\ [Next]_allVars =>
        [\A t \in Token :
           t \in doubled' \ doubled =>
             \/ attempt[t].started + Ttl < clock
             \/ t \in dropped \/ attempt[t].is = "over"
             \/ span[t] = "error"]_allVars
  <2>1. SUFFICES ASSUME AInv, Next, NEW t \in Token, t \in doubled' \ doubled
                 PROVE  \/ attempt[t].started + Ttl < clock
                        \/ t \in dropped \/ attempt[t].is = "over"
    OBVIOUS
  <2>2. PICK r \in Run : SendInRun(r)
    BY <2>1 DEF Next, StartSpan, RegisterToken, InsertEntry, Finalize, Crash,
       SendDirectly, EndSpan, EndToken, ClearThread, attemptVars
  <2>3. t = run[r].token /\ ~Owned(run[r].tid, clock) /\ run[r].at = "running"
    BY <2>1, <2>2 DEF SendInRun
  <2>4. owner[t] = r /\ r # NoRun /\ attempt[t].is # "new"
    BY <2>1, <2>3, NothingAssumption DEF AInv, RunFits, TokenFits
  <2>5. attempt[t].tid = run[r].tid /\ attempt[t].is \in {"open", "over"}
    BY <2>1, <2>4 DEF AInv, TokenFits, IInv, RegistryTypeOK, Attempt
  <2>6. SUFFICES ASSUME attempt[t].is = "open", t \notin dropped,
                        ~(attempt[t].started + Ttl < clock)
                 PROVE  FALSE
    BY <2>5
  <2>7. attempt[t].started \in Nat /\ clock \in Nat
    BY <2>1, TimeAssumption DEF AInv, IInv, RegistryTypeOK, Attempt, Time
  <2>8. PICK e \in registry : e.token = t
    BY <2>1, <2>6, <2>7, TimeAssumption DEF AInv, IInv, EntriesInv, Open
  <2>9. e.tid = attempt[t].tid /\ e.started = attempt[t].started
    BY <2>1, <2>8 DEF AInv, IInv, EntriesInv, Records
  <2> QED BY <2>3, <2>5, <2>6, <2>8, <2>9 DEF Owned, Stale
<1> QED BY <1>1, AttemptsInvariant, PTL DEF Spec, SecondSpanOnlyWhenOld

=============================================================================
