-------------------------- MODULE HttpAttemptsProofs --------------------------
(***************************************************************************)
(* Theorems about HttpAttempts, for any calls, any number of requests, and *)
(* any limits of the counters.                                             *)
(*                                                                         *)
(* A call, its spans and Bedrock's context fit together by themselves      *)
(* (Fits), the usage of an attempt that was answered well among it         *)
(* (Metering); what calls share is the marks and the counters.  A counter  *)
(* that was never evicted is as high as the numbers it gave (CounterInv).  *)
(***************************************************************************)
EXTENDS HttpAttempts, FiniteSetTheorems, TLAPS

\* An attempt that was answered well has the usage that its kind tells.
Metering(c, a) == a.told = "ok" /\ call[c].shape.kind \notin Unmetered => a.usage

\* The invariant of one call, its attempts and its request's context.
Fits(c) ==
  /\ call[c].at = "idle" => call[c].tries = 0
  /\ call[c].at = "number" =>
       call[c].tries < MaxTries /\ ~call[c].shape.stream /\ ParentOf(c) # NoSpan
       /\ held[c] = 0
  /\ call[c].at = "sent" =>
       /\ call[c].tries \in Try
       /\ attempt[c][call[c].tries].is = "open"
       /\ attempt[c][call[c].tries].told = "nothing"
       /\ ProviderOf(c) = "bedrock" => held[c] = call[c].tries
  /\ held[c] # 0 =>
       /\ ProviderOf(c) = "bedrock" /\ held[c] \in Try /\ held[c] <= call[c].tries
       /\ attempt[c][held[c]].is = "open"
       /\ attempt[c][held[c]].told \in {"nothing", "unanswered"}
  /\ \A i \in Try :
       /\ i > call[c].tries => attempt[c][i] = NoAttempt
       /\ attempt[c][i] # NoAttempt =>
            /\ attempt[c][i].parent = ParentOf(c) /\ ParentOf(c) # NoSpan
            /\ ~call[c].shape.stream
            /\ attempt[c][i].told \in {"ok", "error"} => attempt[c][i].is = attempt[c][i].told
            /\ attempt[c][i].told = "nothing" => call[c].at = "sent" /\ i = call[c].tries
            /\ attempt[c][i].told = "unanswered" =>
                 \/ attempt[c][i].is = "error"
                 \/ attempt[c][i].is = "open" /\ held[c] = i
            /\ Metering(c, attempt[c][i])

\* The types of the calls, and of one attempt.
Calls == [Call -> [at : {"idle", "ready", "number", "sent", "over"},
                   shape : Shapes \cup {NoShape}, tries : 0..MaxTries,
                   now : 0..MaxClock]]
Attempts == [parent : Parent \cup {NoSpan}, number : Nat, retry : BOOLEAN,
             is : {"none", "open", "ok", "error"},
             told : {"nothing", "unanswered", "ok", "error"}, usage : BOOLEAN]

\* What a step that opens no span leaves of an attempt.
SameOpening(c) ==
  \A i \in Try : /\ attempt'[c][i].parent = attempt[c][i].parent
                 /\ attempt'[c][i].number = attempt[c][i].number
                 /\ attempt'[c][i].retry = attempt[c][i].retry
                 /\ attempt'[c][i] = NoAttempt <=> attempt[c][i] = NoAttempt

AttemptUnder(p) == \E c \in Call : \E i \in Try : attempt[c][i].parent = p

MarkedInv == \A p \in Parent : p \in marked <=> AttemptUnder(p)

CounterInv ==
  /\ \A p \in Parent : counters[p].last > 0 => AttemptUnder(p)
  /\ \A p \in Parent \ evicted : \A c \in Call : \A i \in Try :
       attempt[c][i].parent = p => attempt[c][i].number <= counters[p].last
  /\ \A c \in Call \ evicted :
       ParentOf(c) = c => counters[c].last = Cardinality(Opened(c))

IInv == /\ TypeOK /\ \A c \in Call : Fits(c)
        /\ MarkedInv /\ CounterInv /\ NumbersTell

-----------------------------------------------------------------------------
(* Facts about types and parents. *)

LEMMA ShapeTypes ==
  ASSUME TypeOK, NEW c \in Call
  PROVE  /\ call[c].shape.ambient \in {App, NoSpan}
         /\ call[c].shape.stream \in BOOLEAN /\ call[c].shape.suppressed \in BOOLEAN
         /\ call[c].tries \in 0..MaxTries /\ call[c].now \in 0..MaxClock
<1>1. /\ call[c].shape \in Shapes \cup {NoShape}
      /\ call[c].tries \in 0..MaxTries /\ call[c].now \in 0..MaxClock
  BY DEF TypeOK
<1>2. CASE call[c].shape \in Shapes
  BY <1>1, <1>2, ShapesAssumption DEF Shape
<1>3. CASE call[c].shape = NoShape
  BY <1>1, <1>3 DEF NoShape
<1> QED BY <1>1, <1>2, <1>3

\* The parent of a call's attempts is its own span, the application's, or none.
LEMMA Parents ==
  ASSUME TypeOK, NEW c \in Call
  PROVE  /\ ParentOf(c) \in {c, App, NoSpan}
         /\ ParentOf(c) # NoSpan => ParentOf(c) \in Parent
         /\ c \in Parent /\ c # App /\ c # NoSpan /\ App # NoSpan
BY ShapeTypes, NamesAssumption DEF ParentOf, Parent

\* What is asked of a call's shape stays the answer while it has that shape.
LEMMA SameShape ==
  ASSUME NEW c \in Call, call'[c].shape = call[c].shape
  PROVE  /\ ProviderOf(c)' = ProviderOf(c)
         /\ ParentOf(c)' = ParentOf(c)
         /\ Covers(c)' = Covers(c)
<1>1. ProviderOf(c)' = ProviderOf(c)
  BY Zenon DEF ProviderOf
<1>2. Covers(c)' = Covers(c) /\ ParentOf(c)' = ParentOf(c)
  BY DEF Covers, ParentOf
<1> QED BY <1>1, <1>2

LEMMA OpenedFinite ==
  ASSUME NEW c \in Call
  PROVE  IsFiniteSet(Opened(c)) /\ Cardinality(Opened(c)) \in Nat
<1>1. Opened(c) \subseteq 1..MaxTries BY DEF Opened, Try
<1>2. IsFiniteSet(1..MaxTries) BY BoundsAssumption, FS_Interval
<1> QED BY <1>1, <1>2, FS_Subset, FS_CardinalityType

LEMMA InitHolds == ASSUME Init PROVE IInv
<1> USE DEF Init
<1>1. TypeOK
  <2>1. call \in [Call -> [at : {"idle", "ready", "number", "sent", "over"},
                           shape : Shapes \cup {NoShape}, tries : 0..MaxTries,
                           now : 0..MaxClock]]
    BY BoundsAssumption
  <2>2. attempt \in [Call -> [Try ->
          [parent : Parent \cup {NoSpan}, number : Nat, retry : BOOLEAN,
           is : {"none", "open", "ok", "error"},
           told : {"nothing", "unanswered", "ok", "error"}, usage : BOOLEAN]]]
    BY DEF NoAttempt
  <2>3. held \in [Call -> 0..MaxTries]
        /\ counters \in [Parent -> [last : Nat, seen : 0..MaxClock]]
    BY BoundsAssumption DEF NoCounter
  <2>4. /\ marked \subseteq Parent /\ evicted \subseteq Parent
        /\ installed \subseteq Provider
    OBVIOUS
  <2>5. clock \in 0..MaxClock
    BY BoundsAssumption
  <2>6. owned \in BOOLEAN
    OBVIOUS
  <2> QED BY <2>1, <2>2, <2>3, <2>4, <2>5, <2>6 DEF TypeOK
<1>2. \A c \in Call : Fits(c)
  BY BoundsAssumption DEF Fits, NoAttempt, NoShape, Try
<1>3. \A p \in Parent : ~AttemptUnder(p)
  BY NamesAssumption DEF AttemptUnder, NoAttempt, Parent
<1>4. MarkedInv
  BY <1>3 DEF MarkedInv
<1>5. \A c \in Call : Opened(c) = {}
  BY DEF Opened
<1>6. CounterInv
  BY <1>3, <1>5, FS_EmptySet DEF CounterInv, NoCounter, AttemptUnder, Parent
<1>7. NumbersTell
  BY <1>5 DEF NumbersTell
<1> QED BY <1>1, <1>2, <1>4, <1>6, <1>7 DEF IInv

-----------------------------------------------------------------------------
(* Steps that open no span. *)

\* Another call is not disturbed.
LEMMA OthersFit ==
  ASSUME IInv, NEW c \in Call, Fits(c)',
         \A d \in Call \ {c} : /\ call'[d] = call[d] /\ attempt'[d] = attempt[d]
                               /\ held'[d] = held[d]
  PROVE  \A d \in Call : Fits(d)'
<1> SUFFICES ASSUME NEW d \in Call, d # c PROVE Fits(d)'
  OBVIOUS
<1>1. /\ call'[d] = call[d] /\ attempt'[d] = attempt[d] /\ held'[d] = held[d]
      /\ Fits(d)
  BY DEF IInv
<1>2. ProviderOf(d)' = ProviderOf(d) /\ ParentOf(d)' = ParentOf(d)
  BY <1>1, SameShape
<1> QED BY <1>1, <1>2 DEF Fits, Metering

\* What calls share is not disturbed by what happens to spans that are open.
LEMMA SharedKeeps ==
  ASSUME IInv, counters' = counters, marked' = marked, evicted' = evicted,
         \A c \in Call : \A i \in Try :
           /\ attempt'[c][i].parent = attempt[c][i].parent
           /\ attempt'[c][i].number = attempt[c][i].number
           /\ attempt'[c][i].retry = attempt[c][i].retry
           /\ attempt'[c][i] = NoAttempt <=> attempt[c][i] = NoAttempt,
         \A c \in Call : ParentOf(c)' = c /\ c \notin evicted
           => counters[c].last = Cardinality(Opened(c))
  PROVE  MarkedInv' /\ CounterInv' /\ NumbersTell'
<1>1. \A c \in Call : Opened(c)' = Opened(c)
  BY DEF Opened, Try
<1>2. \A p : AttemptUnder(p)' <=> AttemptUnder(p)
  BY DEF AttemptUnder, Try
<1>3. MarkedInv'
  BY <1>2 DEF IInv, MarkedInv, Parent
<1>4. CounterInv'
  BY <1>1, <1>2 DEF IInv, CounterInv, Parent, Try
<1>5. NumbersTell'
  BY <1>1 DEF IInv, NumbersTell, Opened, Try
<1> QED BY <1>3, <1>4, <1>5

\* The same, for a step in which calls keep their shapes.
LEMMA OwnKeeps ==
  ASSUME IInv, counters' = counters, marked' = marked, evicted' = evicted,
         \A c \in Call : call'[c].shape = call[c].shape,
         \A c \in Call : \A i \in Try :
           /\ attempt'[c][i].parent = attempt[c][i].parent
           /\ attempt'[c][i].number = attempt[c][i].number
           /\ attempt'[c][i].retry = attempt[c][i].retry
           /\ attempt'[c][i] = NoAttempt <=> attempt[c][i] = NoAttempt
  PROVE  MarkedInv' /\ CounterInv' /\ NumbersTell'
<1>1. \A c \in Call : ParentOf(c)' = ParentOf(c)
  BY SameShape
<1> QED BY <1>1, SharedKeeps DEF IInv, CounterInv

LEMMA BeginKeeps == ASSUME IInv, NEW c \in Call, Begin(c) PROVE IInv'
<1> USE DEF IInv
<1>1. PICK s \in Shapes :
        call' = [call EXCEPT ![c] = [at |-> "ready", shape |-> s,
                                     tries |-> 0, now |-> 0]]
  BY DEF Begin
<1>2. /\ call[c].at = "idle"
      /\ UNCHANGED <<attempt, held, counters, marked, installed, owned, clock,
                     evicted>>
  BY DEF Begin
<1>3. TypeOK'
  BY <1>1, <1>2, BoundsAssumption DEF TypeOK, Parent
<1>4. /\ call'[c] = [at |-> "ready", shape |-> s, tries |-> 0, now |-> 0]
      /\ \A d \in Call \ {c} : call'[d] = call[d]
  BY <1>1 DEF TypeOK
<1>5. call[c].tries = 0 /\ held[c] = 0 /\ \A i \in Try : attempt[c][i] = NoAttempt
  BY <1>2, BoundsAssumption DEF Fits, Try, TypeOK
<1>6. Fits(c)'
  BY <1>2, <1>4, <1>5 DEF Fits
<1>7. \A d \in Call : Fits(d)'
  BY <1>2, <1>4, <1>6, OthersFit
<1>8. ~AttemptUnder(c)
  <2>1. SUFFICES ASSUME NEW d \in Call, NEW i \in Try, attempt[d][i].parent = c
                 PROVE  FALSE
    BY DEF AttemptUnder
  <2>2. attempt[d][i] # NoAttempt
    BY <2>1, Parents DEF NoAttempt
  <2>3. ParentOf(d) = c
    BY <2>1, <2>2 DEF Fits
  <2> QED BY <1>5, <2>2, <2>3, Parents
<1>9. counters[c].last = 0 /\ Cardinality(Opened(c)) = 0
  <2>1. counters[c].last \in Nat
    BY Parents DEF TypeOK
  <2>2. Opened(c) = {}
    BY <1>5 DEF Opened
  <2> QED BY <1>8, <2>1, <2>2, FS_EmptySet, Parents DEF CounterInv
<1>10. \A d \in Call \ {c} : ParentOf(d)' = ParentOf(d)
  BY <1>4, SameShape
<1>11. \A d \in Call : ParentOf(d)' = d /\ d \notin evicted
         => counters[d].last = Cardinality(Opened(d))
  BY <1>9, <1>10 DEF CounterInv
<1> QED BY <1>2, <1>3, <1>7, <1>11, SharedKeeps

\* What a step of one call that opens no span must show.
LEMMA CallKeeps ==
  ASSUME IInv, NEW c \in Call, call' \in Calls,
         call'[c].shape = call[c].shape,
         held' \in [Call -> 0..MaxTries],
         attempt' \in [Call -> [Try -> Attempts]],
         \A d \in Call \ {c} : /\ call'[d] = call[d] /\ attempt'[d] = attempt[d]
                               /\ held'[d] = held[d],
         SameOpening(c), Fits(c)',
         UNCHANGED <<counters, marked, evicted>>,
         installed' \subseteq Provider, owned' \in BOOLEAN, clock' \in 0..MaxClock
  PROVE  IInv'
<1>1. TypeOK'
  BY DEF IInv, TypeOK, Parent, Calls, Attempts
<1>2. \A d \in Call : call'[d].shape = call[d].shape
  OBVIOUS
<1>3. \A d \in Call : Fits(d)'
  BY OthersFit
<1>4. MarkedInv' /\ CounterInv' /\ NumbersTell'
  BY <1>2, OwnKeeps DEF SameOpening
<1> QED BY <1>1, <1>3, <1>4 DEF IInv

\* Where a request leaves its call.
LEMMA AfterMoves ==
  ASSUME TypeOK, NEW c \in Call, NEW out, NEW tries \in 0..MaxTries,
         After(c, out, tries)
  PROVE  /\ call' \in Calls /\ \A d \in Call \ {c} : call'[d] = call[d]
         /\ call'[c].at \in {"ready", "over"} /\ call'[c].tries = tries
         /\ call'[c].shape = call[c].shape
<1>1. PICK at \in {"ready", "over"} :
        call' = [call EXCEPT ![c].at = at, ![c].tries = tries]
  BY DEF After
<1>2. call \in Calls
  BY DEF TypeOK, Calls
<1>3. call' \in Calls
  BY <1>1, <1>2 DEF Calls
<1>4. /\ call'[c].at = at /\ call'[c].tries = tries
      /\ call'[c].shape = call[c].shape
      /\ \A d \in Call \ {c} : call'[d] = call[d]
  BY <1>1, <1>2 DEF Calls
<1> QED BY <1>3, <1>4

\* What is left of an attempt whose span is ended.
LEMMA EndedRecord ==
  ASSUME NEW a \in Attempts
  PROVE  LET b == [a EXCEPT !.is = "error"]
         IN  /\ b \in Attempts /\ b.is = "error"
             /\ b.parent = a.parent /\ b.number = a.number /\ b.retry = a.retry
             /\ b.told = a.told /\ b.usage = a.usage
BY DEF Attempts

\* A span that Bedrock's hook finds in the context is ended; no other is touched.
LEMMA LeftoverEnds ==
  ASSUME IInv, NEW c \in Call, call[c].at = "ready",
         attempt' = [attempt EXCEPT ![c] = [i \in Try |->
                      IF i \in Leftover(c) THEN Ended(@[i], "error") ELSE @[i]]],
         held' = [held EXCEPT ![c] = IF Leftover(c) # {} THEN 0 ELSE @]
  PROVE  /\ held' \in [Call -> 0..MaxTries]
         /\ attempt' \in [Call -> [Try -> Attempts]]
         /\ \A d \in Call \ {c} : attempt'[d] = attempt[d] /\ held'[d] = held[d]
         /\ SameOpening(c)
         /\ held'[c] \in {0, held[c]}
         /\ \A i \in Try :
              attempt'[c][i] = IF held[c] = i /\ held'[c] = 0
                                 THEN [attempt[c][i] EXCEPT !.is = "error"]
                                 ELSE attempt[c][i]
         /\ \A i \in Try : held[c] = i => /\ attempt[c][i].is = "open"
                                          /\ attempt[c][i].told = "unanswered"
         /\ Leftover(c) = {held[c]} \ {0} => held'[c] = 0
<1>1. /\ held \in [Call -> 0..MaxTries] /\ Fits(c)
      /\ attempt \in [Call -> [Try -> Attempts]]
  BY DEF IInv, TypeOK, Attempts
<1>2. held'[c] = IF Leftover(c) # {} THEN 0 ELSE held[c]
  BY <1>1
<1>3. /\ held' \in [Call -> 0..MaxTries]
      /\ \A d \in Call \ {c} : attempt'[d] = attempt[d] /\ held'[d] = held[d]
  BY <1>1, BoundsAssumption
<1>4. Leftover(c) \in {{}, {held[c]} \ {0}}
  BY DEF Leftover
<1>5. \A i \in Try : i \in Leftover(c) <=> held[c] = i /\ held'[c] = 0
  BY <1>2, <1>4, BoundsAssumption DEF Try
<1>6. \A i \in Try : held[c] = i => /\ attempt[c][i].is = "open"
                                    /\ attempt[c][i].told = "unanswered"
  BY <1>1, BoundsAssumption DEF Fits, NoAttempt, Try
<1>7. \A i \in Try : attempt'[c][i] = IF i \in Leftover(c)
                       THEN Ended(attempt[c][i], "error") ELSE attempt[c][i]
  BY <1>1
<1>8. \A i \in Try :
        attempt'[c][i] = IF held[c] = i /\ held'[c] = 0
                           THEN [attempt[c][i] EXCEPT !.is = "error"]
                           ELSE attempt[c][i]
  BY <1>5, <1>6, <1>7 DEF Ended
<1>9. \A i \in Try : attempt'[c][i] \in Attempts
  <2>1. SUFFICES ASSUME NEW i \in Try PROVE attempt'[c][i] \in Attempts
    OBVIOUS
  <2>2. attempt[c][i] \in Attempts
    BY <1>1
  <2>3. [attempt[c][i] EXCEPT !.is = "error"] \in Attempts
    BY <2>2, EndedRecord
  <2> QED BY <1>8, <2>2, <2>3
<1>10. attempt' \in [Call -> [Try -> Attempts]]
  <2>1. attempt'[c] = [i \in Try |-> IF i \in Leftover(c)
                         THEN Ended(attempt[c][i], "error") ELSE attempt[c][i]]
    BY <1>1
  <2>2. attempt'[c] \in [Try -> Attempts]
    BY <1>9, <2>1
  <2> QED BY <1>1, <2>2
<1>11. SameOpening(c)
  <2>1. SUFFICES ASSUME NEW i \in Try
                 PROVE  /\ attempt'[c][i].parent = attempt[c][i].parent
                        /\ attempt'[c][i].number = attempt[c][i].number
                        /\ attempt'[c][i].retry = attempt[c][i].retry
                        /\ attempt'[c][i] = NoAttempt <=> attempt[c][i] = NoAttempt
    BY DEF SameOpening
  <2>2. CASE held[c] = i /\ held'[c] = 0
    <3>1. attempt'[c][i] = [attempt[c][i] EXCEPT !.is = "error"]
          /\ attempt[c][i] \in Attempts /\ attempt[c][i].is = "open"
      BY <1>1, <1>6, <1>8, <2>2
    <3>2. /\ attempt'[c][i].is = "error"
          /\ attempt'[c][i].parent = attempt[c][i].parent
          /\ attempt'[c][i].number = attempt[c][i].number
          /\ attempt'[c][i].retry = attempt[c][i].retry
      BY <3>1, EndedRecord
    <3> QED BY <3>1, <3>2 DEF NoAttempt
  <2>3. CASE ~(held[c] = i /\ held'[c] = 0)
    BY <1>8, <2>3
  <2> QED BY <2>2, <2>3
<1>12. /\ held'[c] \in {0, held[c]}
       /\ Leftover(c) = {held[c]} \ {0} => held'[c] = 0
  BY <1>2
<1> QED BY <1>3, <1>6, <1>8, <1>10, <1>11, <1>12

\* A call that leaves a span behind fits as before.
LEMMA LeftoverFits ==
  ASSUME IInv, NEW c \in Call, call[c].at = "ready",
         attempt' = [attempt EXCEPT ![c] = [i \in Try |->
                      IF i \in Leftover(c) THEN Ended(@[i], "error") ELSE @[i]]],
         held' = [held EXCEPT ![c] = IF Leftover(c) # {} THEN 0 ELSE @],
         call'[c].shape = call[c].shape, call[c].tries <= call'[c].tries,
         \/ call'[c].at \in {"ready", "over"}
         \/ /\ call'[c].at = "number" /\ call'[c].tries < MaxTries
            /\ ~call[c].shape.stream /\ ParentOf(c) # NoSpan /\ held'[c] = 0,
         call'[c].tries \in Nat
  PROVE  Fits(c)'
<1>1. /\ ProviderOf(c)' = ProviderOf(c) /\ ParentOf(c)' = ParentOf(c)
  BY SameShape
<1>2. /\ held'[c] \in {0, held[c]}
      /\ \A i \in Try :
           attempt'[c][i] = IF held[c] = i /\ held'[c] = 0
                              THEN [attempt[c][i] EXCEPT !.is = "error"]
                              ELSE attempt[c][i]
      /\ \A i \in Try : held[c] = i => /\ attempt[c][i].is = "open"
                                       /\ attempt[c][i].told = "unanswered"
  BY LeftoverEnds
<1>3. /\ Fits(c) /\ attempt \in [Call -> [Try -> Attempts]]
      /\ call[c].tries \in 0..MaxTries /\ held[c] \in 0..MaxTries
  BY DEF IInv, TypeOK, Attempts
<1>4. \A i \in Try :
        /\ attempt'[c][i].parent = attempt[c][i].parent
        /\ attempt'[c][i].told = attempt[c][i].told
        /\ attempt'[c][i].usage = attempt[c][i].usage
        /\ attempt'[c][i].is = IF held[c] = i /\ held'[c] = 0
                                 THEN "error" ELSE attempt[c][i].is
        /\ attempt'[c][i] = NoAttempt <=> attempt[c][i] = NoAttempt
  <2>1. SUFFICES ASSUME NEW i \in Try
                 PROVE  /\ attempt'[c][i].parent = attempt[c][i].parent
                        /\ attempt'[c][i].told = attempt[c][i].told
                        /\ attempt'[c][i].usage = attempt[c][i].usage
                        /\ attempt'[c][i].is = IF held[c] = i /\ held'[c] = 0
                                                 THEN "error" ELSE attempt[c][i].is
                        /\ attempt'[c][i] = NoAttempt <=> attempt[c][i] = NoAttempt
    OBVIOUS
  <2>2. attempt[c][i] \in Attempts
    BY <1>3
  <2>3. SameOpening(c)
    BY LeftoverEnds
  <2>4. /\ [attempt[c][i] EXCEPT !.is = "error"].told = attempt[c][i].told
        /\ [attempt[c][i] EXCEPT !.is = "error"].is = "error"
        /\ [attempt[c][i] EXCEPT !.is = "error"].usage = attempt[c][i].usage
    BY <2>2, EndedRecord
  <2>5. /\ attempt'[c][i].told = attempt[c][i].told
        /\ attempt'[c][i].usage = attempt[c][i].usage
        /\ attempt'[c][i].is = IF held[c] = i /\ held'[c] = 0
                                 THEN "error" ELSE attempt[c][i].is
    <3>1. CASE held[c] = i /\ held'[c] = 0
      <4>1. attempt'[c][i] = [attempt[c][i] EXCEPT !.is = "error"]
        BY <1>2, <3>1
      <4> QED BY <2>4, <3>1, <4>1
    <3>2. CASE ~(held[c] = i /\ held'[c] = 0)
      <4>1. attempt'[c][i] = attempt[c][i]
        BY <1>2, <3>2
      <4> QED BY <3>2, <4>1
    <3> QED BY <3>1, <3>2
  <2> QED BY <2>3, <2>5 DEF SameOpening
<1>5. \A i \in Try : i > call'[c].tries => attempt'[c][i] = NoAttempt
  BY <1>3, <1>4, BoundsAssumption DEF Fits, Try
<1>6. \A i \in Try : attempt'[c][i] # NoAttempt =>
        /\ attempt'[c][i].parent = ParentOf(c)' /\ ParentOf(c)' # NoSpan
        /\ ~call'[c].shape.stream
        /\ attempt'[c][i].told \in {"ok", "error"}
             => attempt'[c][i].is = attempt'[c][i].told
        /\ attempt'[c][i].told # "nothing"
        /\ attempt'[c][i].told = "unanswered" =>
             \/ attempt'[c][i].is = "error"
             \/ attempt'[c][i].is = "open" /\ held'[c] = i
        /\ attempt'[c][i].told = "ok" /\ call[c].shape.kind \notin Unmetered
             => attempt'[c][i].usage
  BY <1>1, <1>2, <1>3, <1>4 DEF Fits, Metering
<1>7. held'[c] # 0 =>
        /\ ProviderOf(c)' = "bedrock" /\ held'[c] \in Try
        /\ held'[c] <= call'[c].tries
        /\ attempt'[c][held'[c]].is = "open"
        /\ attempt'[c][held'[c]].told \in {"nothing", "unanswered"}
  <2>1. SUFFICES ASSUME held'[c] # 0
                 PROVE  /\ ProviderOf(c)' = "bedrock" /\ held'[c] \in Try
                        /\ held'[c] <= call'[c].tries
                        /\ attempt'[c][held'[c]].is = "open"
                        /\ attempt'[c][held'[c]].told \in {"nothing", "unanswered"}
    OBVIOUS
  <2>2. held'[c] = held[c] /\ held[c] # 0
    BY <1>2, <2>1
  <2>3. /\ ProviderOf(c) = "bedrock" /\ held[c] \in Try /\ held[c] <= call[c].tries
        /\ attempt[c][held[c]].is = "open"
        /\ attempt[c][held[c]].told \in {"nothing", "unanswered"}
    BY <1>3, <2>2 DEF Fits
  <2> QED BY <1>1, <1>3, <1>4, <2>2, <2>3
<1>8. \A i \in Try : attempt'[c][i] # NoAttempt => Metering(c, attempt[c][i])'
  BY <1>6 DEF Metering
<1> QED BY <1>1, <1>5, <1>6, <1>7, <1>8 DEF Fits

LEMMA SendBareKeeps == ASSUME IInv, NEW c \in Call, SendBare(c) PROVE IInv'
<1>1. /\ call[c].at = "ready" /\ call[c].tries < MaxTries
      /\ call[c].tries \in 0..MaxTries
      /\ UNCHANGED <<counters, marked, installed, owned, clock, evicted>>
  BY DEF SendBare, IInv, TypeOK
<1>2. After(c, "bad", call[c].tries + 1) /\ TypeOK
  BY DEF SendBare, IInv
<1>3. call[c].tries + 1 \in 0..MaxTries
  BY <1>1, BoundsAssumption
<1>4. /\ call' \in Calls /\ \A d \in Call \ {c} : call'[d] = call[d]
      /\ call'[c].at \in {"ready", "over"} /\ call'[c].tries = call[c].tries + 1
      /\ call'[c].shape = call[c].shape
  BY <1>2, <1>3, AfterMoves
<1>5. /\ attempt' = [attempt EXCEPT ![c] = [i \in Try |->
                      IF i \in Leftover(c) THEN Ended(@[i], "error") ELSE @[i]]]
      /\ held' = [held EXCEPT ![c] = IF Leftover(c) # {} THEN 0 ELSE @]
  BY DEF SendBare
<1>6. Fits(c)'
  <2>1. /\ call'[c].shape = call[c].shape /\ call'[c].at \in {"ready", "over"}
        /\ call[c].tries <= call'[c].tries /\ call'[c].tries \in Nat
    BY <1>1, <1>3, <1>4, BoundsAssumption
  <2> QED BY <1>1, <1>5, <2>1, LeftoverFits
<1>7. /\ held' \in [Call -> 0..MaxTries]
      /\ attempt' \in [Call -> [Try -> Attempts]]
      /\ \A d \in Call \ {c} : attempt'[d] = attempt[d] /\ held'[d] = held[d]
      /\ SameOpening(c)
  BY <1>1, <1>5, LeftoverEnds
<1>8. installed' \subseteq Provider /\ owned' \in BOOLEAN /\ clock' \in 0..MaxClock
  BY <1>1 DEF IInv, TypeOK
<1> QED BY <1>1, <1>4, <1>6, <1>7, <1>8, CallKeeps

LEMMA ReadClockKeeps == ASSUME IInv, NEW c \in Call, ReadClock(c) PROVE IInv'
<1>1. /\ call[c].at = "ready" /\ call[c].tries < MaxTries
      /\ call[c].tries \in 0..MaxTries /\ Emits(c)
      /\ call' = [call EXCEPT ![c].at = "number", ![c].now = clock]
      /\ UNCHANGED <<counters, marked, installed, owned, clock, evicted>>
  BY DEF ReadClock, IInv, TypeOK
<1>2. /\ call' \in Calls /\ \A d \in Call \ {c} : call'[d] = call[d]
      /\ call'[c].at = "number" /\ call'[c].shape = call[c].shape
      /\ call'[c].tries = call[c].tries
  BY <1>1 DEF IInv, TypeOK, Calls
<1>3. /\ attempt' = [attempt EXCEPT ![c] = [i \in Try |->
                      IF i \in Leftover(c) THEN Ended(@[i], "error") ELSE @[i]]]
      /\ held' = [held EXCEPT ![c] = IF Leftover(c) # {} THEN 0 ELSE @]
  BY DEF ReadClock
<1>4. /\ held' \in [Call -> 0..MaxTries]
      /\ attempt' \in [Call -> [Try -> Attempts]]
      /\ \A d \in Call \ {c} : attempt'[d] = attempt[d] /\ held'[d] = held[d]
      /\ SameOpening(c)
      /\ held'[c] \in {0, held[c]}
      /\ Leftover(c) = {held[c]} \ {0} => held'[c] = 0
  BY <1>1, <1>3, LeftoverEnds
<1>5. ~call[c].shape.stream /\ ParentOf(c) # NoSpan
  <2>1. ProviderOf(c) \in Provider
    BY <1>1 DEF Emits, IInv, TypeOK
  <2> QED BY <1>1, <2>1 DEF Emits, Provider, OpenAIEmits, AnthropicEmits,
                            BedrockEmits, BedrockListens
<1>6. held'[c] = 0
  <2>1. CASE ProviderOf(c) = "bedrock"
    BY <1>1, <1>4, <2>1 DEF Emits, BedrockEmits, Leftover
  <2>2. CASE ProviderOf(c) # "bedrock"
    BY <1>4, <2>2 DEF IInv, Fits
  <2> QED BY <2>1, <2>2
<1>7. Fits(c)'
  <2>1. call[c].tries <= call'[c].tries /\ call'[c].tries \in Nat
    BY <1>1, <1>2, BoundsAssumption
  <2> QED BY <1>1, <1>2, <1>3, <1>5, <1>6, <2>1, LeftoverFits
<1>8. installed' \subseteq Provider /\ owned' \in BOOLEAN /\ clock' \in 0..MaxClock
  BY <1>1 DEF IInv, TypeOK
<1> QED BY <1>1, <1>2, <1>4, <1>7, <1>8, CallKeeps

-----------------------------------------------------------------------------
(* What comes back. *)

\* The attempt of the request that was sent, and its record once it is ended.
LEMMA SentIsOpen ==
  ASSUME IInv, NEW c \in Call, call[c].at = "sent", NEW out \in Outcome,
         NEW u \in BOOLEAN
  PROVE  LET a == attempt[c][call[c].tries]
             b == Answered(a, out, u)
         IN  /\ call[c].tries \in Try /\ a \in Attempts
             /\ a.is = "open" /\ a.told = "nothing" /\ a # NoAttempt
             /\ b \in Attempts /\ b.is = Status(out) /\ b.told = Status(out)
             /\ b.parent = a.parent /\ b.number = a.number /\ b.retry = a.retry
             /\ Status(out) \in {"ok", "error"}
             /\ b # NoAttempt /\ b.usage = u
<1>1. Fits(c) /\ attempt \in [Call -> [Try -> Attempts]]
  BY DEF IInv, TypeOK, Attempts
<1>2. call[c].tries \in Try /\ attempt[c][call[c].tries].is = "open"
      /\ attempt[c][call[c].tries].told = "nothing"
  BY <1>1 DEF Fits
<1> DEFINE a == attempt[c][call[c].tries]
           e == [a EXCEPT !.told = Status(out), !.usage = u]
           b == Ended(e, Status(out))
<1>3. a \in Attempts /\ a.is = "open" /\ a.told = "nothing"
  BY <1>1, <1>2
<1>4. Status(out) \in {"ok", "error"}
  BY DEF Status
<1> HIDE DEF a
<1>5. /\ e \in Attempts /\ e.is = "open" /\ e.told = Status(out) /\ e.usage = u
      /\ e.parent = a.parent /\ e.number = a.number /\ e.retry = a.retry
  BY <1>3, <1>4 DEF Attempts
<1> HIDE DEF e
<1>6. /\ b \in Attempts /\ b.is = Status(out) /\ b.told = e.told /\ b.usage = e.usage
      /\ b.parent = e.parent /\ b.number = e.number /\ b.retry = e.retry
  BY <1>4, <1>5 DEF Attempts, Ended
<1> HIDE DEF b
<1>7. a # NoAttempt /\ b # NoAttempt
  BY <1>3, <1>4, <1>6 DEF NoAttempt
<1>8. /\ call[c].tries \in Try /\ a \in Attempts
      /\ a.is = "open" /\ a.told = "nothing" /\ a # NoAttempt
      /\ b \in Attempts /\ b.is = Status(out) /\ b.told = Status(out)
      /\ b.parent = a.parent /\ b.number = a.number /\ b.retry = a.retry
      /\ Status(out) \in {"ok", "error"}
      /\ b # NoAttempt /\ b.usage = u
  BY <1>2, <1>3, <1>4, <1>5, <1>6, <1>7
<1> QED BY <1>8 DEF a, b, e, Answered

\* A request that is answered, by whichever hook.
LEMMA AnswerKeeps ==
  ASSUME IInv, NEW c \in Call, call[c].at = "sent", NEW out \in Outcome,
         NEW u \in Usages(c, out),
         After(c, out, Current(c)),
         attempt' = [attempt EXCEPT ![c][Current(c)] = Answered(@, out, u)],
         held' \in [Call -> 0..MaxTries], held'[c] = 0,
         \A d \in Call \ {c} : held'[d] = held[d],
         held[c] \in {0, Current(c)},
         UNCHANGED <<counters, marked, installed, owned, clock, evicted>>
  PROVE  IInv'
<1> DEFINE n == call[c].tries
           a == attempt[c][n]
           b == Answered(a, out, u)
<1>0. u \in BOOLEAN
  BY DEF Usages
<1>1. /\ n \in Try /\ a \in Attempts
      /\ a.is = "open" /\ a.told = "nothing" /\ a # NoAttempt
      /\ b \in Attempts /\ b.is = Status(out) /\ b.told = Status(out)
      /\ b.parent = a.parent /\ b.number = a.number /\ b.retry = a.retry
      /\ Status(out) \in {"ok", "error"} /\ b # NoAttempt /\ b.usage = u
  BY <1>0, SentIsOpen
<1>2. n \in 0..MaxTries /\ TypeOK
  BY DEF IInv, TypeOK
<1>3. Fits(c) /\ attempt \in [Call -> [Try -> Attempts]] /\ held[c] \in {0, n}
  BY DEF IInv, TypeOK, Attempts, Current
<1>4. /\ call' \in Calls /\ \A d \in Call \ {c} : call'[d] = call[d]
      /\ call'[c].at \in {"ready", "over"} /\ call'[c].tries = n
      /\ call'[c].shape = call[c].shape
  BY <1>2, AfterMoves DEF Current
<1>5. attempt' = [attempt EXCEPT ![c][n] = b]
  BY DEF Current
<1> HIDE DEF b
<1>6. /\ attempt' \in [Call -> [Try -> Attempts]]
      /\ \A d \in Call \ {c} : attempt'[d] = attempt[d]
      /\ attempt'[c][n] = b
      /\ \A i \in Try \ {n} : attempt'[c][i] = attempt[c][i]
  BY <1>1, <1>3, <1>5
<1>7. SameOpening(c)
  BY <1>1, <1>6 DEF SameOpening
<1>8. ProviderOf(c)' = ProviderOf(c) /\ ParentOf(c)' = ParentOf(c)
  BY <1>4, SameShape
<1>9. \A i \in Try :
        /\ i > n => attempt[c][i] = NoAttempt
        /\ i # n /\ attempt[c][i] # NoAttempt =>
             /\ attempt[c][i].parent = ParentOf(c)
             /\ attempt[c][i].told \in {"ok", "error"}
                  => attempt[c][i].is = attempt[c][i].told
             /\ attempt[c][i].told # "nothing"
             /\ attempt[c][i].told = "unanswered" => attempt[c][i].is = "error"
             /\ Metering(c, attempt[c][i])
  BY <1>3 DEF Fits, Try
<1>10. a.parent = ParentOf(c) /\ ParentOf(c) # NoSpan /\ ~call[c].shape.stream
  BY <1>1, <1>3 DEF Fits
<1>m. Metering(c, b)
  BY <1>1, <1>10 DEF Metering, Usages, Status
<1> HIDE DEF a, n
<1>11. \A i \in Try :
         /\ i > n => attempt'[c][i] = NoAttempt
         /\ attempt'[c][i] # NoAttempt =>
              /\ attempt'[c][i].parent = ParentOf(c)'
              /\ attempt'[c][i].told \in {"ok", "error"}
                   => attempt'[c][i].is = attempt'[c][i].told
              /\ attempt'[c][i].told # "nothing"
              /\ attempt'[c][i].told = "unanswered" => attempt'[c][i].is = "error"
  <2>1. SUFFICES ASSUME NEW i \in Try
        PROVE
         /\ i > n => attempt'[c][i] = NoAttempt
         /\ attempt'[c][i] # NoAttempt =>
              /\ attempt'[c][i].parent = ParentOf(c)'
              /\ attempt'[c][i].told \in {"ok", "error"}
                   => attempt'[c][i].is = attempt'[c][i].told
              /\ attempt'[c][i].told # "nothing"
              /\ attempt'[c][i].told = "unanswered" => attempt'[c][i].is = "error"
    OBVIOUS
  <2>2. CASE i = n
    BY <1>1, <1>6, <1>8, <1>10, <2>2, BoundsAssumption DEF Try
  <2>3. CASE i # n
    BY <1>6, <1>8, <1>9, <2>3
  <2> QED BY <2>2, <2>3
<1>u. \A i \in Try : attempt'[c][i] # NoAttempt => Metering(c, attempt[c][i])'
  BY <1>4, <1>6, <1>9, <1>m DEF Metering
<1>12. Fits(c)'
  BY <1>4, <1>8, <1>10, <1>11, <1>u DEF Fits
<1>13. installed' \subseteq Provider /\ owned' \in BOOLEAN /\ clock' \in 0..MaxClock
  BY DEF IInv, TypeOK
<1> QED BY <1>4, <1>6, <1>7, <1>12, <1>13, CallKeeps

LEMMA OpenAIAnswerKeeps ==
  ASSUME IInv, NEW c \in Call, OpenAIAnswer(c) PROVE IInv'
<1>a. PICK out \in Outcome : \E u \in Usages(c, out) :
        /\ After(c, out, Current(c))
        /\ attempt' = [attempt EXCEPT ![c][Current(c)] = Answered(@, out, u)]
  BY DEF OpenAIAnswer
<1>1. PICK u \in Usages(c, out) :
        /\ After(c, out, Current(c))
        /\ attempt' = [attempt EXCEPT ![c][Current(c)] = Answered(@, out, u)]
  BY <1>a
<1>2. /\ ProviderOf(c) = "openai" /\ call[c].at = "sent"
      /\ UNCHANGED <<held, counters, marked, installed, owned, clock, evicted>>
  BY DEF OpenAIAnswer
<1>3. held[c] = 0 /\ held \in [Call -> 0..MaxTries]
  BY <1>2 DEF IInv, Fits, TypeOK
<1> QED BY <1>1, <1>2, <1>3, AnswerKeeps

LEMMA AnthropicAnswerKeeps ==
  ASSUME IInv, NEW c \in Call, AnthropicAnswer(c) PROVE IInv'
<1>a. PICK out \in Outcome : \E u \in Usages(c, out) :
        /\ After(c, out, Current(c))
        /\ attempt' = [attempt EXCEPT ![c][Current(c)] = Answered(@, out, u)]
  BY DEF AnthropicAnswer
<1>1. PICK u \in Usages(c, out) :
        /\ After(c, out, Current(c))
        /\ attempt' = [attempt EXCEPT ![c][Current(c)] = Answered(@, out, u)]
  BY <1>a
<1>2. /\ ProviderOf(c) = "anthropic" /\ call[c].at = "sent"
      /\ UNCHANGED <<held, counters, marked, installed, owned, clock, evicted>>
  BY DEF AnthropicAnswer
<1>3. held[c] = 0 /\ held \in [Call -> 0..MaxTries]
  BY <1>2 DEF IInv, Fits, TypeOK
<1> QED BY <1>1, <1>2, <1>3, AnswerKeeps

\* What Bedrock's hook takes out of the context is the request's own span.
LEMMA BedrockAnswerKeeps ==
  ASSUME IInv, NEW c \in Call, BedrockAnswer(c) PROVE IInv'
<1>a. PICK out \in Outcome \ {"killed"} : \E u \in Usages(c, out) :
        /\ After(c, out, Current(c))
        /\ attempt' = [attempt EXCEPT ![c][held[c]] = Answered(@, out, u)]
  BY DEF BedrockAnswer
<1>1. PICK u \in Usages(c, out) :
        /\ After(c, out, Current(c))
        /\ attempt' = [attempt EXCEPT ![c][held[c]] = Answered(@, out, u)]
  BY <1>a
<1>2. /\ ProviderOf(c) = "bedrock" /\ call[c].at = "sent"
      /\ held' = [held EXCEPT ![c] = 0]
      /\ UNCHANGED <<counters, marked, installed, owned, clock, evicted>>
  BY DEF BedrockAnswer
<1>3. held[c] = Current(c)
  BY <1>2 DEF IInv, Fits, Current
<1>4. /\ held' \in [Call -> 0..MaxTries] /\ held'[c] = 0
      /\ \A d \in Call \ {c} : held'[d] = held[d]
  BY <1>2, BoundsAssumption DEF IInv, TypeOK
<1>5. attempt' = [attempt EXCEPT ![c][Current(c)] = Answered(@, out, u)]
  BY <1>1, <1>3
<1> QED BY <1>1, <1>2, <1>3, <1>4, <1>5, AnswerKeeps

\* The span that botocore never speaks of stays in the context.
LEMMA BedrockUnansweredKeeps ==
  ASSUME IInv, NEW c \in Call, BedrockUnanswered(c) PROVE IInv'
<1> DEFINE n == call[c].tries
           a == attempt[c][n]
           b == [a EXCEPT !.told = "unanswered"]
<1>1. PICK out \in {"raises", "killed"} : After(c, out, Current(c))
  BY DEF BedrockUnanswered
<1>2. /\ ProviderOf(c) = "bedrock" /\ call[c].at = "sent"
      /\ attempt' = [attempt EXCEPT ![c][n].told = "unanswered"]
      /\ UNCHANGED <<held, counters, marked, installed, owned, clock, evicted>>
  BY DEF BedrockUnanswered, Current
<1>3. n \in 0..MaxTries /\ TypeOK /\ held \in [Call -> 0..MaxTries]
  BY DEF IInv, TypeOK
<1>4. Fits(c) /\ attempt \in [Call -> [Try -> Attempts]]
  BY DEF IInv, TypeOK, Attempts
<1>5. /\ call' \in Calls /\ \A d \in Call \ {c} : call'[d] = call[d]
      /\ call'[c].at \in {"ready", "over"} /\ call'[c].tries = n
      /\ call'[c].shape = call[c].shape
  BY <1>1, <1>3, AfterMoves DEF Current
<1>6. /\ n \in Try /\ a \in Attempts /\ a.is = "open" /\ a.told = "nothing"
      /\ held[c] = n
  BY <1>2, <1>4 DEF Fits
<1>7. a # NoAttempt
  BY <1>6 DEF NoAttempt
<1>8. /\ a.parent = ParentOf(c) /\ ParentOf(c) # NoSpan /\ ~call[c].shape.stream
  BY <1>4, <1>6, <1>7 DEF Fits
<1>9. \A i \in Try :
        /\ i > n => attempt[c][i] = NoAttempt
        /\ i # n /\ attempt[c][i] # NoAttempt =>
             /\ attempt[c][i].parent = ParentOf(c)
             /\ attempt[c][i].told \in {"ok", "error"}
                  => attempt[c][i].is = attempt[c][i].told
             /\ attempt[c][i].told # "nothing"
             /\ attempt[c][i].told = "unanswered" => attempt[c][i].is = "error"
             /\ Metering(c, attempt[c][i])
  BY <1>4, <1>6 DEF Fits, Try
<1>10. attempt' = [attempt EXCEPT ![c][n] = b]
  BY <1>2
<1>11. ProviderOf(c)' = ProviderOf(c) /\ ParentOf(c)' = ParentOf(c)
  BY <1>5, SameShape
<1> HIDE DEF a
<1>12. /\ b \in Attempts /\ b.is = "open" /\ b.told = "unanswered"
       /\ b.parent = a.parent /\ b.number = a.number /\ b.retry = a.retry
  BY <1>6 DEF Attempts
<1> HIDE DEF b
<1>13. b # NoAttempt
  BY <1>12 DEF NoAttempt
<1>14. /\ attempt' \in [Call -> [Try -> Attempts]]
       /\ \A d \in Call \ {c} : attempt'[d] = attempt[d]
       /\ attempt'[c][n] = b
       /\ \A i \in Try \ {n} : attempt'[c][i] = attempt[c][i]
  BY <1>4, <1>6, <1>10, <1>12
<1>15. SameOpening(c)
  BY <1>7, <1>12, <1>13, <1>14 DEF SameOpening, a
<1>16. Fits(c)'
  <2>1. held'[c] = n
    BY <1>2, <1>6
  <2> HIDE DEF n
  <2>2. \A i \in Try :
         /\ i > n => attempt'[c][i] = NoAttempt
         /\ attempt'[c][i] # NoAttempt =>
              /\ attempt'[c][i].parent = ParentOf(c)'
              /\ attempt'[c][i].told \in {"ok", "error"}
                   => attempt'[c][i].is = attempt'[c][i].told
              /\ attempt'[c][i].told # "nothing"
              /\ attempt'[c][i].told = "unanswered" =>
                   \/ attempt'[c][i].is = "error"
                   \/ attempt'[c][i].is = "open" /\ i = n
    BY <1>6, <1>8, <1>9, <1>11, <1>12, <1>14, BoundsAssumption DEF Try
  <2>3. n <= n
    BY <1>3, BoundsAssumption
  <2>4. \A i \in Try : attempt'[c][i] # NoAttempt => Metering(c, attempt[c][i])'
    BY <1>5, <1>9, <1>12, <1>14 DEF Metering
  <2> QED BY <1>2, <1>5, <1>6, <1>8, <1>11, <1>12, <1>14, <2>1, <2>2, <2>3, <2>4
          DEF Fits
<1>17. installed' \subseteq Provider /\ owned' \in BOOLEAN /\ clock' \in 0..MaxClock
  BY <1>2 DEF IInv, TypeOK
<1> QED BY <1>2, <1>3, <1>5, <1>14, <1>15, <1>16, <1>17, CallKeeps

-----------------------------------------------------------------------------
(* An attempt is numbered and opened. *)

\* What next_llm_attempt() leaves of the counters, and the number that it gives.
LEMMA NumberGiven ==
  ASSUME TypeOK, NEW p \in Parent, NEW now \in 0..MaxClock, NextLlmAttempt(p, now)
  PROVE  /\ Ordinal(p, now) \in Nat \ {0}
         /\ counters' \in [Parent -> [last : Nat, seen : 0..MaxClock]]
         /\ evicted \subseteq evicted' /\ evicted' \subseteq Parent
         /\ Ordinal(p, now) > 1 => counters[p].last > 0
         /\ \A q \in Parent \ {p} : counters'[q].last \in {0, counters[q].last}
         /\ \A q \in Parent \ evicted' :
              q # p => counters'[q].last = counters[q].last
         /\ p \notin evicted' =>
              /\ Ordinal(p, now) = counters[p].last + 1
              /\ counters'[p].last = Ordinal(p, now)
<1> DEFINE fresh == Drop(counters, Stale(now))
           cs == [fresh EXCEPT ![p] = Counter(fresh[p], now)]
<1>1. counters \in [Parent -> [last : Nat, seen : 0..MaxClock]]
  BY DEF TypeOK
<1>2. PICK out \in OverMax(cs) :
        counters' = Drop(cs, out) /\ evicted' = evicted \cup Stale(now) \cup out
  BY DEF NextLlmAttempt
<1>3. Stale(now) \subseteq Parent /\ evicted \subseteq Parent
  BY DEF Stale, Counted, TypeOK
<1>4. NoCounter \in [last : Nat, seen : 0..MaxClock] /\ NoCounter.last = 0
  BY BoundsAssumption DEF NoCounter
<1>5. /\ fresh \in [Parent -> [last : Nat, seen : 0..MaxClock]]
      /\ \A q \in Parent :
           fresh[q] = IF q \in Stale(now) THEN NoCounter ELSE counters[q]
  BY <1>1, <1>4 DEF Drop
<1>6. Ordinal(p, now) = fresh[p].last + 1
  BY DEF Ordinal, Counter
<1> HIDE DEF fresh
<1>7. /\ Counter(fresh[p], now) \in [last : Nat, seen : 0..MaxClock]
      /\ Counter(fresh[p], now).last = fresh[p].last + 1
  BY <1>5 DEF Counter
<1>8. /\ cs \in [Parent -> [last : Nat, seen : 0..MaxClock]]
      /\ cs[p].last = fresh[p].last + 1
      /\ \A q \in Parent \ {p} : cs[q] = fresh[q]
  BY <1>5, <1>7
<1> HIDE DEF cs
<1>9. out \subseteq Parent
  BY <1>2 DEF OverMax, Counted
<1>10. /\ counters' \in [Parent -> [last : Nat, seen : 0..MaxClock]]
       /\ \A q \in Parent : counters'[q] = IF q \in out THEN NoCounter ELSE cs[q]
  BY <1>2, <1>4, <1>8 DEF Drop
<1>11. fresh[p].last \in Nat /\ counters[p].last \in Nat
       /\ fresh[p].last \in {0, counters[p].last}
  BY <1>1, <1>4, <1>5
<1>12. Ordinal(p, now) \in Nat \ {0} /\ (Ordinal(p, now) > 1 => counters[p].last > 0)
  BY <1>6, <1>11
<1>13. /\ \A q \in Parent \ {p} : counters'[q].last \in {0, counters[q].last}
       /\ \A q \in Parent \ evicted' :
            q # p => counters'[q].last = counters[q].last
  BY <1>2, <1>4, <1>5, <1>8, <1>10
<1>14. p \notin evicted' =>
         /\ Ordinal(p, now) = counters[p].last + 1
         /\ counters'[p].last = Ordinal(p, now)
  BY <1>2, <1>5, <1>6, <1>8, <1>10
<1> QED BY <1>2, <1>3, <1>9, <1>10, <1>12, <1>13, <1>14

LEMMA OpenKeeps == ASSUME IInv, NEW c \in Call, Open(c) PROVE IInv'
<1> DEFINE p == ParentOf(c)
           now == call[c].now
           n == Ordinal(p, now)
           i == call[c].tries + 1
           new == [parent |-> p, number |-> n, retry |-> n > 1,
                   is |-> "open", told |-> "nothing", usage |-> FALSE]
<1>1. /\ call[c].at = "number"
      /\ NextLlmAttempt(p, now)
      /\ attempt' = [attempt EXCEPT ![c][i] = new]
      /\ marked' = marked \cup {p}
      /\ held' = [held EXCEPT ![c] = IF ProviderOf(c) = "bedrock" THEN i ELSE @]
      /\ call' = [call EXCEPT ![c].at = "sent", ![c].tries = i, ![c].now = 0]
      /\ UNCHANGED <<installed, owned, clock>>
  BY DEF Open, Current
<1>2. /\ TypeOK /\ Fits(c) /\ attempt \in [Call -> [Try -> Attempts]]
      /\ call \in Calls /\ held \in [Call -> 0..MaxTries]
      /\ call[c].tries \in 0..MaxTries /\ now \in 0..MaxClock
  BY DEF IInv, TypeOK, Attempts, Calls
<1>3. /\ call[c].tries < MaxTries /\ ~call[c].shape.stream /\ p # NoSpan
      /\ held[c] = 0
  BY <1>1, <1>2 DEF Fits
<1>4. i \in Try /\ i \in 0..MaxTries /\ i > call[c].tries
  BY <1>2, <1>3, BoundsAssumption DEF Try
<1>5. p \in Parent
  BY <1>2, <1>3, Parents
<1>6. /\ n \in Nat \ {0}
      /\ counters' \in [Parent -> [last : Nat, seen : 0..MaxClock]]
      /\ evicted \subseteq evicted' /\ evicted' \subseteq Parent
      /\ n > 1 => counters[p].last > 0
      /\ \A q \in Parent \ {p} : counters'[q].last \in {0, counters[q].last}
      /\ \A q \in Parent \ evicted' :
           q # p => counters'[q].last = counters[q].last
      /\ p \notin evicted' => n = counters[p].last + 1 /\ counters'[p].last = n
  BY <1>1, <1>2, <1>5, NumberGiven
<1> HIDE DEF n
<1>7. new \in Attempts /\ new # NoAttempt
  BY <1>5, <1>6 DEF Attempts, NoAttempt
<1>8. /\ attempt' \in [Call -> [Try -> Attempts]]
      /\ \A d \in Call \ {c} : attempt'[d] = attempt[d]
      /\ attempt'[c][i] = new
      /\ \A j \in Try \ {i} : attempt'[c][j] = attempt[c][j]
  <2> HIDE DEF new
  <2> QED BY <1>1, <1>2, <1>4, <1>7
<1>9. /\ call'[c].at = "sent" /\ call'[c].tries = i /\ call'[c].now = 0
      /\ call'[c].shape = call[c].shape
      /\ \A d \in Call \ {c} : call'[d] = call[d]
  BY <1>1, <1>2 DEF Calls
<1>10. call' \in Calls
  BY <1>1, <1>2, <1>4, BoundsAssumption DEF Calls
<1>11. /\ held' \in [Call -> 0..MaxTries]
       /\ held'[c] = IF ProviderOf(c) = "bedrock" THEN i ELSE 0
       /\ \A d \in Call \ {c} : held'[d] = held[d]
  BY <1>1, <1>2, <1>3, <1>4
<1>12. /\ ProviderOf(c)' = ProviderOf(c)
       /\ \A d \in Call : ParentOf(d)' = ParentOf(d)
  BY <1>9, SameShape
<1>13. attempt[c][i] = NoAttempt
  BY <1>2, <1>4 DEF Fits
<1>14. TypeOK'
  BY <1>1, <1>2, <1>5, <1>6, <1>8, <1>10, <1>11 DEF TypeOK, Parent, Calls, Attempts
<1> HIDE DEF p, new, i, now
<1>a. /\ new.parent = p /\ new.number = n /\ new.retry = (n > 1)
      /\ new.is = "open" /\ new.told = "nothing"
  BY DEF new
<1>b. p = ParentOf(c) /\ p \in {c, App, NoSpan}
  BY <1>2, Parents DEF p
<1>15. Fits(c)'
  <2>1. held'[c] # 0 =>
          /\ ProviderOf(c)' = "bedrock" /\ held'[c] \in Try
          /\ held'[c] <= call'[c].tries
          /\ attempt'[c][held'[c]].is = "open"
          /\ attempt'[c][held'[c]].told \in {"nothing", "unanswered"}
    BY <1>4, <1>8, <1>9, <1>11, <1>12, <1>a, BoundsAssumption
  <2>2. \A j \in Try : j > i => attempt'[c][j] = NoAttempt
    <3>1. SUFFICES ASSUME NEW j \in Try, j > i PROVE attempt'[c][j] = NoAttempt
      OBVIOUS
    <3>2. j > call[c].tries /\ j # i
      BY <1>2, <1>4, <3>1, BoundsAssumption DEF Try
    <3>3. attempt[c][j] = NoAttempt
      BY <1>2, <3>2 DEF Fits
    <3> QED BY <1>8, <3>2, <3>3
  <2>3. \A j \in Try : j # i /\ attempt[c][j] # NoAttempt =>
          /\ attempt[c][j].parent = p
          /\ attempt[c][j].told \in {"ok", "error"}
               => attempt[c][j].is = attempt[c][j].told
          /\ attempt[c][j].told # "nothing"
          /\ attempt[c][j].told = "unanswered" => attempt[c][j].is = "error"
          /\ Metering(c, attempt[c][j])
    BY <1>1, <1>2, <1>3, <1>b DEF Fits, Try
  <2>4. \A j \in Try : attempt'[c][j] # NoAttempt =>
          /\ attempt'[c][j].parent = ParentOf(c)' /\ ParentOf(c)' # NoSpan
          /\ ~call'[c].shape.stream
          /\ attempt'[c][j].told \in {"ok", "error"}
               => attempt'[c][j].is = attempt'[c][j].told
          /\ attempt'[c][j].told = "nothing" => call'[c].at = "sent" /\ j = i
          /\ attempt'[c][j].told = "unanswered" => attempt'[c][j].is = "error"
    BY <1>3, <1>8, <1>9, <1>12, <1>a, <1>b, <2>3
  <2>5. \A j \in Try : attempt'[c][j] # NoAttempt => Metering(c, attempt[c][j])'
    BY <1>8, <1>9, <1>a, <2>3 DEF Metering
  <2> QED BY <1>4, <1>8, <1>9, <1>11, <1>12, <1>a, <2>1, <2>2, <2>4, <2>5 DEF Fits
<1>16. \A d \in Call : Fits(d)'
  BY <1>8, <1>9, <1>11, <1>15, OthersFit
<1>c. \A d \in Call, j \in Try : d # c \/ j # i => attempt'[d][j] = attempt[d][j]
  BY <1>8
<1>17. \A q \in Parent : AttemptUnder(q)' <=> AttemptUnder(q) \/ q = p
  <2>1. attempt'[c][i].parent = p
    BY <1>8, <1>a
  <2>2. attempt[c][i].parent \notin Parent
    BY <1>13, NamesAssumption DEF NoAttempt
  <2> QED BY <1>4, <1>c, <2>1, <2>2 DEF AttemptUnder
<1>18. MarkedInv'
  BY <1>1, <1>5, <1>17 DEF MarkedInv, IInv, Parent, p
<1>19. /\ Opened(c)' = Opened(c) \cup {i} /\ i \notin Opened(c)
       /\ \A d \in Call \ {c} : Opened(d)' = Opened(d)
  <2>1. attempt'[c][i] # NoAttempt
    BY <1>7, <1>8
  <2>2. \A j \in Try \ {i} : attempt'[c][j] = attempt[c][j]
    BY <1>8
  <2>a. i \in Opened(c)' /\ i \notin Opened(c)
    BY <1>4, <1>13, <2>1 DEF Opened
  <2>b. \A j : j # i => (j \in Opened(c)' <=> j \in Opened(c))
    BY <2>2 DEF Opened
  <2>3. Opened(c)' = Opened(c) \cup {i} /\ i \notin Opened(c)
    BY <2>a, <2>b
  <2>4. \A d \in Call \ {c} : Opened(d)' = Opened(d)
    BY <1>8 DEF Opened
  <2> QED BY <2>3, <2>4
<1>20. Cardinality(Opened(c)') = Cardinality(Opened(c)) + 1
  <2>1. Cardinality(Opened(c) \cup {i}) = Cardinality(Opened(c)) + 1
    BY <1>19, OpenedFinite, FS_AddElement
  <2> QED BY <1>19, <2>1
<1>21. CounterInv'
  <2>1. \A q \in Parent : counters'[q].last > 0 => AttemptUnder(q)'
    BY <1>6, <1>17 DEF IInv, CounterInv
  <2>2. \A q \in Parent \ evicted' : \A d \in Call : \A j \in Try :
          attempt'[d][j].parent = q => attempt'[d][j].number <= counters'[q].last
    <3>1. SUFFICES ASSUME NEW q \in Parent \ evicted', NEW d \in Call, NEW j \in Try,
                          attempt'[d][j].parent = q
                   PROVE  attempt'[d][j].number <= counters'[q].last
      OBVIOUS
    <3>2. CASE d = c /\ j = i
      BY <1>6, <1>8, <1>a, <3>1, <3>2
    <3>3. CASE d # c \/ j # i
      <4>1. attempt[d][j].number <= counters[q].last /\ attempt[d][j].number \in Nat
        BY <1>2, <1>6, <1>c, <3>1, <3>3 DEF IInv, CounterInv, Attempts
      <4>2. counters[q].last \in Nat /\ counters'[q].last \in Nat
        BY <1>2, <1>6 DEF TypeOK
      <4>3. CASE q = p
        BY <1>6, <1>c, <3>1, <3>3, <4>1, <4>2, <4>3
      <4>4. CASE q # p
        BY <1>6, <1>c, <3>1, <3>3, <4>1, <4>2, <4>4
      <4> QED BY <4>3, <4>4
    <3> QED BY <3>2, <3>3
  <2>3. \A d \in Call \ evicted' :
          ParentOf(d)' = d => counters'[d].last = Cardinality(Opened(d)')
    <3>1. SUFFICES ASSUME NEW d \in Call \ evicted', ParentOf(d) = d
                   PROVE  counters'[d].last = Cardinality(Opened(d)')
      BY <1>12
    <3>2. counters[d].last = Cardinality(Opened(d))
      BY <1>6, <3>1 DEF IInv, CounterInv
    <3>3. CASE d = c
      BY <1>6, <1>20, <1>b, <3>1, <3>2, <3>3
    <3>4. CASE d # c
      <4>1. p # d /\ d \in Parent
        BY <1>2, <1>b, <3>4, Parents
      <4> QED BY <1>6, <1>19, <3>2, <3>4, <4>1
    <3> QED BY <3>3, <3>4
  <2> QED BY <2>1, <2>2, <2>3 DEF CounterInv
<1>22. NumbersTell'
  <2>1. SUFFICES ASSUME NEW d \in Call, NEW j \in Opened(d)'
        PROVE
          /\ attempt'[d][j].retry => \E e \in Call : \E k \in Opened(e)' :
               attempt'[e][k].parent = attempt'[d][j].parent /\ (e # d \/ k < j)
          /\ attempt'[d][j].parent \notin evicted' =>
               \A e \in Call : \A k \in Opened(e)' :
                 /\ attempt'[e][k].parent = attempt'[d][j].parent
                 /\ attempt'[e][k].number = attempt'[d][j].number
                 => e = d /\ k = j
          /\ attempt'[d][j].parent = d /\ d \notin evicted' =>
               attempt'[d][j].number = Cardinality({k \in Opened(d)' : k <= j})
    BY DEF NumbersTell
  <2>2. \A e \in Call : \A k \in Opened(e) :
          /\ e # c \/ k # i
          /\ k \in Try /\ k \in Opened(e)' /\ attempt'[e][k] = attempt[e][k]
    BY <1>19, <1>c DEF Opened
  <2>3. \A e \in Call : \A k \in Opened(e)' :
          k \in Try /\ (k \in Opened(e) \/ (e = c /\ k = i))
    BY <1>4, <1>19 DEF Opened
  <2>4. \A k \in Opened(c) : k < i
    <3>1. SUFFICES ASSUME NEW k \in Opened(c) PROVE k < i
      OBVIOUS
    <3>2. k \in Try /\ ~(k > call[c].tries)
      BY <1>2, <3>1 DEF Opened, Fits
    <3> QED BY <1>2, <3>2, BoundsAssumption DEF Try, i
  <2>5. \A e \in Call : \A k \in Opened(e) :
          attempt[e][k].parent = p /\ p \notin evicted' =>
            attempt[e][k].number <= counters[p].last
            /\ attempt[e][k].number \in Nat /\ counters[p].last \in Nat
    BY <1>2, <1>5, <1>6 DEF IInv, CounterInv, Opened, Attempts, TypeOK
  <2>6. CASE d = c /\ j = i
    <3>1. attempt'[c][i].retry => \E e \in Call : \E k \in Opened(e)' :
               attempt'[e][k].parent = p /\ (e # c \/ k < i)
      <4>1. SUFFICES ASSUME n > 1
                     PROVE  \E e \in Call : \E k \in Opened(e)' :
                              attempt'[e][k].parent = p /\ (e # c \/ k < i)
        BY <1>8, <1>a
      <4>2. PICK e \in Call, k \in Try : attempt[e][k].parent = p
        BY <1>5, <1>6, <4>1 DEF IInv, CounterInv, AttemptUnder
      <4>3. k \in Opened(e)
        BY <1>3, <4>2 DEF Opened, NoAttempt, p
      <4> QED BY <2>2, <2>4, <4>2, <4>3
    <3>2. p \notin evicted' => \A e \in Call : \A k \in Opened(e)' :
            attempt'[e][k].parent = p /\ attempt'[e][k].number = n
              => e = c /\ k = i
      <4>1. SUFFICES ASSUME p \notin evicted', NEW e \in Call, NEW k \in Opened(e),
                            attempt[e][k].parent = p, attempt[e][k].number = n
                     PROVE  FALSE
        BY <2>2, <2>3
      <4> QED BY <1>6, <2>5, <4>1
    <3>3. p = c /\ c \notin evicted' => n = Cardinality({k \in Opened(c)' : k <= i})
      <4>1. {k \in Opened(c)' : k <= i} = Opened(c)'
        BY <1>4, <1>19, <2>4 DEF Opened, Try
      <4>2. c \notin evicted /\ ParentOf(c) = c => counters[c].last = Cardinality(Opened(c))
        BY DEF IInv, CounterInv
      <4> QED BY <1>6, <1>20, <1>b, <4>1, <4>2
    <3> QED BY <1>8, <1>a, <2>6, <3>1, <3>2, <3>3
  <2>7. CASE ~(d = c /\ j = i)
    <3>1. j \in Opened(d) /\ attempt'[d][j] = attempt[d][j]
      BY <2>1, <2>2, <2>3, <2>7
    <3>2. attempt[d][j].retry => \E e \in Call : \E k \in Opened(e)' :
            attempt'[e][k].parent = attempt[d][j].parent /\ (e # d \/ k < j)
      <4>1. SUFFICES ASSUME attempt[d][j].retry
                     PROVE  \E e \in Call : \E k \in Opened(e)' :
                              /\ attempt'[e][k].parent = attempt[d][j].parent
                              /\ e # d \/ k < j
        OBVIOUS
      <4>a. PICK e \in Call : \E k \in Opened(e) :
              attempt[e][k].parent = attempt[d][j].parent /\ (e # d \/ k < j)
        BY <3>1, <4>1 DEF IInv, NumbersTell
      <4>2. PICK k \in Opened(e) :
              attempt[e][k].parent = attempt[d][j].parent /\ (e # d \/ k < j)
        BY <4>a
      <4>3. k \in Opened(e)' /\ attempt'[e][k].parent = attempt[e][k].parent
        BY <2>2
      <4> QED BY <4>2, <4>3
    <3>3. attempt[d][j].parent \notin evicted' =>
            \A e \in Call : \A k \in Opened(e)' :
              /\ attempt'[e][k].parent = attempt[d][j].parent
              /\ attempt'[e][k].number = attempt[d][j].number
              => e = d /\ k = j
      <4>1. SUFFICES ASSUME attempt[d][j].parent \notin evicted',
                            NEW e \in Call, NEW k \in Opened(e)',
                            attempt'[e][k].parent = attempt[d][j].parent,
                            attempt'[e][k].number = attempt[d][j].number
                     PROVE  e = d /\ k = j
        OBVIOUS
      <4>2. CASE k \in Opened(e)
        <5>1. /\ attempt[e][k].parent = attempt[d][j].parent
              /\ attempt[e][k].number = attempt[d][j].number
          BY <2>2, <4>1, <4>2
        <5>2. attempt[d][j].parent \notin evicted
          BY <1>6, <4>1
        <5>3. \A f \in Call : \A m \in Opened(f) :
                /\ attempt[f][m].parent = attempt[d][j].parent
                /\ attempt[f][m].number = attempt[d][j].number
                => f = d /\ m = j
          BY <3>1, <5>2 DEF IInv, NumbersTell
        <5> QED BY <4>2, <5>1, <5>3
      <4>3. CASE e = c /\ k = i
        <5>1. attempt[d][j].parent = p /\ attempt[d][j].number = n
          BY <1>8, <1>a, <4>1, <4>3
        <5> QED BY <1>6, <2>5, <3>1, <4>1, <5>1
      <4> QED BY <2>3, <4>2, <4>3
    <3>4. attempt[d][j].parent = d /\ d \notin evicted' =>
            attempt[d][j].number = Cardinality({k \in Opened(d)' : k <= j})
      <4>1. {k \in Opened(d)' : k <= j} = {k \in Opened(d) : k <= j}
        <5>1. CASE d = c
          <6>1. ~(i <= j)
            BY <1>4, <2>4, <3>1, <5>1 DEF Opened, Try
          <6> QED BY <1>19, <5>1, <6>1
        <5>2. CASE d # c
          BY <1>19, <5>2
        <5> QED BY <5>1, <5>2
      <4> QED BY <1>6, <3>1, <4>1 DEF IInv, NumbersTell
    <3> QED BY <3>1, <3>2, <3>3, <3>4
  <2> QED BY <2>6, <2>7
<1> QED BY <1>14, <1>16, <1>18, <1>21, <1>22 DEF IInv

-----------------------------------------------------------------------------
(* The theorems. *)

\* Hooks that come and go, a framework's ownership, and time touch no attempt.
LEMMA QuietKeeps ==
  ASSUME IInv,
         UNCHANGED <<call, attempt, held, counters, marked, evicted>>,
         installed' \subseteq Provider, owned' \in BOOLEAN, clock' \in 0..MaxClock
  PROVE  IInv'
<1>1. TypeOK'
  BY DEF IInv, TypeOK, Parent
<1>2. \A c \in Call : /\ ProviderOf(c)' = ProviderOf(c)
                      /\ ParentOf(c)' = ParentOf(c)
  BY SameShape
<1>3. \A c \in Call : Fits(c)'
  BY <1>2 DEF IInv, Fits, Metering
<1>4. MarkedInv' /\ CounterInv' /\ NumbersTell'
  BY OwnKeeps
<1> QED BY <1>1, <1>3, <1>4 DEF IInv

LEMMA NextKeeps == ASSUME IInv, [Next]_vars PROVE IInv'
<1>1. ASSUME NEW c \in Call, Begin(c) PROVE IInv'
  BY <1>1, BeginKeeps
<1>2. ASSUME NEW c \in Call, SendBare(c) PROVE IInv'
  BY <1>2, SendBareKeeps
<1>3. ASSUME NEW c \in Call, ReadClock(c) PROVE IInv'
  BY <1>3, ReadClockKeeps
<1>4. ASSUME NEW c \in Call, Open(c) PROVE IInv'
  BY <1>4, OpenKeeps
<1>5. ASSUME NEW c \in Call, OpenAIAnswer(c) PROVE IInv'
  BY <1>5, OpenAIAnswerKeeps
<1>6. ASSUME NEW c \in Call, AnthropicAnswer(c) PROVE IInv'
  BY <1>6, AnthropicAnswerKeeps
<1>7. ASSUME NEW c \in Call, BedrockAnswer(c) PROVE IInv'
  BY <1>7, BedrockAnswerKeeps
<1>8. ASSUME NEW c \in Call, BedrockUnanswered(c) PROVE IInv'
  BY <1>8, BedrockUnansweredKeeps
<1>9. ASSUME NEW p \in Provider, Install(p) \/ Uninstall(p) PROVE IInv'
  <2>1. /\ UNCHANGED <<call, attempt, held, counters, marked, evicted>>
        /\ installed' \subseteq Provider /\ owned' \in BOOLEAN
        /\ clock' \in 0..MaxClock
    BY <1>9 DEF Install, Uninstall, IInv, TypeOK
  <2> QED BY <2>1, QuietKeeps
<1>10. ASSUME FrameworkTurns PROVE IInv'
  <2>1. /\ UNCHANGED <<call, attempt, held, counters, marked, evicted>>
        /\ installed' \subseteq Provider /\ clock' \in 0..MaxClock
    BY <1>10 DEF FrameworkTurns, IInv, TypeOK
  <2>2. owned' \in BOOLEAN
    BY <1>10 DEF FrameworkTurns
  <2> QED BY <2>1, <2>2, QuietKeeps
<1>11. ASSUME Tick PROVE IInv'
  <2>1. /\ UNCHANGED <<call, attempt, held, counters, marked, evicted>>
        /\ installed' \subseteq Provider /\ owned' \in BOOLEAN
    BY <1>11 DEF Tick, IInv, TypeOK
  <2>2. clock' \in 0..MaxClock
    BY <1>11, BoundsAssumption DEF Tick, IInv, TypeOK
  <2> QED BY <2>1, <2>2, QuietKeeps
<1>12. ASSUME UNCHANGED vars PROVE IInv'
  <2>1. /\ UNCHANGED <<call, attempt, held, counters, marked, evicted>>
        /\ installed' \subseteq Provider /\ owned' \in BOOLEAN
        /\ clock' \in 0..MaxClock
    BY <1>12 DEF vars, IInv, TypeOK
  <2> QED BY <2>1, QuietKeeps
<1> QED BY <1>1, <1>2, <1>3, <1>4, <1>5, <1>6, <1>7, <1>8, <1>9, <1>10, <1>11,
           <1>12 DEF Next

\* The inductive invariant of the HTTP attempts (the three retry_handler.py and
\* attempt_naming.py).
THEOREM Invariant == Spec => []IInv
<1>1. Init => IInv
  BY InitHolds
<1>2. IInv /\ [Next]_vars => IInv'
  BY NextKeeps
<1> QED BY <1>1, <1>2, PTL DEF Spec

\* Every attempt's span is ended once, with the status of what came back, unless
\* botocore never tells of the response, and then Bedrock's context holds it; a
\* span is marked if and only if it has attempts.
THEOREM SpansAlwaysAccounted == Spec => []SpansAccounted
<1>1. IInv => SpansAccounted
  <2>1. SUFFICES ASSUME IInv PROVE SpansAccounted
    OBVIOUS
  <2>2. TypeOK
    BY <2>1 DEF IInv
  <2>3. ASSUME NEW c \in Call, NEW i \in Opened(c)
        PROVE  /\ attempt[c][i].told \in {"ok", "error"}
                    => attempt[c][i].is = attempt[c][i].told
               /\ attempt[c][i].told = "nothing"
                    => call[c].at = "sent" /\ i = Current(c)
               /\ attempt[c][i].told = "unanswered" =>
                    \/ attempt[c][i].is = "error"
                    \/ attempt[c][i].is = "open" /\ held[c] = i
    BY <2>1, <2>3 DEF IInv, Fits, Opened, Current
  <2>4. marked = {attempt[c][i].parent : c \in Call, i \in Try} \ {NoSpan}
    <3>1. marked \subseteq Parent
      BY <2>2 DEF TypeOK
    <3>2. \A c \in Call, i \in Try : attempt[c][i].parent \in Parent \cup {NoSpan}
      BY <2>2 DEF TypeOK
    <3>3. \A p \in Parent : p \in marked <=> AttemptUnder(p)
      BY <2>1 DEF IInv, MarkedInv
    <3> QED BY <3>1, <3>2, <3>3, NamesAssumption DEF AttemptUnder
  <2> QED BY <2>2, <2>3, <2>4 DEF SpansAccounted
<1> QED BY <1>1, Invariant, PTL

\* Attempts are numbered in order under their parent: one that says it is a retry
\* follows another, and while the counter is not evicted no number is given twice
\* and a call's own attempts are 1, 2, ...
THEOREM NumbersAlwaysTell == Spec => []NumbersTell
<1>1. IInv => NumbersTell
  BY DEF IInv
<1> QED BY <1>1, Invariant, PTL

\* A call whose span is marked as having attempts has one, is not suppressed, and
\* each of its attempts that was answered well has the tokens it used, but for
\* InvokeModel's and Anthropic's older completions'.
THEOREM MarkedAlwaysCarryUsage == Spec => []MarkedCarryUsage
<1>1. IInv => MarkedCarryUsage
  <2>1. SUFFICES ASSUME IInv, NEW c \in Call \cap marked
                 PROVE  /\ ~call[c].shape.suppressed
                        /\ \E i \in Opened(c) : attempt[c][i].parent = c
                        /\ \A i \in Opened(c) :
                             /\ attempt[c][i].told = "ok"
                             /\ call[c].shape.kind \notin Unmetered
                             => attempt[c][i].usage
    BY DEF MarkedCarryUsage
  <2>2. TypeOK
    BY <2>1 DEF IInv
  <2>3. AttemptUnder(c)
    BY <2>1, <2>2, Parents DEF IInv, MarkedInv
  <2>4. PICK d \in Call, i \in Try : attempt[d][i].parent = c
    BY <2>3 DEF AttemptUnder
  <2>5. attempt[d][i] # NoAttempt
    BY <2>2, <2>4, Parents DEF NoAttempt
  <2>6. ParentOf(d) = c
    BY <2>1, <2>4, <2>5 DEF IInv, Fits
  <2>7. d = c
    BY <2>2, <2>6, Parents
  <2>8. Covers(c)
    BY <2>2, <2>6, <2>7, ShapeTypes, NamesAssumption DEF ParentOf, Parent
  <2>9. ASSUME NEW j \in Opened(c), attempt[c][j].told = "ok",
               call[c].shape.kind \notin Unmetered
        PROVE  attempt[c][j].usage
    <3>1. Metering(c, attempt[c][j])
      BY <2>1, <2>9 DEF IInv, Fits, Opened
    <3> QED BY <2>9, <3>1 DEF Metering
  <2> QED BY <2>4, <2>5, <2>7, <2>8, <2>9 DEF Covers, Opened
<1> QED BY <1>1, Invariant, PTL

=============================================================================
