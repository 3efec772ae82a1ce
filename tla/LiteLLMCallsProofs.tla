-------------------------- MODULE LiteLLMCallsProofs ---------------------------
(***************************************************************************)
(* Theorems about LiteLLMCalls, for any calls, flows, nested scopes,       *)
(* addresses and limit of the set of markers.                              *)
(*                                                                         *)
(* A context lives on in the flow it is current in and in the tokens that  *)
(* were taken there: those of calls, and those of the application's        *)
(* scopes.  The invariant says of each of these that whoever suppressed    *)
(* instrumentation in it is still at work, or was cancelled there with its *)
(* context attached, or is astray (LayersFit); that a                      *)
(* call which is to take its own context off has left it nowhere else      *)
(* (NotRevived); and how far a response has been screened by the wrapper   *)
(* and by LiteLLM's logger (ResponsesFit).                                 *)
(***************************************************************************)
EXTENDS LiteLLMCalls, SequenceTheorems, FiniteSetTheorems, TLAPS

Layers == [owner : Calls \cup Scopes, span : BOOLEAN, suppress : {"on", "inherited"}]
Contexts == Seq(Layers)
Tokens == [flow : Flows, old : Contexts]
Entries == [owner : Scopes, token : Tokens]

Active == {"calling", "unread", "reading"}
Answered == {"finishing", "applying", "marking", "returning", "returned", "raised"}
ModesSeen == Modes \cup {"awaited"}
LoggerPlaces == {"none", "called", "applying", "marking", "late", "cut", "done"}

\* Calls whose context is current, or will be put back by nobody.
Left(c) == pc[c] = "cancelled" /\ mode[c] # "awaited"
Holding(c) == pc[c] \in Active \/ Left(c)

\* Who switched instrumentation off in a context.
On(context) == {context[i].owner : i \in {j \in DOMAIN context : context[j].suppress = "on"}}

\* The token of a call, and the context it made current.
Old(c) == token[c][1].old
Own(c) == Append(Old(c), Layer(c, TRUE, "on"))
Saved(g, i) == scopes[g][i].token.old

ContextTypes ==
  /\ ambient \in [Flows -> Contexts] /\ flow \in [Calls -> Flows]
  /\ token \in [Calls -> Seq(Tokens)] /\ scopes \in [Flows -> Seq(Entries)]
  /\ \A g \in Flows : \A i \in DOMAIN scopes[g] : scopes[g][i].token.flow = g

\* The token of a call that is at work, or was left behind; that of a stream
\* was taken where nothing was suppressed.
TokensFit ==
  \A c \in Calls :
    /\ token[c] = IF Holding(c) \/ pc[c] = "dropped" THEN <<token[c][1]>> ELSE <<>>
    /\ pc[c] = "calling" => token[c][1].flow = flow[c] /\ ambient[flow[c]] = Own(c)
    /\ pc[c] \in {"unread", "reading", "dropped"} \/ Left(c) => On(Old(c)) = {}
    /\ pc[c] = "calling" /\ mode[c] # "awaited" => On(Old(c)) = {}
    /\ pc[c] = "calling" /\ c \notin astray => c \notin On(Old(c))
    /\ pc[c] = "dropped" => c \in astray

\* Those who may suppress something in a context of flow g.
Fitting(g) ==
  {c \in Calls : c \in astray \/ (Holding(c) /\ token[c][1].flow = g)}

LayersFit ==
  /\ \A g \in Flows : On(ambient[g]) \subseteq Fitting(g)
  /\ \A d \in Calls, g \in Flows :
       token[d] # <<>> /\ token[d][1].flow = g => On(Old(d)) \subseteq Fitting(g)
  /\ \A g \in Flows : \A i \in DOMAIN scopes[g] : On(Saved(g, i)) \subseteq Fitting(g)

\* A call whose context a scope will put back is not about to leave in order.
NotRevived ==
  \A c \in Calls, g \in Flows : \A i \in DOMAIN scopes[g] :
    c \notin astray /\ c \in On(Saved(g, i)) =>
      /\ ambient[g] # Own(c)
      /\ \A j \in DOMAIN scopes[g] : i < j => Saved(g, j) # Own(c)
      /\ \A d \in Calls : d # c /\ token[d] # <<>> /\ token[d][1].flow = g => Old(d) # Own(c)

ContextIInv == /\ ContextTypes /\ TokensFit /\ LayersFit /\ NotRevived
               /\ InnerCallsSkipped /\ inner \subseteq Calls /\ astray \subseteq Calls

\* How often the wrapper has screened a response, and the logger.
Turns(c) == (IF pc[c] \in {"marking", "returning", "returned", "raised"} THEN 1 ELSE 0)
            + (IF logger[c] \in {"marking", "done", "cut"} THEN 1 ELSE 0)

\* The response was screened, or somebody has given it up.
GivenUp(c) == c \in failed \/ logger[c] \in {"late", "cut"}
Seen(c) == applied[c] > 0 \/ GivenUp(c)

ResponseFits(c) ==
  /\ pc[c] \notin Answered => /\ object[c] = <<>> /\ logger[c] = "none"
                              /\ applied[c] = 0 /\ c \notin marked
  /\ pc[c] \in Answered => logger[c] # "none"
  /\ pc[c] \in Answered =>
       object[c] # <<>> \/ (pc[c] \in {"returned", "raised"} /\ logger[c] \in {"done", "cut"})
  /\ applied[c] \in 0..Turns(c)
  /\ pc[c] = "marking" \/ logger[c] = "marking" \/ c \in marked => Seen(c)
  /\ pc[c] \in {"returning", "returned"} => Seen(c) \/ c \in reused
  /\ object[c] # <<>> =>
       /\ object[c] = <<object[c][1]>> /\ object[c][1] \in Addresses
       /\ object[c][1] \in markers => Seen(c) \/ c \in reused

\* Responses that are alive have addresses of their own.
ObjectsDiffer ==
  \A c, d \in Calls : object[c] # <<>> /\ object[d] = object[c] => d = c

MarkersFit == /\ marked \subseteq Calls /\ plain \subseteq Calls /\ marked \cap plain = {}
              /\ markers \subseteq Addresses /\ IsFiniteSet(markers)
              /\ Cardinality(markers) <= MaxMarkers

ResponseIInv == /\ \A c \in Calls : ResponseFits(c)
                /\ ObjectsDiffer /\ MarkersFit
                /\ object \in [Calls -> Seq(Addresses)]
                /\ applied \in [Calls -> Nat] /\ failed \subseteq Calls
                /\ reused \subseteq Calls /\ logger \in [Calls -> LoggerPlaces]

Places == Done \cup Waiting \cup
            {"idle", "skipped", "calling", "finishing", "applying", "marking",
             "returning", "cancelled", "dropped"}

SpanIInv == /\ pc \in [Calls -> Places]
            /\ mode \in [Calls -> ModesSeen]
            /\ span \in [Calls -> [ends : Nat, status : {"unset", "ok", "error"}]]
            /\ SpansEndOnce
            /\ \A c \in Calls : pc[c] \notin Done => span[c].status = "unset"

IInv == ContextIInv /\ ResponseIInv /\ SpanIInv

-----------------------------------------------------------------------------
(* Contexts. *)

LEMMA LayerTyped ==
  /\ \A c \in Calls : Layer(c, TRUE, "on") \in Layers
  /\ \A s \in Scopes : Layer(s, TRUE, "inherited") \in Layers
BY DEF Layer, Layers

\* What a layer adds to a context.
LEMMA OnAppend ==
  ASSUME NEW x \in Contexts, NEW l \in Layers
  PROVE  /\ Append(x, l) \in Contexts
         /\ On(Append(x, l)) = IF l.suppress = "on" THEN On(x) \cup {l.owner} ELSE On(x)
<1> DEFINE y == Append(x, l)
<1>1. /\ y \in Seq(Layers) /\ Len(x) \in Nat /\ Len(y) = Len(x) + 1
      /\ \A i \in 1..Len(x) : y[i] = x[i]
      /\ y[Len(x) + 1] = l
  BY LenProperties, AppendProperties DEF Contexts
<1>2. DOMAIN x = 1..Len(x) /\ DOMAIN y = 1..Len(x) + 1
  BY <1>1, LenProperties DEF Contexts
<1> HIDE DEF y
<1>3. \A i \in DOMAIN y : i \in DOMAIN x \/ i = Len(x) + 1
  BY <1>1, <1>2
<1>4. DOMAIN x \subseteq DOMAIN y /\ Len(x) + 1 \in DOMAIN y
  BY <1>1, <1>2
<1>5. \A c : c \in On(y) <=> c \in On(x) \/ (l.suppress = "on" /\ c = l.owner)
  BY <1>1, <1>2, <1>3, <1>4 DEF On
<1>6. On(y) = IF l.suppress = "on" THEN On(x) \cup {l.owner} ELSE On(x)
  BY <1>5
<1> QED BY <1>1, <1>6 DEF Contexts, y

\* Contexts that were built in different ways differ.
LEMMA AppendDiffers ==
  ASSUME NEW x \in Contexts, NEW y \in Contexts, NEW l \in Layers, NEW m \in Layers,
         Append(x, l) = Append(y, m)
  PROVE  x = y /\ l = m
BY AppendInjective DEF Contexts

LEMMA SuppressedOn ==
  ASSUME NEW x \in Contexts
  PROVE  /\ Suppressed(x) <=> On(x) # {}
         /\ On(x) \subseteq Owners(x)
<1>1. \A i \in DOMAIN x : x[i] \in Layers
  BY ElementOfSeq, LenProperties DEF Contexts
<1>2. \A i \in DOMAIN x : x[i].suppress # "off"
  BY <1>1 DEF Layers
<1> QED BY <1>2 DEF Suppressed, On, Owners

\* The contexts that calls make.
LEMMA OwnFacts ==
  ASSUME ContextTypes, NEW c \in Calls, token[c] = <<token[c][1]>>
  PROVE  /\ token[c][1] \in Tokens /\ token[c][1].flow \in Flows
         /\ Old(c) \in Contexts /\ Own(c) \in Contexts
         /\ On(Own(c)) = On(Old(c)) \cup {c}
<1>1. token[c][1] \in Tokens
  BY ElementOfSeq DEF ContextTypes
<1>2. Layer(c, TRUE, "on") \in Layers /\ Layer(c, TRUE, "on").suppress = "on"
      /\ Layer(c, TRUE, "on").owner = c
  BY DEF Layers, Layer
<1>3. Old(c) \in Contexts /\ token[c][1].flow \in Flows
  BY <1>1 DEF Old, Tokens
<1> QED BY <1>1, <1>2, <1>3, OnAppend DEF Own

LEMMA OwnDiffers ==
  ASSUME ContextTypes, NEW c \in Calls, NEW d \in Calls,
         token[c] = <<token[c][1]>>, token[d] = <<token[d][1]>>, Own(c) = Own(d)
  PROVE  c = d
<1>1. Old(c) \in Contexts /\ Old(d) \in Contexts
  BY OwnFacts
<1>2. Layer(c, TRUE, "on") = Layer(d, TRUE, "on")
  BY <1>1, LayerTyped, AppendDiffers DEF Own
<1> QED BY <1>2 DEF Layer

\* What scopes have saved.
LEMMA SavedTyped ==
  ASSUME ContextTypes, NEW g \in Flows, NEW i \in DOMAIN scopes[g]
  PROVE  /\ scopes[g][i] \in Entries /\ scopes[g][i].token \in Tokens
         /\ Saved(g, i) \in Contexts /\ scopes[g][i].token.flow = g
<1>1. scopes[g] \in Seq(Entries)
  BY DEF ContextTypes
<1>2. scopes[g][i] \in Entries
  BY <1>1, ElementOfSeq, LenProperties
<1> QED BY <1>2 DEF Entries, Tokens, Saved, ContextTypes

\* Who is calling in a flow has its context there, and nobody else has.
LEMMA OneCaller ==
  ASSUME ContextIInv, NEW c \in Calls, NEW d \in Calls,
         pc[c] = "calling", pc[d] = "calling", flow[c] = flow[d]
  PROVE  c = d
<1>1. /\ token[c] = <<token[c][1]>> /\ token[d] = <<token[d][1]>> /\ Own(c) = Own(d)
  BY DEF ContextIInv, TokensFit, Holding, Active
<1> QED BY <1>1, OwnDiffers DEF ContextIInv

LEMMA NobodyRuns ==
  ASSUME ContextIInv, NEW f \in Flows, MayCall(f), ~Skips(f)
  PROVE  Running(f) = {}
<1> SUFFICES ASSUME NEW d \in Running(f) PROVE FALSE
  OBVIOUS
<1>1. d \in Calls /\ flow[d] = f /\ pc[d] = "calling"
  BY DEF MayCall, Running
<1>2. token[d] = <<token[d][1]>> /\ ambient[f] = Own(d)
  BY <1>1 DEF ContextIInv, TokensFit, Holding, Active
<1>3. d \in On(ambient[f]) /\ ambient[f] \in Contexts
  BY <1>1, <1>2, OwnFacts DEF ContextIInv, ContextTypes
<1> QED BY <1>3, SuppressedOn DEF Skips

\* Who suppresses something in a flow, and is not astray, is at work there.
LEMMA FittingFacts ==
  ASSUME ContextIInv, NEW g \in Flows, NEW e \in Fitting(g), e \notin astray
  PROVE  /\ e \in Calls /\ Holding(e) /\ token[e] # <<>>
         /\ token[e] = <<token[e][1]>> /\ token[e][1].flow = g
         /\ Old(e) \in Contexts /\ Own(e) \in Contexts
<1>1. e \in Calls /\ Holding(e) /\ token[e][1].flow = g
  BY DEF Fitting
<1>2. token[e] = <<token[e][1]>>
  BY <1>1 DEF ContextIInv, TokensFit
<1> QED BY <1>1, <1>2, OwnFacts DEF ContextIInv

\* A token has nothing suppressed to put back, unless its call is calling.
LEMMA OldFacts ==
  ASSUME ContextIInv, NEW d \in Calls, token[d] # <<>>
  PROVE  /\ token[d] = <<token[d][1]>> /\ (Holding(d) \/ pc[d] = "dropped")
         /\ token[d][1].flow \in Flows /\ token[d][1] \in Tokens
         /\ Old(d) \in Contexts /\ Own(d) \in Contexts
         /\ On(Old(d)) # {} => /\ pc[d] = "calling" /\ flow[d] = token[d][1].flow
                               /\ ambient[flow[d]] = Own(d)
<1>1. token[d] = <<token[d][1]>> /\ (Holding(d) \/ pc[d] = "dropped")
  BY DEF ContextIInv, TokensFit
<1>2. On(Old(d)) # {} => /\ pc[d] = "calling" /\ flow[d] = token[d][1].flow
                         /\ ambient[flow[d]] = Own(d)
  BY <1>1 DEF ContextIInv, TokensFit, Holding, Active
<1> QED BY <1>1, <1>2, OwnFacts DEF ContextIInv

-----------------------------------------------------------------------------
(* The steps that change a context. *)

LEMMA CoverKeeps ==
  ASSUME IInv, NEW c \in Calls, NEW f \in Flows,
         pc[c] \in {"idle", "awaitable"}, Running(f) = {}, Covered(c, f),
         pc' = [pc EXCEPT ![c] = "calling"], flow' = [flow EXCEPT ![c] = f],
         \A d \in Calls : d # c => mode'[d] = mode[d],
         mode'[c] # "awaited" => On(ambient[f]) = {},
         UNCHANGED <<inner, scopes, astray>>
  PROVE  ContextIInv'
<1> USE DEF IInv
<1>1. /\ pc'[c] = "calling" /\ flow'[c] = f /\ token'[c] = <<Token(f)>>
      /\ ambient'[f] = Append(ambient[f], Layer(c, TRUE, "on"))
      /\ \A d \in Calls : d # c => /\ pc'[d] = pc[d] /\ flow'[d] = flow[d]
                                   /\ token'[d] = token[d] /\ mode'[d] = mode[d]
      /\ \A g \in Flows : g # f => ambient'[g] = ambient[g]
  BY DEF SpanIInv, ContextIInv, ContextTypes, Covered, Attach
<1>2. ambient[f] \in Contexts /\ Token(f) \in Tokens
  BY DEF ContextIInv, ContextTypes, Token, Tokens
<1>3. /\ Layer(c, TRUE, "on") \in Layers /\ Layer(c, TRUE, "on").suppress = "on"
      /\ Layer(c, TRUE, "on").owner = c
  BY DEF Layers, Layer
<1>4. ambient'[f] \in Contexts /\ On(ambient'[f]) = On(ambient[f]) \cup {c}
  BY <1>1, <1>2, <1>3, OnAppend
<1>5. ContextTypes'
  <2>1. ambient' \in [Flows -> Contexts]
    BY <1>4 DEF ContextIInv, ContextTypes, Covered, Attach
  <2>2. token' \in [Calls -> Seq(Tokens)]
    <3>1. <<Token(f)>> \in Seq(Tokens)
      BY <1>2
    <3> QED BY <3>1 DEF ContextIInv, ContextTypes, Covered
  <2> QED BY <2>1, <2>2 DEF ContextIInv, ContextTypes
<1>6. /\ token'[c][1].flow = f /\ token'[c] = <<token'[c][1]>>
      /\ Old(c)' = ambient[f] /\ Own(c)' = ambient'[f]
      /\ \A d \in Calls : d # c => Old(d)' = Old(d) /\ Own(d)' = Own(d)
      /\ \A g \in Flows : \A i \in DOMAIN scopes[g] : Saved(g, i)' = Saved(g, i)
  <2>1. token'[c][1] = Token(f) /\ token'[c] = <<token'[c][1]>>
    BY <1>1
  <2>2. token'[c][1].flow = f /\ Old(c)' = ambient[f]
    BY <2>1 DEF Old, Token
  <2>3. Own(c)' = ambient'[f]
    BY <2>2, <1>1 DEF Own
  <2>4. \A d \in Calls : d # c => Old(d)' = Old(d) /\ Own(d)' = Own(d)
    BY <1>1 DEF Old, Own
  <2>5. \A g \in Flows : \A i \in DOMAIN scopes[g] : Saved(g, i)' = Saved(g, i)
    BY DEF Saved
  <2> QED BY <2>1, <2>2, <2>3, <2>4, <2>5
<1>7. ~Holding(c) /\ token[c] = <<>>
  BY DEF ContextIInv, TokensFit, Holding, Left, Active
<1>8. \A d \in Calls : d # c /\ pc[d] = "calling" => flow[d] # f
  BY DEF Running
<1>9. On(ambient[f]) \subseteq Fitting(f) /\ (c \notin astray => c \notin On(ambient[f]))
  BY <1>7 DEF ContextIInv, LayersFit, Fitting
<1>10. TokensFit'
  <2> SUFFICES ASSUME NEW d \in Calls PROVE
      /\ token'[d] = IF Holding(d)' \/ pc'[d] = "dropped" THEN <<token'[d][1]>> ELSE <<>>
      /\ pc'[d] = "calling" => token'[d][1].flow = flow'[d] /\ ambient'[flow'[d]] = Own(d)'
      /\ pc'[d] \in {"unread", "reading", "dropped"} \/ Left(d)' => On(Old(d)') = {}
      /\ pc'[d] = "calling" /\ mode'[d] # "awaited" => On(Old(d)') = {}
      /\ pc'[d] = "calling" /\ d \notin astray => d \notin On(Old(d)')
      /\ pc'[d] = "dropped" => d \in astray
    BY DEF TokensFit, On, Old
  <2>1. CASE d = c
    BY <2>1, <1>1, <1>6, <1>9 DEF Holding, Left, Active
  <2>2. CASE d # c
    <3>1. flow[d] \in Flows
      BY DEF ContextIInv, ContextTypes
    <3> QED BY <2>2, <3>1, <1>1, <1>6, <1>8 DEF ContextIInv, TokensFit, Holding, Left
  <2> QED BY <2>1, <2>2
<1>11. \A g \in Flows : Fitting(g) \subseteq Fitting(g)'
  <2>1. \A d \in Calls : Holding(d) => Holding(d)' /\ d # c
    BY <1>1, <1>7 DEF Holding, Left
  <2> QED BY <1>1, <2>1 DEF Fitting
<1>12. c \in Fitting(f)'
  BY <1>1, <1>6 DEF Fitting, Holding, Active
<1>13. LayersFit'
  <2>1. \A g \in Flows : On(ambient'[g]) \subseteq Fitting(g)'
    BY <1>1, <1>4, <1>9, <1>11, <1>12 DEF ContextIInv, LayersFit
  <2>2. ASSUME NEW d \in Calls, NEW g \in Flows, token'[d] # <<>>, token'[d][1].flow = g
        PROVE  On(Old(d)') \subseteq Fitting(g)'
    <3>1. CASE d = c
      BY <2>2, <3>1, <1>6, <1>9, <1>11
    <3>2. CASE d # c
      BY <2>2, <3>2, <1>1, <1>6, <1>11 DEF ContextIInv, LayersFit
    <3> QED BY <3>1, <3>2
  <2>3. \A g \in Flows : \A i \in DOMAIN scopes[g] : On(Saved(g, i)) \subseteq Fitting(g)'
    BY <1>11 DEF ContextIInv, LayersFit
  <2>4. \A g \in Flows : \A i \in DOMAIN scopes'[g] : On(Saved(g, i)') \subseteq Fitting(g)'
    BY <2>3, <1>6
  <2> HIDE DEF IInv
  <2> QED BY <2>1, <2>2, <2>4 DEF LayersFit
<1>14. NotRevived'
  <2> SUFFICES ASSUME NEW e \in Calls, NEW g \in Flows, NEW i \in DOMAIN scopes[g],
                      e \notin astray, e \in On(Saved(g, i))
               PROVE  /\ ambient'[g] # Own(e)'
                      /\ \A j \in DOMAIN scopes[g] : i < j => Saved(g, j) # Own(e)'
                      /\ \A d \in Calls : d # e /\ token'[d] # <<>> /\ token'[d][1].flow = g
                                         => Old(d)' # Own(e)'
    BY <1>6 DEF NotRevived, On
  <2>1. e \in Fitting(g)
    BY DEF ContextIInv, LayersFit
  <2>2. e # c /\ Own(e)' = Own(e) /\ token[e] = <<token[e][1]>>
    BY <2>1, <1>6, <1>7, FittingFacts
  <2>3. /\ ambient[g] # Own(e)
        /\ \A j \in DOMAIN scopes[g] : i < j => Saved(g, j) # Own(e)
        /\ \A d \in Calls : d # e /\ token[d] # <<>> /\ token[d][1].flow = g
                           => Old(d) # Own(e)
    BY DEF ContextIInv, NotRevived
  <2>4. Own(c)' # Own(e)'
    <3>1. Own(c)' = Append(ambient[f], Layer(c, TRUE, "on"))
          /\ Own(e)' = Append(Old(e), Layer(e, TRUE, "on"))
      BY <1>1, <1>6, <2>2 DEF Own
    <3>2. Layer(c, TRUE, "on") # Layer(e, TRUE, "on")
      BY <2>2 DEF Layer
    <3>3. Old(e) \in Contexts
      BY <2>1, FittingFacts
    <3>4. Layer(c, TRUE, "on") \in Layers /\ Layer(e, TRUE, "on") \in Layers
      BY LayerTyped
    <3>5. Append(ambient[f], Layer(c, TRUE, "on")) # Append(Old(e), Layer(e, TRUE, "on"))
      BY ONLY <3>2, <3>3, <3>4, <1>2, AppendDiffers
    <3> QED BY <3>1, <3>5
  <2>5. ambient'[g] # Own(e)'
    BY <1>1, <1>6, <2>2, <2>3, <2>4
  <2>6. ASSUME NEW d \in Calls, d # e, token'[d] # <<>>, token'[d][1].flow = g
        PROVE  Old(d)' # Own(e)'
    BY <2>6, <1>1, <1>6, <2>2, <2>3
  <2> QED BY <2>2, <2>3, <2>5, <2>6
<1>15. InnerCallsSkipped'
  BY <1>1 DEF ContextIInv, InnerCallsSkipped
<1> QED BY <1>5, <1>10, <1>13, <1>14, <1>15 DEF ContextIInv

\* In order, a call leaves its context nowhere else.
LEMMA LeavesNothing ==
  ASSUME ContextIInv, NEW c \in Calls, NEW f \in Flows,
         pc[c] \in {"calling", "reading"}, c \notin astray, token[c][1].flow = f,
         ambient[f] = Own(c)
  PROVE  /\ c \notin On(Old(c))
         /\ \A g \in Flows : g # f => c \notin On(ambient[g])
         /\ \A d \in Calls : d # c /\ token[d] # <<>> => c \notin On(Old(d))
         /\ \A g \in Flows : \A i \in DOMAIN scopes[g] : c \notin On(Saved(g, i))
<1>1. \A g \in Flows : c \in Fitting(g) => g = f
  BY DEF Fitting
<1>2. c \notin On(Old(c))
  BY DEF ContextIInv, TokensFit
<1>3. \A g \in Flows : g # f => c \notin On(ambient[g])
  BY <1>1 DEF ContextIInv, LayersFit
<1>4. ASSUME NEW d \in Calls, d # c, token[d] # <<>>, c \in On(Old(d)) PROVE FALSE
  <2>1. token[d][1].flow \in Flows /\ token[d] = <<token[d][1]>>
    BY <1>4, OldFacts
  <2>2. token[d][1].flow = f
    BY <1>1, <1>4, <2>1 DEF ContextIInv, LayersFit
  <2>3. Own(d) = Own(c)
    BY <1>4, <2>2, OldFacts
  <2>4. token[c] = <<token[c][1]>>
    BY DEF ContextIInv, TokensFit, Holding, Active
  <2> QED BY <1>4, <2>1, <2>3, <2>4, OwnDiffers DEF ContextIInv
<1>5. ASSUME NEW g \in Flows, NEW i \in DOMAIN scopes[g], c \in On(Saved(g, i)) PROVE FALSE
  <2>1. g = f
    BY <1>1, <1>5 DEF ContextIInv, LayersFit
  <2> QED BY <1>5, <2>1 DEF ContextIInv, NotRevived
<1> QED BY <1>2, <1>3, <1>4, <1>5

LEMMA UncoverKeeps ==
  ASSUME IInv, NEW c \in Calls, NEW f \in Flows, NEW place,
         \/ pc[c] = "calling" /\ f = flow[c]
         \/ pc[c] = "reading" /\ Running(f) = {},
         Uncover(c, f), pc' = [pc EXCEPT ![c] = place],
         place \notin Active \cup {"dropped", "skipped"},
         place = "cancelled" => mode[c] = "awaited",
         UNCHANGED <<mode, flow, inner, scopes>>
  PROVE  ContextIInv'
<1> USE DEF IInv
<1>1. /\ pc'[c] = place /\ token'[c] = <<>>
      /\ \A d \in Calls : d # c => pc'[d] = pc[d] /\ token'[d] = token[d]
      /\ \A g \in Flows : g # f => ambient'[g] = ambient[g]
      /\ astray \subseteq astray' /\ astray' \subseteq astray \cup {c}
  BY DEF SpanIInv, ContextIInv, ContextTypes, Uncover, Detached
<1>2. /\ token[c] # <<>> /\ token[c] = <<token[c][1]>> /\ Holding(c)
      /\ token[c][1].flow \in Flows /\ Old(c) \in Contexts
  <2>1. Holding(c)
    BY DEF Holding, Active
  <2>2. token[c] = <<token[c][1]>>
    BY <2>1 DEF ContextIInv, TokensFit
  <2>3. token[c] # <<>>
    BY <2>2
  <2> QED BY <2>1, <2>2, <2>3, OldFacts
<1>3. \/ token[c][1].flow = f /\ ambient'[f] = Old(c)
      \/ token[c][1].flow # f /\ ambient' = ambient /\ c \in astray'
  BY DEF ContextIInv, ContextTypes, Uncover, Detached, Old
<1>4. c \notin astray' => /\ c \notin astray /\ token[c][1].flow = f /\ ambient[f] = Own(c)
                          /\ ambient'[f] = Old(c)
  BY <1>1, <1>3 DEF Uncover, Own, Old
<1>5. ContextTypes'
  <2>1. ambient' \in [Flows -> Contexts]
    BY <1>2 DEF ContextIInv, ContextTypes, Uncover, Detached, Old
  <2>2. token' \in [Calls -> Seq(Tokens)]
    <3>1. <<>> \in Seq(Tokens)
      OBVIOUS
    <3> QED BY <3>1 DEF ContextIInv, ContextTypes, Uncover
  <2> QED BY <2>1, <2>2 DEF ContextIInv, ContextTypes
<1>6. /\ \A d \in Calls : d # c => Old(d)' = Old(d) /\ Own(d)' = Own(d)
      /\ \A g \in Flows : \A i \in DOMAIN scopes[g] : Saved(g, i)' = Saved(g, i)
  BY <1>1 DEF Old, Own, Saved
<1>7. \A d \in Calls : d # c /\ pc[d] = "calling" => flow[d] # f
  BY OneCaller DEF Running
<1>8. TokensFit'
  <2> SUFFICES ASSUME NEW d \in Calls PROVE
      /\ token'[d] = IF Holding(d)' \/ pc'[d] = "dropped" THEN <<token'[d][1]>> ELSE <<>>
      /\ pc'[d] = "calling" => token'[d][1].flow = flow[d] /\ ambient'[flow[d]] = Own(d)'
      /\ pc'[d] \in {"unread", "reading", "dropped"} \/ Left(d)' => On(Old(d)') = {}
      /\ pc'[d] = "calling" /\ mode[d] # "awaited" => On(Old(d)') = {}
      /\ pc'[d] = "calling" /\ d \notin astray' => d \notin On(Old(d)')
      /\ pc'[d] = "dropped" => d \in astray'
    BY DEF TokensFit, On, Old
  <2>1. CASE d = c
    BY <2>1, <1>1 DEF Holding, Left, Active
  <2>2. CASE d # c
    <3>1. flow[d] \in Flows
      BY DEF ContextIInv, ContextTypes
    <3> QED BY <2>2, <3>1, <1>1, <1>6, <1>7 DEF ContextIInv, TokensFit, Holding, Left
  <2> QED BY <2>1, <2>2
<1>9. \A g \in Flows : \A e \in Fitting(g) : e # c \/ c \in astray' => e \in Fitting(g)'
  BY <1>1 DEF Fitting, Holding, Left
<1>10. c \notin astray' =>
         /\ c \notin On(Old(c))
         /\ \A g \in Flows : g # f => c \notin On(ambient[g])
         /\ \A d \in Calls : d # c /\ token[d] # <<>> => c \notin On(Old(d))
         /\ \A g \in Flows : \A i \in DOMAIN scopes[g] : c \notin On(Saved(g, i))
  <2> SUFFICES ASSUME c \notin astray'
               PROVE  /\ c \notin On(Old(c))
                      /\ \A g \in Flows : g # f => c \notin On(ambient[g])
                      /\ \A d \in Calls : d # c /\ token[d] # <<>> => c \notin On(Old(d))
                      /\ \A g \in Flows : \A i \in DOMAIN scopes[g] : c \notin On(Saved(g, i))
    OBVIOUS
  <2> QED BY <1>4, LeavesNothing
<1>11. LayersFit'
  <2>1. ASSUME NEW g \in Flows, NEW e \in On(ambient'[g]) PROVE e \in Fitting(g)'
    <3>1. CASE g = f /\ token[c][1].flow = f
      BY <2>1, <3>1, <1>2, <1>3, <1>9, <1>10 DEF ContextIInv, LayersFit
    <3>2. CASE g # f
      BY <2>1, <3>2, <1>1, <1>9, <1>10 DEF ContextIInv, LayersFit
    <3>3. CASE token[c][1].flow # f
      BY <2>1, <3>3, <1>3, <1>9 DEF ContextIInv, LayersFit
    <3> QED BY <3>1, <3>2, <3>3
  <2>2. ASSUME NEW d \in Calls, NEW g \in Flows, token'[d] # <<>>, token'[d][1].flow = g
        PROVE  On(Old(d)') \subseteq Fitting(g)'
    <3>1. d # c /\ token[d] # <<>> /\ token[d][1].flow = g /\ Old(d)' = Old(d)
      BY <2>2, <1>1, <1>6
    <3>2. On(Old(d)) \subseteq Fitting(g)
      BY <3>1 DEF ContextIInv, LayersFit
    <3> QED BY <3>1, <3>2, <1>9, <1>10
  <2>3. ASSUME NEW g \in Flows, NEW i \in DOMAIN scopes'[g]
        PROVE  On(Saved(g, i)') \subseteq Fitting(g)'
    <3>1. On(Saved(g, i)) \subseteq Fitting(g) /\ Saved(g, i)' = Saved(g, i)
      BY <1>6 DEF ContextIInv, LayersFit
    <3> QED BY <3>1, <1>9, <1>10
  <2> HIDE DEF IInv
  <2> QED BY <2>1, <2>2, <2>3 DEF LayersFit
<1>12. NotRevived'
  <2> SUFFICES ASSUME NEW e \in Calls, NEW g \in Flows, NEW i \in DOMAIN scopes[g],
                      e \notin astray', e \in On(Saved(g, i))
               PROVE  /\ ambient'[g] # Own(e)'
                      /\ \A j \in DOMAIN scopes[g] : i < j => Saved(g, j) # Own(e)'
                      /\ \A d \in Calls : d # e /\ token'[d] # <<>> /\ token'[d][1].flow = g
                                         => Old(d)' # Own(e)'
    BY <1>6 DEF NotRevived, On
  <2>1. e # c /\ Own(e)' = Own(e) /\ e \notin astray
    BY <1>1, <1>6, <1>10
  <2>2. /\ ambient[g] # Own(e)
        /\ \A j \in DOMAIN scopes[g] : i < j => Saved(g, j) # Own(e)
        /\ \A d \in Calls : d # e /\ token[d] # <<>> /\ token[d][1].flow = g
                           => Old(d) # Own(e)
    BY <2>1 DEF ContextIInv, NotRevived
  <2>3. ambient'[g] # Own(e)'
    BY <1>1, <1>2, <1>3, <2>1, <2>2
  <2>4. ASSUME NEW d \in Calls, d # e, token'[d] # <<>>, token'[d][1].flow = g
        PROVE  Old(d)' # Own(e)'
    BY <2>4, <1>1, <1>6, <2>1, <2>2
  <2> QED BY <2>1, <2>2, <2>3, <2>4
<1>13. InnerCallsSkipped'
  BY <1>1 DEF ContextIInv, InnerCallsSkipped
<1>14. astray' \subseteq Calls /\ inner' \subseteq Calls
  BY <1>1 DEF ContextIInv
<1> QED BY <1>5, <1>8, <1>11, <1>12, <1>13, <1>14 DEF ContextIInv

\* A step in which a call moves on without a change of context.
LEMMA AsideKeeps ==
  ASSUME IInv, NEW c \in Calls, NEW place, pc' = [pc EXCEPT ![c] = place],
         \/ /\ pc[c] \notin Active \cup {"dropped", "skipped", "cancelled"}
            /\ place \notin Active \cup {"dropped", "cancelled"}
         \/ pc[c] = "calling" /\ mode[c] # "awaited" /\ place \in {"unread", "cancelled"}
         \/ pc[c] = "unread" /\ place = "reading"
         \/ pc[c] = "unread" /\ place = "dropped" /\ c \in astray',
         astray' \in {astray, astray \cup {c}},
         flow' \in [Calls -> Flows], \A d \in Calls : d # c => flow'[d] = flow[d],
         inner' = inner \/ (place = "skipped" /\ inner' = inner \cup {c}),
         UNCHANGED <<ambient, mode, token, scopes>>
  PROVE  ContextIInv'
<1> USE DEF IInv
<1>1. /\ pc'[c] = place /\ \A d \in Calls : d # c => pc'[d] = pc[d]
      /\ \A e \in Calls : e \in astray => e \in astray'
      /\ \A e \in Calls : e # c => (e \in astray' <=> e \in astray)
  BY DEF SpanIInv
<1>2. /\ \A d \in Calls : Old(d)' = Old(d) /\ Own(d)' = Own(d)
      /\ \A g \in Flows : \A i \in DOMAIN scopes[g] : Saved(g, i)' = Saved(g, i)
  BY DEF Old, Own, Saved
<1>3. /\ Holding(c) <=> Holding(c)' \/ place = "dropped"
      /\ Holding(c) => /\ pc[c] \in Active /\ place # "calling"
                       /\ pc[c] = "calling" => mode[c] # "awaited"
      /\ place \in {"calling", "unread", "reading"} => Holding(c)
      /\ place = "dropped" => c \in astray'
      /\ pc[c] \notin {"dropped", "skipped"}
      /\ \A d \in Calls : d # c => (Holding(d)' <=> Holding(d)) /\ (Left(d)' <=> Left(d))
  BY <1>1 DEF Holding, Left, Active
<1>4. ContextTypes'
  BY DEF ContextIInv, ContextTypes
<1>5. TokensFit'
  <2> SUFFICES ASSUME NEW d \in Calls PROVE
      /\ token[d] = IF Holding(d)' \/ pc'[d] = "dropped" THEN <<token[d][1]>> ELSE <<>>
      /\ pc'[d] = "calling" => token[d][1].flow = flow'[d] /\ ambient[flow'[d]] = Own(d)'
      /\ pc'[d] \in {"unread", "reading", "dropped"} \/ Left(d)' => On(Old(d)') = {}
      /\ pc'[d] = "calling" /\ mode[d] # "awaited" => On(Old(d)') = {}
      /\ pc'[d] = "calling" /\ d \notin astray' => d \notin On(Old(d)')
      /\ pc'[d] = "dropped" => d \in astray'
    BY DEF TokensFit, On, Old
  <2>1. CASE d = c
    <3>1. /\ token[c] = IF Holding(c) \/ pc[c] = "dropped" THEN <<token[c][1]>> ELSE <<>>
          /\ Holding(c) => On(Old(c)) = {}
      BY <1>3 DEF ContextIInv, TokensFit, Active
    <3>2. Left(d)' => Holding(c)
      BY <2>1, <1>3 DEF Holding
    <3> QED BY <2>1, <3>1, <3>2, <1>1, <1>2, <1>3
  <2>2. CASE d # c
    BY <2>2, <1>1, <1>2, <1>3 DEF ContextIInv, TokensFit
  <2> QED BY <2>1, <2>2
<1>6. \A g \in Flows : Fitting(g) \subseteq Fitting(g)'
  <2>1. \A d \in Calls : Holding(d) => Holding(d)' \/ d \in astray'
    BY <1>3
  <2> QED BY <1>1, <2>1 DEF Fitting
<1>7. LayersFit'
  <2>1. \A g \in Flows : On(ambient'[g]) \subseteq Fitting(g)'
    BY <1>6 DEF ContextIInv, LayersFit
  <2>2. ASSUME NEW d \in Calls, NEW g \in Flows, token'[d] # <<>>, token'[d][1].flow = g
        PROVE  On(Old(d)') \subseteq Fitting(g)'
    BY <2>2, <1>2, <1>6 DEF ContextIInv, LayersFit
  <2>3. ASSUME NEW g \in Flows, NEW i \in DOMAIN scopes'[g]
        PROVE  On(Saved(g, i)') \subseteq Fitting(g)'
    BY <2>3, <1>2, <1>6 DEF ContextIInv, LayersFit
  <2> HIDE DEF IInv
  <2> QED BY <2>1, <2>2, <2>3 DEF LayersFit
<1>8. NotRevived'
  BY <1>1, <1>2 DEF ContextIInv, NotRevived, On
<1>9. InnerCallsSkipped' /\ inner' \subseteq Calls /\ astray' \subseteq Calls
  BY <1>1, <1>3 DEF ContextIInv, InnerCallsSkipped
<1> QED BY <1>4, <1>5, <1>7, <1>8, <1>9 DEF ContextIInv

\* A step that concerns no context.
LEMMA ContextsKept ==
  ASSUME ContextIInv, UNCHANGED <<ambient, pc, mode, flow, token, inner, scopes, astray>>
  PROVE  ContextIInv'
<1>1. /\ \A d \in Calls : Old(d)' = Old(d) /\ Own(d)' = Own(d)
      /\ \A g \in Flows : Fitting(g)' = Fitting(g)
      /\ \A g \in Flows : \A i \in DOMAIN scopes[g] : Saved(g, i)' = Saved(g, i)
  BY DEF Old, Own, Saved, Fitting, Holding, Left
<1>2. ContextTypes' /\ InnerCallsSkipped'
  BY DEF ContextIInv, ContextTypes, InnerCallsSkipped
<1>3. TokensFit'
  BY <1>1 DEF ContextIInv, TokensFit, Holding, Left
<1>4. LayersFit'
  BY <1>1 DEF ContextIInv, LayersFit
<1>5. NotRevived'
  BY <1>1 DEF ContextIInv, NotRevived
<1> QED BY <1>2, <1>3, <1>4, <1>5 DEF ContextIInv

LEMMA OpenScopeKeeps ==
  ASSUME IInv, NEW s \in Scopes, NEW f \in Flows, OpenScope(s, f)
  PROVE  ContextIInv'
<1> USE DEF IInv
<1> DEFINE n == Len(scopes[f])
           entry == [owner |-> s, token |-> Token(f)]
           layer == Layer(s, TRUE, "inherited")
<1>1. Running(f) = {} /\ UNCHANGED <<pc, mode, flow, token, inner, astray>>
  BY DEF OpenScope
<1>2. /\ ambient[f] \in Contexts /\ Token(f) \in Tokens /\ entry \in Entries
      /\ scopes[f] \in Seq(Entries)
  BY DEF ContextIInv, ContextTypes, Token, Tokens, Entries
<1>3. layer \in Layers /\ layer.suppress = "inherited"
  BY LayerTyped DEF Layer
<1>4. /\ ambient'[f] = Append(ambient[f], layer)
      /\ ambient' = [ambient EXCEPT ![f] = Append(ambient[f], layer)]
      /\ \A g \in Flows : g # f => ambient'[g] = ambient[g]
      /\ scopes' = [scopes EXCEPT ![f] = Append(scopes[f], entry)]
      /\ scopes'[f] = Append(scopes[f], entry)
      /\ \A g \in Flows : g # f => scopes'[g] = scopes[g]
  BY DEF ContextIInv, ContextTypes, OpenScope, Attach
<1>5. Append(ambient[f], layer) \in Contexts /\ On(Append(ambient[f], layer)) = On(ambient[f])
  BY <1>2, <1>3, OnAppend
<1>6. /\ Append(scopes[f], entry) \in Seq(Entries) /\ n \in Nat
      /\ DOMAIN scopes[f] = 1..n /\ DOMAIN scopes'[f] = 1..n + 1
      /\ \A i \in 1..n : scopes'[f][i] = scopes[f][i]
      /\ scopes'[f][n + 1] = entry
  BY <1>2, <1>4, AppendProperties, LenProperties
<1> HIDE DEF n, entry, layer
<1>7. /\ \A d \in Calls : Old(d)' = Old(d) /\ Own(d)' = Own(d)
      /\ \A g \in Flows : Fitting(g)' = Fitting(g)
      /\ \A d \in Calls : (Holding(d)' <=> Holding(d)) /\ (Left(d)' <=> Left(d))
  BY <1>1 DEF Old, Own, Fitting, Holding, Left
<1>8. /\ \A g \in Flows : \A i \in DOMAIN scopes[g] :
           i \in DOMAIN scopes'[g] /\ Saved(g, i)' = Saved(g, i)
      /\ \A g \in Flows : \A i \in DOMAIN scopes'[g] :
           g = f /\ i = n + 1 => Saved(g, i)' = ambient[f]
      /\ \A g \in Flows : \A i \in DOMAIN scopes'[g] :
           i \in DOMAIN scopes[g] \/ (g = f /\ i = n + 1)
  <2>1. entry.token.old = ambient[f]
    BY DEF entry, Token
  <2>2. \A g \in Flows : \A i \in DOMAIN scopes'[g] :
          i \in DOMAIN scopes[g] \/ (g = f /\ i = n + 1)
    BY <1>4, <1>6
  <2>3. n + 1 \in DOMAIN scopes'[f] /\ scopes'[f][n + 1].token.old = ambient[f]
    BY <2>1, <1>6
  <2>4. ASSUME NEW g \in Flows, NEW i \in DOMAIN scopes[g]
        PROVE  i \in DOMAIN scopes'[g] /\ scopes'[g][i] = scopes[g][i]
    BY <2>4, <1>4, <1>6
  <2>5. \A g \in Flows : \A i \in DOMAIN scopes[g] : Saved(g, i)' = Saved(g, i)
    BY <2>4 DEF Saved
  <2>6. \A g \in Flows : \A i \in DOMAIN scopes'[g] :
          g = f /\ i = n + 1 => Saved(g, i)' = ambient[f]
    BY <2>3 DEF Saved
  <2> QED BY <2>2, <2>4, <2>5, <2>6
<1>9. ContextTypes'
  <2>1. ambient' \in [Flows -> Contexts] /\ scopes' \in [Flows -> Seq(Entries)]
    BY <1>4, <1>5, <1>6 DEF ContextIInv, ContextTypes
  <2>2. ASSUME NEW g \in Flows, NEW i \in DOMAIN scopes'[g]
        PROVE  scopes'[g][i].token.flow = g
    <3>1. entry.token.flow = f
      BY DEF entry, Token
    <3>2. CASE g = f /\ i = n + 1
      BY <3>1, <3>2, <1>6
    <3>3. CASE i \in DOMAIN scopes[g]
      BY <3>3, <1>4, <1>6 DEF ContextIInv, ContextTypes
    <3> QED BY <2>2, <3>2, <3>3, <1>8
  <2> QED BY <1>1, <2>1, <2>2 DEF ContextIInv, ContextTypes
<1>10. \A d \in Calls : pc[d] = "calling" => flow[d] # f
  BY <1>1 DEF Running
<1>11. TokensFit'
  <2>1. \A d \in Calls : pc[d] = "calling" => ambient'[flow[d]] = ambient[flow[d]]
    BY <1>4, <1>10 DEF ContextIInv, ContextTypes
  <2> SUFFICES ASSUME NEW d \in Calls PROVE
      /\ token[d] = IF Holding(d) \/ pc[d] = "dropped" THEN <<token[d][1]>> ELSE <<>>
      /\ pc[d] = "calling" => token[d][1].flow = flow[d] /\ ambient'[flow[d]] = Own(d)
      /\ pc[d] \in {"unread", "reading", "dropped"} \/ Left(d) => On(Old(d)) = {}
      /\ pc[d] = "calling" /\ mode[d] # "awaited" => On(Old(d)) = {}
      /\ pc[d] = "calling" /\ d \notin astray => d \notin On(Old(d))
      /\ pc[d] = "dropped" => d \in astray
    BY <1>1, <1>7 DEF TokensFit
  <2> QED BY <2>1 DEF ContextIInv, TokensFit
<1>12. LayersFit'
  <2>1. \A g \in Flows : On(ambient'[g]) \subseteq Fitting(g)'
    BY <1>4, <1>5, <1>7 DEF ContextIInv, LayersFit
  <2>2. ASSUME NEW d \in Calls, NEW g \in Flows, token'[d] # <<>>, token'[d][1].flow = g
        PROVE  On(Old(d)') \subseteq Fitting(g)'
    BY <2>2, <1>1, <1>7 DEF ContextIInv, LayersFit
  <2>3. ASSUME NEW g \in Flows, NEW i \in DOMAIN scopes'[g]
        PROVE  On(Saved(g, i)') \subseteq Fitting(g)'
    <3>1. CASE i \in DOMAIN scopes[g]
      BY <3>1, <1>7, <1>8 DEF ContextIInv, LayersFit
    <3>2. CASE g = f /\ i = n + 1
      BY <3>2, <1>7, <1>8 DEF ContextIInv, LayersFit
    <3> QED BY <2>3, <3>1, <3>2, <1>8
  <2> HIDE DEF IInv
  <2> QED BY <2>1, <2>2, <2>3 DEF LayersFit
<1>13. NotRevived'
  <2> SUFFICES ASSUME NEW e \in Calls, NEW g \in Flows, NEW i \in DOMAIN scopes'[g],
                      e \notin astray, e \in On(Saved(g, i)')
               PROVE  /\ ambient'[g] # Own(e)
                      /\ \A j \in DOMAIN scopes'[g] : i < j => Saved(g, j)' # Own(e)
                      /\ \A d \in Calls : d # e /\ token[d] # <<>> /\ token[d][1].flow = g
                                         => Old(d) # Own(e)
    BY <1>1, <1>7 DEF NotRevived, On
  <2>1. e \in Fitting(g)
    BY <1>7, <1>12 DEF LayersFit, On
  <2>2. Old(e) \in Contexts /\ Layer(e, TRUE, "on") \in Layers /\ Own(e) \in Contexts
        /\ e \in On(Own(e)) /\ Layer(e, TRUE, "on").suppress = "on"
    <3>1. token[e] = <<token[e][1]>>
      BY <2>1, FittingFacts
    <3> QED BY <3>1, OwnFacts, LayerTyped DEF ContextIInv, Layer
  <2>3. Append(ambient[f], layer) # Own(e)
    <3>1. layer # Layer(e, TRUE, "on")
      BY <2>2, <1>3
    <3>2. layer \in Layers /\ ambient[f] \in Contexts
      BY <1>2, <1>3
    <3>3. Old(e) \in Contexts /\ Layer(e, TRUE, "on") \in Layers
      BY <2>2
    <3>4. Append(ambient[f], layer) # Append(Old(e), Layer(e, TRUE, "on"))
      BY ONLY <3>1, <3>2, <3>3, AppendDiffers
    <3> QED BY <3>4 DEF Own
  <2>4. CASE i \in DOMAIN scopes[g]
    <3>1. e \in On(Saved(g, i))
      BY <2>4, <1>8
    <3>2. /\ ambient[g] # Own(e)
          /\ \A j \in DOMAIN scopes[g] : i < j => Saved(g, j) # Own(e)
          /\ \A d \in Calls : d # e /\ token[d] # <<>> /\ token[d][1].flow = g
                             => Old(d) # Own(e)
      BY <2>4, <3>1 DEF ContextIInv, NotRevived
    <3>3. ambient'[g] # Own(e)
      BY <3>2, <2>3, <1>4
    <3>4. ASSUME NEW j \in DOMAIN scopes'[g], i < j PROVE Saved(g, j)' # Own(e)
      <4>1. CASE j \in DOMAIN scopes[g]
        BY <4>1, <3>2, <3>4, <1>8
      <4>2. CASE g = f /\ j = n + 1
        BY <4>2, <3>2, <1>8
      <4> QED BY <3>4, <4>1, <4>2, <1>8
    <3> QED BY <3>2, <3>3, <3>4
  <2>5. CASE g = f /\ i = n + 1
    <3>1. \A j \in DOMAIN scopes'[g] : ~(i < j)
      BY <2>5, <1>6
    <3>2. ASSUME NEW d \in Calls, token[d] # <<>>, token[d][1].flow = f, Old(d) = Own(e)
          PROVE  FALSE
      BY <3>2, <2>2, <1>10, OldFacts
    <3> QED BY <2>3, <2>5, <3>1, <3>2, <1>4
  <2> QED BY <2>4, <2>5, <1>8
<1>14. InnerCallsSkipped'
  BY <1>1 DEF ContextIInv, InnerCallsSkipped
<1> QED BY <1>1, <1>9, <1>11, <1>12, <1>13, <1>14 DEF ContextIInv

LEMMA CloseScopeKeeps ==
  ASSUME IInv, NEW f \in Flows, CloseScope(f)
  PROVE  ContextIInv'
<1> USE DEF IInv
<1> DEFINE n == Len(scopes[f])
<1>1. Running(f) = {} /\ UNCHANGED <<pc, mode, flow, token, inner, astray>>
      /\ scopes[f] # <<>> /\ scopes[f] \in Seq(Entries)
  BY DEF CloseScope, ContextIInv, ContextTypes
<1>2. n \in Nat /\ n # 0 /\ DOMAIN scopes[f] = 1..n /\ n \in DOMAIN scopes[f]
  BY <1>1, EmptySeq, LenProperties
<1>3. Saved(f, n) \in Contexts /\ scopes[f][n].token.flow = f
  BY <1>2, SavedTyped DEF ContextIInv
<1>4. /\ ambient' = [ambient EXCEPT ![f] = Saved(f, n)]
      /\ ambient'[f] = Saved(f, n)
      /\ \A g \in Flows : g # f => ambient'[g] = ambient[g]
      /\ scopes' = [scopes EXCEPT ![f] = SubSeq(scopes[f], 1, n - 1)]
      /\ scopes'[f] = SubSeq(scopes[f], 1, n - 1)
      /\ \A g \in Flows : g # f => scopes'[g] = scopes[g]
  BY <1>3 DEF ContextIInv, ContextTypes, CloseScope, Detached, Saved
<1>5. /\ SubSeq(scopes[f], 1, n - 1) \in Seq(Entries)
      /\ DOMAIN scopes'[f] = 1..n - 1
      /\ \A i \in 1..n - 1 : scopes'[f][i] = scopes[f][i]
  <2>1. /\ 1 \in Int /\ n - 1 \in Int
        /\ \A i \in 1..n - 1 : scopes[f][i] \in Entries
    BY <1>1, <1>2, ElementOfSeq
  <2> QED BY <2>1, <1>2, <1>4, SubSeqProperties, LenProperties
<1> HIDE DEF n
<1>6. /\ \A d \in Calls : Old(d)' = Old(d) /\ Own(d)' = Own(d)
      /\ \A g \in Flows : Fitting(g)' = Fitting(g)
      /\ \A d \in Calls : (Holding(d)' <=> Holding(d)) /\ (Left(d)' <=> Left(d))
  BY <1>1 DEF Old, Own, Fitting, Holding, Left
<1>7. \A g \in Flows : \A i \in DOMAIN scopes'[g] :
        i \in DOMAIN scopes[g] /\ scopes'[g][i] = scopes[g][i] /\ (g = f => i < n)
  BY <1>2, <1>4, <1>5
<1>8. \A g \in Flows : \A i \in DOMAIN scopes'[g] : Saved(g, i)' = Saved(g, i)
  BY <1>7 DEF Saved
<1>9. ContextTypes'
  <2>1. ambient' \in [Flows -> Contexts] /\ scopes' \in [Flows -> Seq(Entries)]
    BY <1>3, <1>4, <1>5 DEF ContextIInv, ContextTypes
  <2> QED BY <1>1, <1>7, <2>1 DEF ContextIInv, ContextTypes
<1>10. \A d \in Calls : pc[d] = "calling" => flow[d] # f
  BY <1>1 DEF Running
<1>11. TokensFit'
  <2>1. \A d \in Calls : pc[d] = "calling" => ambient'[flow[d]] = ambient[flow[d]]
    BY <1>4, <1>10 DEF ContextIInv, ContextTypes
  <2> SUFFICES ASSUME NEW d \in Calls PROVE
      /\ token[d] = IF Holding(d) \/ pc[d] = "dropped" THEN <<token[d][1]>> ELSE <<>>
      /\ pc[d] = "calling" => token[d][1].flow = flow[d] /\ ambient'[flow[d]] = Own(d)
      /\ pc[d] \in {"unread", "reading", "dropped"} \/ Left(d) => On(Old(d)) = {}
      /\ pc[d] = "calling" /\ mode[d] # "awaited" => On(Old(d)) = {}
      /\ pc[d] = "calling" /\ d \notin astray => d \notin On(Old(d))
      /\ pc[d] = "dropped" => d \in astray
    BY <1>1, <1>6 DEF TokensFit
  <2> QED BY <2>1 DEF ContextIInv, TokensFit
<1>12. LayersFit'
  <2>1. \A g \in Flows : On(ambient'[g]) \subseteq Fitting(g)'
    BY <1>2, <1>4, <1>6 DEF ContextIInv, LayersFit
  <2>2. ASSUME NEW d \in Calls, NEW g \in Flows, token'[d] # <<>>, token'[d][1].flow = g
        PROVE  On(Old(d)') \subseteq Fitting(g)'
    BY <2>2, <1>1, <1>6 DEF ContextIInv, LayersFit
  <2>3. ASSUME NEW g \in Flows, NEW i \in DOMAIN scopes'[g]
        PROVE  On(Saved(g, i)') \subseteq Fitting(g)'
    BY <2>3, <1>6, <1>7, <1>8 DEF ContextIInv, LayersFit
  <2> HIDE DEF IInv
  <2> QED BY <2>1, <2>2, <2>3 DEF LayersFit
<1>13. NotRevived'
  <2> SUFFICES ASSUME NEW e \in Calls, NEW g \in Flows, NEW i \in DOMAIN scopes'[g],
                      e \notin astray, e \in On(Saved(g, i)')
               PROVE  /\ ambient'[g] # Own(e)
                      /\ \A j \in DOMAIN scopes'[g] : i < j => Saved(g, j)' # Own(e)
                      /\ \A d \in Calls : d # e /\ token[d] # <<>> /\ token[d][1].flow = g
                                         => Old(d) # Own(e)
    BY <1>1, <1>6 DEF NotRevived, On
  <2>1. i \in DOMAIN scopes[g] /\ e \in On(Saved(g, i))
    BY <1>7, <1>8
  <2>2. /\ ambient[g] # Own(e)
        /\ \A j \in DOMAIN scopes[g] : i < j => Saved(g, j) # Own(e)
        /\ \A d \in Calls : d # e /\ token[d] # <<>> /\ token[d][1].flow = g
                           => Old(d) # Own(e)
    BY <2>1 DEF ContextIInv, NotRevived
  <2>3. ambient'[g] # Own(e)
    BY <2>2, <1>2, <1>4, <1>7
  <2> QED BY <2>2, <2>3, <1>7, <1>8
<1>14. InnerCallsSkipped'
  BY <1>1 DEF ContextIInv, InnerCallsSkipped
<1> QED BY <1>1, <1>9, <1>11, <1>12, <1>13, <1>14 DEF ContextIInv

-----------------------------------------------------------------------------
(* The responses. *)

\* What a step of another call does to the screening of a response.
LEMMA OthersFit ==
  ASSUME NEW d, ResponseFits(d),
         pc'[d] = pc[d], object'[d] = object[d], logger'[d] = logger[d],
         applied'[d] = applied[d], d \in marked' => d \in marked,
         d \in reused => d \in reused', d \in failed => d \in failed',
         object[d] # <<>> /\ object[d][1] \in markers' => object[d][1] \in markers
  PROVE  ResponseFits(d)'
<1>1. Turns(d)' = Turns(d) /\ (Seen(d) => Seen(d)')
  BY DEF Turns, Seen, GivenUp
<1> QED BY <1>1 DEF ResponseFits

LEMMA ResponsesKept ==
  ASSUME IInv, NEW c \in Calls, NEW place, pc' = [pc EXCEPT ![c] = place],
         pc[c] \notin Answered, place \notin Answered, UNCHANGED response
  PROVE  ResponseIInv'
<1> USE DEF IInv, response
<1>1. /\ pc'[c] = place /\ \A d \in Calls : d # c => pc'[d] = pc[d]
      /\ \A d \in Calls : ResponseFits(d)
  BY DEF SpanIInv, ResponseIInv
<1>2. ResponseFits(c)'
  <2>1. pc'[c] \notin {"marking", "returning", "returned", "raised"}
    BY <1>1 DEF Answered
  <2>2. object[c] = <<>> /\ logger[c] = "none" /\ applied[c] = 0 /\ c \notin marked
    BY <1>1 DEF ResponseFits
  <2>3. Turns(c)' = 0
    BY <2>1, <2>2 DEF Turns
  <2> QED BY <1>1, <2>1, <2>2, <2>3 DEF ResponseFits
<1>3. \A d \in Calls : d # c => ResponseFits(d)'
  BY <1>1, OthersFit
<1>4. ObjectsDiffer' /\ MarkersFit'
  BY DEF ResponseIInv, ObjectsDiffer, MarkersFit
<1> QED BY <1>2, <1>3, <1>4 DEF ResponseIInv

\* The mark is put on a response, or its address into the set.
LEMMA MarkFacts ==
  ASSUME IInv, NEW c \in Calls, object[c] # <<>>, Mark(c), UNCHANGED <<object, plain>>
  PROVE  /\ MarkersFit' /\ marked' \subseteq marked \cup {c}
         /\ \A d \in Calls : d # c /\ object[d] # <<>> /\ object[d][1] \in markers'
                              => object[d][1] \in markers
<1> USE DEF IInv
<1>1. \A d \in Calls : object[d] # <<>> =>
        object[d] = <<object[d][1]>> /\ object[d][1] \in Addresses
  BY DEF ResponseIInv, ResponseFits
<1>2. \A d \in Calls : d # c /\ object[d] # <<>> => object[d][1] # object[c][1]
  BY <1>1 DEF ResponseIInv, ObjectsDiffer
<1>3. CASE c \notin plain
  BY <1>3 DEF Mark, ResponseIInv, MarkersFit
<1>4. CASE c \in plain
  <2> DEFINE kept == IF Cardinality(markers) >= MaxMarkers THEN {} ELSE markers
             a == object[c][1]
  <2>1. marked' = marked /\ markers' = {a} \cup kept
    BY <1>4 DEF Mark
  <2>2. /\ IsFiniteSet(markers) /\ Cardinality(markers) \in Nat
        /\ Cardinality(markers) <= MaxMarkers /\ markers \subseteq Addresses
    BY FS_CardinalityType DEF ResponseIInv, MarkersFit
  <2>3. IsFiniteSet(kept) /\ Cardinality(kept) \in Nat /\ Cardinality(kept) < MaxMarkers
        /\ kept \subseteq markers
    <3>1. CASE Cardinality(markers) >= MaxMarkers
      BY <3>1, FS_EmptySet, MarkersAssumption
    <3>2. CASE ~(Cardinality(markers) >= MaxMarkers)
      BY <3>2, <2>2, MarkersAssumption
    <3> QED BY <3>1, <3>2
  <2> HIDE DEF kept
  <2>4. IsFiniteSet(kept \cup {a}) /\ Cardinality(kept \cup {a}) <= MaxMarkers
    <3>1. /\ IsFiniteSet(kept \cup {a})
          /\ Cardinality(kept \cup {a}) = IF a \in kept THEN Cardinality(kept)
                                          ELSE Cardinality(kept) + 1
      BY <2>3, FS_AddElement
    <3> QED BY <3>1, <2>3, MarkersAssumption
  <2>5. markers' = kept \cup {a} /\ a \in Addresses
    BY <2>1, <1>1
  <2>6. MarkersFit'
    BY <2>1, <2>2, <2>3, <2>4, <2>5 DEF ResponseIInv, MarkersFit
  <2> QED BY <2>1, <2>3, <2>5, <2>6, <1>2
<1> QED BY <1>3, <1>4

\* A step of the wrapper or of the logger with one response.
LEMMA ResponseStep ==
  ASSUME IInv, NEW c \in Calls, ResponseFits(c)', MarkersFit',
         \A d \in Calls : d # c => /\ pc'[d] = pc[d] /\ applied'[d] = applied[d]
                                   /\ logger'[d] = logger[d],
         UNCHANGED <<object, reused>>, marked' \subseteq marked \cup {c},
         \A d \in Calls : d # c /\ object[d] # <<>> /\ object[d][1] \in markers'
                            => object[d][1] \in markers,
         applied' \in [Calls -> Nat], failed' \in {failed, failed \cup {c}},
         logger' \in [Calls -> LoggerPlaces]
  PROVE  ResponseIInv'
<1>1. ASSUME NEW d \in Calls, d # c PROVE ResponseFits(d)'
  <2>1. ResponseFits(d)
    BY DEF IInv, ResponseIInv
  <2>2. d \in marked' => d \in marked
    BY <1>1
  <2> QED BY <1>1, <2>1, <2>2, OthersFit
<1>2. ObjectsDiffer'
  BY DEF IInv, ResponseIInv, ObjectsDiffer
<1> QED BY <1>1, <1>2 DEF IInv, ResponseIInv

\* What is known of a response that is being screened.
LEMMA ScreenedFacts ==
  ASSUME IInv, NEW c \in Calls
  PROVE  /\ ResponseFits(c) /\ applied[c] \in Nat
         /\ pc[c] \in {"finishing", "applying", "marking", "returning"} => object[c] # <<>>
         /\ logger[c] \in {"called", "applying", "marking"} =>
              pc[c] \in Answered /\ object[c] # <<>>
         /\ logger[c] = "late" => pc[c] \in Answered
         /\ object[c] # <<>> /\ AlreadyApplied(c) => Seen(c) \/ c \in reused
<1>1. ResponseFits(c) /\ applied[c] \in Nat
  BY DEF IInv, ResponseIInv
<1>2. pc[c] \in {"finishing", "applying", "marking", "returning"} => object[c] # <<>>
  BY <1>1 DEF ResponseFits, Answered
<1>3. /\ logger[c] \in {"called", "applying", "marking"} => pc[c] \in Answered /\ object[c] # <<>>
      /\ logger[c] = "late" => pc[c] \in Answered
  BY <1>1 DEF ResponseFits
<1>4. object[c] # <<>> /\ AlreadyApplied(c) => Seen(c) \/ c \in reused
  BY <1>1 DEF ResponseFits, AlreadyApplied
<1> QED BY <1>1, <1>2, <1>3, <1>4

LEMMA RespondsFits ==
  ASSUME IInv, NEW c \in Calls, NEW a \in Addresses, NEW isPlain \in BOOLEAN,
         Respond(c, a, isPlain)
  PROVE  ResponseIInv'
<1> USE DEF IInv
<1>1. /\ pc[c] = "calling" /\ pc'[c] = "finishing"
      /\ \A d \in Calls : d # c => pc'[d] = pc[d]
  BY DEF Respond, SpanIInv
<1>2. /\ object'[c] = <<a>> /\ logger'[c] = "called" /\ applied' = applied
      /\ \A d \in Calls : d # c => object'[d] = object[d] /\ logger'[d] = logger[d]
      /\ \A d \in Calls : object[d] # <<a>>
      /\ marked' = marked /\ markers' = markers /\ reused \subseteq reused' /\ failed' = failed
      /\ reused' \subseteq Calls /\ (a \in markers => c \in reused')
  BY DEF Respond, Responds, ResponseIInv
<1>3. ResponseFits(c) /\ c \notin marked /\ applied[c] = 0
  BY <1>1 DEF ResponseIInv, ResponseFits, Answered
<1>4. ResponseFits(c)'
  <2>1. Turns(c)' = 0
    BY <1>1, <1>2 DEF Turns
  <2>2. object'[c][1] = a /\ object'[c] # <<>>
    BY <1>2
  <2>3. /\ object'[c] = <<object'[c][1]>> /\ object'[c][1] \in Addresses
        /\ object'[c][1] \in markers' => c \in reused'
    BY <1>2, <2>2
  <2>4. applied'[c] = 0 /\ c \notin marked' /\ logger'[c] # "none" /\ logger'[c] # "marking"
    BY <1>2, <1>3
  <2>5. pc'[c] \in Answered /\ pc'[c] \notin {"marking", "returning", "returned", "raised"}
    BY <1>1 DEF Answered
  <2>6. applied'[c] \in 0..Turns(c)'
    BY <2>1, <2>4
  <2> HIDE DEF IInv
  <2> QED BY <2>2, <2>3, <2>4, <2>5, <2>6 DEF ResponseFits
<1>5. ASSUME NEW d \in Calls, d # c PROVE ResponseFits(d)'
  <2>1. ResponseFits(d)
    BY DEF ResponseIInv
  <2> QED BY <1>1, <1>2, <1>5, <2>1, OthersFit
<1>6. ObjectsDiffer'
  BY <1>2 DEF ResponseIInv, ObjectsDiffer
<1>7. MarkersFit'
  <2>1. plain' \subseteq plain \cup {c}
    BY DEF Respond, Responds
  <2> QED BY <1>2, <1>3, <2>1 DEF ResponseIInv, MarkersFit
<1>8. /\ object' \in [Calls -> Seq(Addresses)]
      /\ logger' \in [Calls -> LoggerPlaces]
  <2>1. <<a>> \in Seq(Addresses)
    OBVIOUS
  <2> QED BY <2>1 DEF Respond, Responds, ResponseIInv, LoggerPlaces
<1>9. /\ \A d \in Calls : ResponseFits(d)'
      /\ applied' \in [Calls -> Nat] /\ reused' \subseteq Calls /\ failed' \subseteq Calls
  BY <1>2, <1>4, <1>5 DEF ResponseIInv
<1> QED BY <1>6, <1>7, <1>8, <1>9 DEF ResponseIInv

\* A screening, whether it comes to its end or not.
LEMMA ScreenedOnce ==
  ASSUME IInv, NEW c \in Calls, Screened(c)
  PROVE  /\ applied'[c] > 0 \/ c \in failed'
         /\ applied'[c] \in {applied[c], applied[c] + 1}
         /\ \A d \in Calls : d # c => applied'[d] = applied[d]
         /\ applied' \in [Calls -> Nat] /\ failed' \in {failed, failed \cup {c}}
<1>1. applied \in [Calls -> Nat] /\ applied[c] \in Nat /\ applied[c] + 1 \in Nat
  BY DEF IInv, ResponseIInv
<1>2. CASE applied' = [applied EXCEPT ![c] = @ + 1] /\ UNCHANGED failed
  BY <1>1, <1>2
<1>3. CASE failed' = failed \cup {c} /\ UNCHANGED applied
  BY <1>1, <1>3
<1> QED BY <1>2, <1>3 DEF Screened

\* The wrapper's steps after the response.
LEMMA WrapperFits ==
  ASSUME IInv, NEW c \in Calls,
         Check(c) \/ Apply(c) \/ ApplyDone(c) \/ ApplyAsync(c) \/ Return(c) \/ ReturnRaises(c)
  PROVE  ResponseIInv'
<1> USE DEF IInv
<1>1. /\ UNCHANGED <<object, plain, logger, reused>>
      /\ pc[c] \in {"finishing", "applying", "marking", "returning"}
  BY DEF Check, Apply, ApplyDone, ApplyAsync, Return, ReturnRaises, response
<1>2. /\ ResponseFits(c) /\ applied[c] \in Nat /\ object[c] # <<>>
      /\ AlreadyApplied(c) => Seen(c) \/ c \in reused
      /\ logger[c] # "none" /\ Turns(c) \in Nat
  BY <1>1, ScreenedFacts DEF ResponseFits, Answered, Turns
<1>3. /\ \A d \in Calls : d # c => pc'[d] = pc[d] /\ applied'[d] = applied[d]
      /\ applied' \in [Calls -> Nat] /\ failed' \in {failed, failed \cup {c}}
  <2>1. Screened(c) \/ UNCHANGED <<applied, failed>>
    BY DEF Check, Apply, ApplyDone, ApplyAsync, Return, ReturnRaises, response
  <2>2. applied \in [Calls -> Nat]
    BY DEF ResponseIInv
  <2>3. PICK place : pc' = [pc EXCEPT ![c] = place]
    BY DEF Check, Apply, ApplyDone, ApplyAsync, Return, ReturnRaises
  <2>4. \A d \in Calls : d # c => pc'[d] = pc[d]
    BY <2>3 DEF SpanIInv
  <2>5. CASE Screened(c)
    <3> HIDE DEF IInv
    <3> QED BY <2>4, <2>5, ScreenedOnce
  <2>6. CASE UNCHANGED <<applied, failed>>
    BY <2>2, <2>4, <2>6
  <2> QED BY <2>1, <2>5, <2>6
<1>4. \/ Mark(c)
      \/ UNCHANGED <<marked, markers>>
  BY DEF Check, Apply, ApplyDone, ApplyAsync, Return, ReturnRaises, response
<1>5. /\ MarkersFit' /\ marked' \subseteq marked \cup {c}
      /\ \A d \in Calls : d # c /\ object[d] # <<>> /\ object[d][1] \in markers'
                           => object[d][1] \in markers
  <2>1. CASE Mark(c)
    BY <2>1, <1>1, <1>2, MarkFacts
  <2>2. CASE UNCHANGED <<marked, markers>>
    BY <2>2, <1>1 DEF ResponseIInv, MarkersFit
  <2> QED BY <1>4, <2>1, <2>2
<1>6. Seen(c) => Seen(c)'
  <2>1. applied'[c] > 0 \/ c \in failed' \/ (applied' = applied /\ failed' = failed)
    <3>1. Screened(c) \/ UNCHANGED <<applied, failed>>
      BY DEF Check, Apply, ApplyDone, ApplyAsync, Return, ReturnRaises, response
    <3> HIDE DEF IInv
    <3> QED BY <3>1, ScreenedOnce
  <2> QED BY <2>1, <1>1 DEF Seen, GivenUp
<1>7. ResponseFits(c)'
  <2>1. CASE Check(c) \/ Return(c) \/ ReturnRaises(c)
    <3>1. /\ applied' = applied /\ marked' = marked /\ markers' = markers
          /\ pc'[c] \in {"applying", "returning", "returned", "raised"}
          /\ pc'[c] = "returning" => AlreadyApplied(c)
          /\ pc'[c] \in {"returned", "raised"} <=> pc[c] = "returning"
          /\ pc[c] \in {"finishing", "returning"}
      BY <2>1 DEF Check, Return, ReturnRaises, response, SpanIInv
    <3>2. Turns(c) <= Turns(c)' /\ Turns(c)' \in Nat
      BY <1>1, <3>1 DEF Turns
    <3>3. applied[c] \in 0..Turns(c)'
      BY <1>2, <3>2 DEF ResponseFits
    <3> QED BY <1>1, <1>2, <1>6, <3>1, <3>3 DEF ResponseFits, Answered
  <2>2. CASE Apply(c)
    <3>1. /\ Screened(c) /\ marked' = marked /\ markers' = markers
          /\ pc'[c] = "marking" /\ pc[c] = "applying"
      BY <2>2 DEF Apply, SpanIInv
    <3>2. applied'[c] \in {applied[c], applied[c] + 1} /\ Seen(c)'
      <4> HIDE DEF IInv
      <4> QED BY <3>1, ScreenedOnce DEF Seen, GivenUp
    <3>3. applied'[c] \in 0..Turns(c)'
      BY <1>1, <1>2, <3>1, <3>2 DEF ResponseFits, Turns
    <3> QED BY <1>1, <1>2, <3>1, <3>2, <3>3 DEF ResponseFits, Answered
  <2>3. CASE ApplyDone(c)
    <3>1. /\ applied' = applied /\ pc[c] = "marking" /\ pc'[c] = "returning"
      BY <2>3 DEF ApplyDone, SpanIInv
    <3>2. applied[c] \in 0..Turns(c)' /\ Seen(c)'
      BY <1>1, <1>2, <1>6, <3>1 DEF ResponseFits, Turns
    <3> QED BY <1>1, <1>2, <3>1, <3>2 DEF ResponseFits, Answered
  <2>4. CASE ApplyAsync(c)
    <3>1. /\ pc[c] = "finishing" /\ pc'[c] = "returning"
          /\ \/ applied' = applied /\ AlreadyApplied(c) /\ UNCHANGED <<marked, markers>>
             \/ Screened(c)
      BY <2>4 DEF ApplyAsync, SpanIInv
    <3>2. CASE applied' = applied /\ AlreadyApplied(c) /\ UNCHANGED <<marked, markers>>
      <4>1. applied'[c] \in 0..Turns(c)' /\ (Seen(c)' \/ c \in reused)
        BY <1>1, <1>2, <1>6, <3>1, <3>2 DEF ResponseFits, Turns
      <4> QED BY <1>1, <1>2, <1>6, <3>1, <3>2, <4>1 DEF ResponseFits, Answered
    <3>3. CASE Screened(c)
      <4>1. applied'[c] \in {applied[c], applied[c] + 1} /\ Seen(c)'
        <5> HIDE DEF IInv
        <5> QED BY <3>3, ScreenedOnce DEF Seen, GivenUp
      <4>2. applied'[c] \in 0..Turns(c)'
        BY <1>1, <1>2, <3>1, <4>1 DEF ResponseFits, Turns
      <4> QED BY <1>1, <1>2, <3>1, <4>1, <4>2 DEF ResponseFits, Answered
    <3> QED BY <3>1, <3>2, <3>3
  <2> QED BY <2>1, <2>2, <2>3, <2>4
<1>8. logger' \in [Calls -> LoggerPlaces]
  BY <1>1 DEF ResponseIInv
<1> QED BY <1>1, <1>3, <1>5, <1>7, <1>8, ResponseStep

\* The logger's.
LEMMA LoggerFits ==
  ASSUME IInv, NEW c \in Calls,
         LoggerCheck(c) \/ LoggerApply(c) \/ LoggerCancelled(c) \/ LoggerLate(c)
  PROVE  ResponseIInv'
<1> USE DEF IInv
<1>1. /\ UNCHANGED <<pc, object, plain, reused>>
      /\ logger[c] \in {"called", "applying", "marking", "late"}
      /\ logger[c] = "late" => LoggerLate(c)
  BY DEF LoggerCheck, LoggerApply, LoggerCancelled, LoggerLate
<1>2. /\ ResponseFits(c) /\ applied[c] \in Nat /\ pc[c] \in Answered /\ Turns(c) \in Nat
      /\ logger[c] # "late" => object[c] # <<>>
  BY <1>1, ScreenedFacts DEF Turns
<1>3. /\ \A d \in Calls : d # c => applied'[d] = applied[d]
      /\ applied' \in [Calls -> Nat] /\ failed' \in {failed, failed \cup {c}}
      /\ applied'[c] > 0 \/ c \in failed' \/ (applied' = applied /\ failed' = failed)
  <2>1. Screened(c) \/ UNCHANGED <<applied, failed>>
    BY DEF LoggerCheck, LoggerApply, LoggerCancelled, LoggerLate
  <2>2. CASE Screened(c)
    <3> HIDE DEF IInv
    <3> QED BY <2>2, ScreenedOnce
  <2>3. CASE UNCHANGED <<applied, failed>>
    BY <2>3 DEF ResponseIInv
  <2> QED BY <2>1, <2>2, <2>3
<1>4. PICK place \in {"applying", "marking", "done", "late", "cut"} :
        logger' = [logger EXCEPT ![c] = place]
  BY DEF LoggerCheck, LoggerApply, LoggerCancelled, LoggerLate
<1>5. /\ logger' \in [Calls -> LoggerPlaces] /\ logger'[c] = place
      /\ \A d \in Calls : d # c => logger'[d] = logger[d]
  BY <1>4 DEF ResponseIInv, LoggerPlaces
<1>6. (logger[c] # "late" /\ Mark(c)) \/ UNCHANGED <<marked, markers>>
  BY DEF LoggerCheck, LoggerApply, LoggerCancelled, LoggerLate
<1>7. /\ MarkersFit' /\ marked' \subseteq marked \cup {c}
      /\ \A d \in Calls : d # c /\ object[d] # <<>> /\ object[d][1] \in markers'
                           => object[d][1] \in markers
  <2>1. CASE logger[c] # "late" /\ Mark(c)
    BY <2>1, <1>1, <1>2, MarkFacts
  <2>2. CASE UNCHANGED <<marked, markers>>
    BY <2>2, <1>1 DEF ResponseIInv, MarkersFit
  <2> QED BY <1>6, <2>1, <2>2
<1>8. ResponseFits(c)'
  <2>1. CASE LoggerCheck(c)
    <3>1. /\ applied' = applied /\ failed' = failed /\ marked' = marked /\ markers' = markers
          /\ logger[c] = "called" /\ logger'[c] \in {"applying", "done"}
      BY <2>1 DEF LoggerCheck, ResponseIInv
    <3>2. applied[c] \in 0..Turns(c)' /\ (Seen(c) <=> Seen(c)')
      BY <1>1, <1>2, <3>1 DEF ResponseFits, Turns, Seen, GivenUp
    <3> QED BY <1>1, <1>2, <3>1, <3>2 DEF ResponseFits
  <2>2. CASE (logger[c] = "applying" /\ LoggerApply(c)) \/ LoggerLate(c)
    <3>1. /\ Screened(c) /\ marked' = marked /\ markers' = markers
          /\ \/ logger[c] = "applying" /\ logger'[c] = "marking"
             \/ logger[c] = "late" /\ logger'[c] = "cut"
      BY <2>2, <1>5 DEF LoggerApply, LoggerLate, ResponseIInv
    <3>2. applied'[c] \in {applied[c], applied[c] + 1} /\ Seen(c)'
      <4> HIDE DEF IInv
      <4> QED BY <3>1, ScreenedOnce DEF Seen, GivenUp
    <3>3. applied'[c] \in 0..Turns(c)'
      BY <1>1, <1>2, <3>1, <3>2 DEF ResponseFits, Turns
    <3> QED BY <1>1, <1>2, <3>1, <3>2, <3>3 DEF ResponseFits
  <2>3. CASE logger[c] = "marking" /\ LoggerApply(c)
    <3>1. applied' = applied /\ failed' = failed /\ logger'[c] = "done"
      BY <2>3 DEF LoggerApply, ResponseIInv
    <3>2. applied[c] \in 0..Turns(c)' /\ Seen(c)'
      BY <1>1, <1>2, <2>3, <3>1 DEF ResponseFits, Turns, Seen, GivenUp
    <3> QED BY <1>1, <1>2, <3>1, <3>2 DEF ResponseFits
  <2>4. CASE LoggerCancelled(c)
    <3>1. /\ applied' = applied /\ logger[c] = "applying" /\ logger'[c] \in {"late", "cut"}
      BY <2>4 DEF LoggerCancelled, ResponseIInv
    <3>2. applied[c] \in 0..Turns(c)' /\ Seen(c)'
      BY <1>1, <1>2, <3>1 DEF ResponseFits, Turns, Seen, GivenUp
    <3> QED BY <1>1, <1>2, <3>1, <3>2 DEF ResponseFits
  <2> QED BY <2>1, <2>2, <2>3, <2>4 DEF LoggerApply
<1> QED BY <1>1, <1>3, <1>5, <1>7, <1>8, ResponseStep

\* The response is gone; a mark on its address stays.
LEMMA ReleaseFits ==
  ASSUME IInv, NEW c \in Calls, Release(c)
  PROVE  ResponseIInv'
<1> USE DEF IInv
<1>1. /\ pc[c] \in {"returned", "raised"} /\ logger[c] \in {"done", "cut"} /\ object'[c] = <<>>
      /\ \A d \in Calls : d # c => object'[d] = object[d]
      /\ UNCHANGED <<pc, marked, markers, plain, logger, applied, failed, reused>>
  BY DEF Release, ResponseIInv
<1>2. ResponseFits(c)'
  <2>1. ResponseFits(c) /\ Turns(c)' = Turns(c) /\ (Seen(c)' <=> Seen(c))
    BY <1>1 DEF ResponseIInv, Turns, Seen, GivenUp
  <2> QED BY <1>1, <2>1 DEF ResponseFits, Answered
<1>3. ASSUME NEW d \in Calls, d # c PROVE ResponseFits(d)'
  <2>1. ResponseFits(d)
    BY DEF ResponseIInv
  <2> QED BY <1>1, <1>3, <2>1, OthersFit
<1>4. ObjectsDiffer' /\ MarkersFit'
  BY <1>1 DEF ResponseIInv, ObjectsDiffer, MarkersFit
<1>5. object' \in [Calls -> Seq(Addresses)]
  <2>1. <<>> \in Seq(Addresses)
    OBVIOUS
  <2> QED BY <2>1 DEF Release, ResponseIInv
<1> QED BY <1>1, <1>2, <1>3, <1>4, <1>5 DEF ResponseIInv

-----------------------------------------------------------------------------
(* The spans. *)

LEMMA SpansKept ==
  ASSUME IInv, NEW c \in Calls, NEW place \in Places \ Done,
         pc' = [pc EXCEPT ![c] = place], pc[c] \notin Done,
         mode' \in [Calls -> ModesSeen], UNCHANGED span
  PROVE  SpanIInv'
<1>1. /\ pc'[c] = place /\ \A d \in Calls : d # c => pc'[d] = pc[d]
      /\ pc' \in [Calls -> Places]
  BY DEF IInv, SpanIInv
<1>2. place # "returned" /\ place # "failed" /\ place # "raised"
  BY DEF Done
<1>3. SpansEndOnce'
  BY <1>1, <1>2 DEF IInv, SpanIInv, SpansEndOnce
<1>4. \A d \in Calls : pc'[d] \notin Done => span'[d].status = "unset"
  BY <1>1 DEF IInv, SpanIInv
<1> QED BY <1>1, <1>3, <1>4 DEF IInv, SpanIInv

LEMMA SpanEnds ==
  ASSUME IInv, NEW c \in Calls, NEW place \in Done, NEW status \in {"ok", "error", "kept"},
         pc' = [pc EXCEPT ![c] = place], pc[c] \notin Done, EndSpan(c, status),
         place = "returned" => status = "ok", place = "failed" => status = "error",
         place = "raised" => status = "kept",
         UNCHANGED mode
  PROVE  SpanIInv'
<1> DEFINE final == IF status = "kept" THEN span[c].status ELSE status
<1>1. /\ pc'[c] = place /\ \A d \in Calls : d # c => pc'[d] = pc[d]
      /\ pc' \in [Calls -> Places]
  BY DEF IInv, SpanIInv, Places
<1>2. span[c].ends = 0 /\ span[c].status = "unset"
  <2>1. span[c] \in [ends : Nat, status : {"unset", "ok", "error"}]
    BY DEF IInv, SpanIInv
  <2> QED BY <2>1 DEF IInv, SpanIInv, SpansEndOnce
<1>3. /\ final \in {"unset", "ok", "error"} /\ (status # "kept" => final = status)
      /\ status = "kept" => final = span[c].status
  BY <1>2
<1>4. span' = [span EXCEPT ![c] = [ends |-> span[c].ends + 1, status |-> final]]
  BY DEF EndSpan
<1> HIDE DEF final
<1>5. span[c].ends + 1 = 1
  BY <1>2
<1>6. /\ span' \in [Calls -> [ends : Nat, status : {"unset", "ok", "error"}]]
      /\ span'[c].ends = 1 /\ span'[c].status = final
      /\ \A d \in Calls : d # c => span'[d] = span[d]
  BY <1>3, <1>4, <1>5 DEF IInv, SpanIInv
<1>7. SpansEndOnce'
  BY <1>1, <1>2, <1>3, <1>6 DEF IInv, SpanIInv, SpansEndOnce
<1>8. \A d \in Calls : pc'[d] \notin Done => span'[d].status = "unset"
  BY <1>1, <1>6 DEF IInv, SpanIInv
<1> QED BY <1>1, <1>6, <1>7, <1>8 DEF IInv, SpanIInv

\* A step in which no call moves.
LEMMA SpansStay ==
  ASSUME IInv, UNCHANGED <<pc, mode, span>>
  PROVE  SpanIInv'
BY DEF IInv, SpanIInv, SpansEndOnce

-----------------------------------------------------------------------------
(* The steps. *)

LEMMA BeginKeeps ==
  ASSUME IInv, NEW c \in Calls, NEW f \in Flows,
         BeginSkipped(c, f) \/ Begin(c, f) \/ Await(c, f)
  PROVE  IInv'
<1>1. CASE BeginSkipped(c, f)
  <2>1. ContextIInv'
    <3>1. /\ pc' = [pc EXCEPT ![c] = "skipped"] /\ pc[c] = "idle"
          /\ inner' = inner \/ inner' = inner \cup {c}
          /\ astray' = astray /\ UNCHANGED <<ambient, mode, token, scopes>>
      BY <1>1 DEF BeginSkipped
    <3>2. flow' \in [Calls -> Flows] /\ \A d \in Calls : d # c => flow'[d] = flow[d]
      BY <1>1 DEF BeginSkipped, IInv, ContextIInv, ContextTypes
    <3> QED BY <3>1, <3>2, AsideKeeps DEF Active
  <2>2. ResponseIInv'
    BY <1>1, ResponsesKept DEF BeginSkipped, Answered
  <2>3. SpanIInv'
    BY <1>1, SpansKept DEF BeginSkipped, Places, Done, IInv, SpanIInv
  <2> QED BY <2>1, <2>2, <2>3 DEF IInv
<1>2. CASE Begin(c, f)
  <2>1. Running(f) = {} /\ On(ambient[f]) = {}
    <3>1. MayCall(f) /\ ~Skips(f) /\ ambient[f] \in Contexts
      BY <1>2 DEF Begin, IInv, ContextIInv, ContextTypes
    <3> QED BY <3>1, NobodyRuns, SuppressedOn DEF Skips, IInv
  <2>2. /\ pc[c] \in {"idle", "awaitable"} /\ Covered(c, f)
        /\ pc' = [pc EXCEPT ![c] = "calling"] /\ flow' = [flow EXCEPT ![c] = f]
        /\ mode' = mode /\ UNCHANGED <<inner, scopes, astray>>
    BY <1>2, <2>1 DEF Begin
  <2>3. ContextIInv'
    BY <2>1, <2>2, CoverKeeps
  <2>4. ResponseIInv'
    BY <1>2, ResponsesKept DEF Begin, Answered
  <2>5. SpanIInv'
    BY <1>2, SpansKept DEF Begin, Places, Done, IInv, SpanIInv
  <2> QED BY <2>3, <2>4, <2>5 DEF IInv
<1>3. CASE Await(c, f)
  <2>1. /\ pc[c] \in {"idle", "awaitable"} /\ Running(f) = {} /\ Covered(c, f)
        /\ pc' = [pc EXCEPT ![c] = "calling"] /\ flow' = [flow EXCEPT ![c] = f]
        /\ UNCHANGED <<inner, scopes, astray>>
    BY <1>3 DEF Await
  <2>2. /\ \A d \in Calls : d # c => mode'[d] = mode[d]
        /\ mode'[c] = "awaited" /\ mode' \in [Calls -> ModesSeen]
    BY <1>3 DEF Await, IInv, SpanIInv, ModesSeen
  <2>3. ContextIInv'
    BY <2>1, <2>2, CoverKeeps
  <2>4. ResponseIInv'
    BY <1>3, ResponsesKept DEF Await, Answered
  <2>5. SpanIInv'
    BY <1>3, <2>2, SpansKept DEF Await, Places, Done
  <2> QED BY <2>3, <2>4, <2>5 DEF IInv
<1> QED BY <1>1, <1>2, <1>3

LEMMA RespondKeeps ==
  ASSUME IInv, NEW c \in Calls, NEW a \in Addresses, NEW isPlain \in BOOLEAN,
         Respond(c, a, isPlain)
  PROVE  IInv'
<1>1. ContextIInv'
  <2>1. flow[c] \in Flows
    BY DEF IInv, ContextIInv, ContextTypes
  <2>2. "finishing" \notin Active \cup {"dropped", "skipped"}
    BY DEF Active
  <2> QED BY <2>1, <2>2, UncoverKeeps DEF Respond
<1>2. ResponseIInv'
  BY RespondsFits
<1>3. SpanIInv'
  BY SpansKept DEF Respond, Places, Done, IInv, SpanIInv
<1> QED BY <1>1, <1>2, <1>3 DEF IInv

\* The call fails, or ends where its stream ends.
LEMMA EndKeeps ==
  ASSUME IInv, NEW c \in Calls, NEW f \in Flows, NEW status \in {"ok", "error", "kept"},
         Raise(c) \/ Finally(c, f, status)
  PROVE  IInv'
<1>1. /\ "failed" \notin Active \cup {"dropped", "skipped"}
      /\ "read" \notin Active \cup {"dropped", "skipped"}
  BY DEF Active
<1>2. CASE Raise(c)
  <2>1. ContextIInv'
    <3>1. flow[c] \in Flows
      BY DEF IInv, ContextIInv, ContextTypes
    <3> QED BY <1>1, <1>2, <3>1, UncoverKeeps DEF Raise
  <2>2. ResponseIInv'
    BY <1>2, ResponsesKept DEF Raise, Answered
  <2>3. SpanIInv'
    BY <1>2, SpanEnds DEF Raise, Done
  <2> QED BY <2>1, <2>2, <2>3 DEF IInv
<1>3. CASE Finally(c, f, status)
  <2>1. ContextIInv'
    BY <1>1, <1>3, UncoverKeeps DEF Finally
  <2>2. ResponseIInv'
    BY <1>3, ResponsesKept DEF Finally, Answered
  <2>3. SpanIInv'
    BY <1>3, SpanEnds DEF Finally, Done
  <2> QED BY <2>1, <2>2, <2>3 DEF IInv
<1> QED BY <1>2, <1>3

\* The application gets an awaitable or a stream.
LEMMA HandsOverKeeps ==
  ASSUME IInv, NEW c \in Calls,
         RespondAwaitable(c) \/ RespondStream(c) \/ Read(c) \/ Drop(c)
  PROVE  IInv'
<1>1. ContextIInv'
  <2>1. CASE RespondAwaitable(c)
    <3>1. flow[c] \in Flows
      BY DEF IInv, ContextIInv, ContextTypes
    <3>2. "awaitable" \notin Active \cup {"dropped", "skipped"}
      BY DEF Active
    <3> QED BY <2>1, <3>1, <3>2, UncoverKeeps DEF RespondAwaitable
  <2>2. CASE RespondStream(c) \/ Read(c) \/ Drop(c)
    <3>1. flow \in [Calls -> Flows] /\ c \in astray \cup {c}
      BY DEF IInv, ContextIInv, ContextTypes
    <3>2. CASE RespondStream(c)
      <4>1. mode[c] # "awaited"
        BY <3>2 DEF RespondStream
      <4> QED BY <3>1, <3>2, <4>1, AsideKeeps DEF RespondStream
    <3>3. CASE Read(c)
      BY <3>1, <3>3, AsideKeeps DEF Read
    <3>4. CASE Drop(c)
      BY <3>1, <3>4, AsideKeeps DEF Drop
    <3> QED BY <2>2, <3>2, <3>3, <3>4
  <2> QED BY <2>1, <2>2
<1>2. PICK place \in Places \ (Done \cup Answered) : pc' = [pc EXCEPT ![c] = place]
  BY DEF RespondAwaitable, RespondStream, Read, Drop, Places, Waiting, Done, Answered
<1>3. pc[c] \notin Answered /\ pc[c] \notin Done /\ UNCHANGED <<mode, span, response>>
  BY DEF RespondAwaitable, RespondStream, Read, Drop, Done, Answered
<1>4. ResponseIInv'
  BY <1>2, <1>3, ResponsesKept
<1>5. SpanIInv'
  <2>1. mode' \in [Calls -> ModesSeen]
    BY <1>3 DEF IInv, SpanIInv
  <2> QED BY <1>2, <1>3, <2>1, SpansKept
<1> QED BY <1>1, <1>4, <1>5 DEF IInv

\* The call is cancelled, and takes its context off or leaves it behind.
LEMMA CancelKeeps ==
  ASSUME IInv, NEW c \in Calls, Cancel(c)
  PROVE  IInv'
<1>1. ContextIInv'
  <2>1. flow \in [Calls -> Flows] /\ flow[c] \in Flows
    BY DEF IInv, ContextIInv, ContextTypes
  <2>2. "cancelled" \notin Active \cup {"dropped", "skipped"}
    BY DEF Active
  <2>3. CASE mode[c] = "awaited"
    BY <2>1, <2>2, <2>3, UncoverKeeps DEF Cancel
  <2>4. CASE mode[c] # "awaited"
    BY <2>1, <2>4, AsideKeeps DEF Cancel
  <2> QED BY <2>3, <2>4
<1>2. ResponseIInv'
  BY ResponsesKept DEF Cancel, Answered
<1>3. SpanIInv'
  BY SpansKept DEF Cancel, Places, Done, IInv, SpanIInv
<1> QED BY <1>1, <1>2, <1>3 DEF IInv

\* The response is screened and returned.
LEMMA ScreeningKeeps ==
  ASSUME IInv, NEW c \in Calls,
         Check(c) \/ Apply(c) \/ ApplyDone(c) \/ ApplyAsync(c) \/ Return(c) \/ ReturnRaises(c)
  PROVE  IInv'
<1>1. PICK place \in Answered : pc' = [pc EXCEPT ![c] = place]
  BY DEF Check, Apply, ApplyDone, ApplyAsync, Return, ReturnRaises, Answered
<1>2. /\ pc[c] \in {"finishing", "applying", "marking", "returning"}
      /\ UNCHANGED <<ambient, mode, flow, token, inner, scopes, astray>>
  BY DEF Check, Apply, ApplyDone, ApplyAsync, Return, ReturnRaises
<1>3. ContextIInv'
  <2>1. /\ pc[c] \notin Active \cup {"dropped", "skipped", "cancelled"}
        /\ place \notin Active \cup {"dropped", "cancelled"}
    BY <1>1, <1>2 DEF Active, Answered
  <2>2. flow' \in [Calls -> Flows] /\ \A d \in Calls : d # c => flow'[d] = flow[d]
    BY <1>2 DEF IInv, ContextIInv, ContextTypes
  <2> QED BY <1>1, <1>2, <2>1, <2>2, AsideKeeps
<1>4. ResponseIInv'
  BY WrapperFits
<1>5. SpanIInv'
  <2>1. CASE Return(c)
    BY <2>1, SpanEnds DEF Return, Done
  <2>2. CASE ReturnRaises(c)
    BY <2>2, SpanEnds DEF ReturnRaises, Done
  <2>3. CASE ~Return(c) /\ ~ReturnRaises(c)
    <3>1. UNCHANGED span /\ place \notin {"returned", "raised"}
      <4>1. pc'[c] \notin {"returned", "raised"}
        BY <2>3 DEF Check, Apply, ApplyDone, ApplyAsync, IInv, SpanIInv
      <4>2. pc'[c] = place
        BY <1>1 DEF IInv, SpanIInv
      <4> QED BY <2>3, <4>1, <4>2 DEF Check, Apply, ApplyDone, ApplyAsync
    <3>2. place \in Places \ Done /\ pc[c] \notin Done
      BY <1>1, <1>2, <3>1 DEF Places, Done, Answered
    <3>3. mode' \in [Calls -> ModesSeen]
      BY <1>2 DEF IInv, SpanIInv
    <3> QED BY <1>1, <3>1, <3>2, <3>3, SpansKept
  <2> QED BY <2>1, <2>2, <2>3
<1> QED BY <1>3, <1>4, <1>5 DEF IInv

LEMMA LoggerKeeps ==
  ASSUME IInv, NEW c \in Calls,
         \/ LoggerCheck(c) \/ LoggerApply(c) \/ LoggerCancelled(c) \/ LoggerLate(c)
         \/ Release(c)
  PROVE  IInv'
<1>1. UNCHANGED <<ambient, pc, mode, flow, token, inner, span, scopes, astray>>
  BY DEF LoggerCheck, LoggerApply, LoggerCancelled, LoggerLate, Release
<1>2. ContextIInv'
  BY <1>1, ContextsKept DEF IInv
<1>3. ResponseIInv'
  BY LoggerFits, ReleaseFits
<1>4. SpanIInv'
  BY <1>1, SpansStay
<1> QED BY <1>2, <1>3, <1>4 DEF IInv

LEMMA ScopesKeep ==
  ASSUME IInv, NEW f \in Flows,
         (\E s \in Scopes : OpenScope(s, f)) \/ CloseScope(f)
  PROVE  IInv'
<1>1. UNCHANGED <<pc, mode, span, response>>
  BY DEF OpenScope, CloseScope
<1>2. ContextIInv'
  BY OpenScopeKeeps, CloseScopeKeeps
<1>3. ResponseIInv'
  BY <1>1 DEF IInv, ResponseIInv, ResponseFits, Turns, Seen, GivenUp, ObjectsDiffer, MarkersFit,
              response
<1>4. SpanIInv'
  BY <1>1, SpansStay
<1> QED BY <1>2, <1>3, <1>4 DEF IInv

-----------------------------------------------------------------------------
(* The theorems. *)

LEMMA InitInvariant == Init => IInv
<1> SUFFICES ASSUME Init PROVE IInv
  OBVIOUS
<1> USE DEF Init
<1>1. (CHOOSE f \in Flows : TRUE) \in Flows
  BY FlowsAssumption
<1>2. On(<<>>) = {} /\ \A g \in Flows : DOMAIN scopes[g] = {}
  BY DEF On
<1>3. ContextTypes
  <2>1. <<>> \in Contexts /\ <<>> \in Seq(Tokens) /\ <<>> \in Seq(Entries)
    BY DEF Contexts
  <2> QED BY <1>1, <1>2, <2>1 DEF ContextTypes
<1>4. TokensFit
  BY DEF TokensFit, Holding, Left, Active
<1>5. LayersFit
  BY <1>2 DEF LayersFit
<1>6. NotRevived
  BY <1>2 DEF NotRevived
<1>7. ContextIInv
  BY <1>3, <1>4, <1>5, <1>6 DEF ContextIInv, InnerCallsSkipped
<1>8. ResponseIInv
  <2>1. ASSUME NEW c \in Calls PROVE ResponseFits(c)
    BY DEF ResponseFits, Turns, Answered
  <2>2. MarkersFit
    BY FS_EmptySet, MarkersAssumption DEF MarkersFit
  <2>3. <<>> \in Seq(Addresses)
    OBVIOUS
  <2> QED BY <2>1, <2>2, <2>3 DEF ResponseIInv, ObjectsDiffer, LoggerPlaces
<1>9. SpanIInv
  BY DEF SpanIInv, SpansEndOnce, Places, Done, ModesSeen
<1> QED BY <1>7, <1>8, <1>9 DEF IInv

LEMMA NextInvariant == IInv /\ [Next]_vars => IInv'
<1> SUFFICES ASSUME IInv, [Next]_vars PROVE IInv'
  OBVIOUS
<1>1. ASSUME NEW c \in Calls, NEW f \in Flows, BeginSkipped(c, f) \/ Begin(c, f) \/ Await(c, f)
      PROVE  IInv'
  BY <1>1, BeginKeeps
<1>2. ASSUME NEW c \in Calls, NEW a \in Addresses, NEW isPlain \in BOOLEAN,
             Respond(c, a, isPlain)
      PROVE  IInv'
  BY <1>2, RespondKeeps
<1>3. ASSUME NEW c \in Calls, Raise(c)
      PROVE  IInv'
  <2>1. flow[c] \in Flows
    BY DEF IInv, ContextIInv, ContextTypes
  <2> QED BY <1>3, <2>1, EndKeeps
<1>4. ASSUME NEW c \in Calls,
             RespondAwaitable(c) \/ RespondStream(c) \/ Read(c) \/ Drop(c)
      PROVE  IInv'
  BY <1>4, HandsOverKeeps
<1>5. ASSUME NEW c \in Calls,
             \/ Check(c) \/ Apply(c) \/ ApplyDone(c) \/ ApplyAsync(c)
             \/ Return(c) \/ ReturnRaises(c) \/ Cancel(c)
      PROVE  IInv'
  BY <1>5, ScreeningKeeps, CancelKeeps
<1>6. ASSUME NEW c \in Calls,
             \/ LoggerCheck(c) \/ LoggerApply(c) \/ LoggerCancelled(c) \/ LoggerLate(c)
             \/ Release(c)
      PROVE  IInv'
  BY <1>6, LoggerKeeps
<1>7. ASSUME NEW c \in Calls, NEW f \in Flows, NEW status \in {"ok", "error", "kept"},
             Finally(c, f, status)
      PROVE  IInv'
  BY <1>7, EndKeeps
<1>8. ASSUME NEW f \in Flows, (\E s \in Scopes : OpenScope(s, f)) \/ CloseScope(f)
      PROVE  IInv'
  BY <1>8, ScopesKeep
<1>9. CASE UNCHANGED vars
  <2> USE <1>9 DEF vars
  <2>1. ContextIInv'
    BY ContextsKept DEF IInv
  <2>2. ResponseIInv'
    BY DEF IInv, ResponseIInv, ResponseFits, Turns, Seen, GivenUp, ObjectsDiffer, MarkersFit
  <2>3. SpanIInv'
    BY SpansStay
  <2> QED BY <2>1, <2>2, <2>3 DEF IInv
<1> QED BY <1>1, <1>2, <1>3, <1>4, <1>5, <1>6, <1>7, <1>8, <1>9 DEF Next

\* Contexts, responses and spans fit each other at all times, for any number
\* of calls, flows, nested scopes and addresses.
THEOREM Invariant == Spec => []IInv
<1>1. Init => IInv
  BY InitInvariant
<1>2. IInv /\ [Next]_vars => IInv'
  BY NextInvariant
<1> QED BY <1>1, <1>2, PTL DEF Spec

\* The safety span of every call that is over has ended exactly once, with
\* the outcome of the call, that of a call which was cancelled never ends, and
\* the state around it has its type.
THEOREM SpansAlwaysAccounted == Spec => []SpansAccounted
<1>1. IInv => SpansAccounted
  <2> SUFFICES ASSUME IInv PROVE TypeOK
    BY DEF SpansAccounted, IInv, SpanIInv
  <2>1. \A c \in Calls : Len(token[c]) <= 1 /\ Len(object[c]) <= 1
    <3> SUFFICES ASSUME NEW c \in Calls PROVE Len(token[c]) <= 1 /\ Len(object[c]) <= 1
      OBVIOUS
    <3>1. token[c] = <<>> \/ token[c] = <<token[c][1]>>
      BY DEF IInv, ContextIInv, TokensFit
    <3>2. object[c] = <<>> \/ object[c] = <<object[c][1]>>
      BY DEF IInv, ResponseIInv, ResponseFits
    <3>3. Len(<<>>) = 0 /\ \A x : Len(<<x>>) = 1
      OBVIOUS
    <3>4. \A s : s = <<>> \/ s = <<s[1]>> => Len(s) <= 1
      BY <3>3
    <3> QED BY <3>1, <3>2, <3>4
  <2>2. applied \in [Calls -> 0..2]
    <3>1. \A c \in Calls : applied[c] \in 0..Turns(c) /\ Turns(c) \in 0..2
      BY DEF IInv, ResponseIInv, ResponseFits, Turns
    <3>2. \A c \in Calls : applied[c] \in 0..2
      BY <3>1
    <3> QED BY <3>2 DEF IInv, ResponseIInv
  <2>3. DOMAIN ambient = Flows /\ flow \in [Calls -> Flows]
    BY DEF IInv, ContextIInv, ContextTypes
  <2> QED BY <2>1, <2>2, <2>3
          DEF TypeOK, IInv, ContextIInv, ResponseIInv, MarkersFit, SpanIInv, Places,
              ModesSeen, LoggerPlaces
<1> QED BY <1>1, Invariant, PTL

\* Whoever comes first, wrapper or logger, the application gets a response
\* that was screened, unless it lies where a marked one had been, its
\* screening raised, or the logger was cancelled while it had it screened.
THEOREM ReturnedAlwaysScreened == Spec => []ReturnedScreened
<1>1. IInv => ReturnedScreened
  BY DEF IInv, ResponseIInv, ResponseFits, Seen, GivenUp, ReturnedScreened
<1> QED BY <1>1, Invariant, PTL

\* The suppression key skips what LiteLLM calls while it serves a call, and
\* outlives no call whose token was put back in order, except those that were
\* cancelled outside the await of an awaitable, which leave it behind.
THEOREM AlwaysSkipsTheInner == Spec => []SkipsTheInner
<1>1. IInv => SkipsTheInner
  <2> SUFFICES ASSUME IInv PROVE SuppressedForAReason
    BY DEF SkipsTheInner, IInv, ContextIInv
  <2> SUFFICES ASSUME NEW f \in Flows, Suppressed(ambient[f])
               PROVE  \E c \in Calls \cap Owners(ambient[f]) :
                        \/ c \in astray \/ pc[c] \in {"calling", "unread", "reading"}
                        \/ pc[c] = "cancelled" /\ mode[c] # "awaited"
    BY DEF SuppressedForAReason
  <2>1. ambient[f] \in Contexts /\ On(ambient[f]) \subseteq Fitting(f)
    BY DEF IInv, ContextIInv, ContextTypes, LayersFit
  <2>2. On(ambient[f]) # {} /\ On(ambient[f]) \subseteq Owners(ambient[f])
    BY <2>1, SuppressedOn
  <2>3. PICK c \in On(ambient[f]) : TRUE
    BY <2>2
  <2>4. c \in Calls /\ (c \in astray \/ Holding(c))
    BY <2>1, <2>3 DEF Fitting
  <2> QED BY <2>2, <2>3, <2>4 DEF Holding, Left, Active
<1> QED BY <1>1, Invariant, PTL
=============================================================================
